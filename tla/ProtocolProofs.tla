-------------------------- MODULE ProtocolProofs ---------------------------
(***************************************************************************)
(* Proofs about Protocol: the main thread, the workqueue and the tap       *)
(* driver together, for every set of sequences, every build option and     *)
(* every volume the device may boot with.                                  *)
(*                                                                         *)
(* Every step of the composition but Wipe is a step of Gesture, so its     *)
(* invariant carries over.  PInv adds the hand-over of answers between     *)
(* the two threads; it is inductive, and under it every step is a step of  *)
(* Approval or leaves its variables alone.                                 *)
(***************************************************************************)
EXTENDS Protocol, GestureProofs

PInv == GInv /\ PTypeOK /\ Rendezvous

\* The three semaphores and the three places their owner waits at.
LEMMA OwnerFacts ==
  /\ Owners \subseteq Callbacks /\ "NULL" \notin Callbacks
  /\ \A o \in Owners : AwaitPcOf(o) \in AwaitPcs
  /\ \A o, q \in Owners : AwaitPcOf(o) = AwaitPcOf(q) => o = q
  /\ \A a \in AwaitStates : CallbackOf(a) \in Owners
  BY DEF Owners, Callbacks, AwaitPcOf, AwaitPcs, AwaitStates, CallbackOf

\* What boots satisfies PInv.
LEMMA PInitLemma == PInit => PInv
<1> SUFFICES ASSUME PInit PROVE PInv
  OBVIOUS
<1>1. GInv
  BY GInitLemma DEF PInit
<1>2. PTypeOK
  <2>1. recovery \in BOOLEAN
    BY BootAssumption DEF PInit
  <2> QED
    BY <1>1, <2>1 DEF PInit, PTypeOK, GInv, Pcs, Results
<1>3. Rendezvous
  BY OwnerFacts
  DEF PInit, GInit, IdleWq, Rendezvous, Pending, InFlight, Given, AwaitPcs, Owners,
      AwaitPcOf
<1> QED
  BY <1>1, <1>2, <1>3 DEF PInv
-----------------------------------------------------------------------------
(* The gesture engine inside the composition.                              *)

\* The main thread's steps, but for the wipe, are calls of Gesture's or leave
\* its variables alone.
LEMMA MainSteps == MainRuns /\ ~ Wipe => [GNext]_gvars
<1> SUFFICES ASSUME MainRuns, ~ Wipe PROVE [GNext]_gvars
  OBVIOUS
<1>1. CASE \/ PairLookup \/ PairTake \/ Bond \/ HandlePlain \/ ConfirmTake
           \/ Perform \/ ResetTake \/ HandleUpdate \/ Reply
  BY <1>1 DEF PairLookup, PairTake, Bond, HandlePlain, ConfirmTake, Perform,
              ResetTake, HandleUpdate, Reply
<1>2. CASE PairAsk \/ HandleAsk \/ HandleReset
  BY <1>2 DEF PairAsk, HandleAsk, HandleReset, GNext, MainCalls, AwaitStates
<1>3. CASE Touch \/ SampleState \/ HandleStatus
  BY <1>3 DEF Touch, SampleState, HandleStatus, GNext, MainCalls
<1>4. ASSUME NEW s \in HostSeqs, HandleSetUnlockSeq(s) PROVE [GNext]_gvars
  BY <1>4 DEF HandleSetUnlockSeq, GNext, MainCalls
<1>5. CASE SysReboot
  BY <1>5 DEF SysReboot, DeviceBoots, GNext
<1> QED
  BY <1>1, <1>2, <1>3, <1>4, <1>5 DEF MainRuns

\* So are all the others'.
LEMMA GestureSteps == PNext /\ ~ Wipe => [GNext]_gvars
<1> SUFFICES ASSUME PNext, ~ Wipe PROVE [GNext]_gvars
  OBVIOUS
<1>1. CASE MainRuns
  BY <1>1, MainSteps
<1>2. CASE Peer
  BY <1>2 DEF Peer, Connect, Malformed, SessionEnds, Recv
<1>3. CASE CallbackRuns
  BY <1>3 DEF CallbackRuns, GNext
<1>4. CASE GestureRuns
  BY <1>4 DEF GestureRuns, Workqueue, GNext
<1>5. CASE PowerCycle
  BY <1>5 DEF PowerCycle, DeviceBoots, GNext
<1> QED
  BY <1>1, <1>2, <1>3, <1>4, <1>5 DEF PNext

\* storage_secure_wipe leaves RAM as it is, and two well typed files.
LEMMA WipeKeepsGesture == GInv /\ Wipe => GInv'
<1> SUFFICES ASSUME GInv, Wipe PROVE GInv'
  OBVIOUS
<1>1. UNCHANGED <<ram, tapped_in, entered>>
  BY DEF Wipe
<1>2. flash' \in [seq : Words \cup HostSeqs \cup {NoSeq}, attempts : Nat]
  BY DEF Wipe, GInv, TypeOK
<1> QED
  BY <1>1, <1>2
  DEF ram, GInv, TypeOK, SequenceAtHand, PromptBacked, EmptyBufHasNoTaps,
      PromptTapsAreFresh, UnlockedOnlyAfterSequence, LockoutMatchesCount

\* Gesture's invariant is kept by every step of the composition.
LEMMA GestureKept == GInv /\ [PNext]_vars => GInv'
<1> SUFFICES ASSUME GInv, [PNext]_vars PROVE GInv'
  OBVIOUS
<1>1. CASE Wipe
  BY <1>1, WipeKeepsGesture
<1>2. CASE PNext /\ ~ Wipe
  BY <1>2, GestureSteps, GInvStep
<1>3. CASE UNCHANGED vars
  <2>1. [GNext]_gvars
    BY <1>3 DEF vars
  <2> QED
    BY <2>1, GInvStep
<1> QED
  BY <1>1, <1>2, <1>3
-----------------------------------------------------------------------------
(* Types of the main thread.                                               *)

\* Taking a semaphore leaves it at zero and the result read.
LEMMA TakeType ==
  ASSUME PTypeOK, NEW o \in Owners, NEW v \in Results, Take(o, v)
  PROVE  sem' \in [Owners -> 0..1] /\ result' \in [Owners -> Results]
  BY DEF PTypeOK, Take, Results

\* Every action leaves the main thread's variables in their types.
LEMMA PTypeStep == PTypeOK /\ GInv' /\ [PNext]_vars => PTypeOK'
<1> SUFFICES ASSUME PTypeOK, GInv', [PNext]_vars PROVE PTypeOK'
  OBVIOUS
<1> USE DEF PTypeOK, Pcs, AwaitPcs
<1>0. TypeOK'
  BY DEF GInv
<1>1. CASE \/ PairLookup \/ PairAsk \/ Bond \/ Touch \/ Reply
           \/ Connect \/ Malformed \/ SessionEnds \/ GestureRuns
  BY <1>0, <1>1
  DEF PairLookup, PairAsk, Bond, Touch, Reply, Connect, Malformed, SessionEnds,
      GestureRuns, others, device
<1>2. CASE \/ SampleState \/ HandlePlain \/ HandleStatus
           \/ HandleAsk \/ HandleReset \/ HandleUpdate
  BY <1>0, <1>2
  DEF SampleState, HandlePlain, HandleStatus, HandleAsk, HandleReset,
      HandleUpdate, Answer, device
<1>3. ASSUME NEW s \in HostSeqs, HandleSetUnlockSeq(s) PROVE PTypeOK'
  BY <1>0, <1>3 DEF HandleSetUnlockSeq, Answer, device
<1>4. ASSUME NEW c \in Cmds, Recv(c) PROVE PTypeOK'
  BY <1>0, <1>4 DEF Recv, device
<1>5. CASE PairTake \/ ConfirmTake \/ ResetTake
  <2>1. PICK o \in Owners, v \in Results : Take(o, v)
    BY <1>5 DEF PairTake, ConfirmTake, ResetTake, Owners
  <2>2. sem' \in [Owners -> 0..1] /\ result' \in [Owners -> Results]
    BY <2>1, TakeType
  <2> QED
    BY <1>0, <1>5, <2>2 DEF PairTake, ConfirmTake, ResetTake, Answer, device
<1>6. CASE Perform
  <2>1. provisioned' \in BOOLEAN
    BY <1>6, Zenon DEF Perform
  <2> QED
    BY <1>0, <1>6, <2>1 DEF Perform, Answer
<1>7. CASE Wipe
  <2>1. provisioned' \in BOOLEAN
    BY <1>7, Zenon DEF Wipe
  <2> QED
    BY <1>0, <1>7, <2>1 DEF Wipe, Answer
<1>8. CASE DeviceBoots
  <2>1. recovery' \in BOOLEAN
    BY <1>8, Zenon DEF DeviceBoots
  <2> QED
    BY <1>0, <1>8, <2>1 DEF DeviceBoots, Results
<1>9. CASE CallbackRuns
  <2>1. wq.res \in Results
    BY DEF TypeOK, WqType
  <2> QED
    BY <1>0, <1>9, <2>1 DEF CallbackRuns, device
<1>10. CASE UNCHANGED vars
  BY <1>0, <1>10 DEF vars, others, device
<1> QED
  BY <1>1, <1>2, <1>3, <1>4, <1>5, <1>6, <1>7, <1>8, <1>9, <1>10, Zenon
  DEF PNext, MainRuns, Peer, SysReboot, PowerCycle
-----------------------------------------------------------------------------
(* The hand-over of an answer.                                             *)

\* Outside MainRuns and reboots the engine does one of three things to what is
\* pending and in flight: nothing, a rehearsal prompt, or the delivery of what
\* was pending.
NoMail     == UNCHANGED pending_cb /\ (wq.at = "callback" \/ wq'.at = "callback" => wq' = wq)
Rehearses  == pending_cb = "NULL" /\ pending_cb' = "rehearsal_cb" /\ wq' = wq
Delivers(r) ==
  /\ wq.at # "callback"
  /\ pending_cb \in Callbacks
  /\ pending_cb' = "NULL"
  /\ wq'.at = "callback" /\ wq'.cb = pending_cb /\ wq'.res = r
  /\ r = "OK" => buf # NoSeq /\ buf = ApprovingSeq(state)

\* deliver_confirm is called in a prompt, which has its callback, and says OK
\* only to the sequence that approves it.
LEMMA EngineMail ==
  ASSUME GInv, GestureRuns
  PROVE  NoMail \/ Rehearses \/ \E r \in Results : Delivers(r)
<1> USE DEF GInv, TypeOK, PromptBacked
<1>1. CASE TapDriver \/ Clock \/ DigitClose
  BY <1>1 DEF TapDriver, TapGate, TapAccumulate, Clock, LockoutElapses,
              InactivityElapses, DigitClose, NoMail
<1>2. CASE Relock
  BY <1>2 DEF Relock, IdleWq, NoMail
<1>3. CASE ProcessLocked \/ ProcessUnlocked
  BY <1>3 DEF ProcessLocked, ProcessUnlocked, NoMail
<1>4. CASE ProcessChangeSeqConfirm \/ ProcessChangeSeqVerify \/ ProcessPairing
  BY <1>4 DEF ProcessChangeSeqConfirm, ProcessChangeSeqVerify, ProcessPairing,
              NoMail
<1>5. CASE ProcessRehearsal
  BY <1>5 DEF ProcessRehearsal, SeqClosedIn, AwaitStates, Rehearses
<1>6. ASSUME NEW a \in AwaitStates, ProcessAwaiting(a)
      PROVE  \E r \in Results : Delivers(r)
  <2>1. state = a /\ buf # NoSeq
    BY <1>6 DEF ProcessAwaiting, SeqClosedIn, SequenceAtHand
  <2>2. CASE buf = ApprovingSeq(a)
    <3>1. Delivers("OK")
      BY <1>6, <2>1, <2>2
      DEF ProcessAwaiting, SeqClosedIn, deliver_confirm, Delivers
    <3> QED
      BY <3>1 DEF Results
  <2>3. CASE buf # ApprovingSeq(a)
    <3>1. Delivers("DENIED")
      BY <1>6, <2>1, <2>3
      DEF ProcessAwaiting, SeqClosedIn, deliver_confirm, Delivers
    <3> QED
      BY <3>1 DEF Results
  <2> QED
    BY <2>2, <2>3
<1>7. ASSUME NEW a \in AwaitStates, PromptTimeout(a) PROVE Delivers("TIMEOUT")
  BY <1>7 DEF PromptTimeout, deliver_confirm, Delivers
<1> QED
  BY <1>1, <1>2, <1>3, <1>4, <1>5, <1>6, <1>7, Zenon
  DEF GestureRuns, Workqueue, ProcessSequence, Results
\* The engine moves an answer from pending to in flight, and touches no other.
LEMMA EngineKeepsRendezvous == PInv /\ GestureRuns => Rendezvous'
<1> SUFFICES ASSUME PInv, GestureRuns, NEW o \in Owners
             PROVE  /\ (pc = AwaitPcOf(o) <=> Pending(o) \/ InFlight(o) \/ Given(o))'
                    /\ ~ (Pending(o) /\ InFlight(o))'
                    /\ ~ (Pending(o) /\ Given(o))'
                    /\ ~ (InFlight(o) /\ Given(o))'
  BY DEF Rendezvous
<1>1. pc' = pc /\ sem' = sem
  BY DEF GestureRuns, others
<1>2. /\ pc = AwaitPcOf(o) <=> Pending(o) \/ InFlight(o) \/ Given(o)
      /\ ~ (Pending(o) /\ InFlight(o))
      /\ ~ (Pending(o) /\ Given(o))
      /\ ~ (InFlight(o) /\ Given(o))
  BY DEF PInv, Rendezvous
<1>3. AwaitPcOf(o)' = AwaitPcOf(o)
  BY DEF AwaitPcOf
<1>4. o # "NULL" /\ o # "rehearsal_cb"
  BY DEF Owners
<1>5. CASE NoMail
  BY <1>1, <1>2, <1>3, <1>5 DEF NoMail, Pending, InFlight, Given
<1>6. CASE Rehearses
  BY <1>1, <1>2, <1>3, <1>4, <1>6 DEF Rehearses, Pending, InFlight, Given
<1>7. ASSUME NEW r \in Results, Delivers(r)
      PROVE  /\ (pc = AwaitPcOf(o) <=> Pending(o) \/ InFlight(o) \/ Given(o))'
             /\ ~ (Pending(o) /\ InFlight(o))'
             /\ ~ (Pending(o) /\ Given(o))'
             /\ ~ (InFlight(o) /\ Given(o))'
  BY <1>1, <1>2, <1>3, <1>4, <1>7 DEF Delivers, Pending, InFlight, Given
<1> QED
  BY <1>5, <1>6, <1>7, EngineMail DEF PInv

\* The callback moves it from in flight to given.
LEMMA CallbackKeepsRendezvous == PInv /\ CallbackRuns => Rendezvous'
<1> SUFFICES ASSUME PInv, CallbackRuns, NEW o \in Owners
             PROVE  /\ (pc = AwaitPcOf(o) <=> Pending(o) \/ InFlight(o) \/ Given(o))'
                    /\ ~ (Pending(o) /\ InFlight(o))'
                    /\ ~ (Pending(o) /\ Given(o))'
                    /\ ~ (InFlight(o) /\ Given(o))'
  BY DEF Rendezvous
<1>1. /\ pc = AwaitPcOf(o) <=> Pending(o) \/ InFlight(o) \/ Given(o)
      /\ ~ (Pending(o) /\ InFlight(o))
      /\ ~ (Pending(o) /\ Given(o))
      /\ ~ (InFlight(o) /\ Given(o))
  BY DEF PInv, Rendezvous
<1>2. AwaitPcOf(o)' = AwaitPcOf(o)
  BY DEF AwaitPcOf
<1>3. /\ pc' = pc /\ pending_cb' = pending_cb
      /\ wq.at = "callback" /\ wq'.at = "relock"
  BY DEF CallbackRuns, Callback, PInv, PTypeOK, TypeOK, WqType
<1>4. sem'[o] = IF wq.cb = o THEN 1 ELSE sem[o]
  BY DEF CallbackRuns, PInv, PTypeOK
<1> QED
  BY <1>1, <1>2, <1>3, <1>4 DEF Pending, InFlight, Given

\* Where the main thread does what the user approved.
Acting == {"perform", "wipe", "bond"}

\* A request of the main thread's: pc moves to the place of the owner.
Asks(a) == /\ pc \notin AwaitPcs \cup Acting /\ pc' = AwaitPcOf(CallbackOf(a))
           /\ Request(a) /\ sem' = sem

\* A prompt is opened when no answer of its owner's is under way.
LEMMA AskKeepsRendezvous ==
  ASSUME PInv, NEW a \in AwaitStates, Asks(a)
  PROVE  Rendezvous'
<1>1. \A o \in Owners : ~ Pending(o) /\ ~ InFlight(o) /\ ~ Given(o)
  BY OwnerFacts DEF PInv, Rendezvous, Asks
<1>2. /\ pending_cb' = CallbackOf(a) /\ wq' = wq /\ sem' = sem
      /\ pc' = AwaitPcOf(CallbackOf(a))
  BY DEF Asks, Request
<1>3. \A o \in Owners : ~ InFlight(o)' /\ ~ Given(o)'
  BY <1>1, <1>2 DEF InFlight, Given
<1>4. \A o \in Owners : Pending(o)' <=> o = CallbackOf(a)
  BY <1>2 DEF Pending
<1>5. \A o \in Owners : pc' = AwaitPcOf(o) <=> o = CallbackOf(a)
  BY <1>2, OwnerFacts, Zenon
<1>6. \A o \in Owners : AwaitPcOf(o)' = AwaitPcOf(o)
  BY DEF AwaitPcOf
<1> QED
  BY <1>3, <1>4, <1>5, <1>6, Zenon DEF Rendezvous

\* The main thread takes what it waited for and acts on it, or not.
Takes(o, v) == /\ pc = AwaitPcOf(o) /\ pc' \notin AwaitPcs
               /\ IF v = "OK" THEN pc' \in Acting /\ KindOf(pc') = KindOf(pc)
                             ELSE pc' \notin Acting
               /\ Take(o, v) /\ UNCHANGED gvars

\* Steps that neither wait nor answer, and after which nothing is acted upon.
Aside == /\ pc \notin AwaitPcs /\ pc' \notin AwaitPcs \cup Acting
         /\ UNCHANGED <<pending_cb, wq, sem>>

\* The three requests; two of them may be refused.
LEMMA AskSteps ==
  ASSUME PTypeOK
  PROVE  /\ PairAsk => Asks("AWAITING_PAIR")
         /\ HandleAsk => Asks("AWAITING_CONFIRM")
                         \/ (Aside /\ UNCHANGED gvars)
         /\ HandleReset => Asks("AWAITING_RESET")
                         \/ (Aside /\ UNCHANGED gvars)
  BY DEF PairAsk, HandleAsk, HandleReset, Answer, Asks, AwaitPcOf, CallbackOf, AwaitPcs,
         Acting, Aside, others, gvars, ram

\* The three takes.
LEMMA TakeSteps ==
  /\ PairTake => \E v \in Results : Takes("pair_cb", v)
  /\ ConfirmTake => \E v \in Results : Takes("protect_confirm_cb", v)
  /\ ResetTake => \E v \in Results : Takes("reset_confirm_cb", v)
  BY DEF PairTake, ConfirmTake, ResetTake, Answer, Takes, AwaitPcOf, AwaitPcs, Acting,
         KindOf

\* Once taken, the answer is nowhere.
LEMMA TakeKeepsRendezvous ==
  ASSUME PInv, NEW q \in Owners, NEW v \in Results, Takes(q, v)
  PROVE  Rendezvous'
<1>1. \A o \in Owners : (Pending(o)' <=> Pending(o)) /\ (InFlight(o)' <=> InFlight(o))
  BY DEF Takes, gvars, ram, Pending, InFlight
<1>2. \A o \in Owners : sem'[o] = IF o = q THEN 0 ELSE sem[o]
  BY DEF Takes, Take, PInv, PTypeOK
<1>3. Given(q) /\ ~ Pending(q) /\ ~ InFlight(q)
  BY DEF Takes, Take, Given, PInv, Rendezvous
<1>4. \A o \in Owners \ {q} : ~ Pending(o) /\ ~ InFlight(o) /\ ~ Given(o)
  BY OwnerFacts DEF PInv, Rendezvous, Takes
<1>5. \A o \in Owners : ~ Given(o)'
  BY <1>2, <1>4 DEF Given
<1>6. \A o \in Owners : ~ Pending(o)' /\ ~ InFlight(o)'
  BY <1>1, <1>3, <1>4
<1>7. \A o \in Owners : pc' # AwaitPcOf(o)
  BY OwnerFacts DEF Takes
<1>8. \A o \in Owners : AwaitPcOf(o)' = AwaitPcOf(o)
  BY DEF AwaitPcOf
<1> QED
  BY <1>5, <1>6, <1>7, <1>8, Zenon DEF Rendezvous
\* A step aside has nothing to do with any answer.
LEMMA AsideKeepsRendezvous == PInv /\ Aside => Rendezvous'
<1> SUFFICES ASSUME PInv, Aside PROVE Rendezvous'
  OBVIOUS
<1>1. \A o \in Owners : ~ Pending(o) /\ ~ InFlight(o) /\ ~ Given(o)
  BY OwnerFacts DEF PInv, Rendezvous, Aside
<1>2. \A o \in Owners : ~ Pending(o)' /\ ~ InFlight(o)' /\ ~ Given(o)'
  BY <1>1 DEF Aside, Pending, InFlight, Given
<1>3. \A o \in Owners : pc' # AwaitPcOf(o)
  BY OwnerFacts DEF Aside
<1>4. \A o \in Owners : AwaitPcOf(o)' = AwaitPcOf(o)
  BY DEF AwaitPcOf
<1> QED
  BY <1>2, <1>3, <1>4, Zenon DEF Rendezvous

\* A boot forgets whoever waited and whatever was under way.
LEMMA BootKeepsRendezvous == DeviceBoots => Rendezvous'
<1> SUFFICES ASSUME DeviceBoots PROVE Rendezvous'
  OBVIOUS
<1>1. \A o \in Owners : ~ Pending(o)' /\ ~ InFlight(o)' /\ ~ Given(o)'
  BY DEF DeviceBoots, Reboot, Boot, IdleWq, Pending, InFlight, Given, Owners
<1>2. \A o \in Owners : pc' # AwaitPcOf(o)
  BY OwnerFacts DEF DeviceBoots, AwaitPcs
<1>3. \A o \in Owners : AwaitPcOf(o)' = AwaitPcOf(o)
  BY DEF AwaitPcOf
<1> QED
  BY <1>1, <1>2, <1>3, Zenon DEF Rendezvous

\* The steps of the main thread and of the peer that are aside.
LEMMA AsideSteps ==
  ASSUME \/ PairLookup \/ Bond \/ Touch \/ Reply \/ SampleState \/ HandlePlain
         \/ HandleStatus \/ (\E s \in HostSeqs : HandleSetUnlockSeq(s)) \/ Perform
         \/ Wipe \/ HandleUpdate \/ Peer
  PROVE  Aside
<1> USE DEF Aside, AwaitPcs, Acting, Answer
<1>1. CASE PairLookup \/ Bond \/ Reply \/ HandlePlain \/ Perform \/ HandleUpdate \/ Peer
  BY <1>1 DEF PairLookup, Bond, Reply, HandlePlain, Perform, HandleUpdate, Peer,
              Connect, Malformed, SessionEnds, Recv, others, gvars, ram
<1>2. CASE Touch \/ SampleState \/ HandleStatus
  BY <1>2 DEF Touch, SampleState, HandleStatus, gesture_get_state,
              gesture_reset_inactivity_timer, others
<1>3. ASSUME NEW s \in HostSeqs, HandleSetUnlockSeq(s) PROVE Aside
  BY <1>3 DEF HandleSetUnlockSeq, gesture_set_unlock_seq, gvars, ram
<1>4. CASE Wipe
  BY <1>4 DEF Wipe, ram
<1> QED
  BY <1>1, <1>2, <1>3, <1>4, Zenon

\* Every step of the composition, sorted by what it does to an answer.
LEMMA Sorted ==
  ASSUME PTypeOK, PNext
  PROVE  \/ Aside
         \/ DeviceBoots
         \/ CallbackRuns
         \/ GestureRuns
         \/ \E a \in AwaitStates : Asks(a)
         \/ \E o \in Owners, v \in Results : Takes(o, v)
<1>1. CASE PairAsk \/ HandleAsk \/ HandleReset
  BY <1>1, AskSteps DEF AwaitStates, Aside, gvars, ram
<1>2. CASE PairTake \/ ConfirmTake \/ ResetTake
  BY <1>2, TakeSteps, Zenon DEF Owners
<1>3. CASE SysReboot \/ PowerCycle
  BY <1>3 DEF SysReboot, PowerCycle
<1> QED
  BY <1>1, <1>2, <1>3, AsideSteps, Zenon DEF PNext, MainRuns

\* Rendezvous is inductive.
LEMMA RendezvousStep == PInv /\ [PNext]_vars => Rendezvous'
<1> SUFFICES ASSUME PInv, [PNext]_vars PROVE Rendezvous'
  OBVIOUS
<1>1. CASE PNext
  BY <1>1, Sorted, AsideKeepsRendezvous, BootKeepsRendezvous,
     CallbackKeepsRendezvous, EngineKeepsRendezvous, AskKeepsRendezvous,
     TakeKeepsRendezvous, Zenon
  DEF PInv
<1>2. CASE UNCHANGED vars
  BY <1>2
  DEF PInv, Rendezvous, vars, gvars, ram, others, Pending, InFlight, Given, AwaitPcOf
<1> QED
  BY <1>1, <1>2

\* PInv is inductive.
LEMMA PInvStep == PInv /\ [PNext]_vars => PInv'
  BY GestureKept, PTypeStep, RendezvousStep DEF PInv

\* The invariant of the composition.
THEOREM ProtocolInvariant == PSpec => []PInv
<1>1. PInit => PInv
  BY PInitLemma
<1>2. PInv /\ [PNext]_vars => PInv'
  BY PInvStep
<1> QED
  BY <1>1, <1>2, PTL DEF PSpec

\* Every variable of the dispatcher and the pairing gate stays in its type,
\* and no semaphore is given twice before it is taken.
THEOREM ProtocolTypeCorrect == PSpec => []PTypeOK
<1>1. PInv => PTypeOK
  BY DEF PInv
<1> QED
  BY <1>1, ProtocolInvariant, PTL

\* protect_confirm_cb, reset_confirm_cb and pair_cb never lose a wakeup and
\* never leave one behind, however taps, timeouts and requests interleave.
THEOREM AnswersAreHandedOver == PSpec => []Rendezvous
<1>1. PInv => Rendezvous
  BY DEF PInv
<1> QED
  BY <1>1, ProtocolInvariant, PTL

\* What holds of gesture.c under a main thread that calls it in any order holds
\* of it under the real one, whose RESET_DEVICE also wipes its files.
THEOREM GestureHoldsInProtocol == PSpec => []GInv
<1>1. PInv => GInv
  BY DEF PInv
<1> QED
  BY <1>1, ProtocolInvariant, PTL
-----------------------------------------------------------------------------
(* Refinement of Approval.                                                 *)

\* Away from the prompts nothing is under consideration.
LEMMA NothingAsked ==
  pc \notin AwaitPcs \cup Acting
    => KindOf(pc) = "none" /\ Verdict = "none" /\ TappedNow = "nothing"
  BY DEF AwaitPcs, Acting, KindOf, Verdict, TappedNow

\* Where it acts, the main thread has been told to.
LEMMA ActsOnApproval ==
  pc \in Acting => Verdict = "approved" /\ TappedNow = "nothing"
  BY DEF AwaitPcs, Acting, Verdict, TappedNow

\* Where it waits, the verdict is what has become of its own request.
LEMMA VerdictFacts ==
  ASSUME NEW o \in Owners, pc = AwaitPcOf(o)
  PROVE  /\ Pending(o) => Verdict = "asked"
         /\ ~ Pending(o) => /\ Verdict = IF AnswerOf(o) = "OK" THEN "approved" ELSE "refused"
                            /\ TappedNow = "nothing"
<1>1. pc \in AwaitPcs /\ pc \notin Acting
  BY DEF AwaitPcs, Acting, AwaitPcOf, Owners
<1>2. CallbackOf(KindOf(pc)) = o
  BY DEF CallbackOf, KindOf, AwaitPcOf, Owners
<1>3. Verdict = IF Pending(o) THEN "asked"
                ELSE IF AnswerOf(o) = "OK" THEN "approved" ELSE "refused"
  BY <1>1, <1>2 DEF Verdict, Acting
<1> QED
  BY <1>3 DEF TappedNow

\* The same, after a step.
LEMMA VerdictFactsNext ==
  ASSUME NEW o \in Owners, pc' = AwaitPcOf(o)
  PROVE  /\ Pending(o)' => Verdict' = "asked"
         /\ ~ Pending(o)' =>
              /\ Verdict' = IF AnswerOf(o)' = "OK" THEN "approved" ELSE "refused"
              /\ TappedNow' = "nothing"
<1>1. pc' \in AwaitPcs /\ pc' \notin Acting
  BY DEF AwaitPcs, Acting, AwaitPcOf, Owners
<1>2. CallbackOf(KindOf(pc')) = o
  BY DEF CallbackOf, KindOf, AwaitPcOf, Owners
<1>3. Verdict' = IF Pending(o)' THEN "asked"
                ELSE IF AnswerOf(o)' = "OK" THEN "approved" ELSE "refused"
  BY <1>1, <1>2 DEF Verdict, Acting
<1> QED
  BY <1>3 DEF TappedNow

\* What was tapped is one of three things.
LEMMA TappedType == TappedNow' \in {"nothing", "approval", "other"}
  BY DEF TappedNow

\* A step that leaves the main thread where it waits for o, and the answer for o
\* as pending, as it was, or turned from pending into one.
StaysAsked(o)   == pc' = pc /\ pc = AwaitPcOf(o) /\ Pending(o) /\ Pending(o)'
StaysDecided(o) == pc' = pc /\ pc = AwaitPcOf(o) /\ ~ Pending(o) /\ ~ Pending(o)'
                   /\ AnswerOf(o)' = AnswerOf(o)
GetsDecided(o)  == pc' = pc /\ pc = AwaitPcOf(o) /\ Pending(o) /\ ~ Pending(o)'
                   /\ (AnswerOf(o)' = "OK" => buf # NoSeq /\ buf = ApprovingSeq(state))

\* Each of them is a step of Approval.
LEMMA WaitingSteps ==
  ASSUME NEW o \in Owners, StaysAsked(o) \/ StaysDecided(o) \/ GetsDecided(o)
  PROVE  [A!ANext]_(A!avars)
<1>1. KindOf(pc') = KindOf(pc)
  BY DEF StaysAsked, StaysDecided, GetsDecided
<1>2. CASE StaysAsked(o)
  <2>1. Verdict = "asked" /\ Verdict' = "asked"
    BY <1>2, VerdictFacts, VerdictFactsNext DEF StaysAsked
  <2>2. A!UserTaps
    BY <1>1, <2>1, TappedType DEF A!UserTaps, KindOf
  <2> QED
    BY <2>2 DEF A!ANext
<1>3. CASE StaysDecided(o)
  <2>1. Verdict' = Verdict /\ TappedNow' = TappedNow
    BY <1>3, VerdictFacts, VerdictFactsNext DEF StaysDecided
  <2> QED
    BY <1>1, <2>1 DEF A!avars, KindOf
<1>4. CASE GetsDecided(o)
  <2>1. /\ Verdict = "asked" /\ TappedNow' = "nothing"
        /\ Verdict' = IF AnswerOf(o)' = "OK" THEN "approved" ELSE "refused"
    BY <1>4, VerdictFacts, VerdictFactsNext DEF GetsDecided
  <2>2. CASE AnswerOf(o)' = "OK"
    <3>1. TappedNow = "approval"
      BY <1>4, <2>1, <2>2 DEF GetsDecided, TappedNow
    <3>2. A!Approve
      BY <1>1, <2>1, <2>2, <3>1 DEF A!Approve, KindOf
    <3> QED
      BY <3>2 DEF A!ANext
  <2>3. CASE AnswerOf(o)' # "OK"
    <3>1. A!Refuse
      BY <1>1, <2>1, <2>3 DEF A!Refuse, KindOf
    <3> QED
      BY <3>1 DEF A!ANext
  <2> QED
    BY <2>2, <2>3
<1> QED
  BY <1>2, <1>3, <1>4
\* While the main thread does not wait, what the others do is not seen.
LEMMA UnseenSteps ==
  ASSUME pc \notin AwaitPcs, pc' = pc
  PROVE  UNCHANGED A!avars
<1>1. Verdict' = Verdict
  BY DEF Verdict
<1>2. Verdict # "asked"
  BY DEF Verdict
<1> QED
  BY <1>1, <1>2 DEF A!avars, TappedNow

\* Whoever waits is one of the owners.
LEMMA WaitsFor == pc \in AwaitPcs => \E o \in Owners : pc = AwaitPcOf(o)
  BY DEF AwaitPcs, AwaitPcOf, Owners

\* The engine decides only what is pending.
LEMMA EngineRefines == PInv /\ GestureRuns => [A!ANext]_(A!avars)
<1> SUFFICES ASSUME PInv, GestureRuns PROVE [A!ANext]_(A!avars)
  OBVIOUS
<1>1. pc' = pc /\ result' = result
  BY DEF GestureRuns, others
<1>2. CASE pc \notin AwaitPcs
  BY <1>1, <1>2, UnseenSteps
<1>3. ASSUME NEW o \in Owners, pc = AwaitPcOf(o)
      PROVE  StaysAsked(o) \/ StaysDecided(o) \/ GetsDecided(o)
  <2> USE DEF StaysAsked, StaysDecided, GetsDecided
  <2>1. CASE NoMail
    BY <1>1, <1>3, <2>1 DEF NoMail, Pending, InFlight, AnswerOf
  <2>2. CASE Rehearses
    BY <1>1, <1>3, <2>2 DEF Rehearses, Pending, InFlight, AnswerOf, Owners
  <2>3. ASSUME NEW r \in Results, Delivers(r)
        PROVE  StaysDecided(o) \/ GetsDecided(o)
    BY <1>1, <1>3, <2>3 DEF Delivers, Pending, InFlight, AnswerOf, Owners
  <2> QED
    BY <2>1, <2>2, <2>3, EngineMail DEF PInv
<1> QED
  BY <1>2, <1>3, WaitsFor, WaitingSteps, Zenon

\* The callback stores what was in flight: the verdict stays.
LEMMA CallbackRefines == PInv /\ CallbackRuns => [A!ANext]_(A!avars)
<1> SUFFICES ASSUME PInv, CallbackRuns PROVE [A!ANext]_(A!avars)
  OBVIOUS
<1>1. /\ pc' = pc /\ pending_cb' = pending_cb
      /\ wq.at = "callback" /\ wq'.at = "relock"
  BY DEF CallbackRuns, Callback, PInv, PTypeOK, TypeOK, WqType
<1>2. CASE pc \notin AwaitPcs
  BY <1>1, <1>2, UnseenSteps
<1>3. ASSUME NEW o \in Owners, pc = AwaitPcOf(o)
      PROVE  StaysAsked(o) \/ StaysDecided(o)
  <2>1. result'[o] = IF wq.cb = o THEN wq.res ELSE result[o]
    BY DEF CallbackRuns, PInv, PTypeOK
  <2> QED
    BY <1>1, <1>3, <2>1 DEF StaysAsked, StaysDecided, Pending, InFlight, AnswerOf
<1> QED
  BY <1>2, <1>3, WaitsFor, WaitingSteps, Zenon

\* A step aside carries out what was approved, or has nothing at hand.
LEMMA AsideRefines == Aside => [A!ANext]_(A!avars)
<1> SUFFICES ASSUME Aside PROVE [A!ANext]_(A!avars)
  OBVIOUS
<1>1. A!AInit'
  BY DEF Aside, A!AInit, AwaitPcs, Acting, KindOf, Verdict, TappedNow
<1>2. CASE pc \in Acting
  <2>1. A!Perform
    BY <1>1, <1>2, ActsOnApproval DEF A!Perform
  <2> QED
    BY <2>1 DEF A!ANext
<1>3. CASE pc \notin Acting
  <2>1. KindOf(pc) = "none" /\ Verdict = "none" /\ TappedNow = "nothing"
    BY <1>3, NothingAsked DEF Aside
  <2> QED
    BY <1>1, <2>1 DEF A!AInit, A!avars
<1> QED
  BY <1>2, <1>3

\* A request opens the consideration of its own kind, with nothing tapped.
LEMMA AskRefines ==
  ASSUME NEW a \in AwaitStates, Asks(a)
  PROVE  [A!ANext]_(A!avars)
<1>1. KindOf(pc) = "none"
  BY NothingAsked DEF Asks
<1>2. KindOf(pc') = a
  BY DEF Asks, KindOf, AwaitPcOf, CallbackOf, AwaitStates
<1>3. CallbackOf(a) \in Owners /\ Pending(CallbackOf(a))'
  BY OwnerFacts DEF Asks, Request, Pending, CallbackOf
<1>4. Verdict' = "asked"
  BY <1>3, VerdictFactsNext DEF Asks
<1>5. TappedNow' = "nothing"
  BY DEF Asks, Request, reset_accumulator, TappedNow
<1>6. A!Ask(a)
  BY <1>1, <1>2, <1>4, <1>5 DEF A!Ask, KindOf
<1> QED
  BY <1>6 DEF A!ANext

\* The main thread acts on an approval and drops a refusal.
LEMMA TakeRefines ==
  ASSUME PInv, NEW o \in Owners, NEW v \in Results, Takes(o, v)
  PROVE  [A!ANext]_(A!avars)
<1>1. ~ Pending(o) /\ AnswerOf(o) = v
  BY DEF PInv, Rendezvous, Takes, Take, Given, AnswerOf
<1>2. Verdict = (IF v = "OK" THEN "approved" ELSE "refused") /\ TappedNow = "nothing"
  BY <1>1, VerdictFacts DEF Takes
<1>3. CASE v = "OK"
  <2>1. Verdict' = "approved" /\ TappedNow' = "nothing"
    BY <1>3 DEF Takes, Acting, Verdict, TappedNow
  <2>2. KindOf(pc') = KindOf(pc)
    BY <1>3 DEF Takes
  <2> QED
    BY <1>2, <1>3, <2>1, <2>2 DEF A!avars, KindOf
<1>4. CASE v # "OK"
  <2>1. A!AInit'
    BY <1>4 DEF Takes, A!AInit, AwaitPcs, Acting, KindOf, Verdict, TappedNow
  <2>2. A!Drop
    BY <1>2, <1>4, <2>1 DEF A!Drop
  <2> QED
    BY <2>2 DEF A!ANext
<1> QED
  BY <1>3, <1>4

\* Main thread, workqueue and tap driver implement Approval, for every build,
\* every sequence and every interleaving: what is behind a prompt is done only
\* after its own sequence was tapped under it, and given up only after a refusal
\* or a timeout.
THEOREM ProtocolImplementsApproval == PSpec => ImplementsApproval
<1>1. PInit => A!AInit
  BY DEF PInit, A!AInit, KindOf, Verdict, TappedNow, AwaitPcs
<1>2. PInv /\ [PNext]_vars => [A!ANext \/ DeviceBoots]_(A!avars)
  <2> SUFFICES ASSUME PInv, [PNext]_vars PROVE [A!ANext \/ DeviceBoots]_(A!avars)
    OBVIOUS
  <2>1. CASE PNext
    BY <2>1, Sorted, AsideRefines, CallbackRefines, EngineRefines, AskRefines,
       TakeRefines, Zenon
    DEF PInv
  <2>2. CASE UNCHANGED vars
    BY <2>2
    DEF vars, gvars, ram, others, A!avars, KindOf, Verdict, TappedNow, Pending,
        InFlight, AnswerOf, ApprovingSeq
  <2> QED
    BY <2>1, <2>2
<1> QED
  BY <1>1, <1>2, ProtocolInvariant, PTL DEF PSpec, ImplementsApproval
=============================================================================
