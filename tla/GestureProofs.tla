--------------------------- MODULE GestureProofs ---------------------------
(***************************************************************************)
(* Proofs about Gesture, for every set of sequences, every threshold and   *)
(* every build option.  GInv is inductive; each invariant follows from it. *)
(* The step lemma is stated for [GNext]_gvars so that the composition in   *)
(* Protocol, whose steps are steps of Gesture, can reuse it.               *)
(***************************************************************************)
EXTENDS Gesture, TLAPS

\* The workqueue's idle record is well typed.
LEMMA IdleWqType ==
  IdleWq \in WqType
<1>1. FALSE \in BOOLEAN
  BY Zenon
<1> QED
  BY <1>1 DEF IdleWq, WqType, Callbacks, Results

\* Delivering a pending callback leaves a well typed workqueue.
LEMMA DeliverType ==
  ASSUME pending_cb \in Callbacks \cup {"NULL"}, NEW r \in Results,
         deliver_confirm(r, FALSE)
  PROVE  wq' \in WqType
<1>1. FALSE \in BOOLEAN
  BY Zenon
<1>2. wq' = [at     |-> IF pending_cb = "NULL" THEN "relock" ELSE "callback",
             cb     |-> pending_cb, res |-> r, resets |-> FALSE]
  BY DEF deliver_confirm
<1> QED
  BY <1>1, <1>2 DEF WqType

\* A boot from well typed files is well typed.
LEMMA BootType ==
  ASSUME Boot, flash' \in [seq : Words \cup HostSeqs \cup {NoSeq}, attempts : Nat]
  PROVE  TypeOK'
<1>1. /\ forced_change_active' \in BOOLEAN
      /\ idle' \in BOOLEAN
      /\ entered' \in BOOLEAN
  BY Zenon DEF Boot
<1>2. wq' \in WqType
  BY IdleWqType DEF Boot, IdleWq
<1> QED
  BY <1>1, <1>2, SequenceAssumption
  DEF Boot, TypeOK, States, AwaitStates, Callbacks, BootSeq

\* What boots satisfies GInv.
LEMMA GInitLemma == GInit => GInv
<1> SUFFICES ASSUME GInit PROVE GInv
  OBVIOUS
<1>1. {forced_change_active, idle, entered} \subseteq BOOLEAN
  BY Zenon DEF GInit
<1>2. wq \in WqType
  BY IdleWqType DEF GInit
<1>3. TypeOK
  BY <1>1, <1>2, SequenceAssumption
  DEF GInit, TypeOK, States, AwaitStates, Callbacks, BootSeq
<1> QED
  BY <1>3 DEF GInit, GInv, PromptBacked, EmptyBufHasNoTaps,
      SequenceAtHand, PromptTapsAreFresh, UnlockedOnlyAfterSequence, LockoutMatchesCount,
      AwaitStates

\* TypeOK is inductive: every action leaves every variable in its type.
LEMMA TypeStep == TypeOK /\ SequenceAtHand /\ [GNext]_gvars => TypeOK'
<1> SUFFICES ASSUME TypeOK, SequenceAtHand, [GNext]_gvars PROVE TypeOK'
  OBVIOUS
<1> USE SequenceAssumption, ConfigAssumption
    DEF TypeOK, States, AwaitStates, Callbacks, Results, reset_accumulator
<1>1. CASE TapGate
  BY <1>1 DEF TapGate
<1>2. ASSUME NEW w \in Words \cup {INVALID}, TapAccumulate(w) PROVE TypeOK'
  BY <1>2 DEF TapAccumulate
<1>3. CASE DigitClose
  BY <1>3 DEF DigitClose
<1>4. CASE ProcessLocked
  <2>1. flash' \in [seq : Words \cup HostSeqs \cup {NoSeq}, attempts : Nat]
    BY <1>4 DEF ProcessLocked, note_unlock_success, note_unlock_failure, Written
  <2>2. failure_count' \in Nat /\ lockout' \in Nat
    BY <1>4 DEF ProcessLocked, note_unlock_success, note_unlock_failure,
                lockout_seconds_for_count
  <2>3. forced_change_active' \in BOOLEAN
    BY <1>4 DEF ProcessLocked, using_default_seq
  <2>4. entered' \in BOOLEAN
    BY <1>4, Zenon DEF ProcessLocked
  <2> QED
    BY <1>4, <2>1, <2>2, <2>3, <2>4 DEF ProcessLocked
<1>5. CASE ProcessUnlocked
  BY <1>5 DEF ProcessUnlocked
<1>6. CASE ProcessRehearsal
  BY <1>6 DEF ProcessRehearsal
<1>7. CASE ProcessChangeSeqConfirm
  BY <1>7 DEF ProcessChangeSeqConfirm, SeqClosedIn
<1>8. CASE ProcessChangeSeqVerify
  <2>1. flash' \in [seq : Words \cup HostSeqs \cup {NoSeq}, attempts : Nat]
    BY <1>8 DEF ProcessChangeSeqVerify, Written
  <2>2. unlock_seq' \in Words \cup HostSeqs
    BY <1>8 DEF ProcessChangeSeqVerify, SeqClosedIn, SequenceAtHand
  <2>3. forced_change_active' \in BOOLEAN
    BY <1>8, Zenon DEF ProcessChangeSeqVerify
  <2>4. entered' \in BOOLEAN
    BY <1>8 DEF ProcessChangeSeqVerify
  <2> QED
    BY <1>8, <2>1, <2>2, <2>3, <2>4 DEF ProcessChangeSeqVerify
<1>9. CASE ProcessPairing
  BY <1>9 DEF ProcessPairing
<1>10. ASSUME NEW a \in AwaitStates, ProcessAwaiting(a) PROVE TypeOK'
  BY <1>10 DEF ProcessAwaiting, EndOf, deliver_confirm, WqType
<1>11. ASSUME NEW a \in AwaitStates, PromptTimeout(a) PROVE TypeOK'
  <2>1. wq' \in WqType
    <3>1. CASE state = a
      BY <1>11, <3>1, DeliverType DEF PromptTimeout
    <3> QED
      BY <1>11, <3>1 DEF PromptTimeout
  <2>2. entered' \in BOOLEAN /\ state' \in States /\ pending_cb' \in Callbacks \cup {"NULL"}
    BY <1>11 DEF PromptTimeout, EndOf, deliver_confirm
  <2> QED
    BY <1>11, <2>1, <2>2 DEF PromptTimeout
<1>12. CASE Callback
  BY <1>12 DEF Callback, WqType
<1>13. CASE Relock
  <2>1. wq' \in WqType
    BY <1>13, IdleWqType DEF Relock
  <2>2. CASE wq.resets
    BY <1>13, <2>1, <2>2 DEF Relock
  <2>3. CASE ~ wq.resets
    <3>1. UNCHANGED <<buf, silence_phase, tapped_in>>
      BY <1>13, <2>3, Zenon DEF Relock
    <3> QED
      BY <1>13, <2>1, <3>1 DEF Relock
  <2> QED
    BY <2>2, <2>3
<1>14. ASSUME NEW a \in AwaitStates, Request(a) PROVE TypeOK'
  BY <1>14 DEF Request, MayRequest, CallbackOf
<1>15. CASE gesture_get_state
  BY <1>15 DEF gesture_get_state, AutoLocks
<1>16. CASE gesture_reset_inactivity_timer
  <2>1. idle' \in BOOLEAN
    BY <1>16, Zenon DEF gesture_reset_inactivity_timer
  <2> QED
    BY <1>16, <2>1 DEF gesture_reset_inactivity_timer
<1>17. ASSUME NEW s \in HostSeqs, gesture_set_unlock_seq(s) PROVE TypeOK'
  BY <1>17 DEF gesture_set_unlock_seq, Written
<1>18. CASE LockoutElapses
  BY <1>18 DEF LockoutElapses
<1>19. CASE InactivityElapses
  BY <1>19 DEF InactivityElapses
<1>20. CASE Reboot
  BY <1>20, BootType DEF Reboot
<1>21. CASE UNCHANGED gvars
  BY <1>21 DEF gvars, ram
<1> QED
  BY <1>1, <1>2, <1>3, <1>4, <1>5, <1>6, <1>7, <1>8, <1>9, <1>10, <1>11,
     <1>12, <1>13, <1>14, <1>15, <1>16, <1>17, <1>18, <1>19, <1>20, <1>21
  DEF GNext, TapDriver, ProcessSequence, MainCalls, Clock

\* A sequence about to be closed keeps its digits.
LEMMA HandStep == TypeOK /\ SequenceAtHand /\ [GNext]_gvars => SequenceAtHand'
<1> SUFFICES ASSUME TypeOK, SequenceAtHand, [GNext]_gvars PROVE SequenceAtHand'
  OBVIOUS
<1> USE SequenceAssumption DEF TypeOK, reset_accumulator, SequenceAtHand
<1>1. CASE TapGate
  BY <1>1 DEF TapGate
<1>2. ASSUME NEW w \in Words \cup {INVALID}, TapAccumulate(w) PROVE SequenceAtHand'
  BY <1>2 DEF TapAccumulate
<1>3. CASE DigitClose
  BY <1>3 DEF DigitClose
<1>4. CASE ProcessLocked
  BY <1>4 DEF ProcessLocked
<1>5. CASE ProcessUnlocked
  BY <1>5 DEF ProcessUnlocked
<1>6. CASE ProcessRehearsal
  BY <1>6 DEF ProcessRehearsal
<1>7. CASE ProcessChangeSeqConfirm
  BY <1>7 DEF ProcessChangeSeqConfirm, SeqClosedIn
<1>8. CASE ProcessChangeSeqVerify
  BY <1>8 DEF ProcessChangeSeqVerify
<1>9. CASE ProcessPairing
  BY <1>9 DEF ProcessPairing
<1>10. ASSUME NEW a \in AwaitStates, ProcessAwaiting(a) PROVE SequenceAtHand'
  BY <1>10 DEF ProcessAwaiting, EndOf
<1>11. ASSUME NEW a \in AwaitStates, PromptTimeout(a) PROVE SequenceAtHand'
  BY <1>11 DEF PromptTimeout, EndOf
<1>12. CASE Callback
  BY <1>12 DEF Callback
<1>13. CASE Relock
  BY <1>13 DEF Relock
<1>14. ASSUME NEW a \in AwaitStates, Request(a) PROVE SequenceAtHand'
  BY <1>14 DEF Request, AwaitStates
<1>15. CASE gesture_get_state
  BY <1>15 DEF gesture_get_state, AutoLocks
<1>16. CASE gesture_reset_inactivity_timer
  BY <1>16 DEF gesture_reset_inactivity_timer
<1>17. ASSUME NEW s \in HostSeqs, gesture_set_unlock_seq(s) PROVE SequenceAtHand'
  BY <1>17 DEF gesture_set_unlock_seq
<1>18. CASE LockoutElapses
  BY <1>18 DEF LockoutElapses
<1>19. CASE InactivityElapses
  BY <1>19 DEF InactivityElapses
<1>20. CASE Reboot
  BY <1>20 DEF Reboot, Boot
<1>21. CASE UNCHANGED gvars
  BY <1>21 DEF gvars, ram
<1> QED
  BY <1>1, <1>2, <1>3, <1>4, <1>5, <1>6, <1>7, <1>8, <1>9, <1>10, <1>11,
     <1>12, <1>13, <1>14, <1>15, <1>16, <1>17, <1>18, <1>19, <1>20, <1>21
  DEF GNext, TapDriver, ProcessSequence, MainCalls, Clock

\* Prompt, callback and timer come and go together.
LEMMA BackedStep == TypeOK /\ PromptBacked /\ [GNext]_gvars => PromptBacked'
<1> SUFFICES ASSUME TypeOK, PromptBacked, [GNext]_gvars PROVE PromptBacked'
  OBVIOUS
<1> USE DEF TypeOK, reset_accumulator, PromptBacked, AwaitStates, States
<1>1. CASE TapGate
  BY <1>1 DEF TapGate
<1>2. ASSUME NEW w \in Words \cup {INVALID}, TapAccumulate(w) PROVE PromptBacked'
  BY <1>2 DEF TapAccumulate
<1>3. CASE DigitClose
  BY <1>3 DEF DigitClose
<1>4. CASE ProcessLocked
  BY <1>4 DEF ProcessLocked, SeqClosedIn
<1>5. CASE ProcessUnlocked
  BY <1>5 DEF ProcessUnlocked, SeqClosedIn
<1>6. CASE ProcessRehearsal
  BY <1>6 DEF ProcessRehearsal, SeqClosedIn
<1>7. CASE ProcessChangeSeqConfirm
  BY <1>7 DEF ProcessChangeSeqConfirm, SeqClosedIn
<1>8. CASE ProcessChangeSeqVerify
  BY <1>8 DEF ProcessChangeSeqVerify, SeqClosedIn
<1>9. CASE ProcessPairing
  BY <1>9 DEF ProcessPairing
<1>10. ASSUME NEW a \in AwaitStates, ProcessAwaiting(a) PROVE PromptBacked'
  BY <1>10 DEF ProcessAwaiting, SeqClosedIn, EndOf, deliver_confirm
<1>11. ASSUME NEW a \in AwaitStates, PromptTimeout(a) PROVE PromptBacked'
  BY <1>11 DEF PromptTimeout, EndOf, deliver_confirm
<1>12. CASE Callback
  BY <1>12 DEF Callback
<1>13. CASE Relock
  BY <1>13 DEF Relock
<1>14. ASSUME NEW a \in AwaitStates, Request(a) PROVE PromptBacked'
  BY <1>14 DEF Request, MayRequest, CallbackOf
<1>15. CASE gesture_get_state
  BY <1>15 DEF gesture_get_state, AutoLocks
<1>16. CASE gesture_reset_inactivity_timer
  BY <1>16 DEF gesture_reset_inactivity_timer
<1>17. ASSUME NEW s \in HostSeqs, gesture_set_unlock_seq(s) PROVE PromptBacked'
  BY <1>17 DEF gesture_set_unlock_seq
<1>18. CASE LockoutElapses
  BY <1>18 DEF LockoutElapses
<1>19. CASE InactivityElapses
  BY <1>19 DEF InactivityElapses
<1>20. CASE Reboot
  BY <1>20 DEF Reboot, Boot
<1>21. CASE UNCHANGED gvars
  BY <1>21 DEF gvars, ram
<1> QED
  BY <1>1, <1>2, <1>3, <1>4, <1>5, <1>6, <1>7, <1>8, <1>9, <1>10, <1>11,
     <1>12, <1>13, <1>14, <1>15, <1>16, <1>17, <1>18, <1>19, <1>20, <1>21
  DEF GNext, TapDriver, ProcessSequence, MainCalls, Clock

\* An emptied accumulator has forgotten where it was tapped.
LEMMA EmptyStep == TypeOK /\ EmptyBufHasNoTaps /\ [GNext]_gvars => EmptyBufHasNoTaps'
<1> SUFFICES ASSUME TypeOK, EmptyBufHasNoTaps, [GNext]_gvars PROVE EmptyBufHasNoTaps'
  OBVIOUS
<1> USE SequenceAssumption DEF TypeOK, reset_accumulator, EmptyBufHasNoTaps
<1>1. CASE TapGate
  BY <1>1 DEF TapGate
<1>2. ASSUME NEW w \in Words \cup {INVALID}, TapAccumulate(w) PROVE EmptyBufHasNoTaps'
  BY <1>2 DEF TapAccumulate
<1>3. CASE DigitClose
  BY <1>3 DEF DigitClose
<1>4. CASE ProcessLocked
  BY <1>4 DEF ProcessLocked
<1>5. CASE ProcessUnlocked
  BY <1>5 DEF ProcessUnlocked
<1>6. CASE ProcessRehearsal
  BY <1>6 DEF ProcessRehearsal
<1>7. CASE ProcessChangeSeqConfirm
  BY <1>7 DEF ProcessChangeSeqConfirm
<1>8. CASE ProcessChangeSeqVerify
  BY <1>8 DEF ProcessChangeSeqVerify
<1>9. CASE ProcessPairing
  BY <1>9 DEF ProcessPairing
<1>10. ASSUME NEW a \in AwaitStates, ProcessAwaiting(a) PROVE EmptyBufHasNoTaps'
  BY <1>10 DEF ProcessAwaiting
<1>11. ASSUME NEW a \in AwaitStates, PromptTimeout(a) PROVE EmptyBufHasNoTaps'
  BY <1>11 DEF PromptTimeout
<1>12. CASE Callback
  BY <1>12 DEF Callback
<1>13. CASE Relock
  BY <1>13 DEF Relock
<1>14. ASSUME NEW a \in AwaitStates, Request(a) PROVE EmptyBufHasNoTaps'
  BY <1>14 DEF Request
<1>15. CASE gesture_get_state
  BY <1>15 DEF gesture_get_state
<1>16. CASE gesture_reset_inactivity_timer
  BY <1>16 DEF gesture_reset_inactivity_timer
<1>17. ASSUME NEW s \in HostSeqs, gesture_set_unlock_seq(s) PROVE EmptyBufHasNoTaps'
  BY <1>17 DEF gesture_set_unlock_seq
<1>18. CASE LockoutElapses
  BY <1>18 DEF LockoutElapses
<1>19. CASE InactivityElapses
  BY <1>19 DEF InactivityElapses
<1>20. CASE Reboot
  BY <1>20 DEF Reboot, Boot
<1>21. CASE UNCHANGED gvars
  BY <1>21 DEF gvars, ram
<1> QED
  BY <1>1, <1>2, <1>3, <1>4, <1>5, <1>6, <1>7, <1>8, <1>9, <1>10, <1>11,
     <1>12, <1>13, <1>14, <1>15, <1>16, <1>17, <1>18, <1>19, <1>20, <1>21
  DEF GNext, TapDriver, ProcessSequence, MainCalls, Clock

\* A prompt opens on an empty accumulator and only its own taps fill it.
LEMMA FreshStep == TypeOK /\ EmptyBufHasNoTaps /\ PromptBacked /\ PromptTapsAreFresh /\ [GNext]_gvars => PromptTapsAreFresh'
<1> SUFFICES ASSUME TypeOK, EmptyBufHasNoTaps, PromptBacked, PromptTapsAreFresh, [GNext]_gvars PROVE PromptTapsAreFresh'
  OBVIOUS
<1> USE DEF TypeOK, reset_accumulator, PromptTapsAreFresh, AwaitStates, States
<1>1. CASE TapGate
  BY <1>1 DEF TapGate
<1>2. ASSUME NEW w \in Words \cup {INVALID}, TapAccumulate(w) PROVE PromptTapsAreFresh'
  BY <1>2 DEF TapAccumulate, EmptyBufHasNoTaps
<1>3. CASE DigitClose
  BY <1>3 DEF DigitClose
<1>4. CASE ProcessLocked
  BY <1>4 DEF ProcessLocked
<1>5. CASE ProcessUnlocked
  BY <1>5 DEF ProcessUnlocked
<1>6. CASE ProcessRehearsal
  BY <1>6 DEF ProcessRehearsal
<1>7. CASE ProcessChangeSeqConfirm
  BY <1>7 DEF ProcessChangeSeqConfirm
<1>8. CASE ProcessChangeSeqVerify
  BY <1>8 DEF ProcessChangeSeqVerify
<1>9. CASE ProcessPairing
  BY <1>9 DEF ProcessPairing
<1>10. ASSUME NEW a \in AwaitStates, ProcessAwaiting(a) PROVE PromptTapsAreFresh'
  BY <1>10 DEF ProcessAwaiting, EndOf
<1>11. ASSUME NEW a \in AwaitStates, PromptTimeout(a) PROVE PromptTapsAreFresh'
  BY <1>11 DEF PromptTimeout, EndOf
<1>12. CASE Callback
  BY <1>12 DEF Callback
<1>13. CASE Relock
  BY <1>13 DEF Relock
<1>14. ASSUME NEW a \in AwaitStates, Request(a) PROVE PromptTapsAreFresh'
  BY <1>14 DEF Request
<1>15. CASE gesture_get_state
  BY <1>15 DEF gesture_get_state, AutoLocks
<1>16. CASE gesture_reset_inactivity_timer
  BY <1>16 DEF gesture_reset_inactivity_timer
<1>17. ASSUME NEW s \in HostSeqs, gesture_set_unlock_seq(s) PROVE PromptTapsAreFresh'
  BY <1>17 DEF gesture_set_unlock_seq
<1>18. CASE LockoutElapses
  BY <1>18 DEF LockoutElapses
<1>19. CASE InactivityElapses
  BY <1>19 DEF InactivityElapses
<1>20. CASE Reboot
  BY <1>20 DEF Reboot, Boot
<1>21. CASE UNCHANGED gvars
  BY <1>21 DEF gvars, ram
<1> QED
  BY <1>1, <1>2, <1>3, <1>4, <1>5, <1>6, <1>7, <1>8, <1>9, <1>10, <1>11,
     <1>12, <1>13, <1>14, <1>15, <1>16, <1>17, <1>18, <1>19, <1>20, <1>21
  DEF GNext, TapDriver, ProcessSequence, MainCalls, Clock

\* LOCKED is left only by the unlock sequence, or for a prompt that returns to it.
LEMMA EnteredStep == TypeOK /\ UnlockedOnlyAfterSequence /\ [GNext]_gvars => UnlockedOnlyAfterSequence'
<1> SUFFICES ASSUME TypeOK, UnlockedOnlyAfterSequence, [GNext]_gvars PROVE UnlockedOnlyAfterSequence'
  OBVIOUS
<1> USE DEF TypeOK, reset_accumulator, UnlockedOnlyAfterSequence, AwaitStates, States
<1>1. CASE TapGate
  BY <1>1 DEF TapGate
<1>2. ASSUME NEW w \in Words \cup {INVALID}, TapAccumulate(w) PROVE UnlockedOnlyAfterSequence'
  BY <1>2 DEF TapAccumulate
<1>3. CASE DigitClose
  BY <1>3 DEF DigitClose
<1>4. CASE ProcessLocked
  BY <1>4 DEF ProcessLocked, SeqClosedIn
<1>5. CASE ProcessUnlocked
  <2>1. entered
    BY <1>5 DEF ProcessUnlocked, SeqClosedIn
  <2>2. CASE buf = SEQ_LOCK
    BY <1>5, <2>2 DEF ProcessUnlocked
  <2>3. CASE buf # SEQ_LOCK
    BY <1>5, <2>1, <2>3 DEF ProcessUnlocked
  <2> QED
    BY <2>2, <2>3
<1>6. CASE ProcessRehearsal
  BY <1>6 DEF ProcessRehearsal, SeqClosedIn
<1>7. CASE ProcessChangeSeqConfirm
  BY <1>7 DEF ProcessChangeSeqConfirm, SeqClosedIn
<1>8. CASE ProcessChangeSeqVerify
  BY <1>8 DEF ProcessChangeSeqVerify, SeqClosedIn
<1>9. CASE ProcessPairing
  BY <1>9 DEF ProcessPairing
<1>10. ASSUME NEW a \in AwaitStates, ProcessAwaiting(a) PROVE UnlockedOnlyAfterSequence'
  BY <1>10 DEF ProcessAwaiting, SeqClosedIn, EndOf
<1>11. ASSUME NEW a \in AwaitStates, PromptTimeout(a) PROVE UnlockedOnlyAfterSequence'
  <2>1. CASE state # a
    BY <1>11, <2>1 DEF PromptTimeout
  <2>2. CASE state = a /\ EndOf(a) = "LOCKED"
    BY <1>11, <2>2 DEF PromptTimeout
  <2>3. CASE state = a /\ EndOf(a) # "LOCKED"
    <3>1. entered
      BY <2>3 DEF EndOf
    <3> QED
      BY <1>11, <2>3, <3>1 DEF PromptTimeout
  <2> QED
    BY <2>1, <2>2, <2>3
<1>12. CASE Callback
  BY <1>12 DEF Callback
<1>13. CASE Relock
  BY <1>13 DEF Relock
<1>14. ASSUME NEW a \in AwaitStates, Request(a) PROVE UnlockedOnlyAfterSequence'
  BY <1>14 DEF Request, MayRequest
<1>15. CASE gesture_get_state
  BY <1>15 DEF gesture_get_state, AutoLocks
<1>16. CASE gesture_reset_inactivity_timer
  BY <1>16 DEF gesture_reset_inactivity_timer
<1>17. ASSUME NEW s \in HostSeqs, gesture_set_unlock_seq(s) PROVE UnlockedOnlyAfterSequence'
  BY <1>17 DEF gesture_set_unlock_seq
<1>18. CASE LockoutElapses
  BY <1>18 DEF LockoutElapses
<1>19. CASE InactivityElapses
  BY <1>19 DEF InactivityElapses
<1>20. CASE Reboot
  BY <1>20 DEF Reboot, Boot
<1>21. CASE UNCHANGED gvars
  BY <1>21 DEF gvars, ram
<1> QED
  BY <1>1, <1>2, <1>3, <1>4, <1>5, <1>6, <1>7, <1>8, <1>9, <1>10, <1>11,
     <1>12, <1>13, <1>14, <1>15, <1>16, <1>17, <1>18, <1>19, <1>20, <1>21
  DEF GNext, TapDriver, ProcessSequence, MainCalls, Clock

\* The lockout and the failure count change together.
LEMMA LockoutCountStep == TypeOK /\ LockoutMatchesCount /\ [GNext]_gvars => LockoutMatchesCount'
<1> SUFFICES ASSUME TypeOK, LockoutMatchesCount, [GNext]_gvars PROVE LockoutMatchesCount'
  OBVIOUS
<1> USE ConfigAssumption DEF TypeOK, reset_accumulator, LockoutMatchesCount
<1>1. CASE TapGate
  BY <1>1 DEF TapGate
<1>2. ASSUME NEW w \in Words \cup {INVALID}, TapAccumulate(w) PROVE LockoutMatchesCount'
  BY <1>2 DEF TapAccumulate
<1>3. CASE DigitClose
  BY <1>3 DEF DigitClose
<1>4. CASE ProcessLocked
  BY <1>4 DEF ProcessLocked, note_unlock_failure, note_unlock_success
<1>5. CASE ProcessUnlocked
  BY <1>5 DEF ProcessUnlocked
<1>6. CASE ProcessRehearsal
  BY <1>6 DEF ProcessRehearsal
<1>7. CASE ProcessChangeSeqConfirm
  BY <1>7 DEF ProcessChangeSeqConfirm
<1>8. CASE ProcessChangeSeqVerify
  BY <1>8 DEF ProcessChangeSeqVerify
<1>9. CASE ProcessPairing
  BY <1>9 DEF ProcessPairing
<1>10. ASSUME NEW a \in AwaitStates, ProcessAwaiting(a) PROVE LockoutMatchesCount'
  BY <1>10 DEF ProcessAwaiting
<1>11. ASSUME NEW a \in AwaitStates, PromptTimeout(a) PROVE LockoutMatchesCount'
  BY <1>11 DEF PromptTimeout
<1>12. CASE Callback
  BY <1>12 DEF Callback
<1>13. CASE Relock
  BY <1>13 DEF Relock
<1>14. ASSUME NEW a \in AwaitStates, Request(a) PROVE LockoutMatchesCount'
  BY <1>14 DEF Request
<1>15. CASE gesture_get_state
  BY <1>15 DEF gesture_get_state
<1>16. CASE gesture_reset_inactivity_timer
  BY <1>16 DEF gesture_reset_inactivity_timer
<1>17. ASSUME NEW s \in HostSeqs, gesture_set_unlock_seq(s) PROVE LockoutMatchesCount'
  BY <1>17 DEF gesture_set_unlock_seq
<1>18. CASE LockoutElapses
  BY <1>18 DEF LockoutElapses
<1>19. CASE InactivityElapses
  BY <1>19 DEF InactivityElapses
<1>20. CASE Reboot
  BY <1>20 DEF Reboot, Boot
<1>21. CASE UNCHANGED gvars
  BY <1>21 DEF gvars, ram
<1> QED
  BY <1>1, <1>2, <1>3, <1>4, <1>5, <1>6, <1>7, <1>8, <1>9, <1>10, <1>11,
     <1>12, <1>13, <1>14, <1>15, <1>16, <1>17, <1>18, <1>19, <1>20, <1>21
  DEF GNext, TapDriver, ProcessSequence, MainCalls, Clock

\* The whole invariant is inductive.
LEMMA GInvStep == GInv /\ [GNext]_gvars => GInv'
  BY TypeStep, HandStep, BackedStep, EmptyStep, FreshStep, EnteredStep,
     LockoutCountStep
  DEF GInv

\* The invariant holds in every state of the gesture engine.
THEOREM GestureInvariant == GSpec => []GInv
<1>1. GInit => GInv
  BY GInitLemma
<1>2. GInv /\ [GNext]_gvars => GInv'
  BY GInvStep
<1> QED
  BY <1>1, <1>2, PTL DEF GSpec

\* Every static of gesture.c stays in its type.
THEOREM TypeCorrect == GSpec => []TypeOK
<1>1. GInv => TypeOK
  BY DEF GInv
<1> QED
  BY <1>1, GestureInvariant, PTL

\* gesture_request_*, the AWAITING_* cases and the *_timeout_fn handlers keep
\* prompt, callback and timer together, for every build and every sequence.
THEOREM PromptAlwaysBacked == GSpec => []PromptBacked
<1>1. GInv => PromptBacked
  BY DEF GInv
<1> QED
  BY <1>1, GestureInvariant, PTL

\* No tap made before a gesture_request_* call can be part of its answer.
THEOREM PromptTapsAlwaysFresh == GSpec => []PromptTapsAreFresh
<1>1. GInv => PromptTapsAreFresh
  BY DEF GInv
<1> QED
  BY <1>1, GestureInvariant, PTL

\* Only process_sequence, on the unlock sequence, leads out of LOCKED.
THEOREM NoUnlockWithoutSequence == GSpec => []UnlockedOnlyAfterSequence
<1>1. GInv => UnlockedOnlyAfterSequence
  BY DEF GInv
<1> QED
  BY <1>1, GestureInvariant, PTL

\* note_unlock_failure and note_unlock_success keep the lockout on the tier of
\* the failure count, whatever the threshold.
THEOREM LockoutOnItsTier == GSpec => []LockoutMatchesCount
<1>1. GInv => LockoutMatchesCount
  BY DEF GInv
<1> QED
  BY <1>1, GestureInvariant, PTL

\* Only four actions touch the failure count, the unlock sequence or flash.
LEMMA FlashQuiet ==
  ASSUME [GNext]_gvars, ~ ProcessLocked, ~ ProcessChangeSeqVerify, ~ Reboot,
         \A s \in HostSeqs : ~ gesture_set_unlock_seq(s)
  PROVE  UNCHANGED <<flash, failure_count, unlock_seq>>
<1>1. CASE TapDriver \/ DigitClose \/ Clock \/ Callback \/ Relock
  BY <1>1 DEF TapDriver, TapGate, TapAccumulate, DigitClose, Clock,
              LockoutElapses, InactivityElapses, Callback, Relock
<1>2. CASE ProcessSequence
  BY <1>2 DEF ProcessSequence, ProcessUnlocked, ProcessRehearsal,
              ProcessChangeSeqConfirm, ProcessPairing, ProcessAwaiting
<1>3. ASSUME NEW a \in AwaitStates, PromptTimeout(a)
      PROVE  UNCHANGED <<flash, failure_count, unlock_seq>>
  BY <1>3 DEF PromptTimeout
<1>4. CASE MainCalls
  BY <1>4 DEF MainCalls, Request, gesture_get_state,
              gesture_reset_inactivity_timer
<1>5. CASE UNCHANGED gvars
  BY <1>5 DEF gvars, ram
<1> QED
  BY <1>1, <1>2, <1>3, <1>4, <1>5 DEF GNext

\* Each of the four writes to flash what it puts in RAM, or restores RAM from it.
LEMMA FlashStep == GInv /\ FlashAgreesWithRam /\ [GNext]_gvars => FlashAgreesWithRam'
<1> SUFFICES ASSUME GInv, FlashAgreesWithRam, [GNext]_gvars, ~ FlashMayFail
             PROVE  /\ flash'.attempts = failure_count'
                    /\ unlock_seq' = BootSeq(flash')
  BY DEF FlashAgreesWithRam, BootSeq
<1> USE SequenceAssumption
    DEF GInv, TypeOK, SequenceAtHand, FlashAgreesWithRam, Written, BootSeq
<1>1. CASE ProcessLocked
  BY <1>1 DEF ProcessLocked, note_unlock_failure, note_unlock_success
<1>2. CASE ProcessChangeSeqVerify
  BY <1>2 DEF ProcessChangeSeqVerify, SeqClosedIn
<1>3. CASE Reboot
  BY <1>3 DEF Reboot, Boot
<1>4. ASSUME NEW s \in HostSeqs, gesture_set_unlock_seq(s)
      PROVE  /\ flash'.attempts = failure_count'
             /\ unlock_seq' = BootSeq(flash')
  BY <1>4 DEF gesture_set_unlock_seq
<1>5. CASE UNCHANGED <<flash, failure_count, unlock_seq>>
  BY <1>5
<1> QED
  BY <1>1, <1>2, <1>3, <1>4, <1>5, FlashQuiet

\* storage_unlock_attempts_write and storage_unlock_seq_write keep flash equal
\* to RAM as long as no write fails.
THEOREM FlashNeverBehind == GSpec => []FlashAgreesWithRam
<1>1. GInit => FlashAgreesWithRam
  BY DEF GInit, FlashAgreesWithRam
<1>2. GInv /\ FlashAgreesWithRam /\ [GNext]_gvars => FlashAgreesWithRam'
  BY FlashStep
<1> QED
  BY <1>1, <1>2, GestureInvariant, PTL DEF GSpec

\* Nothing but the accepted unlock sequence lowers the failure count, a power
\* cycle at any moment included.
THEOREM RampNeverReset == GSpec => RampOnlyClearedByUnlock
<1>1. GInv /\ FlashAgreesWithRam /\ [GNext]_gvars
        => [~ FlashMayFail => RampStep]_gvars
  <2> SUFFICES ASSUME GInv, FlashAgreesWithRam, [GNext]_gvars, ~ FlashMayFail
               PROVE  RampStep
    OBVIOUS
  <2>1. CASE ProcessLocked
    <3>1. CASE buf = unlock_seq
      BY <2>1, <3>1 DEF ProcessLocked, SeqClosedIn, note_unlock_success, RampStep
    <3>2. CASE buf # unlock_seq
      BY <2>1, <3>2 DEF ProcessLocked, note_unlock_failure, RampStep
    <3> QED
      BY <3>1, <3>2
  <2>2. CASE ProcessChangeSeqVerify
    BY <2>2 DEF ProcessChangeSeqVerify, RampStep
  <2>3. CASE Reboot
    BY <2>3 DEF Reboot, Boot, FlashAgreesWithRam, RampStep
  <2>4. ASSUME NEW s \in HostSeqs, gesture_set_unlock_seq(s) PROVE RampStep
    BY <2>4 DEF gesture_set_unlock_seq, RampStep
  <2>5. CASE UNCHANGED <<flash, failure_count, unlock_seq>>
    BY <2>5 DEF RampStep
  <2> QED
    BY <2>1, <2>2, <2>3, <2>4, <2>5, FlashQuiet
<1> QED
  BY <1>1, GestureInvariant, FlashNeverBehind, PTL
  DEF GSpec, RampOnlyClearedByUnlock
=============================================================================
