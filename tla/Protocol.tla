------------------------------ MODULE Protocol ------------------------------
(***************************************************************************)
(* The main thread (firmware/src/main.c), the dispatcher                   *)
(* (firmware/src/protocol/protocol.c) and the tap-confirm pairing gate     *)
(* (firmware/src/clients/pairing.c), composed with Gesture.                *)
(*                                                                         *)
(* The main thread opens one session at a time and handles one command at  *)
(* a time.  For a tap-gated command it registers a callback with the       *)
(* gesture engine and blocks on a semaphore that the callback, on the      *)
(* workqueue, gives.  The peer is free: it may connect, send any command,  *)
(* or go away at any time.                                                 *)
(***************************************************************************)
EXTENDS Gesture

CONSTANTS
  BootVolumes,   \* volume states the device may boot with
  BootRecovery   \* whether it may boot into identity recovery

ASSUME BootAssumption ==
  /\ BootVolumes \subseteq {"VALID", "UNMARKED", "MISMATCH"}
  /\ BootRecovery \subseteq BOOLEAN

VARIABLES
  pc,          \* where the main thread stands
  cmd,         \* the command in hand, "NONE" once it needs no more reading
  sem,         \* protect_confirm_sem, reset_confirm_sem, pair_sem
  result,      \* protect_confirm_result, reset_confirm_result, pair_result;
               \* back to "OK" once read
  provisioned, \* ca_provisioned(): slot 0 holds a key
  volume,      \* storage_volume_state(), decided at mount
  recovery     \* session_slot_in_recovery(), decided at boot

device == <<provisioned, volume, recovery>>
others == <<cmd, sem, result, device>>
vars   == <<gvars, pc, others>>

\* One command for each way the dispatcher treats a command: SIGN_CSR for the
\* slot-0 block 0x01-0x06, PROTECT_SLOT for the commands whose handler calls
\* await_protect_confirm, LIST_KEYS for the rest.
Cmds == {"SIGN_CSR", "LIST_KEYS", "GEN_KEY", "PROTECT_SLOT", "PROVISION_CA",
         "SET_UNLOCK_SEQ", "RESET_DEVICE", "DEVICE_STATUS", "UPDATE_FIRMWARE"}
Owners == {"protect_confirm_cb", "reset_confirm_cb", "pair_cb"}
AwaitPcs == {"await_confirm", "await_reset", "await_pair"}
Pcs == {"connect", "pairing", "bond", "opened", "recv", "sample", "handle",
        "perform", "wipe", "wiped", "update", "reply", "touch"} \cup AwaitPcs

\* Types of the composition; every semaphore stays within its limit of 1.
PTypeOK ==
  /\ TypeOK
  /\ pc \in Pcs
  /\ cmd \in Cmds \cup {"NONE"}
  /\ sem \in [Owners -> 0..1]
  /\ result \in [Owners -> Results]
  /\ provisioned \in BOOLEAN
  /\ volume \in BootVolumes
  /\ recovery \in BOOLEAN

storage_volume_trusted == volume # "MISMATCH"
storage_volume_may_mint ==
  \/ volume = "VALID"
  \/ volume = "UNMARKED" /\ provisioned

PInit ==
  /\ GInit
  /\ pc = "connect"
  /\ cmd = "NONE"
  /\ sem = [o \in Owners |-> 0]
  /\ result = [o \in Owners |-> "OK"]
  /\ provisioned \in BOOLEAN
  /\ volume \in BootVolumes
  /\ recovery \in BootRecovery
-----------------------------------------------------------------------------
(* Sessions and pairing.                                                   *)

\* session_open succeeds.
Connect ==
  /\ pc = "connect"
  /\ pc' = "pairing"
  /\ UNCHANGED <<gvars, others>>

\* pairing_check_and_bond: a known client passes; a client is turned away
\* on a lookup error, a full bond table or a busy gesture engine.
PairLookup ==
  /\ pc = "pairing"
  /\ pc' \in {"opened", "connect"}
  /\ UNCHANGED <<gvars, others>>

PairAsk ==
  /\ pc = "pairing"
  /\ Request("AWAITING_PAIR")
  /\ pc' = "await_pair"
  /\ UNCHANGED others

\* Mutant: k_sem_take with a timeout of its own.
Take_bounded(owner, verdict) ==
  \/ /\ sem[owner] = 1
     /\ sem' = [sem EXCEPT ![owner] = 0]
     /\ verdict = result[owner]
     /\ result' = [result EXCEPT ![owner] = "OK"]
  \/ /\ sem[owner] = 0
     /\ verdict = "TIMEOUT"
     /\ UNCHANGED <<sem, result>>

\* k_sem_take(owner's semaphore, K_FOREVER) returns; verdict is what the
\* callback stored.
Take(owner, verdict) ==
  /\ sem[owner] = 1
  /\ sem' = [sem EXCEPT ![owner] = 0]
  /\ verdict = result[owner]
  /\ result' = [result EXCEPT ![owner] = "OK"]

PairTake ==
  /\ pc = "await_pair"
  /\ \E v \in Results :
       /\ Take("pair_cb", v)
       /\ pc' = IF v = "OK" THEN "bond" ELSE "connect"
  /\ UNCHANGED <<gvars, cmd, device>>

\* client_bond_add: stored, already there or a read-only volume let the
\* client in; any other failure turns it away.
Bond ==
  /\ pc = "bond"
  /\ pc' \in {"opened", "connect"}
  /\ UNCHANGED <<gvars, others>>

\* The inactivity timer restarts when a session opens and after every command.
Touch ==
  /\ pc \in {"opened", "touch"}
  /\ gesture_reset_inactivity_timer
  /\ pc' = "recv"
  /\ UNCHANGED others

\* session_recv or session_send fails: the peer is gone or silent too long.
SessionEnds ==
  /\ pc \in {"recv", "reply"}
  /\ pc' = "connect"
  /\ UNCHANGED <<gvars, others>>
-----------------------------------------------------------------------------
(* protocol_handle_one.                                                    *)

Recv(c) ==
  /\ pc = "recv"
  /\ pc' = "sample"
  /\ cmd' = c
  /\ UNCHANGED <<gvars, sem, result, device>>

\* A request that does not decode is answered without looking at the state.
Malformed ==
  /\ pc = "recv"
  /\ pc' = "reply"
  /\ UNCHANGED <<gvars, others>>

\* The gates, in their order; s is the state gesture_get_state returned.
GateErr(s) ==
  IF recovery
     /\ cmd \notin {"DEVICE_STATUS", "RESET_DEVICE", "UPDATE_FIRMWARE"}
  THEN "IDENTITY_MISMATCH"
  ELSE IF ~ storage_volume_trusted
          /\ cmd \notin {"DEVICE_STATUS", "UPDATE_FIRMWARE"}
  THEN "VOLUME_INVALID"
  ELSE IF /\ s = "LOCKED"
          /\ cmd \notin {"DEVICE_STATUS", "UPDATE_FIRMWARE"}
          /\ cmd = "RESET_DEVICE" => RESET_REQUIRES_UNLOCK
  THEN "DEVICE_LOCKED"
  ELSE IF cmd = "SIGN_CSR" /\ ~ provisioned
  THEN "NOT_PROVISIONED"
  ELSE IF cmd \in {"PROVISION_CA", "GEN_KEY"} /\ ~ storage_volume_may_mint
  THEN "VOLUME_INVALID"
  ELSE "OK"

\* The handler is done: its error code goes back to the peer.
Answer == pc' = "reply" /\ cmd' = "NONE"

\* gesture_get_state, then the gates on what it returned.
SampleState ==
  /\ pc = "sample"
  /\ gesture_get_state
  /\ IF GateErr(state') = "OK" THEN pc' = "handle" /\ cmd' = cmd ELSE Answer
  /\ UNCHANGED <<sem, result, device>>

\* Commands that neither ask for a tap nor call the gesture engine; also a
\* tap-gated one refused before the prompt, for its arguments or because
\* slot 0 already has a key.
HandlePlain ==
  /\ pc = "handle"
  /\ \/ cmd \in {"SIGN_CSR", "LIST_KEYS", "GEN_KEY", "PROTECT_SLOT"}
     \/ cmd = "PROVISION_CA" /\ provisioned
  /\ Answer
  /\ UNCHANGED <<gvars, sem, result, device>>

\* handle_device_status reads the state again, and may auto-lock.
HandleStatus ==
  /\ pc = "handle"
  /\ cmd = "DEVICE_STATUS"
  /\ gesture_get_state
  /\ Answer
  /\ UNCHANGED <<sem, result, device>>

\* Refused for its length, refused outside UNLOCKED, or applied.
HandleSetUnlockSeq(seq) ==
  /\ pc = "handle"
  /\ cmd = "SET_UNLOCK_SEQ"
  /\ gesture_set_unlock_seq(seq) \/ UNCHANGED gvars
  /\ Answer
  /\ UNCHANGED <<sem, result, device>>

\* await_protect_confirm up to k_sem_take.
HandleAsk ==
  /\ pc = "handle"
  /\ cmd \in {"PROTECT_SLOT", "PROVISION_CA"}
  /\ cmd = "PROVISION_CA" => ~ provisioned
  /\ \/ /\ Request("AWAITING_CONFIRM")
        /\ pc' = "await_confirm"
        /\ cmd' = cmd
     \/ /\ ~ MayRequest("AWAITING_CONFIRM")
        /\ Answer
        /\ UNCHANGED gvars
  /\ UNCHANGED <<sem, result, device>>

ConfirmTake ==
  /\ pc = "await_confirm"
  /\ \E v \in Results :
       /\ Take("protect_confirm_cb", v)
       /\ IF v = "OK" THEN pc' = "perform" /\ cmd' = cmd ELSE Answer
  /\ UNCHANGED <<gvars, device>>

\* What the tap was asked for; ca_provision checks again before it mints.
Perform ==
  /\ pc = "perform"
  /\ \/ provisioned' = provisioned
     \/ /\ cmd = "PROVISION_CA" /\ ~ provisioned /\ storage_volume_may_mint
        /\ provisioned' = TRUE
  /\ Answer
  /\ UNCHANGED <<gvars, sem, result, volume, recovery>>

\* handle_reset_device up to k_sem_take; the ACK is sent once the prompt is up.
HandleReset ==
  /\ pc = "handle"
  /\ cmd = "RESET_DEVICE"
  /\ \/ /\ Request("AWAITING_RESET")
        /\ pc' = "await_reset"
        /\ cmd' = cmd
     \/ /\ ~ MayRequest("AWAITING_RESET")
        /\ Answer
        /\ UNCHANGED gvars
  /\ UNCHANGED <<sem, result, device>>

ResetTake ==
  /\ pc = "await_reset"
  /\ \E v \in Results :
       /\ Take("reset_confirm_cb", v)
       /\ IF v = "OK" THEN pc' = "wipe" /\ cmd' = cmd ELSE Answer
  /\ UNCHANGED <<gvars, device>>

\* storage_secure_wipe: key slots, certificates, bonds and both unlock files;
\* the volume marker stays.
Wipe ==
  /\ pc = "wipe"
  /\ IF storage_volume_trusted
     THEN /\ flash' = [seq |-> NoSeq, attempts |-> 0]
          /\ provisioned' = FALSE
          /\ pc' = "wiped"
          /\ cmd' = "NONE"
     ELSE /\ Answer
          /\ UNCHANGED <<flash, provisioned>>
  /\ UNCHANGED <<ram, tapped_in, entered, sem, result, volume, recovery>>

\* handle_update_firmware acknowledges and reboots into the bootloader.
HandleUpdate ==
  /\ pc = "handle"
  /\ cmd = "UPDATE_FIRMWARE"
  /\ pc' = "update"
  /\ cmd' = "NONE"
  /\ UNCHANGED <<gvars, sem, result, device>>

Reply ==
  /\ pc = "reply"
  /\ pc' = "touch"
  /\ UNCHANGED <<gvars, others>>
-----------------------------------------------------------------------------
(* Reboots.  The session identity is minted again after a wipe.            *)

DeviceBoots ==
  /\ Reboot
  /\ pc' = "connect"
  /\ cmd' = "NONE"
  /\ sem' = [o \in Owners |-> 0]
  /\ result' = [o \in Owners |-> "OK"]
  /\ recovery' = (recovery /\ pc # "wiped")
  /\ UNCHANGED <<provisioned, volume>>

SysReboot == pc \in {"wiped", "update"} /\ DeviceBoots
PowerCycle == DeviceBoots
-----------------------------------------------------------------------------
(* The other contexts.                                                     *)

\* Mutant: the semaphore is given, the result is not stored.
CallbackRuns_no_result ==
  /\ Callback
  /\ IF wq.cb \in Owners
     THEN sem' = [sem EXCEPT ![wq.cb] = 1]
     ELSE UNCHANGED sem
  /\ UNCHANGED <<pc, cmd, result, device>>

\* protect_confirm_cb, reset_confirm_cb, pair_cb: store the result, give the
\* semaphore (whose limit is 1).
CallbackRuns ==
  /\ Callback
  /\ IF wq.cb \in Owners
     THEN /\ result' = [result EXCEPT ![wq.cb] = wq.res]
          /\ sem' = [sem EXCEPT ![wq.cb] = 1]
     ELSE UNCHANGED <<result, sem>>
  /\ UNCHANGED <<pc, cmd, device>>

Workqueue == DigitClose \/ ProcessSequence \/ Relock
             \/ \E a \in AwaitStates : PromptTimeout(a)

GestureRuns ==
  /\ TapDriver \/ Workqueue \/ Clock
  /\ UNCHANGED <<pc, others>>

MainRuns ==
  \/ PairLookup \/ PairAsk \/ PairTake \/ Bond \/ Touch \/ SampleState
  \/ HandlePlain \/ HandleStatus \/ HandleAsk \/ ConfirmTake \/ Perform
  \/ \E s \in HostSeqs : HandleSetUnlockSeq(s)
  \/ HandleReset \/ ResetTake \/ Wipe \/ HandleUpdate \/ Reply \/ SysReboot

Peer == Connect \/ Malformed \/ SessionEnds \/ \E c \in Cmds : Recv(c)

PNext == MainRuns \/ Peer \/ CallbackRuns \/ GestureRuns \/ PowerCycle

\* The main thread runs whenever it is not blocked, the workqueue delivers,
\* and an armed prompt timer expires.  Peer and user owe nothing.
PFairness ==
  /\ WF_vars(MainRuns)
  /\ WF_vars(CallbackRuns)
  /\ WF_vars(Relock /\ UNCHANGED <<pc, others>>)
  /\ WF_vars((\E a \in AwaitStates : PromptTimeout(a)) /\ UNCHANGED <<pc, others>>)

PSpec == PInit /\ [][PNext]_vars /\ PFairness
-----------------------------------------------------------------------------
(* Properties.                                                             *)

AwaitPcOf(owner) ==
  CASE owner = "protect_confirm_cb" -> "await_confirm"
    [] owner = "reset_confirm_cb"   -> "await_reset"
    [] owner = "pair_cb"            -> "await_pair"

\* The three places an answer for owner can be.
Pending(owner)  == pending_cb = owner
InFlight(owner) == wq.at = "callback" /\ wq.cb = owner
Given(owner)    == sem[owner] = 1

\* The main thread blocks on a semaphore exactly as long as its answer is
\* pending, in flight or given, and it is in one of these places only: no
\* wakeup is lost, and no give is left over for a later request to take.
Rendezvous ==
  \A o \in Owners :
    /\ pc = AwaitPcOf(o) <=> Pending(o) \/ InFlight(o) \/ Given(o)
    /\ ~ (Pending(o) /\ InFlight(o))
    /\ ~ (Pending(o) /\ Given(o))
    /\ ~ (InFlight(o) /\ Given(o))

\* Every command that was received is answered, or its session or the device
\* ends: no prompt holds the main thread for ever.
CommandEnds ==
  pc \in {"sample", "handle", "perform", "wipe", "reply"} \cup AwaitPcs
    ~> pc \in {"recv", "connect"}
-----------------------------------------------------------------------------
(* Refinement of Approval.                                                 *)

\* The prompt the main thread is in, by where it stands.
KindOf(at) ==
  CASE at \in {"await_confirm", "perform"} -> "AWAITING_CONFIRM"
    [] at \in {"await_reset", "wipe"}      -> "AWAITING_RESET"
    [] at \in {"await_pair", "bond"}       -> "AWAITING_PAIR"
    [] OTHER                               -> "none"

\* The answer is in flight on the workqueue, or stored for the main thread.
AnswerOf(owner) == IF InFlight(owner) THEN wq.res ELSE result[owner]

Verdict ==
  IF pc \in {"perform", "wipe", "bond"} THEN "approved"
  ELSE IF pc \notin AwaitPcs THEN "none"
  ELSE LET owner == CallbackOf(KindOf(pc))
       IN  IF Pending(owner) THEN "asked"
           ELSE IF AnswerOf(owner) = "OK" THEN "approved" ELSE "refused"

\* What was tapped under the prompt now shown to the user.
TappedNow ==
  IF Verdict # "asked" \/ buf = NoSeq THEN "nothing"
  ELSE IF buf = ApprovingSeq(state) THEN "approval" ELSE "other"

A == INSTANCE Approval WITH Kinds <- AwaitStates, kind <- KindOf(pc),
                            verdict <- Verdict, tapped <- TappedNow

\* Main thread, workqueue and tap driver together implement Approval: an
\* operation behind a prompt is carried out only after its own sequence was
\* tapped under that prompt and judged, and is given up only after a refusal
\* or a timeout; nothing but a reboot cuts this short.
ImplementsApproval == A!AInit /\ [][A!ANext \/ DeviceBoots]_(A!avars)
=============================================================================
