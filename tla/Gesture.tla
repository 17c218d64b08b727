------------------------------ MODULE Gesture ------------------------------
(***************************************************************************)
(* firmware/src/gesture/gesture.c: the tap-driven lock of the device.      *)
(*                                                                         *)
(* Three contexts share the state under gesture_mutex:                     *)
(*   - the tap driver, which calls gesture_report_tap;                     *)
(*   - the system workqueue, one thread, which runs the silence timeout    *)
(*     and the three prompt timeouts one at a time;                        *)
(*   - the main thread, which calls gesture_get_state, gesture_request_*,  *)
(*     gesture_set_unlock_seq and gesture_reset_inactivity_timer.          *)
(* One action is one critical section.  deliver_confirm drops the mutex    *)
(* around the callback, so a handler that delivers an answer is three      *)
(* sections: up to the unlock, the callback, and from the relock on.       *)
(*                                                                         *)
(* Data abstraction.  A closed sequence is a word: the fixed sequences are *)
(* constants, INVALID stands for every sequence holding DIGIT_INVALID.     *)
(* buf is the word the accumulator holds so far; a tap may turn it into    *)
(* any word.  Clocks are abstracted to whether they have run out.          *)
(***************************************************************************)
EXTENDS Integers

CONSTANTS
  Words,                  \* sequences a user can tap (no DIGIT_INVALID)
  HostSeqs,               \* sequences SET_UNLOCK_SEQ can carry
  INVALID,                \* any tapped sequence with DIGIT_INVALID in it
  NoSeq,                  \* empty accumulator
  SEQ_UNLOCK_DEFAULT, SEQ_LOCK, SEQ_PAIRING_TRIGGER, SEQ_CHANGE_SEQ_TRIGGER,
  SEQ_CONFIRM, SEQ_REHEARSE_PROTECT, SEQ_REHEARSE_RESET,
  GESTURE_REHEARSAL,      \* CONFIG_CANTIL_GESTURE_REHEARSAL
  RESET_REQUIRES_UNLOCK,  \* CONFIG_CANTIL_RESET_REQUIRES_UNLOCK
  RATE_LIMIT_THRESHOLD,   \* CONFIG_CANTIL_UNLOCK_RATE_LIMIT_THRESHOLD
  FlashMayFail,           \* whether a write to flash may leave the old file
  MaxFailures             \* bound: the user stops tapping after this many

ASSUME SequenceAssumption ==
  /\ {SEQ_UNLOCK_DEFAULT, SEQ_LOCK, SEQ_PAIRING_TRIGGER,
      SEQ_CHANGE_SEQ_TRIGGER, SEQ_CONFIRM} \subseteq Words
  /\ {SEQ_REHEARSE_PROTECT, SEQ_REHEARSE_RESET} \subseteq Words
  /\ INVALID \notin Words \cup HostSeqs
  /\ NoSeq \notin Words \cup HostSeqs \cup {INVALID}

ASSUME ConfigAssumption ==
  /\ {GESTURE_REHEARSAL, RESET_REQUIRES_UNLOCK, FlashMayFail} \subseteq BOOLEAN
  /\ RATE_LIMIT_THRESHOLD \in Nat
  /\ MaxFailures \in Nat

AwaitStates == {"AWAITING_CONFIRM", "AWAITING_RESET", "AWAITING_PAIR"}
States == {"LOCKED", "UNLOCKED", "PAIRING", "CHANGE_SEQ_CONFIRM",
           "CHANGE_SEQ_VERIFY"} \cup AwaitStates
Callbacks == {"protect_confirm_cb", "reset_confirm_cb", "pair_cb",
              "rehearsal_cb"}
Results == {"OK", "DENIED", "TIMEOUT"}

VARIABLES
  state,                \* static cantil_state_t state
  buf,                  \* digit_buf/digit_count/cur_taps: the word so far
  silence_phase,        \* 1: next silence closes the digit, 2: the sequence
  unlock_seq,           \* unlock_seq/unlock_seq_len
  forced_change_active,
  new_seq,              \* new_seq/new_seq_len; NoSeq once it is no longer read
  failure_count,
  lockout,              \* seconds of the lockout now running, 0 if none
  idle,                 \* last_activity_ms is INACTIVITY_TIMEOUT_SEC old
  pending_cb,           \* pending_cb, "NULL" if none
  pre_await_state,
  armed,                \* prompt timers that are scheduled or queued
  wq,                   \* workqueue: where a delivering handler stands
  tapper,               \* tap driver: "idle", or "passed" the lockout gate
  flash                 \* config_unlock_seq.bin, config_unlock_attempts.bin

\* History, read by no action: the states in which the taps of buf were
\* reported, and whether the unlock sequence was entered since LOCKED.
VARIABLES tapped_in, entered

ram  == <<state, buf, silence_phase, unlock_seq, forced_change_active,
          new_seq, failure_count, lockout, idle, pending_cb,
          pre_await_state, armed, wq, tapper>>
gvars == <<ram, flash, tapped_in, entered>>

WqType == [at : {"idle", "callback", "relock"}, cb : Callbacks \cup {"NULL"},
           res : Results, resets : BOOLEAN]
IdleWq == [at |-> "idle", cb |-> "NULL", res |-> "OK", resets |-> FALSE]

using_default_seq == unlock_seq = SEQ_UNLOCK_DEFAULT

\* Types; among them, that no sequence with DIGIT_INVALID in it is kept as a
\* candidate or becomes the unlock sequence through a tap.
TypeOK ==
  /\ state \in States
  /\ buf \in Words \cup {INVALID, NoSeq}
  /\ silence_phase \in 0..2
  /\ unlock_seq \in Words \cup HostSeqs
  /\ forced_change_active \in BOOLEAN
  /\ new_seq \in Words \cup {NoSeq}
  /\ failure_count \in Nat
  /\ lockout \in Nat
  /\ idle \in BOOLEAN
  /\ pending_cb \in Callbacks \cup {"NULL"}
  /\ pre_await_state \in {"LOCKED", "UNLOCKED"}
  /\ armed \subseteq AwaitStates
  /\ wq \in WqType
  /\ tapper \in {"idle", "passed"}
  /\ flash \in [seq : Words \cup HostSeqs \cup {NoSeq}, attempts : Nat]
  /\ tapped_in \subseteq States
  /\ entered \in BOOLEAN
-----------------------------------------------------------------------------
(* Boot: static initialisers and gesture_init, from what flash holds.      *)

BootSeq(f) == IF f.seq = NoSeq THEN SEQ_UNLOCK_DEFAULT ELSE f.seq

GInit ==
  /\ flash = [seq |-> NoSeq, attempts |-> 0]
  /\ state = "LOCKED"
  /\ buf = NoSeq
  /\ silence_phase = 0
  /\ unlock_seq = BootSeq(flash)
  /\ forced_change_active = FALSE
  /\ new_seq = NoSeq
  /\ failure_count = flash.attempts
  /\ lockout = 0
  /\ idle = FALSE
  /\ pending_cb = "NULL"
  /\ pre_await_state = "LOCKED"
  /\ armed = {}
  /\ wq = IdleWq
  /\ tapper = "idle"
  /\ tapped_in = {}
  /\ entered = FALSE

\* Power cycle or sys_reboot: RAM is lost, flash is kept.
Boot ==
  /\ state' = "LOCKED"
  /\ buf' = NoSeq
  /\ silence_phase' = 0
  /\ unlock_seq' = BootSeq(flash')
  /\ forced_change_active' = FALSE
  /\ new_seq' = NoSeq
  /\ failure_count' = flash'.attempts
  /\ lockout' = 0
  /\ idle' = FALSE
  /\ pending_cb' = "NULL"
  /\ pre_await_state' = "LOCKED"
  /\ armed' = {}
  /\ wq' = IdleWq
  /\ tapper' = "idle"
  /\ tapped_in' = {}
  /\ entered' = FALSE

Reboot == flash' = flash /\ Boot
-----------------------------------------------------------------------------
(* Helpers.                                                                *)

lockout_seconds_for_count(c) ==
  LET over == c - RATE_LIMIT_THRESHOLD
  IN  CASE over = 1 -> 10
        [] over = 2 -> 30
        [] over = 3 -> 120
        [] over = 4 -> 600
        [] OTHER -> 3600

\* write_file: the file holds the new content, or the old one if flash fails.
Written(old, new) == IF FlashMayFail THEN {old, new} ELSE {new}

\* Mutant: the lockout is chosen before the count goes up.
note_unlock_failure_late_tier ==
  /\ failure_count' = failure_count + 1
  /\ \E n \in Written(flash.attempts, failure_count + 1) :
       flash' = [flash EXCEPT !.attempts = n]
  /\ lockout' = IF failure_count + 1 > RATE_LIMIT_THRESHOLD
                THEN lockout_seconds_for_count(failure_count)
                ELSE lockout

\* Mutant: the count is not persisted.
note_unlock_failure_volatile ==
  /\ failure_count' = failure_count + 1
  /\ lockout' = IF failure_count + 1 > RATE_LIMIT_THRESHOLD
                THEN lockout_seconds_for_count(failure_count + 1)
                ELSE lockout
  /\ UNCHANGED flash

note_unlock_failure ==
  /\ failure_count' = failure_count + 1
  /\ \E n \in Written(flash.attempts, failure_count + 1) :
       flash' = [flash EXCEPT !.attempts = n]
  /\ lockout' = IF failure_count + 1 > RATE_LIMIT_THRESHOLD
                THEN lockout_seconds_for_count(failure_count + 1)
                ELSE lockout

note_unlock_success ==
  IF failure_count # 0
  THEN /\ failure_count' = 0
       /\ lockout' = 0
       /\ \E n \in Written(flash.attempts, 0) :
            flash' = [flash EXCEPT !.attempts = n]
  ELSE UNCHANGED <<failure_count, lockout, flash>>

reset_accumulator ==
  /\ buf' = NoSeq
  /\ silence_phase' = 0
  /\ tapped_in' = {}

\* deliver_confirm up to k_mutex_unlock; without a callback the mutex is kept
\* and nothing but the rest of the handler remains.
deliver_confirm(result, resets) ==
  /\ pending_cb' = "NULL"
  /\ wq' = [at     |-> IF pending_cb = "NULL" THEN "relock" ELSE "callback",
            cb     |-> pending_cb, res |-> result, resets |-> resets]
-----------------------------------------------------------------------------
(* The tap driver: gesture_report_tap, two critical sections.              *)

\* First section: a tap in LOCKED during a lockout is dropped.
TapGate ==
  /\ tapper = "idle"
  /\ failure_count < MaxFailures
  /\ ~ (state = "LOCKED" /\ lockout > 0)
  /\ tapper' = "passed"
  /\ UNCHANGED <<state, buf, silence_phase, unlock_seq, forced_change_active,
                 new_seq, failure_count, lockout, idle, pending_cb,
                 pre_await_state, armed, wq, flash, tapped_in, entered>>

\* Second section: the tap is accumulated, in whatever state it now is.
TapAccumulate(word) ==
  /\ tapper = "passed"
  /\ tapper' = "idle"
  /\ buf' = word
  /\ silence_phase' = 1
  /\ tapped_in' = tapped_in \cup {state}
  /\ UNCHANGED <<state, unlock_seq, forced_change_active, new_seq,
                 failure_count, lockout, idle, pending_cb, pre_await_state,
                 armed, wq, flash, entered>>
-----------------------------------------------------------------------------
(* The workqueue: silence_timeout_fn and process_sequence.                 *)

\* Phase 1: the digit is closed (close_digit_locked), the word stays open.
DigitClose ==
  /\ wq.at = "idle"
  /\ silence_phase = 1
  /\ silence_phase' = 2
  /\ UNCHANGED <<state, buf, unlock_seq, forced_change_active, new_seq,
                 failure_count, lockout, idle, pending_cb, pre_await_state,
                 armed, wq, tapper, flash, tapped_in, entered>>

\* Phase 2: process_sequence judges buf in state s.
SeqClosedIn(s) ==
  /\ wq.at = "idle"
  /\ silence_phase = 2
  /\ state = s

ProcessLocked ==
  /\ SeqClosedIn("LOCKED")
  /\ \/ /\ buf = unlock_seq
        /\ note_unlock_success
        /\ forced_change_active' = (using_default_seq \/ forced_change_active)
        /\ state' = IF using_default_seq THEN "CHANGE_SEQ_CONFIRM"
                                         ELSE "UNLOCKED"
        /\ entered' = TRUE
     \/ /\ buf # unlock_seq
        /\ note_unlock_failure
        /\ UNCHANGED <<forced_change_active, state, entered>>
  /\ reset_accumulator
  /\ UNCHANGED <<unlock_seq, new_seq, idle, pending_cb, pre_await_state,
                 armed, wq, tapper>>

\* The else-if chain of UNLOCKED tries the rehearsal sequences last.
RehearsalSeqs ==
  IF GESTURE_REHEARSAL
  THEN {SEQ_REHEARSE_PROTECT, SEQ_REHEARSE_RESET} \
       {SEQ_LOCK, SEQ_PAIRING_TRIGGER, SEQ_CHANGE_SEQ_TRIGGER}
  ELSE {}

ProcessUnlocked ==
  /\ SeqClosedIn("UNLOCKED")
  /\ buf \notin RehearsalSeqs
  /\ state' = IF buf = SEQ_LOCK                    THEN "LOCKED"
              ELSE IF buf = SEQ_PAIRING_TRIGGER    THEN "PAIRING"
              ELSE IF buf = SEQ_CHANGE_SEQ_TRIGGER THEN "CHANGE_SEQ_CONFIRM"
              ELSE "UNLOCKED"
  /\ entered' = (entered /\ buf # SEQ_LOCK)
  /\ reset_accumulator
  /\ UNCHANGED <<unlock_seq, forced_change_active, new_seq, failure_count,
                 lockout, idle, pending_cb, pre_await_state, armed, wq,
                 tapper, flash>>

\* The rehearsal branches: a prompt with no host behind it.  pre_await_state
\* is not assigned, so the reset rehearsal ends in whatever it last held.
ProcessRehearsal ==
  /\ SeqClosedIn("UNLOCKED")
  /\ buf \in RehearsalSeqs
  /\ pending_cb' = "rehearsal_cb"
  /\ state' = IF buf = SEQ_REHEARSE_PROTECT THEN "AWAITING_CONFIRM"
                                            ELSE "AWAITING_RESET"
  /\ armed' = armed \cup {state'}
  /\ reset_accumulator
  /\ UNCHANGED <<unlock_seq, forced_change_active, new_seq, failure_count,
                 lockout, idle, pre_await_state, wq, tapper, flash, entered>>

\* Mutant: without seq_has_invalid.
ProcessChangeSeqConfirm_unchecked ==
  /\ SeqClosedIn("CHANGE_SEQ_CONFIRM")
  /\ new_seq' = buf
  /\ state' = "CHANGE_SEQ_VERIFY"
  /\ reset_accumulator
  /\ UNCHANGED <<unlock_seq, forced_change_active, failure_count, lockout,
                 idle, pending_cb, pre_await_state, armed, wq, tapper, flash,
                 entered>>

ProcessChangeSeqConfirm ==
  /\ SeqClosedIn("CHANGE_SEQ_CONFIRM")
  /\ IF buf = INVALID
     THEN UNCHANGED <<state, new_seq>>
     ELSE /\ new_seq' = buf
          /\ state' = "CHANGE_SEQ_VERIFY"
  /\ reset_accumulator
  /\ UNCHANGED <<unlock_seq, forced_change_active, failure_count, lockout,
                 idle, pending_cb, pre_await_state, armed, wq, tapper, flash,
                 entered>>

\* A failed storage_unlock_seq_write is only logged.
ProcessChangeSeqVerify ==
  /\ SeqClosedIn("CHANGE_SEQ_VERIFY")
  /\ \/ /\ buf = new_seq
        /\ unlock_seq' = new_seq
        /\ \E w \in Written(flash.seq, new_seq) :
             flash' = [flash EXCEPT !.seq = w]
        /\ state' = "UNLOCKED"
        /\ UNCHANGED entered
     \/ /\ buf # new_seq
        /\ state' = IF forced_change_active THEN "LOCKED" ELSE "UNLOCKED"
        /\ entered' = (entered /\ ~ forced_change_active)
        /\ UNCHANGED <<unlock_seq, flash>>
  /\ forced_change_active' = FALSE
  /\ new_seq' = NoSeq
  /\ reset_accumulator
  /\ UNCHANGED <<failure_count, lockout, idle, pending_cb, pre_await_state,
                 armed, wq, tapper>>

\* PAIRING has no case in the switch: the word is dropped.
ProcessPairing ==
  /\ SeqClosedIn("PAIRING")
  /\ reset_accumulator
  /\ UNCHANGED <<state, unlock_seq, forced_change_active, new_seq,
                 failure_count, lockout, idle, pending_cb, pre_await_state,
                 armed, wq, tapper, flash, entered>>

\* The sequence that approves the prompt, and the state the prompt ends in.
ApprovingSeq(await) ==
  CASE await = "AWAITING_CONFIRM" -> SEQ_CONFIRM
    [] await = "AWAITING_RESET"   -> unlock_seq
    [] await = "AWAITING_PAIR"    -> SEQ_PAIRING_TRIGGER

\* Mutant: every prompt returns to UNLOCKED.
EndOf_unlocked(await) == "UNLOCKED"

EndOf(await) == IF await = "AWAITING_CONFIRM" THEN "UNLOCKED"
                                              ELSE pre_await_state

\* Mutant: the prompt's timer is left running.
ProcessAwaiting_timer_left(await) ==
  /\ SeqClosedIn(await)
  /\ state' = EndOf(await)
  /\ deliver_confirm(IF buf = ApprovingSeq(await) THEN "OK" ELSE "DENIED",
                     TRUE)
  /\ silence_phase' = 0
  /\ entered' = (entered /\ EndOf(await) # "LOCKED")
  /\ UNCHANGED <<buf, unlock_seq, forced_change_active, new_seq,
                 failure_count, lockout, idle, pre_await_state, armed, tapper,
                 flash, tapped_in>>

\* The three AWAITING_* cases: cancel the timer, answer OK or DENIED; the
\* accumulator is reset only after the callback has run.
ProcessAwaiting(await) ==
  /\ SeqClosedIn(await)
  /\ armed' = armed \ {await}
  /\ state' = EndOf(await)
  /\ deliver_confirm(IF buf = ApprovingSeq(await) THEN "OK" ELSE "DENIED",
                     TRUE)
  /\ silence_phase' = 0
  /\ entered' = (entered /\ EndOf(await) # "LOCKED")
  /\ UNCHANGED <<buf, unlock_seq, forced_change_active, new_seq,
                 failure_count, lockout, idle, pre_await_state, tapper, flash,
                 tapped_in>>
-----------------------------------------------------------------------------
(* The workqueue: prompt timeouts and the rest of a delivering handler.    *)

\* Mutant: the prompt ends without an answer to its owner.
PromptTimeout_silent(await) ==
  /\ wq.at = "idle"
  /\ await \in armed
  /\ armed' = armed \ {await}
  /\ IF state = await
     THEN /\ state' = EndOf(await)
          /\ pending_cb' = "NULL"
          /\ entered' = (entered /\ EndOf(await) # "LOCKED")
     ELSE UNCHANGED <<state, pending_cb, entered>>
  /\ UNCHANGED <<buf, silence_phase, unlock_seq, forced_change_active,
                 new_seq, failure_count, lockout, idle, pre_await_state, wq,
                 tapper, flash, tapped_in>>

\* confirm_timeout_fn, reset_timeout_fn, pair_timeout_fn.  The accumulator
\* is left as it is.
PromptTimeout(await) ==
  /\ wq.at = "idle"
  /\ await \in armed
  /\ armed' = armed \ {await}
  /\ IF state = await
     THEN /\ state' = EndOf(await)
          /\ deliver_confirm("TIMEOUT", FALSE)
          /\ entered' = (entered /\ EndOf(await) # "LOCKED")
     ELSE UNCHANGED <<state, pending_cb, wq, entered>>
  /\ UNCHANGED <<buf, silence_phase, unlock_seq, forced_change_active,
                 new_seq, failure_count, lockout, idle, pre_await_state,
                 tapper, flash, tapped_in>>

\* cb(result, data), with the mutex released.  What the callback changes
\* belongs to its owner.
Callback ==
  /\ wq.at = "callback"
  /\ wq' = [wq EXCEPT !.at = "relock"]
  /\ UNCHANGED <<state, buf, silence_phase, unlock_seq, forced_change_active,
                 new_seq, failure_count, lockout, idle, pending_cb,
                 pre_await_state, armed, tapper, flash, tapped_in, entered>>

\* k_mutex_lock again; silence_timeout_fn then resets the accumulator.
Relock ==
  /\ wq.at = "relock"
  /\ wq' = IdleWq
  /\ IF wq.resets THEN reset_accumulator
                  ELSE UNCHANGED <<buf, silence_phase, tapped_in>>
  /\ UNCHANGED <<state, unlock_seq, forced_change_active, new_seq,
                 failure_count, lockout, idle, pending_cb, pre_await_state,
                 armed, tapper, flash, entered>>
-----------------------------------------------------------------------------
(* The main thread's calls.                                                *)

MayRequest(await) ==
  /\ pending_cb = "NULL"
  /\ \/ state = "UNLOCKED"
     \/ state = "LOCKED" /\ await = "AWAITING_PAIR"
     \/ state = "LOCKED" /\ await = "AWAITING_RESET" /\ ~ RESET_REQUIRES_UNLOCK

CallbackOf(await) ==
  CASE await = "AWAITING_CONFIRM" -> "protect_confirm_cb"
    [] await = "AWAITING_RESET"   -> "reset_confirm_cb"
    [] await = "AWAITING_PAIR"    -> "pair_cb"

\* Mutant: what was tapped before the prompt stays in the accumulator.
Request_keeps_taps(await) ==
  /\ MayRequest(await)
  /\ pending_cb' = CallbackOf(await)
  /\ pre_await_state' = IF await = "AWAITING_CONFIRM" THEN pre_await_state
                                                      ELSE state
  /\ state' = await
  /\ armed' = armed \cup {await}
  /\ UNCHANGED <<buf, silence_phase, unlock_seq, forced_change_active, new_seq,
                 failure_count, lockout, idle, wq, tapper, flash, tapped_in,
                 entered>>

\* gesture_request_confirm, gesture_request_reset and
\* gesture_request_pair_confirm when they return 0.
Request(await) ==
  /\ MayRequest(await)
  /\ pending_cb' = CallbackOf(await)
  /\ pre_await_state' = IF await = "AWAITING_CONFIRM" THEN pre_await_state
                                                      ELSE state
  /\ reset_accumulator
  /\ state' = await
  /\ armed' = armed \cup {await}
  /\ UNCHANGED <<unlock_seq, forced_change_active, new_seq, failure_count,
                 lockout, idle, wq, tapper, flash, entered>>

\* gesture_get_state: the only place that looks at the inactivity timer.
AutoLocks == state = "UNLOCKED" /\ idle

gesture_get_state ==
  /\ state' = IF AutoLocks THEN "LOCKED" ELSE state
  /\ entered' = (entered /\ ~ AutoLocks)
  /\ UNCHANGED <<buf, silence_phase, unlock_seq, forced_change_active,
                 new_seq, failure_count, lockout, idle, pending_cb,
                 pre_await_state, armed, wq, tapper, flash, tapped_in>>

gesture_reset_inactivity_timer ==
  /\ idle' = FALSE
  /\ UNCHANGED <<state, buf, silence_phase, unlock_seq, forced_change_active,
                 new_seq, failure_count, lockout, pending_cb,
                 pre_await_state, armed, wq, tapper, flash, tapped_in, entered>>

\* gesture_set_unlock_seq with a length that fits: RAM first, then flash.
gesture_set_unlock_seq(seq) ==
  /\ state = "UNLOCKED"
  /\ unlock_seq' = seq
  /\ \E w \in Written(flash.seq, seq) : flash' = [flash EXCEPT !.seq = w]
  /\ UNCHANGED <<state, buf, silence_phase, forced_change_active, new_seq,
                 failure_count, lockout, idle, pending_cb, pre_await_state,
                 armed, wq, tapper, tapped_in, entered>>
-----------------------------------------------------------------------------
(* Clocks.                                                                 *)

LockoutElapses ==
  /\ lockout > 0
  /\ lockout' = 0
  /\ UNCHANGED <<state, buf, silence_phase, unlock_seq, forced_change_active,
                 new_seq, failure_count, idle, pending_cb, pre_await_state,
                 armed, wq, tapper, flash, tapped_in, entered>>

InactivityElapses ==
  /\ ~ idle
  /\ idle' = TRUE
  /\ UNCHANGED <<state, buf, silence_phase, unlock_seq, forced_change_active,
                 new_seq, failure_count, lockout, pending_cb,
                 pre_await_state, armed, wq, tapper, flash, tapped_in, entered>>
-----------------------------------------------------------------------------
\* gesture.c with a main thread that calls it in any order.
TapDriver == TapGate \/ \E w \in Words \cup {INVALID} : TapAccumulate(w)

ProcessSequence ==
  \/ ProcessLocked \/ ProcessUnlocked \/ ProcessRehearsal
  \/ ProcessChangeSeqConfirm \/ ProcessChangeSeqVerify \/ ProcessPairing
  \/ \E a \in AwaitStates : ProcessAwaiting(a)

Clock == LockoutElapses \/ InactivityElapses

MainCalls ==
  \/ \E a \in AwaitStates : Request(a)
  \/ gesture_get_state
  \/ gesture_reset_inactivity_timer
  \/ \E s \in HostSeqs : gesture_set_unlock_seq(s)

GNext ==
  \/ TapDriver \/ DigitClose \/ ProcessSequence
  \/ \E a \in AwaitStates : PromptTimeout(a)
  \/ Callback \/ Relock \/ MainCalls \/ Clock \/ Reboot

\* The workqueue is a cooperative thread and its timers expire.
WorkqueueFairness ==
  /\ WF_gvars(Callback) /\ WF_gvars(Relock)
  /\ WF_gvars(\E a \in AwaitStates : PromptTimeout(a))

GSpec == GInit /\ [][GNext]_gvars /\ WorkqueueFairness
-----------------------------------------------------------------------------
(* Properties.                                                             *)

\* A callback is pending exactly while a prompt is shown, and the prompt's own
\* timer, and no other, is running: no prompt can wait for ever, and no timer
\* left by an earlier prompt can end a later one.
PromptBacked ==
  /\ pending_cb # "NULL" <=> state \in AwaitStates
  /\ armed = {state} \cap AwaitStates

\* A sequence judged against a prompt was tapped entirely under that prompt:
\* taps made before it was shown are never part of an answer, however the
\* request falls between two taps or between a tap and its silence.
PromptTapsAreFresh ==
  state \in AwaitStates /\ buf # NoSeq => tapped_in = {state}

\* No chain of prompts, timeouts, answers and auto-locks leads out of LOCKED
\* without the unlock sequence: the state a prompt returns to is the one it
\* was opened in.
UnlockedOnlyAfterSequence ==
  \/ entered
  \/ state = "LOCKED"
  \/ state \in {"AWAITING_RESET", "AWAITING_PAIR"} /\ pre_await_state = "LOCKED"

\* A running lockout is the tier of the current failure count, and there is
\* none at or below the threshold.
LockoutMatchesCount ==
  lockout > 0 =>
    /\ failure_count > RATE_LIMIT_THRESHOLD
    /\ lockout = lockout_seconds_for_count(failure_count)

\* While flash accepts writes, a power cycle loses neither the failure count
\* nor the unlock sequence.
FlashAgreesWithRam ==
  ~ FlashMayFail =>
    /\ flash.attempts = failure_count
    /\ unlock_seq = BootSeq(flash)

\* The failure ramp only ever goes up by one, or back to zero in the step that
\* accepts the unlock sequence: not by a prompt, a tap, the host or a reboot.
RampStep ==
  \/ failure_count' \in {failure_count, failure_count + 1}
  \/ failure_count' = 0 /\ state = "LOCKED" /\ buf = unlock_seq
RampOnlyClearedByUnlock == [][~ FlashMayFail => RampStep]_gvars

\* No sequence is judged in LOCKED while a lockout runs: its taps would have
\* been dropped by the gate of gesture_report_tap.
LockoutStep ==
  state = "LOCKED" /\ lockout > 0 =>
    /\ failure_count' = failure_count
    /\ state' \notin {"UNLOCKED", "CHANGE_SEQ_CONFIRM"}
LockoutHolds == [][LockoutStep]_gvars
-----------------------------------------------------------------------------
(* The inductive invariant.                                                *)

\* An empty accumulator remembers no taps.
EmptyBufHasNoTaps == buf = NoSeq => tapped_in = {}

\* A sequence about to be closed has digits, and so has the one that
\* CHANGE_SEQ_VERIFY compares with.
SequenceAtHand ==
  /\ silence_phase # 0 => buf # NoSeq
  /\ state = "CHANGE_SEQ_VERIFY" => new_seq \in Words

GInv ==
  /\ TypeOK
  /\ SequenceAtHand
  /\ PromptBacked
  /\ EmptyBufHasNoTaps
  /\ PromptTapsAreFresh
  /\ UnlockedOnlyAfterSequence
  /\ LockoutMatchesCount
=============================================================================
