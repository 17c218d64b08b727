------------------------------ MODULE Approval ------------------------------
(***************************************************************************)
(* What the gesture engine and the main thread together promise about the  *)
(* operations that need the user: protecting a slot, provisioning the CA,  *)
(* resetting the device, pairing a client.  One operation is under         *)
(* consideration at a time; it is performed only after the user, while     *)
(* being asked about it, tapped exactly the sequence that approves it; a   *)
(* wrong sequence or silence refuses it.                                   *)
(***************************************************************************)
CONSTANT Kinds   \* kinds of operation the user is asked about

VARIABLES
  kind,     \* the operation under consideration, "none" if there is none
  verdict,  \* "asked", "approved" or "refused"; "none" without an operation
  tapped    \* what the user has tapped since being asked: "nothing",
            \* "approval" (the approving sequence) or "other"

avars == <<kind, verdict, tapped>>

AInit == kind = "none" /\ verdict = "none" /\ tapped = "nothing"

Ask(k) ==
  /\ kind = "none"
  /\ kind' = k
  /\ verdict' = "asked"
  /\ tapped' = "nothing"

\* A tap, or the loss of what was tapped so far; never a gain without a tap
\* made while being asked.
UserTaps ==
  /\ verdict = "asked"
  /\ tapped' \in {"nothing", "approval", "other"}
  /\ UNCHANGED <<kind, verdict>>

Approve ==
  /\ verdict = "asked"
  /\ tapped = "approval"
  /\ verdict' = "approved"
  /\ tapped' = "nothing"
  /\ UNCHANGED kind

Refuse ==
  /\ verdict = "asked"
  /\ verdict' = "refused"
  /\ tapped' = "nothing"
  /\ UNCHANGED kind

\* The operation is carried out: only once approved.
Perform == verdict = "approved" /\ AInit'

\* It is given up: only once refused.
Drop == verdict = "refused" /\ AInit'

\* Power is lost at any moment; nothing stays under consideration.
PowerLoss == AInit'

ANext == (\E k \in Kinds : Ask(k)) \/ UserTaps \/ Approve \/ Refuse
         \/ Perform \/ Drop

ASpec == AInit /\ [][ANext \/ PowerLoss]_avars
=============================================================================
