------------------------------ MODULE Channel ------------------------------
(***************************************************************************)
(* What a session promises its two ends: each gets the messages of the     *)
(* other in the order they were sent, none twice, and none after one it    *)
(* missed.  How many of them arrive is not promised.                       *)
(***************************************************************************)
EXTENDS Sequences, Naturals

CONSTANTS Sessions, Messages

VARIABLE log   \* what each end of each session has sent and accepted

Ends == {"host", "device"}
Peer(end) == IF end = "host" THEN "device" ELSE "host"

ChanInit ==
  log = [s \in Sessions |-> [end \in Ends |-> [sent |-> <<>>, got |-> <<>>]]]

Send(s, end) ==
  \E m \in Messages : log' = [log EXCEPT ![s][end].sent = Append(@, m)]

\* The next message in line, as long as there is one.
Accept(s, end) ==
  LET sent == log[s][Peer(end)].sent
      got  == log[s][end].got
  IN  /\ Len(got) < Len(sent)
      /\ log' = [log EXCEPT ![s][end].got = Append(@, sent[Len(got) + 1])]

ChanNext == \E s \in Sessions, end \in Ends : Send(s, end) \/ Accept(s, end)

ChanSpec == ChanInit /\ [][ChanNext]_log
=============================================================================
