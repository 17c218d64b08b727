-------------------------------- MODULE Link --------------------------------
(***************************************************************************)
(* The USB link between libcantil and the device: the port and its DTR     *)
(* line, the device's receive ring, the framing, the Noise XX handshake    *)
(* and the two nonce counters of the transport phase, with the host's      *)
(* timeouts and the main loop that brings the device back to a new         *)
(* handshake.                                                              *)
(*                                                                         *)
(* A frame is a record.  Cryptography is its contract: a transcript hash   *)
(* is the sequence of what was mixed in, a MAC verifies iff both sides     *)
(* have the same one, and the keys of a session are the transcript they    *)
(* were split from.                                                        *)
(***************************************************************************)
EXTENDS Naturals, Sequences

CONSTANTS
  RING,          \* frames the receive ring (RX_RING_SIZE) can hold
  MaxOpens,      \* bound: handshakes the host starts
  MaxRequests,   \* bound: requests it sends
  None           \* no frame, no session

VARIABLES
  dtr,           \* the host holds the port open
  connected,     \* transport_usb.c: the device's view of dtr
  ring,          \* frames in the device's receive ring
  tty,           \* frames on their way to the host, or in its tty buffer
  hpc, hs,       \* libcantil: where the caller is; struct cantil_session
  asked,         \* the request whose answer the host is waiting for
  nopens, nreqs, \* handshakes and requests so far
  dpc, ds,       \* main.c: where the loop is; the one session of the pool
  doing,         \* the request the device is carrying out
  polled,        \* raw_recv_exact: the last poll of the ring found it empty
  neph,          \* ephemeral keys the device has used to answer a msg1
  log,           \* history: what each end of each session sent and accepted
  calm,          \* history: in the host's session nothing was given up, and
                 \* no request had more than one answer
  clean,         \* history: the device has been listening since the host
                 \* drained the port, and neither of them turned away
  dropped,       \* history: the last drain threw away frames of this session
  answer         \* history: the last answer accepted, and the request asked

hostvars == <<hpc, hs, asked, nopens, nreqs>>
devvars  == <<connected, dpc, ds, doing, polled, neph>>
history  == <<log, calm, clean, dropped, answer>>
vars     == <<dtr, ring, tty, hostvars, devvars, history>>

Requests == 1..MaxRequests
Torn     == [kind |-> "torn"]

(***************************************************************************)
(* The Noise layer.                                                        *)
(***************************************************************************)
sym_init == <<"PROTOCOL_NAME">>
mix_hash(h, x) == Append(h, x)

\* e, ee, s, es: what both ends have mixed in before the MAC of msg2 ...
AfterMsg2(h, d) == mix_hash(mix_hash(h, d), "device static")
\* ... and, with s, se, before the MAC of msg3.
AfterMsg3(h) == mix_hash(h, "host static")

Sessions ==
  {AfterMsg3(AfterMsg2(mix_hash(sym_init, e), d)) : e, d \in 1..MaxOpens}

ASSUME LinkAssumption ==
  /\ RING \in Nat \ {0} /\ MaxOpens \in Nat /\ MaxRequests \in Nat
  /\ None \notin Sessions /\ None \notin Requests

\* The cipher states split from the final transcript, at nonce zero.
split(h) == [h |-> h, key |-> h, tx |-> 0, rx |-> 0]

Handshake(h) == [h |-> h, key |-> None, tx |-> 0, rx |-> 0]
Closed == Handshake(<<>>)

\* The transcript of a device that took 32 stray bytes for a msg1.
Noise == mix_hash(sym_init, "torn")

Msg1(e)     == [kind |-> "msg1", e |-> e]
Msg2(d, h)  == [kind |-> "msg2", d |-> d, mac |-> h]
Msg3(h)     == [kind |-> "msg3", mac |-> h]
Data(s, m)  == [kind |-> "data", key |-> s.key, n |-> s.tx, body |-> m]

\* Mutant: a receiver that skips over the nonces it missed.
OpensLater(s, f) ==
  f.kind = "data" /\ s.key # None /\ f.key = s.key /\ f.n >= s.rx

\* The MAC of a transport frame verifies under this key and nonce only.
Opens(s, f) == f.kind = "data" /\ s.key # None /\ f.key = s.key /\ f.n = s.rx

Sealed(s) == [s EXCEPT !.tx = @ + 1]
Opened(s) == [s EXCEPT !.rx = @ + 1]

Sent(end, s, m) == [log EXCEPT ![s.key][end].sent = Append(@, m)]
Got(end, s, m)  == [log EXCEPT ![s.key][end].got = Append(@, m)]

(***************************************************************************)
(* The wire.                                                               *)
(***************************************************************************)
\* Mutant: the interrupt handler does not look at the space left.
OverrunsRing(f) == ring' = Append(ring, f)

\* The receive interrupt: of a frame that does not fit, the part that does is
\* put behind the others, or nothing.
Arrives(f) ==
  IF Len(ring) < RING
  THEN ring' = Append(ring, f)
  ELSE \/ ring' = ring
       \/ Len(ring) = RING /\ ring' = Append(ring, Torn)

\* uart_poll_out never fails: with nobody at the port the bytes stay in the
\* endpoint for the next reader, or are lost.
usb_send(f) ==
  \/ tty' = Append(tty, f)
  \/ ~dtr /\ tty' = tty

(***************************************************************************)
(* libcantil.                                                              *)
(***************************************************************************)
LinkInit ==
  /\ dtr = FALSE /\ connected = FALSE /\ ring = <<>> /\ tty = <<>>
  /\ hpc = "closed" /\ hs = Closed /\ asked = None /\ nopens = 0 /\ nreqs = 0
  /\ dpc = "idle" /\ ds = Closed /\ doing = None /\ polled = FALSE /\ neph = 0
  /\ log = [s \in Sessions |-> [end \in {"host", "device"} |-> [sent |-> <<>>, got |-> <<>>]]]
  /\ calm = TRUE /\ clean = FALSE /\ dropped = FALSE /\ answer = <<None, None>>

\* tcflush drops what has reached the host; the rest comes in afterwards.
cantil_transport_open_usb ==
  /\ hpc = "closed" /\ nopens < MaxOpens
  /\ dtr' = TRUE /\ tty' \in {<<>>, tty}
  /\ hpc' = "open" /\ nopens' = nopens + 1
  /\ UNCHANGED <<ring, hs, asked, nreqs, devvars, history>>

\* Mutant: msg1 is sent without draining the port first.
drain_transport_skipped ==
  /\ hpc = "open"
  /\ hpc' = "flushed" /\ clean' = (dpc = "msg1" /\ ring = <<>>)
  /\ UNCHANGED <<dtr, ring, tty, hs, asked, nopens, nreqs, devvars, log, calm, dropped, answer>>

\* cantil_session_open throws away what is left of earlier sessions ...
drain_transport ==
  /\ hpc = "open"
  /\ tty' = <<>>
  /\ hpc' = "flushed" /\ clean' = (dpc = "msg1" /\ ring = <<>>)
  /\ UNCHANGED <<dtr, ring, hs, asked, nopens, nreqs, devvars, log, calm, dropped, answer>>

\* ... and sends msg1; what arrives in between is there when it listens.
SendMsg1 ==
  /\ hpc = "flushed"
  /\ hs' = Handshake(mix_hash(sym_init, nopens))
  /\ Arrives(Msg1(nopens))
  /\ hpc' = "msg2"
  /\ calm' = TRUE /\ dropped' = FALSE /\ answer' = <<None, None>>
  /\ UNCHANGED <<dtr, tty, asked, nopens, nreqs, devvars, log, clean>>

\* The caller closes the port after any failure to open the session.
usb_close ==
  /\ hpc' = "closed" /\ dtr' = FALSE /\ hs' = Closed /\ asked' = None

\* From msg2 to Split: the trust policy is applied before msg3 tells the
\* device who is calling.
TakeMsg2 ==
  /\ hpc = "msg2" /\ tty # <<>>
  /\ tty' = Tail(tty)
  /\ LET f == Head(tty)
     IN  \/ /\ f.kind = "msg2" /\ f.mac = AfterMsg2(hs.h, f.d)
            /\ Arrives(Msg3(AfterMsg3(f.mac)))
            /\ hs' = split(AfterMsg3(f.mac))
            /\ hpc' = "ready"
            /\ UNCHANGED <<dtr, asked>>
         \/ /\ ~(f.kind = "msg2" /\ f.mac = AfterMsg2(hs.h, f.d))
            /\ usb_close /\ UNCHANGED ring
  /\ UNCHANGED <<nopens, nreqs, devvars, history>>

PolicyRefuses ==
  /\ hpc = "msg2" /\ tty # <<>> /\ Head(tty).kind = "msg2"
  /\ Head(tty).mac = AfterMsg2(hs.h, Head(tty).d)
  /\ tty' = Tail(tty) /\ usb_close /\ clean' = FALSE
  /\ UNCHANGED <<ring, nopens, nreqs, devvars, log, calm, dropped, answer>>

\* The device answers msg1 within milliseconds, the host waits seconds.
Msg2TimesOut ==
  /\ hpc = "msg2" /\ tty = <<>>
  /\ ~(dpc = "msg1" /\ ring # <<>>)
  /\ usb_close
  /\ UNCHANGED <<ring, tty, nopens, nreqs, devvars, history>>

\* cantil_do_request_to drains before it sends ...
cantil_session_drain ==
  /\ hpc = "ready" /\ nreqs < MaxRequests
  /\ dropped' = \E i \in DOMAIN tty : tty[i].kind = "data" /\ tty[i].key = hs.key
  /\ tty' = <<>> /\ hpc' = "drained"
  /\ UNCHANGED <<dtr, ring, hs, asked, nopens, nreqs, devvars, log, calm, clean, answer>>

\* ... and what arrives in between is there when it listens.
cantil_session_send ==
  /\ hpc = "drained"
  /\ nreqs' = nreqs + 1 /\ asked' = nreqs'
  /\ Arrives(Data(hs, nreqs')) /\ hs' = Sealed(hs)
  /\ log' = Sent("host", hs, nreqs')
  /\ hpc' = "wait"
  /\ UNCHANGED <<dtr, tty, nopens, devvars, calm, clean, dropped, answer>>

\* Every request has sequence number 1, so any answer matches it.
cantil_session_recv_to ==
  /\ hpc = "wait" /\ tty # <<>>
  /\ tty' = Tail(tty)
  /\ IF Opens(hs, Head(tty))
     THEN /\ hs' = Opened(hs)
          /\ log' = Got("host", hs, Head(tty).body)
          /\ answer' = <<asked, Head(tty).body>>
     ELSE UNCHANGED <<hs, log, answer>>
  /\ hpc' = "ready" /\ asked' = None
  /\ UNCHANGED <<dtr, ring, nopens, nreqs, devvars, calm, clean, dropped>>

\* CANTIL_ERR_IO: the caller may go on using the session.
RequestTimesOut ==
  /\ hpc = "wait" /\ tty = <<>>
  /\ hpc' = "ready" /\ asked' = None /\ calm' = FALSE
  /\ UNCHANGED <<dtr, ring, tty, hs, nopens, nreqs, devvars, log, clean, dropped, answer>>

cantil_session_close ==
  /\ hpc # "closed"
  /\ usb_close /\ clean' = FALSE
  /\ UNCHANGED <<ring, tty, nopens, nreqs, devvars, log, calm, dropped, answer>>

\* A caller that keeps the port and opens another session on it.
SessionOnOpenPort ==
  /\ hpc = "ready" /\ nopens < MaxOpens
  /\ hpc' = "open" /\ hs' = Closed /\ nopens' = nopens + 1
  /\ UNCHANGED <<dtr, ring, tty, asked, nreqs, devvars, history>>

Host ==
  \/ cantil_transport_open_usb \/ drain_transport \/ SendMsg1 \/ TakeMsg2
  \/ PolicyRefuses \/ Msg2TimesOut \/ cantil_session_drain \/ cantil_session_send
  \/ cantil_session_recv_to \/ RequestTimesOut \/ cantil_session_close
  \/ SessionOnOpenPort

(***************************************************************************)
(* The device's main loop.                                                 *)
(***************************************************************************)
\* The line-state callback and the periodic check both copy DTR.
update_connected ==
  /\ connected # dtr /\ connected' = dtr
  /\ UNCHANGED <<dtr, ring, tty, hostvars, dpc, ds, doing, polled, neph, history>>

\* transport_usb_flush_rx, which may cut a frame that is still coming in, then
\* session_open up to its wait for msg1.
Listen ==
  /\ dpc = "idle" /\ connected
  /\ ring' = <<>> \/ (ring # <<>> /\ ring' = <<Torn>>)
  /\ dpc' = "msg1"
  /\ UNCHANGED <<dtr, tty, hostvars, connected, ds, doing, polled, neph, history>>

\* session_close and every failure path: the pool slot is zeroed and freed.
session_close == dpc' = "idle" /\ ds' = Closed /\ doing' = None /\ polled' = FALSE

Waits == {"msg1", "msg3", "passkey", "cmd"}

\* raw_recv_exact polls the ring and finds nothing ...
PollsEmpty ==
  /\ dpc \in Waits /\ ring = <<>> /\ ~polled
  /\ polled' = TRUE
  /\ UNCHANGED <<dtr, ring, tty, hostvars, connected, dpc, ds, doing, neph, history>>

\* Mutant: the wait for msg3 has no deadline.
LinkLostUnlessMsg3 ==
  /\ dpc \in Waits \ {"msg3"} /\ polled
  /\ session_close /\ clean' = (clean /\ dpc # "msg1")
  /\ UNCHANGED <<dtr, ring, tty, hostvars, connected, neph, log, calm, dropped, answer>>

\* ... and then the host has gone or RECV_TIMEOUT_MS is over, whatever has
\* arrived since the poll.
LinkLost ==
  /\ dpc \in Waits /\ polled
  /\ session_close /\ clean' = (clean /\ dpc # "msg1")
  /\ UNCHANGED <<dtr, ring, tty, hostvars, connected, neph, log, calm, dropped, answer>>

\* A msg1 is whatever has 32 bytes: of the whole frames that is a msg1 only,
\* but a torn one may be filled up by what follows it.  No msg2 is sent when the
\* device cannot encode its own chain.
TakeMsg1 ==
  /\ dpc = "msg1" /\ ring # <<>>
  /\ ring' = Tail(ring)
  /\ LET f == Head(ring)
         h == AfterMsg2(mix_hash(sym_init, f.e), neph + 1)
     IN  \/ /\ f.kind = "msg1"
            /\ neph' = neph + 1 /\ ds' = Handshake(h)
            /\ usb_send(Msg2(neph + 1, h))
            /\ dpc' = "msg3" /\ polled' = FALSE /\ UNCHANGED <<doing, clean>>
         \/ /\ f = Torn
            /\ ds' = Handshake(Noise) /\ usb_send(Msg2(0, Noise))
            /\ dpc' = "msg3" /\ polled' = FALSE /\ UNCHANGED <<doing, neph, clean>>
         \/ /\ session_close /\ clean' = (clean /\ f.kind # "msg1")
            /\ UNCHANGED <<tty, neph>>
  /\ UNCHANGED <<dtr, hostvars, connected, log, calm, dropped, answer>>

TakeMsg3 ==
  /\ dpc = "msg3" /\ ring # <<>>
  /\ ring' = Tail(ring)
  /\ IF Head(ring) = Msg3(AfterMsg3(ds.h))
     THEN ds' = split(AfterMsg3(ds.h)) /\ dpc' = "gate" /\ polled' = FALSE /\ UNCHANGED doing
     ELSE session_close
  /\ UNCHANGED <<dtr, tty, hostvars, connected, neph, history>>

\* pairing_check_and_bond, which may wait for a tap or ask for a passkey.
PairingGate ==
  /\ dpc = "gate"
  /\ \/ dpc' \in {"cmd", "passkey"} /\ UNCHANGED <<ds, doing, polled>>
     \/ session_close
  /\ UNCHANGED <<dtr, ring, tty, hostvars, connected, neph, history>>

\* A request to protocol_handle_one or, in a buffer that only the passkey fits,
\* to passkey_exchange_and_bond.
session_recv ==
  /\ dpc \in {"cmd", "passkey"} /\ ring # <<>>
  /\ ring' = Tail(ring)
  /\ \/ /\ Opens(ds, Head(ring))
        /\ ds' = Opened(ds) /\ doing' = Head(ring).body /\ polled' = FALSE
        /\ dpc' = (IF dpc = "cmd" THEN "busy" ELSE "verdict")
        /\ log' = Got("device", ds, Head(ring).body)
     \/ /\ ~Opens(ds, Head(ring)) \/ dpc = "passkey"
        /\ session_close /\ UNCHANGED log
  /\ UNCHANGED <<dtr, tty, hostvars, connected, neph, calm, clean, dropped, answer>>

\* session_send: the nonce is spent whether or not anybody reads the frame.
session_send ==
  /\ usb_send(Data(ds, doing)) /\ ds' = Sealed(ds)
  /\ log' = Sent("device", ds, doing)

\* Mutant: a handler that answers and then falls through to a second answer.
RespondTwice ==
  /\ dpc = "busy" /\ session_send
  /\ dpc' \in {"busy", "cmd"} /\ doing' = (IF dpc' = "busy" THEN doing ELSE None)
  /\ UNCHANGED <<dtr, ring, hostvars, connected, polled, neph, calm, clean, dropped, answer>>

Respond ==
  /\ dpc = "busy" /\ session_send
  /\ dpc' = "cmd" /\ doing' = None
  /\ UNCHANGED <<dtr, ring, hostvars, connected, polled, neph, calm, clean, dropped, answer>>

\* The answer to the passkey, after which a client that was refused is cut off.
PasskeyVerdict ==
  /\ dpc = "verdict" /\ session_send
  /\ dpc' \in {"cmd", "refused"} /\ doing' = None
  /\ UNCHANGED <<dtr, ring, hostvars, connected, polled, neph, calm, clean, dropped, answer>>

PairingRefused ==
  /\ dpc = "refused" /\ session_close
  /\ UNCHANGED <<dtr, ring, tty, hostvars, connected, neph, history>>

\* RESET_DEVICE acknowledges first and then waits for the tap ...
RespondToReset ==
  /\ dpc = "busy" /\ session_send
  /\ dpc' = "reset"
  /\ UNCHANGED <<dtr, ring, hostvars, connected, doing, polled, neph, calm, clean, dropped, answer>>

\* ... and answers the same request again when none comes.
ResetDenied ==
  /\ dpc = "reset" /\ session_send
  /\ dpc' = "cmd" /\ doing' = None
  /\ calm' = (calm /\ ds.key # hs.key)
  /\ UNCHANGED <<dtr, ring, hostvars, connected, polled, neph, clean, dropped, answer>>

\* A reset that goes ahead ends in a reboot.
Reboot ==
  /\ dpc = "reset" /\ session_close
  /\ ring' = <<>> /\ connected' = FALSE
  /\ UNCHANGED <<dtr, tty, hostvars, neph, history>>

\* An answer that cannot be encoded ends the session unsent.
NoResponse ==
  /\ dpc = "busy" /\ session_close
  /\ UNCHANGED <<dtr, ring, tty, hostvars, connected, neph, history>>

Device ==
  \/ update_connected \/ Listen \/ PollsEmpty \/ LinkLost \/ TakeMsg1 \/ TakeMsg3
  \/ PairingGate \/ session_recv \/ Respond \/ PasskeyVerdict \/ PairingRefused
  \/ RespondToReset \/ ResetDenied \/ Reboot \/ NoResponse

LinkNext == Host \/ Device

\* The device's main thread keeps running, and a prompt it waits in ends.
LinkSpec == LinkInit /\ [][LinkNext]_vars /\ WF_vars(Device)

-----------------------------------------------------------------------------
(***************************************************************************)
(* Properties.                                                             *)
(***************************************************************************)
\* The type of the link's state.  The ring never overruns: it holds RING frames
\* and the beginning of one more.  A request is outstanding exactly while the
\* host waits for its answer, and the device has one in hand exactly while a
\* handler runs.
LinkTypeOK ==
  /\ hpc \in {"closed", "open", "flushed", "msg2", "ready", "drained", "wait"}
  /\ dpc \in Waits \cup {"idle", "gate", "busy", "verdict", "refused", "reset"}
  /\ polled \in BOOLEAN
  /\ Len(ring) <= RING + 1
  /\ hs.key \in Sessions \cup {None} /\ ds.key \in Sessions \cup {None}
  /\ (hpc = "wait") = (asked # None)
  /\ (dpc \in {"busy", "verdict", "reset"}) = (doing # None)

\* Frames dropped by the ring, drained, flushed, answered twice or left over
\* from an aborted session never reach the code above the session layer out
\* of order: the link implements the ordered channel.
Chan == INSTANCE Channel WITH Messages <- Requests
OrderedChannel == Chan!ChanSpec

\* As long as the host gave up no request in this session, and none had a
\* second answer, cantil_do_request returns the answer to the request it
\* sent, although all requests carry the same sequence number.
AnswersItsRequest == calm => answer[1] = answer[2]

\* A handshake is never lost to what an earlier session left in the ring, in
\* the endpoint or at the host.  When the device listens, on an empty ring, from
\* the host's drain until it takes msg1, cantil_session_open fails only because
\* the trust policy refuses the device, the caller gives up, or the device
\* cannot encode its chain.  (A device whose wait for msg1 runs out meanwhile
\* loses the message: it flushes the ring before it listens again.)
FreshHandshakeWorks ==
  [][ hpc = "msg2" /\ hpc' = "closed" => ~clean' ]_vars

\* A host that goes away, at whatever moment, never leaves the device stuck
\* in its session.
DeviceComesBack == (dpc # "idle") ~> (dpc = "idle" \/ hpc # "closed")

\* The comment at the drain in cantil_do_request_to: the device is silent
\* until the request is sent, so what is drained is never this session's.
DrainIsSafe == ~dropped
=============================================================================
