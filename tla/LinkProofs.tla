---------------------------- MODULE LinkProofs -----------------------------
(***************************************************************************)
(* Link implements Channel: for every size of the ring, and any number of  *)
(* handshakes and requests, what the two ends of a session accept is what  *)
(* the other end sent, in order and without a gap.                         *)
(*                                                                         *)
(* The argument: a transport frame in flight is on record, with its nonce  *)
(* as its place in what its sender sent (Recorded); the nonce counters of  *)
(* an open session are the lengths of its logs (Counted); and the keys of  *)
(* a session are new when they are split, since each end mixes in an       *)
(* ephemeral key it has never used (Fresh).                                *)
(***************************************************************************)
EXTENDS LinkFrames

(* What a step does to the logs. *)

Ends == {"host", "device"}

\* One message more at one end of one session, the rest as it was.
Grown(k, end, field, m) ==
  /\ k \in Sessions /\ m \in Requests
  /\ log' = IF field = "sent" THEN [log EXCEPT ![k][end].sent = Append(@, m)]
                             ELSE [log EXCEPT ![k][end].got = Append(@, m)]

Elsewhere(k, end) ==
  \A k2 \in Sessions, end2 \in Ends : k2 # k \/ end2 # end => log'[k2][end2] = log[k2][end2]

\* What one message more changes, and what it does not.
LEMMA GrownFacts ==
  ASSUME Logs, NEW k, NEW m, NEW end \in Ends, NEW field \in {"sent", "got"}, Grown(k, end, field, m)
  PROVE  /\ Logs'
         /\ field = "sent" => log'[k][end].sent = Append(log[k][end].sent, m)
                              /\ log'[k][end].got = log[k][end].got
         /\ field = "got"  => log'[k][end].got = Append(log[k][end].got, m)
                              /\ log'[k][end].sent = log[k][end].sent
         /\ Elsewhere(k, end)
<1> DEFINE R == [sent : Seq(Requests), got : Seq(Requests)]
           old == log[k][end]
<1>0. /\ log \in [Sessions -> [Ends -> R]] /\ log[k] \in [Ends -> R] /\ old \in R
      /\ k \in Sessions /\ m \in Requests
  BY DEF Logs, Grown, Ends
<1>1. CASE field = "sent"
  <2> DEFINE r == [old EXCEPT !.sent = Append(old.sent, m)]
             f == [log[k] EXCEPT ![end] = r]
  <2>1. r \in R /\ r.sent = Append(old.sent, m) /\ r.got = old.got
    BY <1>0, SeqAppend, Zenon
  <2>2. log' = [log EXCEPT ![k] = f]
    BY <1>1 DEF Grown
  <2> HIDE DEF r
  <2>3. f \in [Ends -> R] /\ f[end] = r /\ \A end2 \in Ends : end2 # end => f[end2] = log[k][end2]
    BY <1>0, <2>1
  <2> HIDE DEF f
  <2>4. /\ log' \in [Sessions -> [Ends -> R]] /\ log'[k] = f
        /\ \A k2 \in Sessions : k2 # k => log'[k2] = log[k2]
    BY <1>0, <2>2, <2>3
  <2> QED
    BY <1>1, <2>1, <2>3, <2>4 DEF Logs, Ends, Elsewhere
<1>2. CASE field = "got"
  <2> DEFINE r == [old EXCEPT !.got = Append(old.got, m)]
             f == [log[k] EXCEPT ![end] = r]
  <2>1. r \in R /\ r.got = Append(old.got, m) /\ r.sent = old.sent
    BY <1>0, SeqAppend, Zenon
  <2>2. log' = [log EXCEPT ![k] = f]
    BY <1>2 DEF Grown
  <2> HIDE DEF r
  <2>3. f \in [Ends -> R] /\ f[end] = r /\ \A end2 \in Ends : end2 # end => f[end2] = log[k][end2]
    BY <1>0, <2>1
  <2> HIDE DEF f
  <2>4. /\ log' \in [Sessions -> [Ends -> R]] /\ log'[k] = f
        /\ \A k2 \in Sessions : k2 # k => log'[k2] = log[k2]
    BY <1>0, <2>2, <2>3
  <2> QED
    BY <1>2, <2>1, <2>3, <2>4 DEF Logs, Ends, Elsewhere
<1> QED
  BY <1>1, <1>2, Zenon

\* The same, for each kind of message.
LEMMA GrownSent ==
  ASSUME Logs, NEW k, NEW m, NEW end \in Ends, Grown(k, end, "sent", m)
  PROVE  /\ Elsewhere(k, end) /\ m \in Requests /\ log[k][end].sent \in Seq(Requests)
         /\ log'[k][end].sent = Append(log[k][end].sent, m)
         /\ log'[k][end].got = log[k][end].got
<1>1. m \in Requests /\ log[k][end].sent \in Seq(Requests)
  BY DEF Logs, Grown, Ends
<1> QED
  BY <1>1, GrownFacts, Zenon

\* And for the messages accepted.
LEMMA GrownGot ==
  ASSUME Logs, NEW k, NEW m, NEW end \in Ends, Grown(k, end, "got", m)
  PROVE  /\ Elsewhere(k, end) /\ m \in Requests /\ log[k][end].got \in Seq(Requests)
         /\ log'[k][end].got = Append(log[k][end].got, m)
         /\ log'[k][end].sent = log[k][end].sent
<1>1. m \in Requests /\ log[k][end].got \in Seq(Requests)
  BY DEF Logs, Grown, Ends
<1> QED
  BY <1>1, GrownFacts, Zenon

\* The four steps that change the logs are those of an end whose session is
\* open.  The host's request goes into the log of its session.
LEMMA SendsRequest ==
  ASSUME LInv, cantil_session_send
  PROVE  hs \in Open /\ Grown(hs.key, "host", "sent", nreqs')
<1>1. hs \in Open /\ hs.key \in Sessions
  BY DEF LInv, HostState, HostIn, Open, cantil_session_send
<1> QED
  BY <1>1, HostSends DEF cantil_session_send, Sent, Grown

\* The host accepts a frame that opens under its session.
LEMMA AcceptsResponse ==
  ASSUME LInv, cantil_session_recv_to, Opens(hs, Head(tty))
  PROVE  hs \in Open /\ Grown(hs.key, "host", "got", Head(tty).body)
<1>1. Head(tty) \in DeviceFrames
  BY SeqHeadTail DEF LInv, Ports, cantil_session_recv_to
<1>2. Head(tty).body \in Requests
  BY <1>1 DEF Opens, DeviceFrames, DataFrames, Msg2
<1>3. hs \in Open /\ hs.key \in Sessions
  BY DEF LInv, HostState, HostIn, Open, cantil_session_recv_to
<1> QED
  BY <1>2, <1>3 DEF cantil_session_recv_to, Got, Grown

\* The device's response goes into the log of its session.
LEMMA SendsResponse ==
  ASSUME LInv, session_send, dpc \in Handling
  PROVE  ds \in Open /\ Grown(ds.key, "device", "sent", doing)
<1>1. ds \in Open /\ ds.key \in Sessions /\ doing \in Requests
  BY DEF LInv, DeviceState, DeviceIn, Handling, Open
<1> QED
  BY <1>1 DEF session_send, Sent, Grown

\* The device accepts a frame that opens under its session.
LEMMA AcceptsRequest ==
  ASSUME LInv, session_recv, dpc' # "idle"
  PROVE  /\ Opens(ds, Head(ring)) /\ ds' = Opened(ds) /\ dpc' \in {"busy", "verdict"}
         /\ ds \in Open /\ Grown(ds.key, "device", "got", Head(ring).body)
<1>0. /\ Opens(ds, Head(ring)) /\ ds' = Opened(ds) /\ dpc' \in {"busy", "verdict"}
      /\ log' = Got("device", ds, Head(ring).body)
  BY DEF session_recv, session_close
<1>1. Head(ring) \in HostFrames
  BY SeqHeadTail DEF LInv, Ports, session_recv
<1>2. Head(ring).body \in Requests
  BY <1>0, <1>1 DEF Opens, HostFrames, DataFrames, Torn
<1>3. ds \in Open /\ ds.key \in Sessions
  BY DEF LInv, DeviceState, DeviceIn, Open, session_recv
<1> QED
  BY <1>0, <1>2, <1>3 DEF Got, Grown

\* No other step changes the logs.
LEMMA LogSteps ==
  ASSUME [LinkNext]_vars
  PROVE  \/ log' = log
         \/ cantil_session_send
         \/ cantil_session_recv_to /\ Opens(hs, Head(tty))
         \/ session_send /\ dpc \in Handling /\ Device
         \/ session_recv /\ dpc' # "idle"
<1>1. CASE cantil_session_send \/ cantil_session_recv_to \/ session_recv
  BY <1>1 DEF cantil_session_recv_to, session_recv, session_close
<1>2. CASE Respond \/ PasskeyVerdict \/ RespondToReset \/ ResetDenied
  BY <1>2 DEF Respond, PasskeyVerdict, RespondToReset, ResetDenied, Device, Handling
<1>3. CASE \/ cantil_transport_open_usb \/ drain_transport \/ SendMsg1 \/ TakeMsg2 \/ PolicyRefuses
           \/ Msg2TimesOut \/ cantil_session_drain \/ RequestTimesOut
           \/ cantil_session_close \/ SessionOnOpenPort
  BY <1>3, Zenon DEF cantil_transport_open_usb, drain_transport, SendMsg1, TakeMsg2, PolicyRefuses, Msg2TimesOut,
     cantil_session_drain, RequestTimesOut, cantil_session_close, SessionOnOpenPort, history
<1>4. CASE \/ update_connected \/ Listen \/ PollsEmpty \/ LinkLost \/ TakeMsg1 \/ TakeMsg3
           \/ PairingGate \/ PairingRefused \/ Reboot \/ NoResponse
  BY <1>4 DEF update_connected, Listen, PollsEmpty, LinkLost, TakeMsg1, TakeMsg3, PairingGate,
     PairingRefused, Reboot, NoResponse, history
<1> QED
  BY <1>1, <1>2, <1>3, <1>4 DEF LinkNext, Host, Device, vars, history

\* Whatever step changes the logs adds one message.
LEMMA LogChanges ==
  ASSUME LInv, [LinkNext]_vars
  PROVE  \/ log' = log
         \/ \E k, m : \E end \in Ends, field \in {"sent", "got"} : Grown(k, end, field, m)
BY LogSteps, SendsRequest, AcceptsResponse, SendsResponse, AcceptsRequest DEF Ends

\* The logs hold requests and nothing else.
LEMMA LogsStep == LInv /\ [LinkNext]_vars => Logs'
<1> SUFFICES ASSUME LInv, [LinkNext]_vars PROVE Logs'
  OBVIOUS
<1>1. CASE log' = log
  BY <1>1 DEF LInv, Logs
<1>2. CASE \E k, m : \E end \in Ends, field \in {"sent", "got"} : Grown(k, end, field, m)
  BY <1>2, GrownFacts, Zenon DEF LInv
<1> QED
  BY <1>1, <1>2, LogChanges

\* The same, with a name for the result.
LEMMA AppendKeeps ==
  ASSUME NEW S, NEW a \in Seq(S), NEW m \in S, NEW b, b = Append(a, m)
  PROVE  /\ b \in Seq(S) /\ Len(a) \in Nat /\ Len(b) \in Nat /\ Len(b) = Len(a) + 1
         /\ \A i \in 1..Len(a) : b[i] = a[i]
         /\ b[Len(a) + 1] = m
BY SeqAppend

\* What was sent stays on record.
LEMMA SentStays ==
  ASSUME LInv, [LinkNext]_vars, NEW k \in Sessions, NEW end \in Ends
  PROVE  /\ log[k][end].sent \in Seq(Requests) /\ log'[k][end].sent \in Seq(Requests)
         /\ Len(log[k][end].sent) <= Len(log'[k][end].sent)
         /\ \A i \in 1..Len(log[k][end].sent) : log'[k][end].sent[i] = log[k][end].sent[i]
<1>1. log[k][end].sent \in Seq(Requests) /\ log'[k][end].sent \in Seq(Requests)
  BY LogsStep DEF LInv, Logs, Ends
<1>2. CASE log'[k][end].sent = log[k][end].sent
  BY <1>1, <1>2
<1>3. CASE \E m \in Requests : log'[k][end].sent = Append(log[k][end].sent, m)
  <2> DEFINE a == log[k][end].sent
             b == log'[k][end].sent
  <2>1. PICK m \in Requests : b = Append(a, m)
    BY <1>3
  <2>2. a \in Seq(Requests)
    BY <1>1
  <2> HIDE DEF a, b
  <2>3. Len(a) \in Nat /\ Len(b) = Len(a) + 1 /\ \A i \in 1..Len(a) : b[i] = a[i]
    BY <2>1, <2>2, AppendKeeps
  <2>4. Len(a) <= Len(b)
    BY <2>3
  <2> QED
    BY <1>1, <2>3, <2>4 DEF a, b
<1>4. CASE log' = log
  BY <1>2, <1>4
<1>5. ASSUME NEW k2, NEW m, NEW end2 \in Ends, NEW field \in {"sent", "got"}, Grown(k2, end2, field, m)
      PROVE  \/ log'[k][end].sent = log[k][end].sent
             \/ \E m2 \in Requests : log'[k][end].sent = Append(log[k][end].sent, m2)
  <2>1. m \in Requests
    BY <1>5 DEF Grown
  <2>2. CASE k2 = k /\ end2 = end
    <3>1. CASE field = "sent"
      BY <1>5, <2>1, <2>2, <3>1, GrownSent, Zenon DEF LInv
    <3>2. CASE field = "got"
      BY <1>5, <2>2, <3>2, GrownGot, Zenon DEF LInv
    <3> QED
      BY <3>1, <3>2
  <2>3. CASE ~(k2 = k /\ end2 = end)
    <3>1. Elsewhere(k2, end2)
      BY <1>5, GrownFacts, Zenon DEF LInv
    <3> QED
      BY <2>3, <3>1 DEF Elsewhere
  <2> QED
    BY <2>2, <2>3
<1> QED
  BY <1>2, <1>3, <1>4, <1>5, LogChanges

\* A frame sealed with the nonce its session is at is on record once it is sent.
LEMMA NewOnRecord ==
  ASSUME Logs, NEW end \in Ends, NEW k, NEW n, NEW m, n = Len(log[k][end].sent),
         Grown(k, end, "sent", m)
  PROVE  n < Len(log'[k][end].sent) /\ m = log'[k][end].sent[n + 1]
<1> DEFINE a == log[k][end].sent
           b == log'[k][end].sent
<1>1. a \in Seq(Requests) /\ m \in Requests
  BY DEF Logs, Grown, Ends
<1>2. b = Append(a, m)
  BY GrownSent, Zenon
<1>3. n = Len(a)
  OBVIOUS
<1> HIDE DEF a, b
<1>4. Len(a) \in Nat /\ Len(b) = Len(a) + 1 /\ b[Len(a) + 1] = m
  BY <1>1, <1>2, AppendKeeps
<1>5. n < Len(b) /\ m = b[n + 1]
  BY <1>3, <1>4
<1> QED
  BY <1>5 DEF a, b

\* A frame in flight stays on record, and a new one is put there.
LEMMA RecordedStep == LInv /\ [LinkNext]_vars => Recorded'
<1> SUFFICES ASSUME LInv, [LinkNext]_vars PROVE Recorded'
  OBVIOUS
<1>0. ring \in Seq(HostFrames) /\ tty \in Seq(DeviceFrames) /\ Logs /\ Recorded /\ Counted
  BY DEF LInv, Ports
<1>1. ASSUME NEW f \in DataFrames, NEW end \in Ends, OnRecord(f, end)
      PROVE  /\ f.n < Len(log'[f.key][end].sent)
             /\ f.body = log'[f.key][end].sent[f.n + 1]
  <2>1. f.key \in Sessions /\ f.n \in Nat
    BY DEF DataFrames
  <2> DEFINE a == log[f.key][end].sent
             b == log'[f.key][end].sent
  <2>2. /\ a \in Seq(Requests) /\ b \in Seq(Requests) /\ Len(a) <= Len(b)
        /\ \A i \in 1..Len(a) : b[i] = a[i]
    BY <2>1, SentStays
  <2>3. f.n < Len(a) /\ f.body = a[f.n + 1]
    BY <1>1 DEF OnRecord
  <2> HIDE DEF a, b
  <2>4. Len(a) \in Nat /\ Len(b) \in Nat
    BY <2>2
  <2>5. f.n < Len(b) /\ f.n + 1 \in 1..Len(a)
    BY <2>1, <2>2, <2>3, <2>4
  <2>6. f.n < Len(b) /\ f.body = b[f.n + 1]
    BY <2>2, <2>3, <2>5
  <2> QED
    BY <2>6 DEF a, b
<1>2. ASSUME NEW i \in 1..Len(ring'), ring'[i].kind = "data"
      PROVE  /\ ring'[i].n < Len(log'[ring'[i].key]["host"].sent)
             /\ ring'[i].body = log'[ring'[i].key]["host"].sent[ring'[i].n + 1]
  <2>1. PICK t \in {0, 1} : Shifted(t)
    BY RingFacts
  <2>2. CASE i + t \in 1..Len(ring) /\ ring'[i] = ring[i + t]
    <3>1. ring[i + t] \in HostFrames /\ ring[i + t].kind = "data"
      BY <1>0, <1>2, <2>2
    <3>2. ring[i + t] \in DataFrames
      BY <3>1 DEF HostFrames, Torn
    <3>3. OnRecord(ring[i + t], "host")
      BY <1>0, <2>2, <3>1 DEF Recorded
    <3> QED
      BY <1>1, <2>2, <3>2, <3>3 DEF Ends
  <2>3. CASE ring'[i] = Data(hs, nreqs') /\ cantil_session_send
    <3>1. hs.tx = Len(log[hs.key]["host"].sent)
      BY <1>0, <2>3 DEF Counted, Counts, HostIn, cantil_session_send
    <3>2. /\ hs.tx < Len(log'[hs.key]["host"].sent)
          /\ nreqs' = log'[hs.key]["host"].sent[hs.tx + 1]
      BY <1>0, <2>3, <3>1, SendsRequest, NewOnRecord, Zenon DEF Ends
    <3> QED
      BY <2>3, <3>2 DEF Data
  <2> QED
    BY <1>2, <2>1, <2>2, <2>3 DEF Shifted, Msg1
<1>3. ASSUME NEW i \in 1..Len(tty'), tty'[i].kind = "data"
      PROVE  /\ tty'[i].n < Len(log'[tty'[i].key]["device"].sent)
             /\ tty'[i].body = log'[tty'[i].key]["device"].sent[tty'[i].n + 1]
  <2>1. CASE \E k \in 1..Len(tty) : tty'[i] = tty[k]
    <3>1. PICK k \in 1..Len(tty) : tty'[i] = tty[k]
      BY <2>1
    <3>2. tty[k] \in DeviceFrames /\ tty[k].kind = "data"
      BY <1>0, <1>3, <3>1
    <3>3. tty[k] \in DataFrames
      BY <3>2 DEF DeviceFrames, Msg2
    <3>4. OnRecord(tty[k], "device")
      BY <1>0, <3>2 DEF Recorded
    <3> QED
      BY <1>1, <3>1, <3>3, <3>4 DEF Ends
  <2>2. CASE tty'[i] = Data(ds, doing) /\ session_send /\ dpc \in Handling
    <3>1. ds.tx = Len(log[ds.key]["device"].sent)
      BY <1>0, <2>2 DEF Counted, Counts, DeviceIn, Handling
    <3>2. /\ ds.tx < Len(log'[ds.key]["device"].sent)
          /\ doing = log'[ds.key]["device"].sent[ds.tx + 1]
      BY <1>0, <2>2, <3>1, SendsResponse, NewOnRecord, Zenon DEF Ends
    <3> QED
      BY <2>2, <3>2 DEF Data
  <2> QED
    BY <1>3, <2>1, <2>2, TtyFacts
<1> QED
  BY <1>2, <1>3 DEF Recorded, OnRecord

-----------------------------------------------------------------------------
(* The nonces, and the keys nobody has used yet. *)

\* Sealing and opening a frame keep the nonces in step with the logs.
LEMMA KeepsCount ==
  ASSUME Logs, NEW end \in Ends, NEW s \in Open, NEW t, NEW m, Counts(s, end),
         \/ t = Sealed(s) /\ Grown(s.key, end, "sent", m)
         \/ t = Opened(s) /\ Grown(s.key, end, "got", m)
  PROVE  /\ t.key = s.key
         /\ t.tx = Len(log'[t.key][end].sent) /\ t.rx = Len(log'[t.key][end].got)
<1> DEFINE k == s.key
<1>0. k \in Sessions /\ s.tx = Len(log[k][end].sent) /\ s.rx = Len(log[k][end].got)
  BY DEF Open, Counts
<1>1. log[k][end].sent \in Seq(Requests) /\ log[k][end].got \in Seq(Requests)
  BY <1>0 DEF Logs, Ends
<1>2. CASE t = Sealed(s) /\ Grown(k, end, "sent", m)
  <2>1. t.key = k /\ t.tx = s.tx + 1 /\ t.rx = s.rx
    BY <1>2 DEF Sealed, Open
  <2> HIDE DEF k
  <2>m. m \in Requests
    BY <1>2 DEF Grown
  <2>2. log'[k][end].sent = Append(log[k][end].sent, m) /\ log'[k][end].got = log[k][end].got
    BY <1>2, GrownSent, Zenon
  <2>3. Len(log'[k][end].sent) = Len(log[k][end].sent) + 1
    BY <1>1, <2>m, <2>2, AppendKeeps
  <2> QED
    BY <1>0, <2>1, <2>2, <2>3 DEF k
<1>3. CASE t = Opened(s) /\ Grown(k, end, "got", m)
  <2>1. t.key = k /\ t.rx = s.rx + 1 /\ t.tx = s.tx
    BY <1>3 DEF Opened, Open
  <2> HIDE DEF k
  <2>m. m \in Requests
    BY <1>3 DEF Grown
  <2>2. log'[k][end].got = Append(log[k][end].got, m) /\ log'[k][end].sent = log[k][end].sent
    BY <1>3, GrownGot, Zenon
  <2>3. Len(log'[k][end].got) = Len(log[k][end].got) + 1
    BY <1>1, <2>m, <2>2, AppendKeeps
  <2> QED
    BY <1>0, <2>1, <2>2, <2>3 DEF k
<1> QED
  BY <1>2, <1>3

\* A step leaves the host's logs alone, or is one of its open session; and the
\* host's session is the one it had, or one just split.
HostKeeps ==
  /\ \A k \in Sessions : log'[k]["host"] = log[k]["host"]
  /\ hpc' \in HostIn =>
       /\ nopens' = nopens
       /\ \/ hpc \in HostIn /\ hs' = hs
          \/ hpc = "msg2" /\ \E d \in Eph : hs' = split(Key(nopens, d))
HostUses ==
  /\ hpc \in HostIn /\ hpc' \in HostIn /\ nopens' = nopens /\ hs'.key = hs.key
  /\ hs'.tx = Len(log'[hs'.key]["host"].sent) /\ hs'.rx = Len(log'[hs'.key]["host"].got)
  /\ \A k \in Sessions : k # hs.key => log'[k]["host"] = log[k]["host"]

\* What any step does to the host's session and logs.
LEMMA HostLog == LInv /\ [LinkNext]_vars => HostKeeps \/ HostUses
<1> SUFFICES ASSUME LInv, [LinkNext]_vars PROVE HostKeeps \/ HostUses
  OBVIOUS
<1>0. Logs /\ (hpc \in HostIn => Counts(hs, "host"))
  BY DEF LInv, Counted
<1>1. CASE cantil_session_send
  <2>1. hpc \in HostIn /\ hpc' \in HostIn /\ nopens' = nopens /\ hs' = Sealed(hs)
    BY <1>1 DEF cantil_session_send, HostIn
  <2>2. hs \in Open /\ Grown(hs.key, "host", "sent", nreqs')
    BY <1>1, SendsRequest
  <2>e. Elsewhere(hs.key, "host")
    BY <1>0, <2>2, GrownSent, Zenon DEF Ends
  <2>3. \A k \in Sessions : k # hs.key => log'[k]["host"] = log[k]["host"]
    BY <2>e DEF Elsewhere, Ends
  <2>4. /\ hs'.key = hs.key
        /\ hs'.tx = Len(log'[hs'.key]["host"].sent) /\ hs'.rx = Len(log'[hs'.key]["host"].got)
    BY <1>0, <2>1, <2>2, KeepsCount DEF Ends
  <2> QED
    BY <2>1, <2>3, <2>4 DEF HostUses
<1>2. CASE cantil_session_recv_to /\ Opens(hs, Head(tty))
  <2>1. hpc \in HostIn /\ hpc' \in HostIn /\ nopens' = nopens /\ hs' = Opened(hs)
    BY <1>2 DEF cantil_session_recv_to, HostIn
  <2>2. hs \in Open /\ Grown(hs.key, "host", "got", Head(tty).body)
    BY <1>2, AcceptsResponse
  <2>e. Elsewhere(hs.key, "host")
    BY <1>0, <2>2, GrownGot, Zenon DEF Ends
  <2>3. \A k \in Sessions : k # hs.key => log'[k]["host"] = log[k]["host"]
    BY <2>e DEF Elsewhere, Ends
  <2>4. /\ hs'.key = hs.key
        /\ hs'.tx = Len(log'[hs'.key]["host"].sent) /\ hs'.rx = Len(log'[hs'.key]["host"].got)
    BY <1>0, <2>1, <2>2, KeepsCount DEF Ends
  <2> QED
    BY <2>1, <2>3, <2>4 DEF HostUses
<1>3. CASE UNCHANGED hostvars
  <2>1. \A k \in Sessions : log'[k]["host"] = log[k]["host"]
    <3>1. CASE session_send /\ dpc \in Handling
      <4>1. Elsewhere(ds.key, "device")
        BY <1>0, <3>1, SendsResponse, GrownSent, Zenon DEF Ends
      <4> QED
        BY <4>1 DEF Elsewhere, Ends
    <3>2. CASE session_recv /\ dpc' # "idle"
      <4>1. Elsewhere(ds.key, "device")
        BY <1>0, <3>2, AcceptsRequest, GrownGot, Zenon DEF Ends
      <4> QED
        BY <4>1 DEF Elsewhere, Ends
    <3> QED
      BY <1>3, <3>1, <3>2, LogSteps DEF hostvars, cantil_session_send, cantil_session_recv_to
  <2> QED
    BY <1>3, <2>1 DEF HostKeeps, hostvars
<1>4. CASE TakeMsg2
  <2>1. CASE Head(tty).kind = "msg2" /\ Head(tty).mac = AfterMsg2(hs.h, Head(tty).d)
    BY <1>4, <2>1, Msg3Sent DEF TakeMsg2, HostKeeps, history
  <2>2. CASE ~(Head(tty).kind = "msg2" /\ Head(tty).mac = AfterMsg2(hs.h, Head(tty).d))
    BY <1>4, <2>2 DEF TakeMsg2, usb_close, HostIn, HostKeeps, history
  <2> QED
    BY <2>1, <2>2
<1>5. CASE log' = log /\ hpc' \in {"open", "flushed", "msg2", "closed"}
  BY <1>5 DEF HostIn, HostKeeps
<1>6. CASE cantil_transport_open_usb \/ drain_transport \/ SendMsg1 \/ SessionOnOpenPort
  BY <1>5, <1>6 DEF cantil_transport_open_usb, drain_transport, SendMsg1, SessionOnOpenPort, history
<1>7. CASE PolicyRefuses \/ Msg2TimesOut \/ cantil_session_close
  BY <1>5, <1>7 DEF PolicyRefuses, Msg2TimesOut, cantil_session_close, usb_close, history
<1>8. CASE \/ cantil_session_drain \/ RequestTimesOut
           \/ cantil_session_recv_to /\ ~Opens(hs, Head(tty))
  BY <1>8, Zenon DEF cantil_session_drain, RequestTimesOut, cantil_session_recv_to, HostIn, HostKeeps
<1> QED
  BY <1>1, <1>2, <1>3, <1>4, <1>6, <1>7, <1>8, Sides DEF LinkNext, Host, vars

\* The same for the device, whose sessions are split on msg3.
DeviceKeeps ==
  /\ \A k \in Sessions : log'[k]["device"] = log[k]["device"]
  /\ neph' = neph \/ (neph' = neph + 1 /\ dpc' = "msg3")
  /\ dpc' = "msg3" => (dpc = "msg3" /\ ds' = ds) \/ neph' = neph + 1 \/ ds' = Handshake(Noise)
  /\ dpc' \in DeviceIn =>
       /\ neph' = neph
       /\ \/ dpc \in DeviceIn /\ ds' = ds
          \/ /\ dpc = "msg3" /\ ds # Handshake(Noise)
             /\ \E e \in Eph : ds' = split(Key(e, neph))
DeviceUses ==
  /\ dpc \in DeviceIn /\ dpc' \in DeviceIn /\ neph' = neph /\ ds'.key = ds.key
  /\ ds'.tx = Len(log'[ds'.key]["device"].sent) /\ ds'.rx = Len(log'[ds'.key]["device"].got)
  /\ \A k \in Sessions : k # ds.key => log'[k]["device"] = log[k]["device"]

\* What any step does to the device's session and logs.
LEMMA DeviceLog == LInv /\ [LinkNext]_vars => DeviceKeeps \/ DeviceUses
<1> SUFFICES ASSUME LInv, [LinkNext]_vars PROVE DeviceKeeps \/ DeviceUses
  OBVIOUS
<1>0. Logs /\ DeviceState /\ Ports /\ (dpc \in DeviceIn => Counts(ds, "device"))
  BY DEF LInv, Counted
<1>1. CASE Respond \/ PasskeyVerdict \/ RespondToReset \/ ResetDenied
  <2>1. /\ dpc \in Handling /\ session_send
        /\ dpc \in DeviceIn /\ dpc' \in DeviceIn /\ neph' = neph /\ ds' = Sealed(ds)
    BY <1>1 DEF Respond, PasskeyVerdict, RespondToReset, ResetDenied, session_send, DeviceIn, Handling
  <2>2. ds \in Open /\ Grown(ds.key, "device", "sent", doing)
    BY <2>1, SendsResponse
  <2>e. Elsewhere(ds.key, "device")
    BY <1>0, <2>2, GrownSent, Zenon DEF Ends
  <2>3. \A k \in Sessions : k # ds.key => log'[k]["device"] = log[k]["device"]
    BY <2>e DEF Elsewhere, Ends
  <2>4. /\ ds'.key = ds.key
        /\ ds'.tx = Len(log'[ds'.key]["device"].sent) /\ ds'.rx = Len(log'[ds'.key]["device"].got)
    BY <1>0, <2>1, <2>2, KeepsCount DEF Ends
  <2> QED
    BY <2>1, <2>3, <2>4 DEF DeviceUses
<1>2. CASE session_recv /\ dpc' # "idle"
  <2>1. dpc \in DeviceIn /\ dpc' \in DeviceIn /\ neph' = neph /\ ds' = Opened(ds)
    BY <1>2, AcceptsRequest DEF session_recv, DeviceIn
  <2>2. ds \in Open /\ Grown(ds.key, "device", "got", Head(ring).body)
    BY <1>2, AcceptsRequest
  <2>e. Elsewhere(ds.key, "device")
    BY <1>0, <2>2, GrownGot, Zenon DEF Ends
  <2>3. \A k \in Sessions : k # ds.key => log'[k]["device"] = log[k]["device"]
    BY <2>e DEF Elsewhere, Ends
  <2>4. /\ ds'.key = ds.key
        /\ ds'.tx = Len(log'[ds'.key]["device"].sent) /\ ds'.rx = Len(log'[ds'.key]["device"].got)
    BY <1>0, <2>1, <2>2, KeepsCount DEF Ends
  <2> QED
    BY <2>1, <2>3, <2>4 DEF DeviceUses
<1>3. CASE UNCHANGED devvars
  <2>1. \A k \in Sessions : log'[k]["device"] = log[k]["device"]
    <3>1. CASE cantil_session_send
      <4>1. Elsewhere(hs.key, "host")
        BY <1>0, <3>1, SendsRequest, GrownSent, Zenon DEF Ends
      <4> QED
        BY <4>1 DEF Elsewhere, Ends
    <3>2. CASE cantil_session_recv_to /\ Opens(hs, Head(tty))
      <4>1. Elsewhere(hs.key, "host")
        BY <1>0, <3>2, AcceptsResponse, GrownGot, Zenon DEF Ends
      <4> QED
        BY <4>1 DEF Elsewhere, Ends
    <3>3. ~session_recv
      BY <1>3 DEF devvars, session_recv, session_close
    <3>4. ASSUME session_send, dpc \in Handling PROVE FALSE
      <4>1. ds \in Open
        BY <3>4, SendsResponse
      <4>2. ds'.tx = ds.tx + 1 /\ ds.tx \in Nat
        BY <3>4, <4>1 DEF session_send, Sealed, Open
      <4> QED
        BY <1>3, <4>2 DEF devvars
    <3> QED
      BY <3>1, <3>2, <3>3, <3>4, LogSteps
  <2> QED
    BY <1>3, <2>1 DEF DeviceKeeps, devvars
<1>4. CASE TakeMsg3
  <2>1. CASE Head(ring) = Msg3(AfterMsg3(ds.h)) /\ ds' = split(AfterMsg3(ds.h)) /\ dpc' = "gate"
    <3>0. ds # Handshake(Noise)
      BY <1>0, <1>4, <2>1, Msg3Genuine DEF TakeMsg3
    <3>1. PICK e \in Eph : ds = Handshake(Half(e, neph))
      BY <1>0, <1>4, <3>0 DEF DeviceState, TakeMsg3
    <3>2. ds' = split(Key(e, neph)) /\ dpc = "msg3" /\ neph' = neph /\ log' = log
      BY <1>4, <2>1, <3>1 DEF Key, Handshake, TakeMsg3, history
    <3> QED
      BY <2>1, <3>0, <3>2 DEF DeviceKeeps
  <2>2. CASE session_close
    BY <1>4, <2>2 DEF session_close, TakeMsg3, DeviceKeeps, DeviceIn, history
  <2> QED
    BY <1>4, <2>1, <2>2 DEF TakeMsg3
<1>5. CASE TakeMsg1
  BY <1>5 DEF TakeMsg1, session_close, DeviceKeeps, DeviceIn, history
<1>6. CASE \/ PairingGate
           \/ session_recv /\ dpc' = "idle"
  BY <1>6 DEF PairingGate, session_recv, session_close, DeviceKeeps, DeviceIn, history
<1>7. CASE \/ update_connected \/ Listen \/ PollsEmpty \/ LinkLost \/ PairingRefused \/ Reboot
           \/ NoResponse
  BY <1>7 DEF update_connected, Listen, PollsEmpty, LinkLost, PairingRefused, Reboot, NoResponse,
     session_close, DeviceKeeps, DeviceIn, history
<1> QED
  BY <1>1, <1>2, <1>3, <1>4, <1>5, <1>6, <1>7, Sides DEF LinkNext, Device, vars

\* The nonces stay in step with the logs, and start with empty ones.
LEMMA CountedStep == LInv /\ [LinkNext]_vars => Counted'
<1> SUFFICES ASSUME LInv, [LinkNext]_vars PROVE Counted'
  OBVIOUS
<1>0. Counted /\ Fresh /\ HostState /\ DeviceState /\ HostState' /\ DeviceState'
  BY HostStateStep, DeviceStateStep DEF LInv
<1>1. ASSUME hpc' \in HostIn PROVE Counts(hs, "host")'
  <2>1. CASE HostUses
    BY <2>1 DEF HostUses, Counts
  <2>2. CASE HostKeeps /\ hpc \in HostIn /\ hs' = hs
    <3>1. hs.key \in Sessions
      BY <1>0, <2>2 DEF HostState, Open
    <3> QED
      BY <1>0, <2>2, <3>1 DEF HostKeeps, Counted, Counts
  <2>3. CASE HostKeeps /\ hpc = "msg2" /\ \E d \in Eph : hs' = split(Key(nopens, d))
    <3>1. PICK d \in Eph : hs' = split(Key(nopens, d))
      BY <2>3
    <3>2. nopens \in Eph
      BY <1>0, <2>3 DEF HostState
    <3>3. Unused(Key(nopens, d), "host") /\ Key(nopens, d) \in Sessions
      BY <1>0, <2>3, <3>1, <3>2, Keys DEF Fresh
    <3> QED
      BY <2>3, <3>1, <3>3, SeqEmpty DEF HostKeeps, Unused, Counts, split
  <2> QED
    BY <1>1, <2>1, <2>2, <2>3, HostLog DEF HostKeeps
<1>2. ASSUME dpc' \in DeviceIn PROVE Counts(ds, "device")'
  <2>1. CASE DeviceUses
    BY <2>1 DEF DeviceUses, Counts
  <2>2. CASE DeviceKeeps /\ dpc \in DeviceIn /\ ds' = ds
    <3>1. ds.key \in Sessions
      BY <1>0, <2>2 DEF DeviceState, Open
    <3> QED
      BY <1>0, <2>2, <3>1 DEF DeviceKeeps, Counted, Counts
  <2>3. CASE /\ DeviceKeeps /\ dpc = "msg3" /\ ds # Handshake(Noise)
             /\ \E e \in Eph : ds' = split(Key(e, neph))
    <3>1. PICK e \in Eph : ds' = split(Key(e, neph))
      BY <2>3
    <3>2. neph \in Eph
      BY <1>0, <2>3 DEF DeviceState
    <3>3. Unused(Key(e, neph), "device") /\ Key(e, neph) \in Sessions
      BY <1>0, <2>3, <3>1, <3>2, Keys DEF Fresh
    <3> QED
      BY <2>3, <3>1, <3>3, SeqEmpty DEF DeviceKeeps, Unused, Counts, split
  <2> QED
    BY <1>2, <2>1, <2>2, <2>3, DeviceLog DEF DeviceKeeps
<1> QED
  BY <1>1, <1>2 DEF Counted

\* A key that has yet to be split has not been used.
LEMMA FreshStep == LInv /\ [LinkNext]_vars => Fresh'
<1> SUFFICES ASSUME LInv, [LinkNext]_vars, NEW e \in Eph, NEW d \in Eph
    PROVE /\ \/ e > nopens'
             \/ e = nopens' /\ hpc' \in Opening \cup {"msg2"}
             \/ e = nopens' /\ hpc' \in HostIn /\ hs'.key # Key(e, d)
             => log'[Key(e, d)]["host"].sent = <<>> /\ log'[Key(e, d)]["host"].got = <<>>
          /\ \/ d > neph'
             \/ d = neph' /\ dpc' = "msg3" /\ ds' # Handshake(Noise)
             \/ d = neph' /\ dpc' \in DeviceIn /\ ds'.key # Key(e, d)
             => log'[Key(e, d)]["device"].sent = <<>> /\ log'[Key(e, d)]["device"].got = <<>>
  BY DEF Fresh, Unused
<1>0. /\ Fresh /\ HostState /\ DeviceState /\ Key(e, d) \in Sessions
      /\ e \in Nat /\ d \in Nat /\ nopens \in Nat /\ nopens' \in Nat /\ neph \in Nat
      /\ nopens' = nopens \/ nopens' = nopens + 1
  BY Keys, Handshakes DEF LInv, Eph
<1>1. ASSUME \/ e > nopens'
             \/ e = nopens' /\ hpc' \in Opening \cup {"msg2"}
             \/ e = nopens' /\ hpc' \in HostIn /\ hs'.key # Key(e, d)
      PROVE  log'[Key(e, d)]["host"].sent = <<>> /\ log'[Key(e, d)]["host"].got = <<>>
  <2>1. CASE HostUses
    <3>1. PICK c \in Eph : hs.key = Key(nopens, c) /\ nopens \in Eph
      BY <1>0, <2>1 DEF HostUses, HostState
    <3>2. hs.key # Key(e, d)
      <4>1. CASE e > nopens'
        BY <1>0, <2>1, <3>1, <4>1, Keys DEF HostUses
      <4>2. CASE e = nopens'
        BY <1>1, <2>1, <4>2, <1>0 DEF HostUses, HostIn, Opening
      <4> QED
        BY <1>1, <4>1, <4>2
    <3>3. Unused(Key(e, d), "host")
      BY <1>0, <1>1, <2>1, <3>2 DEF HostUses, Fresh
    <3> QED
      BY <1>0, <2>1, <3>2, <3>3 DEF HostUses, Unused
  <2>2. CASE HostKeeps
    <3>1. Unused(Key(e, d), "host")
      <4>1. CASE e > nopens
        BY <1>0, <4>1 DEF Fresh
      <4>2. CASE ~(e > nopens)
        <5>1. e = nopens /\ nopens' = nopens
          BY <1>0, <1>1, <4>2
        <5>2. CASE hpc' \in Opening \cup {"msg2"}
          <6>1. hpc \in Opening \cup {"msg2"}
            BY <1>0, <5>1, <5>2, Handshakes DEF Opening
          <6> QED
            BY <1>0, <5>1, <6>1 DEF Fresh
        <5>3. CASE hpc' \in HostIn /\ hs'.key # Key(e, d)
          BY <1>0, <2>2, <5>1, <5>3 DEF HostKeeps, Fresh
        <5> QED
          BY <1>0, <1>1, <5>1, <5>2, <5>3
      <4> QED
        BY <4>1, <4>2
    <3> QED
      BY <1>0, <2>2, <3>1 DEF HostKeeps, Unused
  <2> QED
    BY <2>1, <2>2, HostLog
<1>2. ASSUME \/ d > neph'
             \/ d = neph' /\ dpc' = "msg3" /\ ds' # Handshake(Noise)
             \/ d = neph' /\ dpc' \in DeviceIn /\ ds'.key # Key(e, d)
      PROVE  log'[Key(e, d)]["device"].sent = <<>> /\ log'[Key(e, d)]["device"].got = <<>>
  <2>1. CASE DeviceUses
    <3>1. PICK c \in Eph : ds.key = Key(c, neph) /\ neph \in Eph
      BY <1>0, <2>1 DEF DeviceUses, DeviceState
    <3>2. ds.key # Key(e, d)
      <4>1. CASE d > neph'
        BY <1>0, <2>1, <3>1, <4>1, Keys DEF DeviceUses
      <4>2. CASE d = neph'
        BY <1>0, <1>2, <2>1, <4>2 DEF DeviceUses, DeviceIn
      <4> QED
        BY <1>2, <4>1, <4>2
    <3>3. Unused(Key(e, d), "device")
      BY <1>0, <1>2, <2>1, <3>2 DEF DeviceUses, Fresh
    <3> QED
      BY <1>0, <2>1, <3>2, <3>3 DEF DeviceUses, Unused
  <2>2. CASE DeviceKeeps
    <3>1. Unused(Key(e, d), "device")
      <4>1. CASE d > neph
        BY <1>0, <4>1 DEF Fresh
      <4>2. CASE ~(d > neph)
        <5>1. d = neph /\ neph' = neph
          BY <1>0, <1>2, <2>2, <4>2 DEF DeviceKeeps
        <5>2. CASE dpc' = "msg3" /\ ds' # Handshake(Noise)
          BY <1>0, <2>2, <5>1, <5>2 DEF DeviceKeeps, Fresh
        <5>3. CASE dpc' \in DeviceIn /\ ds'.key # Key(e, d)
          BY <1>0, <2>2, <5>1, <5>3 DEF DeviceKeeps, Fresh
        <5> QED
          BY <1>0, <1>2, <5>1, <5>2, <5>3
      <4> QED
        BY <4>1, <4>2
    <3> QED
      BY <1>0, <2>2, <3>1 DEF DeviceKeeps, Unused
  <2> QED
    BY <2>1, <2>2, DeviceLog
<1> QED
  BY <1>1, <1>2

(* The theorems. *)

\* LInv holds in every reachable state: the frames in flight are on record, the
\* nonces of an open session are the lengths of its logs, and the keys an end
\* has yet to split are unused.
THEOREM LinkInvariant == LinkSpec => []LInv
<1>1. LInv /\ [LinkNext]_vars => LInv'
  BY HostStateStep, DeviceStateStep, PortsStep, LogsStep, OrderedStep, RecordedStep, CountedStep,
     FreshStep DEF LInv
<1> QED
  BY <1>1, InitLemma, PTL DEF LinkSpec

\* A frame that opens under the session of its receiver is the next its peer
\* sent.
LEMMA NextInLine ==
  ASSUME LInv, [LinkNext]_vars, log' # log
  PROVE  Chan!ChanNext
<1>0. Logs /\ Recorded /\ Counted /\ Ports
  BY DEF LInv
<1>1. CASE cantil_session_send
  <2>1. Chan!Send(hs.key, "host") /\ hs.key \in Sessions
    BY <1>1, SendsRequest, Zenon DEF Grown, Chan!Send
  <2> QED
    BY <2>1 DEF Chan!ChanNext, Chan!Ends
<1>2. CASE session_send /\ dpc \in Handling
  <2>1. Chan!Send(ds.key, "device") /\ ds.key \in Sessions
    BY <1>2, SendsResponse, Zenon DEF Grown, Chan!Send
  <2> QED
    BY <2>1 DEF Chan!ChanNext, Chan!Ends
<1>3. CASE cantil_session_recv_to /\ Opens(hs, Head(tty))
  <2> DEFINE f == Head(tty)
             n == Len(log[hs.key]["host"].got)
  <2>1. Grown(hs.key, "host", "got", f.body)
    BY <1>3, AcceptsResponse
  <2>2. f.kind = "data" /\ f.key = hs.key /\ f.n = n
    BY <1>0, <1>3 DEF Opens, Counted, Counts, HostIn, cantil_session_recv_to
  <2>3. f = tty[1] /\ 1 \in 1..Len(tty)
    BY <1>0, <1>3, SeqEmpty DEF Ports, cantil_session_recv_to
  <2>4. OnRecord(f, "device")
    BY <1>0, <2>2, <2>3 DEF Recorded
  <2>5. n < Len(log[hs.key]["device"].sent) /\ f.body = log[hs.key]["device"].sent[n + 1]
    BY <2>2, <2>4, Zenon DEF OnRecord
  <2>6. Chan!Accept(hs.key, "host") /\ hs.key \in Sessions
    BY <2>1, <2>5, Zenon DEF Grown, Chan!Accept, Chan!Peer
  <2> QED
    BY <2>6 DEF Chan!ChanNext, Chan!Ends
<1>4. CASE session_recv /\ dpc' # "idle"
  <2> DEFINE f == Head(ring)
             n == Len(log[ds.key]["device"].got)
  <2>1. Grown(ds.key, "device", "got", f.body)
    BY <1>4, AcceptsRequest
  <2>2. f.kind = "data" /\ f.key = ds.key /\ f.n = n
    BY <1>0, <1>4, AcceptsRequest DEF Opens, Counted, Counts, DeviceIn, session_recv
  <2>3. f = ring[1] /\ 1 \in 1..Len(ring)
    BY <1>0, <1>4, SeqEmpty DEF Ports, session_recv
  <2>4. OnRecord(f, "host")
    BY <1>0, <2>2, <2>3 DEF Recorded
  <2>5. n < Len(log[ds.key]["host"].sent) /\ f.body = log[ds.key]["host"].sent[n + 1]
    BY <2>2, <2>4, Zenon DEF OnRecord
  <2>6. Chan!Accept(ds.key, "device") /\ ds.key \in Sessions
    BY <2>1, <2>5, Zenon DEF Grown, Chan!Accept, Chan!Peer
  <2> QED
    BY <2>6 DEF Chan!ChanNext, Chan!Ends
<1> QED
  BY <1>1, <1>2, <1>3, <1>4, LogSteps

\* The link implements the ordered channel, whatever the ring drops, the host
\* drains or times out on, the device answers twice, and an aborted session
\* leaves behind.
THEOREM LinkImplementsChannel == LinkSpec => OrderedChannel
<1>1. LinkInit => Chan!ChanInit
  BY DEF LinkInit, Chan!ChanInit, Chan!Ends
<1>2. LInv /\ [LinkNext]_vars => [Chan!ChanNext]_log
  BY NextInLine
<1> QED
  BY <1>1, <1>2, LinkInvariant, PTL DEF LinkSpec, OrderedChannel, Chan!ChanSpec
-----------------------------------------------------------------------------
(* The type of the link's state. *)

\* The part of LinkTypeOK that LInv does not give.
Pending ==
  /\ polled \in BOOLEAN
  /\ Len(ring) <= RING + 1
  /\ hpc = "wait" <=> asked # None
  /\ dpc \in Handling <=> doing # None

\* A frame that arrives never makes the ring longer than it is.
LEMMA ArrivesFits ==
  ASSUME ring \in Seq(HostFrames), Len(ring) <= RING + 1, NEW f \in HostFrames, Arrives(f)
  PROVE  Len(ring') <= RING + 1
<1>0. Len(ring) \in Nat /\ RING \in Nat
  BY LinkAssumption
<1>1. CASE Len(ring) < RING
  <2>1. Len(ring') = Len(ring) + 1
    BY <1>1, SeqAppend DEF Arrives
  <2> QED
    BY <1>0, <1>1, <2>1
<1>2. CASE ~(Len(ring) < RING)
  <2>1. CASE ring' = ring
    BY <2>1
  <2>2. CASE Len(ring) = RING /\ ring' = Append(ring, Torn)
    <3>1. Len(ring') = Len(ring) + 1
      BY <2>2, SeqAppend DEF HostFrames
    <3> QED
      BY <1>0, <2>2, <3>1
  <2> QED
    BY <1>2, <2>1, <2>2 DEF Arrives
<1> QED
  BY <1>1, <1>2

\* No step breaks Pending.
LEMMA PendingStep == LInv /\ Pending /\ [LinkNext]_vars => Pending'
<1> SUFFICES ASSUME LInv, Pending, [LinkNext]_vars PROVE Pending'
  OBVIOUS
<1>1. Len(ring') <= RING + 1
  <2>0. ring \in Seq(HostFrames) /\ Len(ring) <= RING + 1 /\ RING \in Nat
    BY LinkAssumption DEF LInv, Ports, Pending
  <2>1. CASE ring' = ring \/ ring' = <<>> \/ ring' = <<Torn>>
    <3>1. CASE ring' = ring
      BY <2>0, <3>1
    <3>2. CASE ring' = <<>> \/ ring' = <<Torn>>
      <4>0. Len(<<>>) = 0 /\ Len(<<Torn>>) = 1
        OBVIOUS
      <4>1. Len(ring') \in {0, 1}
        BY <3>2, <4>0, Zenon
      <4>2. PICK n \in {0, 1} : n = Len(ring')
        BY <4>1, Zenon
      <4>3. n <= RING + 1
        BY <2>0
      <4> QED
        BY <4>2, <4>3, Zenon
    <3> QED
      BY <2>1, <3>1, <3>2
  <2>2. CASE ring # <<>> /\ ring' = Tail(ring)
    <3>1. Len(ring') = Len(ring) - 1 /\ Len(ring) \in Nat
      BY <2>0, <2>2, SeqHeadTail
    <3> QED
      BY <2>0, <3>1
  <2>3. CASE \E f \in HostFrames : Arrives(f)
    BY <2>0, <2>3, ArrivesFits
  <2> QED
    BY <2>1, <2>2, <2>3, RingSteps
<1>2. hpc' = "wait" <=> asked' # None
  <2>0. hpc = "wait" <=> asked # None
    BY DEF Pending
  <2>1. CASE UNCHANGED hostvars
    BY <2>0, <2>1 DEF hostvars
  <2>2. CASE cantil_session_send
    BY <2>2, HostSends, LinkAssumption DEF cantil_session_send
  <2>3. CASE hpc' # "wait" /\ (asked' = None \/ (asked' = asked /\ hpc # "wait"))
    BY <2>0, <2>3
  <2>4. CASE \/ cantil_transport_open_usb \/ drain_transport \/ SendMsg1 \/ TakeMsg2
             \/ PolicyRefuses \/ Msg2TimesOut
    BY <2>3, <2>4 DEF cantil_transport_open_usb, drain_transport, SendMsg1, TakeMsg2, PolicyRefuses, Msg2TimesOut,
       usb_close
  <2>5. CASE \/ cantil_session_drain \/ cantil_session_recv_to \/ RequestTimesOut
             \/ cantil_session_close \/ SessionOnOpenPort
    BY <2>3, <2>5, Zenon DEF cantil_session_drain, cantil_session_recv_to, RequestTimesOut,
       cantil_session_close, SessionOnOpenPort, usb_close
  <2> QED
    BY <2>1, <2>2, <2>4, <2>5, Sides DEF LinkNext, Host, vars
<1>3. dpc' \in Handling <=> doing' # None
  <2> USE DEF Handling
  <2>0. dpc \in Handling <=> doing # None
    BY DEF Pending
  <2>1. CASE UNCHANGED devvars
    BY <2>0, <2>1 DEF devvars
  <2>2. CASE session_recv
    <3>1. CASE dpc' # "idle"
      BY <2>2, <3>1, AcceptsRequest, DeviceStateStep, LinkAssumption DEF DeviceState
    <3>2. CASE dpc' = "idle"
      BY <2>2, <3>2 DEF session_recv, session_close
    <3> QED
      BY <3>1, <3>2
  <2>3. CASE Respond \/ PasskeyVerdict \/ RespondToReset \/ ResetDenied
    BY <2>0, <2>3 DEF Respond, PasskeyVerdict, RespondToReset, ResetDenied
  <2>4. CASE update_connected \/ Listen \/ PollsEmpty \/ TakeMsg1 \/ TakeMsg3 \/ PairingGate
    BY <2>0, <2>4 DEF update_connected, Listen, PollsEmpty, TakeMsg1, TakeMsg3, PairingGate, session_close
  <2>5. CASE PairingRefused \/ Reboot \/ NoResponse \/ LinkLost
    BY <2>5 DEF PairingRefused, Reboot, NoResponse, LinkLost, session_close
  <2> QED
    BY <2>1, <2>2, <2>3, <2>4, <2>5, Sides DEF LinkNext, Device, vars
<1>4. polled' \in BOOLEAN
  <2>0. polled \in BOOLEAN
    BY DEF Pending
  <2>1. CASE polled' = polled \/ polled' = TRUE \/ polled' = FALSE
    BY <2>0, <2>1
  <2>2. CASE UNCHANGED devvars
    BY <2>1, <2>2 DEF devvars
  <2>3. CASE \/ update_connected \/ Listen \/ PollsEmpty \/ TakeMsg1 \/ TakeMsg3 \/ PairingGate
             \/ session_recv
    BY <2>1, <2>3 DEF update_connected, Listen, PollsEmpty, TakeMsg1, TakeMsg3, PairingGate,
       session_recv, session_close
  <2>4. CASE Respond \/ PasskeyVerdict \/ RespondToReset \/ ResetDenied
    BY <2>1, <2>4 DEF Respond, PasskeyVerdict, RespondToReset, ResetDenied
  <2>5. CASE PairingRefused \/ Reboot \/ NoResponse \/ LinkLost
    BY <2>1, <2>5 DEF PairingRefused, Reboot, NoResponse, LinkLost, session_close
  <2> QED
    BY <2>2, <2>3, <2>4, <2>5, Sides DEF LinkNext, Device, vars
<1> QED
  BY <1>1, <1>2, <1>3, <1>4 DEF Pending

\* The type invariant of the link: the ring never overruns, each end's keys are
\* those of a session or none, and a request is outstanding at either end
\* exactly while that end waits for or works on its answer.
THEOREM LinkTypeCorrect == LinkSpec => []LinkTypeOK
<1>1. LinkInit => Pending
  <2> SUFFICES ASSUME LinkInit PROVE Pending
    OBVIOUS
  <2>1. polled \in BOOLEAN /\ Len(ring) = 0 /\ hpc # "wait" /\ asked = None
    BY SeqEmpty DEF LinkInit
  <2>2. dpc \notin Handling /\ doing = None
    BY DEF LinkInit, Handling
  <2> QED
    BY <2>1, <2>2, LinkAssumption DEF Pending
<1>2. LInv /\ Pending => LinkTypeOK
  <2> SUFFICES ASSUME LInv, Pending PROVE LinkTypeOK
    OBVIOUS
  <2>1. hpc \in {"closed", "open", "flushed", "msg2", "ready", "drained", "wait"}
        /\ hs.key \in Sessions \cup {None}
    BY DEF LInv, HostState, HostIn, Opening, Open, Closed, Handshake
  <2>2. dpc \in Waits \cup {"idle", "gate", "busy", "verdict", "refused", "reset"}
        /\ ds.key \in Sessions \cup {None}
    BY DEF LInv, DeviceState, DeviceIn, Waits, Open, Closed, Handshake
  <2> QED
    BY <2>1, <2>2 DEF Pending, LinkTypeOK, Handling
<1> QED
  BY <1>1, <1>2, PendingStep, LinkInvariant, PTL DEF LinkSpec
=============================================================================
