---------------------------- MODULE LinkFrames -----------------------------
(***************************************************************************)
(* The inductive invariant of Link, and its part about the two ends and the *)
(* frames between them: where an end is and what its session holds go      *)
(* together, only frames an end can build travel, and the device meets the *)
(* messages 1 of the host in the order they were sent.                     *)
(***************************************************************************)
EXTENDS Link, TLAPS

Eph == 1..MaxOpens
Half(e, d) == AfterMsg2(mix_hash(sym_init, e), d)
Key(e, d) == AfterMsg3(Half(e, d))

DataFrames == [kind : {"data"}, key : Sessions, n : Nat, body : Requests]
HostFrames == [kind : {"msg1"}, e : Eph] \cup [kind : {"msg3"}, mac : Sessions]
                \cup DataFrames \cup {Torn}
DeviceFrames == [kind : {"msg2"}, d : Eph, mac : {Half(e, d) : e, d \in Eph}]
                \cup DataFrames \cup {Msg2(0, Noise)}

Open == [h : Sessions, key : Sessions, tx : Nat, rx : Nat]
Opening == {"open", "flushed"}
HostIn == {"ready", "drained", "wait"}
DeviceIn == {"gate", "passkey", "cmd", "busy", "verdict", "refused", "reset"}
Handling == {"busy", "verdict", "reset"}

\* Where an end is and what its session struct holds go together.
HostState ==
  /\ hpc \in {"closed", "msg2"} \cup Opening \cup HostIn
  /\ hpc \in {"closed"} \cup Opening => hs = Closed
  /\ hpc = "msg2" => hs = Handshake(mix_hash(sym_init, nopens)) /\ nopens \in Eph
  /\ hpc \in HostIn => hs \in Open /\ \E d \in Eph : hs.key = Key(nopens, d) /\ nopens \in Eph
DeviceState ==
  /\ dpc \in {"idle", "msg1", "msg3"} \cup DeviceIn
  /\ dpc \in {"idle", "msg1"} => ds = Closed
  /\ dpc = "msg3" => \/ ds = Handshake(Noise)
                     \/ neph \in Eph /\ \E e \in Eph : ds = Handshake(Half(e, neph))
  /\ dpc \in DeviceIn => ds \in Open /\ neph \in Eph /\ \E e \in Eph : ds.key = Key(e, neph)
  /\ dpc \in Handling => doing \in Requests

Ports ==
  /\ ring \in Seq(HostFrames) /\ tty \in Seq(DeviceFrames)
  /\ nopens \in 0..MaxOpens /\ nreqs \in 0..MaxRequests
  /\ hpc \in Opening => nopens \in Eph
  /\ hpc = "drained" => nreqs < MaxRequests
Logs == log \in [Sessions -> [{"host", "device"} -> [sent : Seq(Requests), got : Seq(Requests)]]]

\* The ephemeral keys of the messages 1 in the ring are in order, and ahead of
\* the number the device has used.
Ordered ==
  /\ neph \in 0..nopens
  /\ hpc \in Opening => neph < nopens
  /\ \A i \in 1..Len(ring) : ring[i].kind = "msg1" =>
       /\ neph < ring[i].e /\ ring[i].e <= nopens
       /\ hpc \in Opening => ring[i].e < nopens
       /\ \A j \in 1..Len(ring) : j > i /\ ring[j].kind = "msg1" => ring[i].e < ring[j].e

OnRecord(f, end) ==
  /\ f.n < Len(log[f.key][end].sent)
  /\ f.body = log[f.key][end].sent[f.n + 1]
Recorded ==
  /\ \A i \in 1..Len(ring) : ring[i].kind = "data" => OnRecord(ring[i], "host")
  /\ \A i \in 1..Len(tty) : tty[i].kind = "data" => OnRecord(tty[i], "device")

Counts(s, end) ==
  /\ s.tx = Len(log[s.key][end].sent)
  /\ s.rx = Len(log[s.key][end].got)
Counted ==
  /\ hpc \in HostIn => Counts(hs, "host")
  /\ dpc \in DeviceIn => Counts(ds, "device")

Unused(k, end) == log[k][end].sent = <<>> /\ log[k][end].got = <<>>
Fresh == \A e, d \in Eph :
  /\ \/ e > nopens
     \/ e = nopens /\ hpc \in Opening \cup {"msg2"}
     \/ e = nopens /\ hpc \in HostIn /\ hs.key # Key(e, d)
     => Unused(Key(e, d), "host")
  /\ \/ d > neph
     \/ d = neph /\ dpc = "msg3" /\ ds # Handshake(Noise)
     \/ d = neph /\ dpc \in DeviceIn /\ ds.key # Key(e, d)
     => Unused(Key(e, d), "device")

LInv == HostState /\ DeviceState /\ Ports /\ Logs /\ Ordered /\ Recorded /\ Counted /\ Fresh
-----------------------------------------------------------------------------
(* Sequences. *)

\* The empty sequence, and what a sequence that is not empty has.
LEMMA SeqEmpty ==
  ASSUME NEW S
  PROVE  /\ <<>> \in Seq(S) /\ Len(<<>>) = 0
         /\ \A s \in Seq(S) : s # <<>> => Len(s) \in Nat \ {0}
OBVIOUS

\* Taking the head moves the rest one place forward.
LEMMA SeqHeadTail ==
  ASSUME NEW S, NEW s \in Seq(S), s # <<>>
  PROVE  /\ Head(s) \in S /\ Head(s) = s[1] /\ Tail(s) \in Seq(S)
         /\ Len(s) \in Nat \ {0} /\ Len(Tail(s)) = Len(s) - 1
         /\ \A i \in 1..Len(Tail(s)) : Tail(s)[i] = s[i + 1]
OBVIOUS

\* Appending leaves what was there where it was.
LEMMA SeqAppend ==
  ASSUME NEW S, NEW s \in Seq(S), NEW x \in S
  PROVE  /\ Append(s, x) \in Seq(S)
         /\ Len(s) \in Nat /\ Len(Append(s, x)) = Len(s) + 1
         /\ \A i \in 1..Len(s) : Append(s, x)[i] = s[i]
         /\ Append(s, x)[Len(s) + 1] = x
OBVIOUS
-----------------------------------------------------------------------------
(* The keys. *)

\* A session's transcript tells both ephemeral keys.
LEMMA KeyFields ==
  ASSUME NEW e \in Eph, NEW d \in Eph
  PROVE  Key(e, d)[2] = e /\ Key(e, d)[3] = d
BY LinkAssumption DEF Key, Half, AfterMsg3, AfterMsg2, mix_hash, sym_init, Eph

\* Different ephemeral keys make different sessions, and none is None.
LEMMA Keys ==
  /\ \A e, d \in Eph : Key(e, d) \in Sessions /\ Key(e, d) # None
  /\ \A e1, d1, e2, d2 \in Eph : Key(e1, d1) = Key(e2, d2) => e1 = e2 /\ d1 = d2
<1>1. \A e, d \in Eph : Key(e, d) \in Sessions /\ Key(e, d) # None
  BY LinkAssumption DEF Sessions, Key, Half, Eph
<1> QED
  BY <1>1, KeyFields

\* A device that took stray bytes for a msg1 shares no transcript with a host.
LEMMA NoiseFacts ==
  /\ \A e, d \in Nat : Half(e, d) # Noise
  /\ AfterMsg3(Noise) \notin Sessions
<1>1. \A e, d \in Nat : Len(Half(e, d)) = 4 /\ Len(Key(e, d)) = 5
  BY DEF Key, Half, AfterMsg3, AfterMsg2, mix_hash, sym_init
<1>2. Len(Noise) = 2 /\ Len(AfterMsg3(Noise)) = 3
  BY DEF Noise, AfterMsg3, mix_hash, sym_init
<1>3. \A k \in Sessions : \E e, d \in Nat : k = Key(e, d)
  BY LinkAssumption DEF Sessions, Key, Half
<1>4. ASSUME NEW e \in Nat, NEW d \in Nat PROVE Half(e, d) # Noise
  <2>1. Len(Half(e, d)) = 4
    BY <1>1
  <2> QED
    BY <1>2, <2>1
<1>5. ASSUME AfterMsg3(Noise) \in Sessions PROVE FALSE
  <2>1. PICK e \in Nat, d \in Nat : AfterMsg3(Noise) = Key(e, d)
    BY <1>3, <1>5
  <2>2. Len(Key(e, d)) = 5
    BY <1>1
  <2> QED
    BY <1>2, <2>1, <2>2
<1> QED
  BY <1>4, <1>5
-----------------------------------------------------------------------------
(* The ring. *)

\* What is in the ring once a frame arrived was there before, is the frame at
\* the end, or is torn.
LEMMA ArrivesFacts ==
  ASSUME ring \in Seq(HostFrames), NEW f \in HostFrames, Arrives(f)
  PROVE  /\ ring' \in Seq(HostFrames)
         /\ Len(ring') \in {Len(ring), Len(ring) + 1}
         /\ \A i \in 1..Len(ring') :
              \/ i \in 1..Len(ring) /\ ring'[i] = ring[i]
              \/ i = Len(ring) + 1 /\ ring'[i] = f
              \/ ring'[i] = Torn
<1>0. Torn \in HostFrames /\ Len(ring) \in Nat
  BY DEF HostFrames
<1>1. CASE ring' = Append(ring, f)
  BY <1>1, SeqAppend
<1>2. CASE ring' = ring
  BY <1>2
<1>3. CASE ring' = Append(ring, Torn)
  BY <1>0, <1>3, SeqAppend
<1> QED
  BY <1>1, <1>2, <1>3 DEF Arrives
-----------------------------------------------------------------------------
(* LInv is inductive: one lemma per conjunct. *)

\* LInv holds when both ends start.
LEMMA InitLemma == LinkInit => LInv
<1> SUFFICES ASSUME LinkInit PROVE LInv
  OBVIOUS
<1>1. HostState /\ DeviceState
  BY DEF LinkInit, HostState, DeviceState, HostIn, DeviceIn, Opening, Handling
<1>2. Ports /\ Ordered
  BY LinkAssumption, SeqEmpty DEF LinkInit, Ports, Ordered, Opening
<1>3. Logs
  BY SeqEmpty DEF LinkInit, Logs
<1>4. Recorded /\ Counted
  BY SeqEmpty DEF LinkInit, Recorded, Counted, HostIn, DeviceIn
<1>5. Fresh
  BY Keys DEF LinkInit, Fresh, Unused, Opening
<1> QED
  BY <1>1, <1>2, <1>3, <1>4, <1>5 DEF LInv

\* The msg2 that answers a msg1 of the host has an ephemeral key in it.
LEMMA Msg2Genuine ==
  ASSUME NEW f \in DeviceFrames, f.kind = "msg2",
         NEW e \in Eph, f.mac = AfterMsg2(mix_hash(sym_init, e), f.d)
  PROVE  f.d \in Eph
<1>1. CASE f = Msg2(0, Noise)
  <2>1. f.d = 0 /\ f.mac = Noise
    BY <1>1 DEF Msg2
  <2>2. Half(e, 0) = Noise /\ e \in Nat
    BY <2>1, LinkAssumption DEF Half, Eph
  <2> QED
    BY <2>2, NoiseFacts
<1>2. CASE f # Msg2(0, Noise)
  BY <1>2 DEF DeviceFrames, DataFrames
<1> QED
  BY <1>1, <1>2

\* The device leaves the host alone, and the host the device.
LEMMA Sides ==
  /\ Device => UNCHANGED hostvars
  /\ Host => UNCHANGED devvars
<1>1. Device => UNCHANGED hostvars
  BY DEF Device, hostvars, update_connected, Listen, PollsEmpty, LinkLost, TakeMsg1, TakeMsg3, PairingGate,
     session_recv, Respond, PasskeyVerdict, PairingRefused, RespondToReset, ResetDenied, Reboot, NoResponse
<1>2. Host => UNCHANGED devvars
  BY Zenon DEF Host, devvars, cantil_transport_open_usb, drain_transport, SendMsg1, TakeMsg2,
     PolicyRefuses, Msg2TimesOut, cantil_session_drain, cantil_session_send, cantil_session_recv_to,
     RequestTimesOut, cantil_session_close, SessionOnOpenPort
<1> QED
  BY <1>1, <1>2

\* No step takes the host out of HostState: the key it gets from msg2 is made of its
\* own ephemeral key and one of the device's.
LEMMA HostStateStep == LInv /\ [LinkNext]_vars => HostState'
<1> SUFFICES ASSUME LInv, [LinkNext]_vars PROVE HostState'
  OBVIOUS
<1> USE DEF HostIn, Opening
<1>0. HostState /\ Ports
  BY DEF LInv
<1>1. CASE UNCHANGED hostvars
  BY <1>0, <1>1 DEF HostState, hostvars
<1>2. CASE cantil_transport_open_usb
  BY <1>0, <1>2 DEF HostState, cantil_transport_open_usb
<1>3. CASE drain_transport \/ SendMsg1
  BY <1>0, <1>3 DEF HostState, Ports, drain_transport, SendMsg1
<1>4. CASE TakeMsg2
  <2> DEFINE f == Head(tty)
  <2>1. CASE f.kind = "msg2" /\ f.mac = AfterMsg2(hs.h, f.d) /\ hs' = split(AfterMsg3(f.mac)) /\ hpc' = "ready"
    <3>1. f \in DeviceFrames
      BY <1>0, <1>4, SeqHeadTail DEF TakeMsg2, Ports
    <3>2. f.d \in Eph
      BY <1>0, <1>4, <2>1, <3>1, Msg2Genuine DEF HostState, TakeMsg2, Handshake
    <3>3. nopens \in Eph /\ hs.h = mix_hash(sym_init, nopens) /\ nopens' = nopens
      BY <1>0, <1>4 DEF HostState, TakeMsg2, Handshake
    <3>4. hs'.key = Key(nopens, f.d) /\ hs' = split(Key(nopens, f.d))
      BY <2>1, <3>3 DEF Key, Half, split
    <3>5. hs' \in Open
      BY <3>2, <3>3, <3>4, Keys DEF split, Open
    <3> QED
      BY <2>1, <3>2, <3>3, <3>4, <3>5 DEF HostState
  <2>2. CASE usb_close
    BY <2>2 DEF usb_close, HostState
  <2> QED
    BY <1>4, <2>1, <2>2 DEF TakeMsg2
<1>5. CASE usb_close
  BY <1>5 DEF usb_close, HostState
<1>6. CASE cantil_session_drain \/ RequestTimesOut
  BY <1>0, <1>6, Zenon DEF HostState, cantil_session_drain, RequestTimesOut
<1>7. CASE cantil_session_send
  BY <1>0, <1>7 DEF HostState, cantil_session_send, Sealed, Open
<1>8. CASE cantil_session_recv_to
  BY <1>0, <1>8 DEF HostState, cantil_session_recv_to, Opened, Open
<1>9. CASE SessionOnOpenPort
  BY <1>0, <1>9 DEF HostState, SessionOnOpenPort
<1> QED
  BY <1>1, <1>2, <1>3, <1>4, <1>5, <1>6, <1>7, <1>8, <1>9, Sides
  DEF LinkNext, Host, vars, PolicyRefuses, Msg2TimesOut, cantil_session_close

\* The device has an ephemeral key left for the msg1 it meets.
LEMMA NextEph ==
  ASSUME LInv, ring # <<>>, Head(ring).kind = "msg1"
  PROVE  neph + 1 \in Eph
<1>1. Head(ring) \in HostFrames /\ Head(ring) = ring[1] /\ Len(ring) \in Nat \ {0}
  BY SeqHeadTail DEF LInv, Ports
<1>2. neph < ring[1].e /\ ring[1].e <= nopens
  BY <1>1 DEF LInv, Ordered
<1>3. ring[1].e \in 1..MaxOpens
  BY <1>1 DEF HostFrames, DataFrames, Torn, Eph
<1>4. neph \in Nat
  BY DEF LInv, Ordered, Ports
<1> QED
  BY <1>2, <1>3, <1>4, LinkAssumption DEF Eph

\* No host completes the handshake of a device that took stray bytes for a msg1.
LEMMA Msg3Genuine ==
  ASSUME Ports, ring # <<>>, Head(ring) = Msg3(AfterMsg3(ds.h))
  PROVE  ds # Handshake(Noise)
<1>1. Head(ring) \in HostFrames
  BY SeqHeadTail DEF Ports
<1>2. AfterMsg3(ds.h) \in Sessions
  BY <1>1 DEF Msg3, HostFrames, DataFrames, Torn
<1> QED
  BY <1>2, NoiseFacts DEF Handshake

\* No step takes the device out of DeviceState: it has a new ephemeral key for every
\* msg1, since the host sent them in order.
LEMMA DeviceStateStep == LInv /\ [LinkNext]_vars => DeviceState'
<1> SUFFICES ASSUME LInv, [LinkNext]_vars PROVE DeviceState'
  OBVIOUS
<1> USE DEF DeviceIn, Handling
<1>0. DeviceState /\ Ports /\ Ordered
  BY DEF LInv
<1>1. CASE UNCHANGED devvars
  BY <1>0, <1>1 DEF DeviceState, devvars
<1>2. CASE update_connected \/ Listen \/ PollsEmpty
  BY <1>0, <1>2 DEF DeviceState, update_connected, Listen, PollsEmpty
<1>3. CASE TakeMsg1
  <2> DEFINE f == Head(ring)
  <2>1. CASE f.kind = "msg1" /\ dpc' = "msg3" /\ neph' = neph + 1 /\ doing' = doing
             /\ ds' = Handshake(AfterMsg2(mix_hash(sym_init, f.e), neph + 1))
    <3>1. f \in HostFrames /\ f = ring[1] /\ Len(ring) \in Nat \ {0}
      BY <1>0, <1>3, SeqHeadTail DEF TakeMsg1, Ports
    <3>2. f.e \in Eph
      BY <2>1, <3>1 DEF HostFrames, DataFrames, Torn
    <3>3. neph + 1 \in Eph
      BY <1>3, <2>1, NextEph DEF TakeMsg1
    <3>4. ds' = Handshake(Half(f.e, neph'))
      BY <2>1 DEF Half
    <3> QED
      BY <2>1, <3>2, <3>3, <3>4 DEF DeviceState
  <2>2. CASE ds' = Handshake(Noise) /\ dpc' = "msg3"
    BY <2>2 DEF DeviceState
  <2>3. CASE session_close
    BY <2>3 DEF session_close, DeviceState
  <2> QED
    BY <1>3, <2>1, <2>2, <2>3 DEF TakeMsg1
<1>4. CASE TakeMsg3
  <2>1. CASE /\ Head(ring) = Msg3(AfterMsg3(ds.h))
             /\ ds' = split(AfterMsg3(ds.h)) /\ dpc' = "gate" /\ doing' = doing
    <3>0. ds # Handshake(Noise)
      BY <1>0, <1>4, <2>1, Msg3Genuine DEF TakeMsg3
    <3>1. PICK e \in Eph : ds = Handshake(Half(e, neph))
      BY <1>0, <1>4, <3>0 DEF DeviceState, TakeMsg3
    <3>2. neph \in Eph /\ neph' = neph
      BY <1>0, <1>4, <3>0 DEF DeviceState, TakeMsg3
    <3>3. ds' = split(Key(e, neph))
      BY <2>1, <3>1 DEF Key, Handshake
    <3>4. ds' \in Open /\ ds'.key = Key(e, neph)
      BY <3>2, <3>3, Keys DEF split, Open
    <3> QED
      BY <2>1, <3>2, <3>4 DEF DeviceState
  <2>2. CASE session_close
    BY <2>2 DEF session_close, DeviceState
  <2> QED
    BY <1>4, <2>1, <2>2 DEF TakeMsg3
<1>5. CASE PairingGate
  BY <1>0, <1>5 DEF DeviceState, PairingGate, session_close
<1>6. CASE session_recv
  <2>1. CASE /\ Opens(ds, Head(ring)) /\ ds' = Opened(ds) /\ doing' = Head(ring).body
             /\ dpc' \in {"busy", "verdict"}
    <3>1. Head(ring) \in HostFrames
      BY <1>0, <1>6, SeqHeadTail DEF session_recv, Ports
    <3>2. Head(ring).body \in Requests
      BY <2>1, <3>1 DEF Opens, HostFrames, DataFrames, Torn
    <3> QED
      BY <1>0, <1>6, <2>1, <3>2 DEF DeviceState, session_recv, Opened, Open
  <2>2. CASE session_close
    BY <2>2 DEF session_close, DeviceState
  <2> QED
    BY <1>6, <2>1, <2>2 DEF session_recv
<1>7. CASE Respond \/ PasskeyVerdict \/ RespondToReset \/ ResetDenied
  BY <1>0, <1>7 DEF DeviceState, Respond, PasskeyVerdict, RespondToReset, ResetDenied, session_send,
     Sealed, Open
<1>8. CASE session_close
  BY <1>8 DEF session_close, DeviceState
<1> QED
  BY <1>1, <1>2, <1>3, <1>4, <1>5, <1>6, <1>7, <1>8, Sides
  DEF LinkNext, Device, vars, PairingRefused, Reboot, NoResponse, LinkLost
-----------------------------------------------------------------------------
(* What a step does to the two queues of frames. *)

\* The frames the host sends.
LEMMA HostSends ==
  /\ LInv /\ SendMsg1 => Msg1(nopens) \in HostFrames
  /\ \A h \in Sessions : Msg3(h) \in HostFrames
  /\ LInv /\ cantil_session_send => nreqs' \in Requests /\ Data(hs, nreqs') \in HostFrames
<1>1. LInv /\ SendMsg1 => Msg1(nopens) \in HostFrames
  BY DEF LInv, Ports, SendMsg1, Msg1, HostFrames, Opening
<1>2. \A h \in Sessions : Msg3(h) \in HostFrames
  BY DEF Msg3, HostFrames
<1>3. ASSUME LInv, cantil_session_send PROVE nreqs' \in Requests /\ Data(hs, nreqs') \in HostFrames
  <2>1. nreqs' \in Requests
    BY <1>3, LinkAssumption DEF LInv, Ports, cantil_session_send, Requests
  <2>2. hs.key \in Sessions /\ hs.tx \in Nat
    BY <1>3 DEF LInv, HostState, HostIn, Open, cantil_session_send
  <2> QED
    BY <2>1, <2>2 DEF Data, HostFrames, DataFrames
<1> QED
  BY <1>1, <1>2, <1>3

\* The answer to msg2 carries the transcript of a session.
LEMMA Msg3Sent ==
  ASSUME LInv, TakeMsg2, Head(tty).kind = "msg2", Head(tty).mac = AfterMsg2(hs.h, Head(tty).d)
  PROVE  /\ nopens \in Eph /\ Head(tty).d \in Eph
         /\ AfterMsg3(Head(tty).mac) = Key(nopens, Head(tty).d)
         /\ AfterMsg3(Head(tty).mac) \in Sessions
<1> DEFINE f == Head(tty)
<1>1. f \in DeviceFrames
  BY SeqHeadTail DEF LInv, TakeMsg2, Ports
<1>2. nopens \in Eph /\ hs.h = mix_hash(sym_init, nopens)
  BY DEF LInv, HostState, TakeMsg2, Handshake
<1>3. f.d \in Eph
  BY <1>1, <1>2, Msg2Genuine
<1>4. AfterMsg3(f.mac) = Key(nopens, f.d)
  BY <1>2 DEF Key, Half
<1> QED
  BY <1>2, <1>3, <1>4, Keys

\* The ring loses its head, is flushed, or gets one frame at its end.
LEMMA RingSteps ==
  ASSUME LInv, [LinkNext]_vars
  PROVE  \/ ring' = ring \/ ring' = <<>> \/ ring' = <<Torn>>
         \/ ring # <<>> /\ ring' = Tail(ring)
         \/ SendMsg1 /\ Arrives(Msg1(nopens)) /\ Msg1(nopens) \in HostFrames
         \/ cantil_session_send /\ Arrives(Data(hs, nreqs')) /\ Data(hs, nreqs') \in HostFrames
         \/ \E h \in Sessions : Arrives(Msg3(h)) /\ Msg3(h) \in HostFrames
<1>1. CASE UNCHANGED vars
  BY <1>1 DEF vars
<1>2. CASE Device
  BY <1>2 DEF Device, update_connected, Listen, PollsEmpty, LinkLost, TakeMsg1, TakeMsg3, PairingGate,
     session_recv, Respond, PasskeyVerdict, PairingRefused, RespondToReset, ResetDenied, Reboot, NoResponse
<1>3. CASE TakeMsg2
  <2>1. CASE Head(tty).kind = "msg2" /\ Head(tty).mac = AfterMsg2(hs.h, Head(tty).d)
    BY <1>3, <2>1, Msg3Sent, HostSends DEF TakeMsg2
  <2>2. CASE ~(Head(tty).kind = "msg2" /\ Head(tty).mac = AfterMsg2(hs.h, Head(tty).d))
    BY <1>3, <2>2 DEF TakeMsg2
  <2> QED
    BY <2>1, <2>2
<1>4. CASE SendMsg1
  BY <1>4, HostSends DEF SendMsg1
<1>5. CASE cantil_session_send
  BY <1>5, HostSends DEF cantil_session_send
<1>6. CASE \/ cantil_transport_open_usb \/ drain_transport \/ PolicyRefuses \/ Msg2TimesOut
           \/ cantil_session_drain \/ cantil_session_recv_to \/ RequestTimesOut \/ cantil_session_close \/ SessionOnOpenPort
  BY <1>6, Zenon DEF cantil_transport_open_usb, drain_transport, PolicyRefuses, Msg2TimesOut, cantil_session_drain,
     cantil_session_recv_to, RequestTimesOut, cantil_session_close, SessionOnOpenPort
<1> QED
  BY <1>1, <1>2, <1>3, <1>4, <1>5, <1>6 DEF LinkNext, Host

\* Each frame of the ring after a step was t places further back before it, is
\* torn or a msg3, or is what the step sent.
Shifted(t) ==
  \A i \in 1..Len(ring') :
    \/ i + t \in 1..Len(ring) /\ ring'[i] = ring[i + t]
    \/ ring'[i].kind \in {"torn", "msg3"}
    \/ t = 0 /\ i = Len(ring) + 1 /\ ring'[i] = Msg1(nopens) /\ SendMsg1
    \/ ring'[i] = Data(hs, nreqs') /\ cantil_session_send

\* What any step does to the ring.
LEMMA RingFacts ==
  ASSUME LInv, [LinkNext]_vars
  PROVE  /\ ring' \in Seq(HostFrames)
         /\ \/ Shifted(0)
            \/ ring # <<>> /\ ring' = Tail(ring) /\ Shifted(1)
<1>0. ring \in Seq(HostFrames)
  BY DEF LInv, Ports
<1>1. CASE ring' = ring \/ ring' = <<>> \/ ring' = <<Torn>>
  <2>1. CASE ring' = ring
    <3>1. \A i \in 1..Len(ring') : i + 0 \in 1..Len(ring) /\ ring'[i] = ring[i + 0]
      BY <1>0, <2>1
    <3> QED
      BY <1>0, <2>1, <3>1 DEF Shifted
  <2>2. CASE ring' = <<>>
    <3>1. ring' \in Seq(HostFrames) /\ 1..Len(ring') = {}
      BY <2>2
    <3> QED
      BY <3>1 DEF Shifted
  <2>3. CASE ring' = <<Torn>>
    <3>1. ring' \in Seq(HostFrames) /\ \A i \in 1..Len(ring') : ring'[i] = Torn
      BY <2>3 DEF HostFrames
    <3> QED
      BY <3>1 DEF Shifted, Torn
  <2> QED
    BY <1>1, <2>1, <2>2, <2>3
<1>2. CASE ring # <<>> /\ ring' = Tail(ring)
  <2>1. /\ Len(ring) \in Nat /\ Len(ring') = Len(ring) - 1 /\ ring' \in Seq(HostFrames)
        /\ \A i \in 1..Len(ring') : ring'[i] = ring[i + 1]
    BY <1>0, <1>2, SeqHeadTail
  <2>2. \A i \in 1..Len(ring') : i + 1 \in 1..Len(ring)
    BY <2>1
  <2> QED
    BY <1>2, <2>1, <2>2 DEF Shifted
<1>3. CASE SendMsg1 /\ Arrives(Msg1(nopens)) /\ Msg1(nopens) \in HostFrames
  BY <1>0, <1>3, ArrivesFacts DEF Shifted, Torn
<1>4. CASE cantil_session_send /\ Arrives(Data(hs, nreqs')) /\ Data(hs, nreqs') \in HostFrames
  BY <1>0, <1>4, ArrivesFacts DEF Shifted, Torn
<1>5. CASE \E h \in Sessions : Arrives(Msg3(h)) /\ Msg3(h) \in HostFrames
  <2>1. PICK h \in Sessions : Arrives(Msg3(h)) /\ Msg3(h) \in HostFrames
    BY <1>5
  <2> QED
    BY <1>0, <2>1, ArrivesFacts DEF Shifted, Torn, Msg3
<1> QED
  BY <1>1, <1>2, <1>3, <1>4, <1>5, RingSteps

\* The msg2 of a device that has just taken a msg1, or stray bytes for one.
NewMsg2(f) ==
  /\ TakeMsg1 /\ dpc' = "msg3"
  /\ \/ f = Msg2(0, Noise) /\ Head(ring) = Torn
     \/ Head(ring).kind = "msg1" /\ f = Msg2(neph + 1, Half(Head(ring).e, neph + 1))

\* Each frame on its way to the host after a step was there before it, is a
\* msg2, or is the response the step sent.
LEMMA TtyFacts ==
  ASSUME LInv, [LinkNext]_vars
  PROVE  /\ tty' \in Seq(DeviceFrames)
         /\ \A i \in 1..Len(tty') :
              \/ \E k \in 1..Len(tty) : tty'[i] = tty[k]
              \/ tty'[i].kind = "msg2" /\ NewMsg2(tty'[i])
              \/ tty'[i] = Data(ds, doing) /\ session_send /\ dpc \in Handling
<1>0. tty \in Seq(DeviceFrames)
  BY DEF LInv, Ports
<1>1. CASE tty' = tty \/ tty' = <<>>
  <2>1. CASE tty' = tty
    BY <1>0, <2>1
  <2>2. CASE tty' = <<>>
    <3>1. tty' \in Seq(DeviceFrames) /\ 1..Len(tty') = {}
      BY <2>2
    <3> QED
      BY <3>1
  <2> QED
    BY <1>1, <2>1, <2>2
<1>2. CASE tty # <<>> /\ tty' = Tail(tty)
  <2>1. /\ Len(tty) \in Nat /\ Len(tty') = Len(tty) - 1 /\ tty' \in Seq(DeviceFrames)
        /\ \A i \in 1..Len(tty') : tty'[i] = tty[i + 1]
    BY <1>0, <1>2, SeqHeadTail
  <2>2. \A i \in 1..Len(tty') : i + 1 \in 1..Len(tty)
    BY <2>1
  <2> QED
    BY <2>1, <2>2
<1>3. CASE dpc \in Handling /\ session_send /\ tty' = Append(tty, Data(ds, doing))
  <2>1. ds.key \in Sessions /\ ds.tx \in Nat /\ doing \in Requests
    BY <1>3 DEF LInv, DeviceState, DeviceIn, Handling, Open
  <2>2. Data(ds, doing) \in DeviceFrames
    BY <2>1 DEF Data, DeviceFrames, DataFrames
  <2> QED
    BY <1>0, <1>3, <2>2, SeqAppend
<1>4. CASE TakeMsg1 /\ tty' # tty
  <2> DEFINE f == Head(ring)
             g == Msg2(neph + 1, Half(f.e, neph + 1))
  <2>1. CASE f.kind = "msg1" /\ tty' = Append(tty, g) /\ dpc' = "msg3" /\ neph' = neph + 1
             /\ ds' = Handshake(Half(f.e, neph + 1))
    <3>1. f \in HostFrames
      BY <1>4, SeqHeadTail DEF LInv, Ports, TakeMsg1
    <3>2. f.e \in Eph
      BY <2>1, <3>1 DEF HostFrames, DataFrames, Torn
    <3>3. neph + 1 \in Eph
      BY <1>4, <2>1, <3>1, <3>2, NextEph DEF TakeMsg1
    <3>4. g \in DeviceFrames /\ g.kind = "msg2"
      BY <3>2, <3>3 DEF Msg2, DeviceFrames
    <3>5. NewMsg2(g)
      BY <1>4, <2>1 DEF NewMsg2
    <3> HIDE DEF g
    <3> QED
      BY <1>0, <2>1, <3>4, <3>5, SeqAppend
  <2>2. CASE f = Torn /\ tty' = Append(tty, Msg2(0, Noise)) /\ dpc' = "msg3"
    <3>1. Msg2(0, Noise) \in DeviceFrames /\ Msg2(0, Noise).kind = "msg2"
      BY DEF DeviceFrames, Msg2
    <3>2. NewMsg2(Msg2(0, Noise))
      BY <1>4, <2>2 DEF NewMsg2
    <3> QED
      BY <1>0, <2>2, <3>1, <3>2, SeqAppend
  <2> QED
    BY <1>4, <2>1, <2>2 DEF TakeMsg1, usb_send, Half
<1>5. CASE UNCHANGED vars
  BY <1>1, <1>5 DEF vars
<1>6. CASE Host
  BY <1>1, <1>2, <1>6, Zenon DEF Host, cantil_transport_open_usb, drain_transport, SendMsg1, TakeMsg2,
     PolicyRefuses, Msg2TimesOut, cantil_session_drain, cantil_session_send, cantil_session_recv_to,
     RequestTimesOut, cantil_session_close, SessionOnOpenPort
<1>7. CASE \/ update_connected \/ Listen \/ PollsEmpty \/ TakeMsg3 \/ PairingGate \/ session_recv
           \/ PairingRefused \/ Reboot \/ NoResponse \/ LinkLost
  BY <1>1, <1>7, Zenon DEF update_connected, Listen, PollsEmpty, TakeMsg3, PairingGate, session_recv,
     PairingRefused, Reboot, NoResponse, LinkLost
<1>8. CASE Respond \/ PasskeyVerdict \/ RespondToReset \/ ResetDenied
  BY <1>1, <1>3, <1>8
  DEF Respond, PasskeyVerdict, RespondToReset, ResetDenied, session_send, usb_send, Handling
<1>9. CASE TakeMsg1
  BY <1>1, <1>4, <1>9
<1> QED
  BY <1>5, <1>6, <1>7, <1>8, <1>9 DEF LinkNext, Device

\* Only frames an end can build travel.
LEMMA PortsStep == LInv /\ [LinkNext]_vars => Ports'
<1> SUFFICES ASSUME LInv, [LinkNext]_vars PROVE Ports'
  OBVIOUS
<1>0. Ports
  BY DEF LInv
<1>1. nopens' \in 0..MaxOpens /\ nreqs' \in 0..MaxRequests
      /\ (hpc' \in Opening => nopens' \in Eph) /\ (hpc' = "drained" => nreqs' < MaxRequests)
  <2>1. CASE UNCHANGED hostvars
    BY <1>0, <2>1 DEF Ports, hostvars
  <2>2. CASE cantil_transport_open_usb \/ SessionOnOpenPort \/ drain_transport
    BY <1>0, <2>2, LinkAssumption
    DEF Ports, Eph, Opening, cantil_transport_open_usb, SessionOnOpenPort, drain_transport
  <2>3. CASE cantil_session_drain
    BY <1>0, <2>3 DEF Ports, Opening, cantil_session_drain
  <2>4. CASE cantil_session_send
    BY <1>0, <2>4, LinkAssumption DEF Ports, Opening, cantil_session_send
  <2>5. CASE /\ UNCHANGED <<nopens, nreqs>>
             /\ hpc' \in {"closed", "msg2", "ready"}
    BY <1>0, <2>5 DEF Ports, Opening
  <2>6. CASE SendMsg1 \/ TakeMsg2 \/ PolicyRefuses \/ Msg2TimesOut
    BY <2>5, <2>6 DEF SendMsg1, TakeMsg2, PolicyRefuses, Msg2TimesOut, usb_close
  <2>7. CASE cantil_session_recv_to \/ RequestTimesOut \/ cantil_session_close
    BY <2>5, <2>7 DEF cantil_session_recv_to, RequestTimesOut, cantil_session_close, usb_close
  <2> QED
    BY <2>1, <2>2, <2>3, <2>4, <2>6, <2>7, Sides DEF LinkNext, Host, vars
<1> QED
  BY <1>1, RingFacts, TtyFacts DEF Ports

\* The host's count of handshakes grows, and by one when it opens.
LEMMA Handshakes ==
  ASSUME LInv, [LinkNext]_vars
  PROVE  /\ nopens \in Nat /\ nopens' \in Nat /\ neph \in Nat
         /\ nopens' = nopens \/ nopens' = nopens + 1
         /\ hpc' \in Opening => nopens' = nopens + 1 \/ hpc \in Opening
         /\ hpc' = "msg2" => hpc \in {"flushed", "msg2"}
<1>1. nopens \in Nat /\ neph \in Nat
  BY DEF LInv, Ports, Ordered
<1>2. CASE UNCHANGED hostvars
  BY <1>1, <1>2 DEF hostvars
<1>3. CASE cantil_transport_open_usb \/ SessionOnOpenPort
  BY <1>1, <1>3 DEF cantil_transport_open_usb, SessionOnOpenPort
<1>4. CASE nopens' = nopens /\ hpc' \notin Opening /\ (hpc' = "msg2" => hpc = "flushed")
  BY <1>1, <1>4
<1>5. CASE drain_transport
  BY <1>1, <1>5 DEF drain_transport, Opening
<1>6. CASE SendMsg1 \/ TakeMsg2 \/ PolicyRefuses \/ Msg2TimesOut \/ cantil_session_drain
  BY <1>4, <1>6 DEF SendMsg1, TakeMsg2, PolicyRefuses, Msg2TimesOut, cantil_session_drain, usb_close, Opening
<1>7. CASE \/ cantil_session_send \/ cantil_session_recv_to \/ RequestTimesOut
           \/ cantil_session_close
  BY <1>4, <1>7 DEF cantil_session_send, cantil_session_recv_to, RequestTimesOut,
     cantil_session_close, usb_close, Opening
<1> QED
  BY <1>2, <1>3, <1>5, <1>6, <1>7, Sides DEF LinkNext, Host, vars

\* The ring after a step that uses no ephemeral key of the device.
LEMMA StaysOrdered ==
  ASSUME LInv, [LinkNext]_vars, neph' = neph, NEW t \in {0, 1}, Shifted(t)
  PROVE  Ordered'
<1>0. /\ Ordered /\ ring \in Seq(HostFrames) /\ ring' \in Seq(HostFrames)
      /\ Len(ring) \in Nat /\ Len(ring') \in Nat
  BY RingFacts DEF LInv, Ports
<1>1. neph' \in 0..nopens' /\ (hpc' \in Opening => neph' < nopens')
  BY <1>0, Handshakes DEF Ordered
<1>2. ASSUME NEW i \in 1..Len(ring'), ring'[i].kind = "msg1"
      PROVE  /\ \/ i + t \in 1..Len(ring) /\ ring'[i] = ring[i + t]
                \/ t = 0 /\ i = Len(ring) + 1 /\ ring'[i] = Msg1(nopens) /\ SendMsg1
             /\ ring'[i].e \in Nat
  <2>1. ring'[i] \in HostFrames
    BY <1>0
  <2>2. ring'[i].e \in Nat
    BY <1>2, <2>1 DEF HostFrames, DataFrames, Torn, Eph
  <2> QED
    BY <1>2, <2>2 DEF Shifted, Data
<1>3. ASSUME SendMsg1
      PROVE  hpc \in Opening /\ hpc' = "msg2" /\ nopens' = nopens /\ neph < nopens
  BY <1>0, <1>3 DEF SendMsg1, Ordered, Opening
<1>4. ASSUME NEW i \in 1..Len(ring'), ring'[i].kind = "msg1"
      PROVE  /\ neph' < ring'[i].e /\ ring'[i].e <= nopens'
             /\ hpc' \in Opening => ring'[i].e < nopens'
  <2>1. CASE i + t \in 1..Len(ring) /\ ring'[i] = ring[i + t]
    <3>1. /\ neph < ring[i + t].e /\ ring[i + t].e <= nopens
          /\ hpc \in Opening => ring[i + t].e < nopens
      BY <1>0, <1>4, <2>1 DEF Ordered
    <3> QED
      BY <1>2, <1>4, <2>1, <3>1, Handshakes
  <2>2. CASE ring'[i] = Msg1(nopens) /\ SendMsg1
    BY <1>3, <2>2, Handshakes DEF Msg1, Opening
  <2> QED
    BY <1>2, <1>4, <2>1, <2>2
<1>5. ASSUME NEW i \in 1..Len(ring'), ring'[i].kind = "msg1",
             NEW j \in 1..Len(ring'), j > i, ring'[j].kind = "msg1"
      PROVE  ring'[i].e < ring'[j].e
  <2>1. i + t \in 1..Len(ring) /\ ring'[i] = ring[i + t]
    BY <1>0, <1>2, <1>5
  <2>2. CASE j + t \in 1..Len(ring) /\ ring'[j] = ring[j + t]
    <3>1. j + t > i + t
      BY <1>5
    <3> QED
      BY <1>0, <1>5, <2>1, <2>2, <3>1 DEF Ordered
  <2>3. CASE ring'[j] = Msg1(nopens) /\ SendMsg1
    BY <1>0, <1>3, <1>5, <2>1, <2>3 DEF Ordered, Msg1
  <2> QED
    BY <1>2, <1>5, <2>2, <2>3
<1> QED
  BY <1>1, <1>4, <1>5 DEF Ordered

\* Every step keeps the messages 1 in the ring in order and ahead of the device.
LEMMA OrderedStep == LInv /\ [LinkNext]_vars => Ordered'
<1> SUFFICES ASSUME LInv, [LinkNext]_vars PROVE Ordered'
  OBVIOUS
<1>1. CASE neph' = neph
  BY <1>1, RingFacts, StaysOrdered
<1>2. CASE neph' # neph
  <2>1. TakeMsg1
    <3>1. CASE UNCHANGED devvars
      BY <1>2, <3>1 DEF devvars
    <3>2. ~(update_connected \/ Listen \/ PollsEmpty \/ TakeMsg3 \/ PairingGate \/ session_recv)
      BY <1>2, Zenon DEF update_connected, Listen, PollsEmpty, TakeMsg3, PairingGate, session_recv
    <3>3. ~(\/ Respond \/ PasskeyVerdict \/ PairingRefused \/ RespondToReset \/ ResetDenied \/ Reboot
            \/ NoResponse \/ LinkLost)
      BY <1>2, Zenon DEF Respond, PasskeyVerdict, PairingRefused, RespondToReset, ResetDenied, Reboot,
         NoResponse, LinkLost
    <3> QED
      BY <3>1, <3>2, <3>3, Sides, Zenon DEF LinkNext, vars, Device
  <2>2. /\ Head(ring).kind = "msg1" /\ neph' = neph + 1 /\ UNCHANGED <<hpc, nopens>>
        /\ ring # <<>> /\ ring' = Tail(ring)
    BY <1>2, <2>1 DEF TakeMsg1, hostvars
  <2>3. Ordered /\ ring \in Seq(HostFrames) /\ neph \in Nat /\ nopens \in Nat
    BY DEF LInv, Ports, Ordered
  <2>4. /\ Len(ring) \in Nat \ {0} /\ Len(ring') = Len(ring) - 1 /\ ring' \in Seq(HostFrames)
        /\ Head(ring) = ring[1]
        /\ \A i \in 1..Len(ring') : ring'[i] = ring[i + 1]
    BY <2>2, <2>3, SeqHeadTail
  <2>5. \A i \in 1..Len(ring) : ring[i].kind = "msg1" => ring[i].e \in Nat
    <3> SUFFICES ASSUME NEW i \in 1..Len(ring), ring[i].kind = "msg1" PROVE ring[i].e \in Nat
      OBVIOUS
    <3>1. ring[i] \in HostFrames
      BY <2>3
    <3> QED
      BY <3>1 DEF HostFrames, DataFrames, Torn, Eph
  <2>6. 1 \in 1..Len(ring) /\ \A i \in 1..Len(ring') : i + 1 \in 1..Len(ring) /\ i + 1 > 1
    BY <2>4
  <2>7. /\ neph < ring[1].e /\ ring[1].e <= nopens /\ (hpc \in Opening => ring[1].e < nopens)
        /\ ring[1].e \in Nat
    BY <2>2, <2>3, <2>4, <2>5, <2>6 DEF Ordered
  <2>8. neph' \in 0..nopens' /\ (hpc' \in Opening => neph' < nopens')
    BY <2>2, <2>3, <2>7
  <2>9. ASSUME NEW i \in 1..Len(ring'), ring'[i].kind = "msg1"
        PROVE  /\ neph' < ring'[i].e /\ ring'[i].e <= nopens'
               /\ hpc' \in Opening => ring'[i].e < nopens'
               /\ \A j \in 1..Len(ring') : j > i /\ ring'[j].kind = "msg1" => ring'[i].e < ring'[j].e
    <3>1. ring[1].e < ring[i + 1].e /\ ring[i + 1].e \in Nat
      BY <2>2, <2>3, <2>4, <2>5, <2>6, <2>9 DEF Ordered
    <3>2. ring'[i].e <= nopens' /\ (hpc' \in Opening => ring'[i].e < nopens')
      BY <2>2, <2>3, <2>4, <2>6, <2>9 DEF Ordered
    <3>3. neph' < ring'[i].e
      BY <2>2, <2>3, <2>4, <2>7, <3>1
    <3>4. ASSUME NEW j \in 1..Len(ring'), j > i, ring'[j].kind = "msg1" PROVE ring'[i].e < ring'[j].e
      <4>1. j + 1 > i + 1
        BY <2>4, <3>4
      <4>2. ring[i + 1].kind = "msg1" /\ ring[j + 1].kind = "msg1"
        BY <2>4, <2>9, <3>4
      <4>3. ring[i + 1].e < ring[j + 1].e
        BY <2>3, <2>6, <4>1, <4>2 DEF Ordered
      <4> QED
        BY <2>4, <4>3
    <3> QED
      BY <3>2, <3>3, <3>4
  <2> QED
    BY <2>8, <2>9 DEF Ordered
<1> QED
  BY <1>1, <1>2
=============================================================================
