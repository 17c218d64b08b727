---------------------------- MODULE LinkAnswers ----------------------------
(***************************************************************************)
(* In a session of Link where nothing was given up, the answer the host    *)
(* accepts belongs to its request; and a handshake the device was          *)
(* listening for is not lost.                                              *)
(*                                                                         *)
(* The argument: once the device has answered msg1, nothing is on its way  *)
(* to it and nothing follows its answer (Greeting), so both ends enter the *)
(* session with the same key and with nothing but msg3 in flight (Shared). *)
(* From then on the nonce counters of the two ends are level but for the   *)
(* one request outstanding, and at most one frame, the answer to it, is on *)
(* its way to the host; or the device has left the session, perhaps for a  *)
(* handshake with stray bytes, and nothing it sends passes for an answer   *)
(* (Settled).  For the handshake: msg1 is alone in the ring of a device    *)
(* that waits for it, or its answer alone on its way (Undisturbed).        *)
(***************************************************************************)
EXTENDS LinkProofs

(* The answer to a request is its own. *)

\* The message 2 that answers the handshake the host is in.
AnswersMsg1(f) == f.kind = "msg2" /\ f.mac = Half(nopens, f.d)

\* A msg2 on its way answers a msg1 that was sent.
Heard ==
  \A i \in 1..Len(tty), e \in Eph : tty[i].kind = "msg2" /\ tty[i].mac = Half(e, tty[i].d) =>
    e <= nopens /\ (hpc \in Opening => e < nopens)

\* While the host waits for msg2, its msg1 is the last frame it sent; once the
\* device has answered, nothing is on its way to it, and it has moved on at most
\* to a new wait.
Greeting == hpc = "msg2" =>
  /\ \A i \in 1..Len(ring) : ring[i].kind = "msg1" /\ ring[i].e = nopens => i = Len(ring)
  /\ \A i \in 1..Len(tty) : AnswersMsg1(tty[i]) =>
       /\ i = Len(tty) /\ tty[i].d = neph /\ ring = <<>>
       /\ \/ dpc \in {"idle", "msg1"}
          \/ dpc = "msg3" /\ AfterMsg3(ds.h) = Key(nopens, neph)

\* As long as the host is in a session, so is the device, or it waits for the end
\* of the handshake, or it has left and nothing brings it into another.
Shared == hpc \in HostIn =>
  /\ \A i \in 1..Len(ring) : ring[i].kind # "msg1"
  /\ dpc = "msg3" => AfterMsg3(ds.h) = hs.key \/ ds = Handshake(Noise)
  /\ dpc \in DeviceIn => ds.key = hs.key

\* The host waits for msg2 after it sent msg1, and sends nothing meanwhile.
LEMMA WaitsForMsg2 ==
  ASSUME LInv, [LinkNext]_vars, hpc' = "msg2"
  PROVE  SendMsg1 \/ (hpc = "msg2" /\ UNCHANGED hostvars /\ (Device \/ UNCHANGED vars))
<1>1. CASE SendMsg1
  BY <1>1
<1>2. CASE \/ cantil_transport_open_usb \/ drain_transport \/ TakeMsg2 \/ PolicyRefuses
           \/ Msg2TimesOut \/ cantil_session_drain
  BY <1>2, Zenon DEF cantil_transport_open_usb, drain_transport, TakeMsg2, PolicyRefuses,
     Msg2TimesOut, usb_close, cantil_session_drain
<1>3. CASE \/ cantil_session_send \/ cantil_session_recv_to \/ RequestTimesOut
           \/ cantil_session_close \/ SessionOnOpenPort
  BY <1>3, Zenon DEF cantil_session_send, cantil_session_recv_to, RequestTimesOut,
     cantil_session_close, SessionOnOpenPort, usb_close
<1>4. CASE Device \/ UNCHANGED vars
  BY <1>4, Sides DEF vars, hostvars
<1> QED
  BY <1>1, <1>2, <1>3, <1>4 DEF LinkNext, Host

\* The device takes frames off the ring.
LEMMA DeviceRing ==
  ASSUME LInv, Device \/ UNCHANGED vars
  PROVE  /\ ring \in Seq(HostFrames) /\ Len(ring) \in Nat
         /\ \/ ring' = ring \/ ring' = <<>>
            \/ ring' = <<Torn>> /\ ring # <<>> /\ Listen
            \/ ring # <<>> /\ ring' = Tail(ring) /\ Len(ring') = Len(ring) - 1
               /\ \A i \in 1..Len(ring') : ring'[i] = ring[i + 1] /\ i + 1 \in 1..Len(ring)
<1>0. ring \in Seq(HostFrames) /\ Len(ring) \in Nat
  BY DEF LInv, Ports
<1>1. \/ ring' = ring \/ ring' = <<>> \/ (ring # <<>> /\ ring' = Tail(ring))
      \/ ring' = <<Torn>> /\ ring # <<>> /\ Listen
  BY Zenon DEF Device, update_connected, Listen, PollsEmpty, LinkLost, TakeMsg1, TakeMsg3, PairingGate,
     session_recv, Respond, PasskeyVerdict, PairingRefused, RespondToReset, ResetDenied, Reboot, NoResponse, vars
<1>2. CASE ring # <<>> /\ ring' = Tail(ring)
  <2>1. Len(ring') = Len(ring) - 1 /\ \A i \in 1..Len(ring') : ring'[i] = ring[i + 1]
    BY <1>0, <1>2, SeqHeadTail
  <2>2. \A i \in 1..Len(ring') : i + 1 \in 1..Len(ring)
    BY <1>0, <2>1
  <2> QED
    BY Zenon, <1>0, <1>2, <2>1, <2>2
<1> QED
  BY <1>0, <1>1, <1>2

\* What is on its way to the host keeps its place when the device adds a frame.
LEMMA DeviceSends ==
  ASSUME LInv, NEW f \in DeviceFrames, usb_send(f)
  PROVE  /\ Len(tty) \in Nat /\ Len(tty') \in {Len(tty), Len(tty) + 1}
         /\ \A i \in 1..Len(tty') :
              \/ i \in 1..Len(tty) /\ tty'[i] = tty[i]
              \/ i = Len(tty) + 1 /\ i = Len(tty') /\ tty'[i] = f
<1>0. tty \in Seq(DeviceFrames) /\ Len(tty) \in Nat
  BY DEF LInv, Ports
<1>1. CASE tty' = tty
  BY <1>0, <1>1
<1>2. CASE tty' = Append(tty, f)
  BY <1>0, <1>2, SeqAppend
<1> QED
  BY <1>1, <1>2 DEF usb_send

\* A half transcript tells both ephemeral keys.
LEMMA HalfFields ==
  ASSUME NEW e \in Eph, NEW d \in Eph
  PROVE  Half(e, d)[2] = e /\ Half(e, d)[3] = d
BY LinkAssumption DEF Half, AfterMsg2, mix_hash, sym_init, Eph

\* When the device answers msg1.
LEMMA Msg1Taken ==
  ASSUME LInv, TakeMsg1, Head(ring).kind = "msg1", dpc' = "msg3"
  PROVE  /\ Head(ring) = ring[1] /\ 1 \in 1..Len(ring) /\ Len(ring) \in Nat
         /\ ring[1].e \in Eph /\ neph + 1 \in Eph /\ neph' = neph + 1 /\ dpc' = "msg3"
         /\ ds' = Handshake(Half(ring[1].e, neph + 1))
         /\ Msg2(neph + 1, Half(ring[1].e, neph + 1)) \in DeviceFrames
         /\ usb_send(Msg2(neph + 1, Half(ring[1].e, neph + 1)))
<1>1. Head(ring) = ring[1] /\ Head(ring) \in HostFrames /\ 1 \in 1..Len(ring) /\ Len(ring) \in Nat
  BY SeqHeadTail DEF TakeMsg1, LInv, Ports
<1>2. ring[1].e \in Eph
  BY <1>1 DEF HostFrames, DataFrames, Torn
<1>3. neph + 1 \in Eph
  BY <1>1, NextEph DEF TakeMsg1
<1>4. neph' = neph + 1 /\ dpc' = "msg3" /\ ds' = Handshake(Half(ring[1].e, neph + 1))
      /\ usb_send(Msg2(neph + 1, Half(ring[1].e, neph + 1)))
  BY <1>1 DEF TakeMsg1, Half, Torn, session_close
<1>5. Msg2(neph + 1, Half(ring[1].e, neph + 1)) \in DeviceFrames
  BY <1>2, <1>3 DEF Msg2, DeviceFrames
<1> QED
  BY <1>1, <1>2, <1>3, <1>4, <1>5

\* No step breaks Heard: the device answers what is in the ring.
LEMMA HeardStep == LInv /\ Heard /\ [LinkNext]_vars => Heard'
<1> SUFFICES ASSUME LInv, Heard, [LinkNext]_vars, NEW i \in 1..Len(tty'), NEW e \in Eph,
                    tty'[i].kind = "msg2", tty'[i].mac = Half(e, tty'[i].d)
             PROVE  e <= nopens' /\ (hpc' \in Opening => e < nopens')
  BY DEF Heard
<1>0. /\ nopens \in Nat /\ nopens' \in Nat /\ e \in Nat
      /\ nopens' = nopens \/ nopens' = nopens + 1
      /\ hpc' \in Opening => nopens' = nopens + 1 \/ hpc \in Opening
  BY Handshakes, LinkAssumption DEF Eph
<1>1. CASE e <= nopens /\ (hpc \in Opening => e < nopens)
  BY <1>0, <1>1
<1>2. CASE \E k \in 1..Len(tty) : tty'[i] = tty[k]
  BY <1>1, <1>2 DEF Heard
<1>3. CASE NewMsg2(tty'[i]) /\ tty'[i] = Msg2(0, Noise)
  <2>1. Half(e, 0) = Noise
    BY <1>3 DEF Msg2
  <2> QED
    BY <1>0, <2>1, NoiseFacts
<1>4. CASE NewMsg2(tty'[i]) /\ tty'[i] # Msg2(0, Noise)
  <2>1. /\ TakeMsg1 /\ dpc' = "msg3" /\ Head(ring).kind = "msg1"
        /\ tty'[i] = Msg2(neph + 1, Half(Head(ring).e, neph + 1))
    BY <1>4 DEF NewMsg2
  <2>2. Head(ring) = ring[1] /\ ring[1].e \in Eph /\ neph + 1 \in Eph /\ 1 \in 1..Len(ring)
    BY <2>1, Msg1Taken
  <2>3. Half(e, neph + 1) = Half(ring[1].e, neph + 1)
    BY <2>1, <2>2 DEF Msg2
  <2>4. e = ring[1].e
    BY <2>2, <2>3, HalfFields
  <2>5. ring[1].e <= nopens /\ (hpc \in Opening => ring[1].e < nopens)
    BY <2>1, <2>2 DEF LInv, Ordered
  <2> QED
    BY <1>1, <2>4, <2>5
<1>5. tty'[i] # Data(ds, doing)
  BY DEF Data
<1> QED
  BY <1>2, <1>3, <1>4, <1>5, TtyFacts

\* No step breaks Greeting.
LEMMA GreetingStep == LInv /\ Heard /\ Greeting /\ [LinkNext]_vars => Greeting'
<1> SUFFICES ASSUME LInv, Heard, Greeting, [LinkNext]_vars, hpc' = "msg2"
             PROVE  /\ \A i \in 1..Len(ring') :
                         ring'[i].kind = "msg1" /\ ring'[i].e = nopens' => i = Len(ring')
                    /\ \A i \in 1..Len(tty') : AnswersMsg1(tty[i])' =>
                         /\ i = Len(tty') /\ tty'[i].d = neph' /\ ring' = <<>>
                         /\ \/ dpc' \in {"idle", "msg1"}
                            \/ dpc' = "msg3" /\ AfterMsg3(ds'.h) = Key(nopens', neph')
  BY DEF Greeting
<1>1. CASE SendMsg1
  <2>1. /\ hpc \in Opening /\ tty' = tty /\ nopens' = nopens /\ Arrives(Msg1(nopens))
        /\ Msg1(nopens) \in HostFrames
    BY <1>1, HostSends DEF SendMsg1, Opening
  <2>2. \A i \in 1..Len(tty) : ~ AnswersMsg1(tty[i])
    <3>1. nopens \in Eph /\ nopens \in Nat
      BY <2>1 DEF LInv, Ports
    <3> QED
      BY <2>1, <3>1 DEF Heard, AnswersMsg1
  <2>3. ring \in Seq(HostFrames) /\ Len(ring) \in Nat
    BY DEF LInv, Ports
  <2>4. ASSUME NEW i \in 1..Len(ring'), ring'[i].kind = "msg1", ring'[i].e = nopens
        PROVE  i = Len(ring')
    <3>1. \/ i \in 1..Len(ring) /\ ring'[i] = ring[i]
          \/ i = Len(ring) + 1
      BY <2>1, <2>3, <2>4, ArrivesFacts DEF Torn
    <3>2. CASE i \in 1..Len(ring) /\ ring'[i] = ring[i]
      <4>1. ring[i].e < nopens
        BY <2>1, <2>4, <3>2 DEF LInv, Ordered
      <4>2. nopens \in Nat
        BY DEF LInv, Ports
      <4> QED
        BY <2>4, <3>2, <4>1, <4>2
    <3>3. CASE i = Len(ring) + 1
      <4>1. Len(ring') \in {Len(ring), Len(ring) + 1}
        BY <2>1, <2>3, ArrivesFacts
      <4> QED
        BY <2>3, <3>3, <4>1
    <3> QED
      BY <3>1, <3>2, <3>3
  <2> QED
    BY <2>1, <2>2, <2>4 DEF AnswersMsg1
<1>2. CASE hpc = "msg2" /\ UNCHANGED hostvars /\ (Device \/ UNCHANGED vars)
  <2>1. hpc = "msg2" /\ nopens' = nopens /\ (Device \/ UNCHANGED vars)
    BY <1>2 DEF hostvars
  <2>2. \A i \in 1..Len(ring') : ring'[i].kind = "msg1" /\ ring'[i].e = nopens => i = Len(ring')
    <3>1. CASE ring' = ring
      BY <2>1, <3>1 DEF Greeting
    <3>2. CASE ring' = <<>>
      <4>1. 1..Len(ring') = {}
        BY <3>2
      <4> QED
        BY <4>1
    <3>3. CASE /\ Len(ring) \in Nat /\ Len(ring') = Len(ring) - 1
               /\ \A i \in 1..Len(ring') : ring'[i] = ring[i + 1] /\ i + 1 \in 1..Len(ring)
      BY <2>1, <3>3 DEF Greeting
    <3>4. CASE ring' = <<Torn>>
      <4>1. \A i \in 1..Len(ring') : ring'[i] = Torn
        BY <3>4
      <4> QED
        BY <4>1 DEF Torn
    <3> QED
      BY <2>1, <3>1, <3>2, <3>3, <3>4, DeviceRing
  <2>3. \A i \in 1..Len(tty) : AnswersMsg1(tty[i]) =>
          /\ i = Len(tty) /\ tty[i].d = neph /\ ring = <<>>
          /\ \/ dpc \in {"idle", "msg1"}
             \/ dpc = "msg3" /\ AfterMsg3(ds.h) = Key(nopens, neph)
    BY <2>1 DEF Greeting
  <2> DEFINE Completes(i) ==
        /\ i = Len(tty') /\ tty'[i].d = neph' /\ ring' = <<>>
        /\ \/ dpc' \in {"idle", "msg1"}
           \/ dpc' = "msg3" /\ AfterMsg3(ds'.h) = Key(nopens, neph')
  <2>4. ASSUME NEW i \in 1..Len(tty'), tty'[i].kind = "msg2", tty'[i].mac = Half(nopens, tty'[i].d)
        PROVE  Completes(i)
    <3>1. CASE TakeMsg1 /\ Head(ring).kind = "msg1" /\ dpc' = "msg3"
      <4> DEFINE f == Msg2(neph + 1, Half(ring[1].e, neph + 1))
      <4>1. ring # <<>> /\ i \in 1..Len(tty) => tty'[i] # tty[i]
        BY <2>3, <2>4, <3>1 DEF TakeMsg1, AnswersMsg1
      <4>2. i = Len(tty') /\ tty'[i] = f
        BY Zenon, <3>1, <4>1, Msg1Taken, DeviceSends DEF TakeMsg1
      <4>3. tty'[i].d = neph + 1 /\ Half(ring[1].e, neph + 1) = Half(nopens, neph + 1)
        BY <2>4, <4>2 DEF Msg2
      <4>4. nopens \in Eph /\ ring[1].e \in Eph /\ neph + 1 \in Eph
        BY <2>1, <3>1, Msg1Taken DEF LInv, HostState
      <4>5. ring[1].e = nopens
        BY <4>3, <4>4, HalfFields
      <4>6. Len(ring) = 1
        BY Zenon, <2>1, <3>1, <4>5, Msg1Taken DEF Greeting
      <4>7. ring' = <<>>
        BY SMTT(30), <3>1, <4>6 DEF TakeMsg1, LInv, Ports
      <4>8. dpc' = "msg3" /\ neph' = neph + 1 /\ AfterMsg3(ds'.h) = Key(nopens, neph + 1)
        BY <3>1, <4>5, Msg1Taken DEF Handshake, Key
      <4> QED
        BY <4>2, <4>3, <4>7, <4>8
    <3>2. CASE ring # <<>> /\ tty' = tty
      BY <2>3, <2>4, <3>2 DEF AnswersMsg1
    <3>3. CASE session_send /\ dpc \in Handling
      <4>1. Data(ds, doing) \in DeviceFrames /\ usb_send(Data(ds, doing))
        BY <3>3 DEF LInv, DeviceState, DeviceIn, Handling, Open, Data, DeviceFrames, DataFrames, session_send
      <4>2. i \in 1..Len(tty) /\ tty'[i] = tty[i]
        BY <2>4, <4>1, DeviceSends DEF Data
      <4> QED
        BY <2>3, <2>4, <3>3, <4>2 DEF AnswersMsg1, Handling
    <3>4. CASE /\ tty' = tty /\ neph' = neph /\ (ring' = ring \/ ring' = <<>>)
               /\ \/ dpc' = dpc /\ ds' = ds
                  \/ dpc' \in {"idle", "msg1"}
                  \/ dpc \notin {"idle", "msg1", "msg3"}
      <4>1. AnswersMsg1(tty[i]) /\ i \in 1..Len(tty)
        BY <2>4, <3>4 DEF AnswersMsg1
      <4> QED
        BY <2>3, <3>4, <4>1
    <3>5. CASE TakeMsg1
      <4>1. CASE tty' = tty
        BY <3>2, <3>5, <4>1 DEF TakeMsg1
      <4>2. CASE usb_send(Msg2(0, Noise))
        <5>1. Msg2(0, Noise) \in DeviceFrames
          BY DEF DeviceFrames
        <5>2. CASE tty'[i] = Msg2(0, Noise)
          <6>1. Half(nopens, 0) = Noise /\ nopens \in Nat
            BY <2>4, <5>2 DEF Msg2, LInv, Ports
          <6> QED
            BY <6>1, NoiseFacts
        <5>3. CASE i \in 1..Len(tty) /\ tty'[i] = tty[i]
          BY <2>3, <2>4, <3>5, <5>3 DEF TakeMsg1, AnswersMsg1
        <5> QED
          BY <4>2, <5>1, <5>2, <5>3, DeviceSends
      <4> QED
        BY Zenon, <3>1, <3>5, <4>1, <4>2 DEF TakeMsg1
    <3>6. CASE TakeMsg3 \/ session_recv
      BY <3>2, <3>6 DEF TakeMsg3, session_recv
    <3>7. CASE Respond \/ PasskeyVerdict \/ RespondToReset \/ ResetDenied
      BY <3>3, <3>7 DEF Respond, PasskeyVerdict, RespondToReset, ResetDenied, Handling
    <3>8. CASE \/ update_connected \/ PollsEmpty \/ LinkLost \/ PairingGate \/ PairingRefused
               \/ Reboot \/ NoResponse \/ UNCHANGED vars
      BY <3>4, <3>8 DEF update_connected, PollsEmpty, LinkLost, PairingGate, PairingRefused, Reboot,
         NoResponse, session_close, vars, devvars
    <3>9. CASE Listen
      BY <3>2, <3>4, <3>9 DEF Listen
    <3> QED
      BY <2>1, <3>5, <3>6, <3>7, <3>8, <3>9 DEF Device
  <2> QED
    BY <2>1, <2>2, <2>4 DEF AnswersMsg1
<1> QED
  BY <1>1, <1>2, WaitsForMsg2

\* How the host comes to be in a session, and what it does there.
LEMMA StaysInSession ==
  ASSUME LInv, [LinkNext]_vars, hpc' \in HostIn
  PROVE  \/ TakeMsg2 /\ Head(tty).kind = "msg2" /\ Head(tty).mac = AfterMsg2(hs.h, Head(tty).d)
         \/ /\ hpc \in HostIn
            /\ \/ cantil_session_drain \/ cantil_session_send \/ cantil_session_recv_to
               \/ RequestTimesOut
               \/ UNCHANGED hostvars /\ (Device \/ UNCHANGED vars)
<1> USE DEF HostIn
<1>1. CASE TakeMsg2
  BY <1>1 DEF TakeMsg2, usb_close
<1>2. CASE \/ cantil_transport_open_usb \/ drain_transport \/ SendMsg1 \/ PolicyRefuses
           \/ Msg2TimesOut \/ cantil_session_close \/ SessionOnOpenPort
  BY <1>2, Zenon DEF cantil_transport_open_usb, drain_transport, SendMsg1, PolicyRefuses,
     Msg2TimesOut, usb_close, cantil_session_close, SessionOnOpenPort
<1>3. CASE \/ cantil_session_drain \/ cantil_session_send \/ cantil_session_recv_to
           \/ RequestTimesOut
  BY <1>3, Zenon DEF cantil_session_drain, cantil_session_send, cantil_session_recv_to,
     RequestTimesOut
<1>4. CASE Device \/ UNCHANGED vars
  BY <1>4, Sides DEF vars, hostvars
<1> QED
  BY <1>1, <1>2, <1>3, <1>4 DEF LinkNext, Host

\* When the host takes msg2, the ring is empty and the device waits for msg3, or
\* for another handshake.
LEMMA Msg2Taken ==
  ASSUME LInv, Greeting, TakeMsg2,
         Head(tty).kind = "msg2", Head(tty).mac = AfterMsg2(hs.h, Head(tty).d)
  PROVE  /\ tty' = <<>> /\ hpc' = "ready" /\ asked' = asked /\ UNCHANGED devvars
         /\ \A i \in 1..Len(ring') : ring'[i].kind = "msg3"
         /\ hs' = split(Key(nopens, neph)) /\ hs'.key = Key(nopens, neph)
         /\ hs'.tx = 0 /\ hs'.rx = 0
         /\ \/ dpc \in {"idle", "msg1"}
            \/ dpc = "msg3" /\ AfterMsg3(ds.h) = Key(nopens, neph)
<1>1. /\ tty \in Seq(DeviceFrames) /\ Head(tty) = tty[1] /\ 1 \in 1..Len(tty) /\ Len(tty) \in Nat
  BY SeqHeadTail DEF TakeMsg2, LInv, Ports
<1>2. hpc = "msg2" /\ hs.h = mix_hash(sym_init, nopens)
  BY DEF TakeMsg2, LInv, HostState, Handshake
<1>3. AnswersMsg1(tty[1])
  BY <1>1, <1>2 DEF AnswersMsg1, Half
<1>4. /\ 1 = Len(tty) /\ tty[1].d = neph /\ ring = <<>>
      /\ \/ dpc \in {"idle", "msg1"}
         \/ dpc = "msg3" /\ AfterMsg3(ds.h) = Key(nopens, neph)
  BY Zenon, <1>1, <1>2, <1>3 DEF Greeting
<1>5. AfterMsg3(Head(tty).mac) = Key(nopens, neph) /\ Key(nopens, neph) \in Sessions
  BY <1>1, <1>4, Msg3Sent
<1>6. /\ hpc' = "ready" /\ asked' = asked /\ UNCHANGED devvars
      /\ hs' = split(Key(nopens, neph)) /\ Arrives(Msg3(Key(nopens, neph))) /\ tty' = Tail(tty)
  BY <1>5 DEF TakeMsg2
<1>7. hs'.key = Key(nopens, neph) /\ hs'.tx = 0 /\ hs'.rx = 0
  BY <1>6 DEF split
<1>8. ring' = Append(ring, Msg3(Key(nopens, neph)))
  BY <1>4, <1>6, LinkAssumption, SeqEmpty DEF Arrives
<1>9. \A i \in 1..Len(ring') : ring'[i] = Msg3(Key(nopens, neph))
  BY <1>4, <1>8
<1>10. tty' = <<>>
  BY <1>1, <1>4, <1>6
<1> QED
  BY <1>4, <1>6, <1>7, <1>9, <1>10 DEF Msg3

\* No step breaks Shared.
LEMMA SharedStep == LInv /\ Greeting /\ Shared /\ [LinkNext]_vars => Shared'
<1> SUFFICES ASSUME LInv, Greeting, Shared, [LinkNext]_vars, hpc' \in HostIn
             PROVE  /\ \A i \in 1..Len(ring') : ring'[i].kind # "msg1"
                    /\ dpc' = "msg3" => AfterMsg3(ds'.h) = hs'.key \/ ds' = Handshake(Noise)
                    /\ dpc' \in DeviceIn => ds'.key = hs'.key
  BY DEF Shared
<1>1. CASE TakeMsg2 /\ Head(tty).kind = "msg2" /\ Head(tty).mac = AfterMsg2(hs.h, Head(tty).d)
  BY <1>1, Msg2Taken DEF DeviceIn, devvars
<1>2. CASE /\ hpc \in HostIn
           /\ \/ cantil_session_drain \/ cantil_session_send \/ cantil_session_recv_to
              \/ RequestTimesOut
  <2>1. UNCHANGED <<dpc, ds>>
    BY <1>2, Zenon DEF cantil_session_drain, cantil_session_send, cantil_session_recv_to,
       RequestTimesOut, devvars
  <2>2. hs \in Open
    BY <1>2 DEF LInv, HostState
  <2>3. hs' \in {hs, Sealed(hs), Opened(hs)}
    BY Zenon, <1>2 DEF cantil_session_drain, cantil_session_send, cantil_session_recv_to,
       RequestTimesOut
  <2>4. hs'.key = hs.key
    BY <2>2, <2>3 DEF Sealed, Opened, Open
  <2>5. \A i \in 1..Len(ring') : ring'[i].kind # "msg1"
    <3>0. ring \in Seq(HostFrames)
      BY DEF LInv, Ports
    <3>1. CASE cantil_session_send
      <4>1. Arrives(Data(hs, nreqs')) /\ Data(hs, nreqs') \in HostFrames
        BY <3>1, HostSends DEF cantil_session_send
      <4> QED
        BY <1>2, <3>0, <4>1, ArrivesFacts DEF Shared, Data, Torn
    <3>2. CASE ring' = ring
      BY <1>2, <3>2 DEF Shared
    <3> QED
      BY Zenon, <1>2, <3>1, <3>2 DEF cantil_session_drain, cantil_session_recv_to, RequestTimesOut
  <2> QED
    BY <1>2, <2>1, <2>4, <2>5 DEF Shared
<1>3. CASE hpc \in HostIn /\ UNCHANGED hostvars /\ (Device \/ UNCHANGED vars)
  <2>0. /\ \A i \in 1..Len(ring) : ring[i].kind # "msg1"
        /\ dpc = "msg3" => AfterMsg3(ds.h) = hs.key \/ ds = Handshake(Noise)
        /\ dpc \in DeviceIn => ds.key = hs.key
    BY <1>3 DEF Shared
  <2>1. hs' = hs /\ (Device \/ UNCHANGED vars)
    BY <1>3 DEF hostvars
  <2>2. \A i \in 1..Len(ring') : ring'[i].kind # "msg1"
    <3>1. CASE ring' = <<>>
      <4>1. 1..Len(ring') = {}
        BY <3>1
      <4> QED
        BY <4>1
    <3>2. CASE ring' = <<Torn>>
      <4>1. \A i \in 1..Len(ring') : ring'[i] = Torn
        BY <3>2
      <4> QED
        BY <4>1 DEF Torn
    <3> QED
      BY <2>0, <2>1, <3>1, <3>2, DeviceRing
  <2>3. ~(TakeMsg1 /\ Head(ring).kind = "msg1")
    <3>1. ring # <<>> => Head(ring) = ring[1] /\ 1 \in 1..Len(ring)
      BY SeqHeadTail DEF LInv, Ports
    <3> QED
      BY <2>0, <3>1 DEF TakeMsg1
  <2>4. CASE dpc' = "idle" \/ dpc' = "msg1" \/ (dpc' = "msg3" /\ ds' = Handshake(Noise))
    BY <2>2, <2>4 DEF DeviceIn
  <2>5. CASE /\ ds'.key = ds.key /\ dpc \in DeviceIn /\ dpc' \in DeviceIn
    BY <2>0, <2>1, <2>2, <2>5 DEF DeviceIn
  <2>6. CASE UNCHANGED <<dpc, ds>>
    BY <2>0, <2>1, <2>2, <2>6
  <2>7. CASE TakeMsg3
    <3>1. CASE Head(ring) = Msg3(AfterMsg3(ds.h))
      <4>1. ds # Handshake(Noise)
        BY <2>7, <3>1, Msg3Genuine DEF TakeMsg3, LInv
      <4> QED
        BY <2>0, <2>1, <2>2, <2>7, <3>1, <4>1 DEF TakeMsg3, split, DeviceIn
    <3>2. CASE Head(ring) # Msg3(AfterMsg3(ds.h))
      BY <2>4, <2>7, <3>2 DEF TakeMsg3, session_close
    <3> QED
      BY <3>1, <3>2
  <2>8. CASE \/ TakeMsg1 \/ Listen \/ LinkLost \/ PairingGate \/ PairingRefused \/ Reboot
             \/ NoResponse
    BY Zenon, <2>3, <2>4, <2>5, <2>8
    DEF TakeMsg1, Listen, LinkLost, PairingGate, PairingRefused, Reboot, NoResponse, session_close,
        DeviceIn
  <2>9. CASE session_recv \/ Respond \/ PasskeyVerdict \/ RespondToReset \/ ResetDenied
    <3>1. dpc \in DeviceIn /\ ds \in Open
      BY Zenon, <2>9 DEF session_recv, Respond, PasskeyVerdict, RespondToReset, ResetDenied, DeviceIn,
         LInv, DeviceState
    <3>2. dpc' = "idle" \/ (dpc' \in DeviceIn /\ ds' \in {Opened(ds), Sealed(ds)})
      <4>1. CASE session_recv
        BY <4>1, AcceptsRequest DEF DeviceIn
      <4>2. CASE Respond \/ PasskeyVerdict \/ RespondToReset \/ ResetDenied
        BY <4>2 DEF Respond, PasskeyVerdict, RespondToReset, ResetDenied, DeviceIn, session_send
      <4> QED
        BY <2>9, <4>1, <4>2
    <3>3. \A s \in {Opened(ds), Sealed(ds)} : s.key = ds.key
      BY <3>1 DEF Opened, Sealed, Open
    <3> QED
      BY Zenon, <2>4, <2>5, <3>1, <3>2, <3>3
  <2> QED
    BY <2>1, <2>6, <2>7, <2>8, <2>9 DEF Device, update_connected, PollsEmpty, vars, devvars
<1> QED
  BY <1>1, <1>2, <1>3, StaysInSession

\* While nothing was given up: the ring holds msg3 and behind it what is left of
\* the request the host waits for, which is gone once it is being answered ...
RingSettled ==
  /\ \A i \in 1..Len(ring) : ring[i].kind # "msg3" =>
       /\ i = Len(ring) /\ hpc = "wait"
       /\ ring[i].kind = "data" => ring[i].n = hs.rx /\ ring[i].body = asked
  /\ dpc \in {"busy", "verdict"} \/ tty # <<>> => ring = <<>>

\* ... nothing is on its way back, or the one answer it waits for ...
TtySettled ==
  \/ tty = <<>>
  \/ /\ hpc = "wait" /\ Len(tty) = 1
     /\ tty[1] = [kind |-> "data", key |-> hs.key, n |-> hs.rx, body |-> asked]

\* ... and the device carries that request out, or has answered all it got.
DeviceSettled ==
  /\ dpc = "msg3" => hs.rx = 0 /\ tty = <<>> /\ ds # Handshake(Noise)
  /\ dpc \in {"busy", "verdict"} => /\ hpc = "wait" /\ doing = asked /\ tty = <<>>
                                    /\ ds.tx = hs.rx /\ ds.rx = hs.rx + 1
  /\ dpc \in DeviceIn \ {"busy", "verdict"} =>
       ds.tx = ds.rx /\ ds.rx \in {hs.rx, hs.tx} /\ (tty # <<>> => ds.rx = hs.tx)

InStep ==
  /\ hs.tx = IF hpc = "wait" THEN hs.rx + 1 ELSE hs.rx
  /\ RingSettled /\ TtySettled /\ DeviceSettled

\* Or the device has left the session for good, and nothing it sends passes for
\* an answer.
Lost ==
  /\ dpc \notin DeviceIn /\ (dpc = "msg3" => ds = Handshake(Noise))
  /\ \A i \in 1..Len(tty) : ~(tty[i].kind = "data" /\ tty[i].key = hs.key)

Settled == hpc \in HostIn /\ calm => InStep \/ Lost

\* A step of the host in a calm session.
LEMMA HostSettles ==
  ASSUME LInv, Shared, hpc \in HostIn, InStep,
         cantil_session_drain \/ cantil_session_send \/ cantil_session_recv_to
  PROVE  InStep' /\ (cantil_session_recv_to => answer' = <<asked, asked>>)
<1>0. hs \in Open /\ hs.tx \in Nat /\ hs.rx \in Nat /\ hs.key # None
  BY LinkAssumption DEF LInv, HostState, Open
<1>1. /\ hs.tx = IF hpc = "wait" THEN hs.rx + 1 ELSE hs.rx
      /\ RingSettled /\ TtySettled /\ DeviceSettled
  BY Zenon DEF InStep
<1>2. UNCHANGED <<dpc, ds, doing>>
  BY Zenon DEF cantil_session_drain, cantil_session_send, cantil_session_recv_to, devvars
<1>3. CASE cantil_session_drain
  <2>1. /\ hpc = "ready" /\ hpc' = "drained" /\ hs' = hs /\ ring' = ring /\ tty' = <<>>
    BY <1>3, Zenon DEF cantil_session_drain
  <2>2. tty = <<>>
    BY <1>1, <2>1 DEF TtySettled
  <2>3. RingSettled'
    BY <1>1, <1>2, <2>1 DEF RingSettled
  <2>4. TtySettled' /\ DeviceSettled'
    BY <1>1, <1>2, <2>1, <2>2 DEF TtySettled, DeviceSettled
  <2>5. ~ cantil_session_recv_to
    BY Zenon, <2>1 DEF cantil_session_recv_to
  <2> QED
    BY <1>1, <2>1, <2>3, <2>4, <2>5 DEF InStep
<1>4. CASE cantil_session_send
  <2>1. /\ hpc = "drained" /\ hpc' = "wait" /\ hs' = Sealed(hs) /\ tty' = tty
        /\ asked' = nreqs' /\ Arrives(Data(hs, nreqs')) /\ Data(hs, nreqs') \in HostFrames
    BY <1>4, HostSends DEF cantil_session_send
  <2>2. hs'.tx = hs.tx + 1 /\ hs'.rx = hs.rx /\ hs.tx = hs.rx /\ hs'.key = hs.key
    BY <1>0, <1>1, <2>1 DEF Sealed, Open
  <2>3. tty = <<>> /\ dpc \notin {"busy", "verdict"}
    BY <1>1, <2>1 DEF TtySettled, DeviceSettled
  <2>4. TtySettled' /\ DeviceSettled'
    BY Zenon, <1>0, <1>1, <1>2, <2>1, <2>2, <2>3 DEF TtySettled, DeviceSettled
  <2>5. RingSettled'
    <3>1. ring \in Seq(HostFrames) /\ Torn \in HostFrames
      BY DEF LInv, Ports, HostFrames
    <3>2. \A i \in 1..Len(ring) : ring[i].kind = "msg3"
      BY <1>1, <2>1 DEF RingSettled
    <3>3. ASSUME NEW f \in {Data(hs, nreqs'), Torn}, ring' = Append(ring, f),
                 NEW i \in 1..Len(ring'), ring'[i].kind # "msg3"
          PROVE  i = Len(ring') /\ ring'[i] = f
      BY <2>1, <3>1, <3>2, <3>3, SeqAppend
    <3>4. ASSUME NEW i \in 1..Len(ring'), ring'[i].kind # "msg3"
          PROVE  i = Len(ring') /\ ring'[i] \in {Data(hs, nreqs'), Torn}
      BY <2>1, <3>2, <3>3, <3>4 DEF Arrives
    <3>5. Data(hs, nreqs').n = hs.rx /\ Data(hs, nreqs').body = asked' /\ Torn.kind # "data"
      BY <2>1, <2>2 DEF Data, Torn
    <3> QED
      BY <1>2, <2>1, <2>2, <2>3, <3>4, <3>5 DEF RingSettled
  <2>6. ~ cantil_session_recv_to
    BY <2>1 DEF cantil_session_recv_to
  <2> QED
    BY <2>1, <2>2, <2>4, <2>5, <2>6 DEF InStep
<1>5. CASE cantil_session_recv_to
  <2>1. hpc = "wait" /\ tty # <<>> /\ hpc' = "ready" /\ ring' = ring /\ tty' = Tail(tty)
    BY Zenon, <1>5 DEF cantil_session_recv_to
  <2>2. /\ Len(tty) = 1 /\ tty \in Seq(DeviceFrames)
        /\ tty[1] = [kind |-> "data", key |-> hs.key, n |-> hs.rx, body |-> asked]
    BY <1>1, <2>1 DEF TtySettled, LInv, Ports
  <2>3. Head(tty) = tty[1] /\ tty' = <<>>
    BY <2>1, <2>2
  <2>4. Opens(hs, Head(tty)) /\ Head(tty).body = asked
    BY <1>0, <2>2, <2>3 DEF Opens
  <2>5. hs' = Opened(hs) /\ answer' = <<asked, asked>>
    BY <1>5, <2>4 DEF cantil_session_recv_to
  <2>6. hs'.tx = hs.tx /\ hs'.rx = hs.rx + 1 /\ hs.tx = hs.rx + 1
    BY <1>0, <1>1, <2>1, <2>5 DEF Opened, Open
  <2>7. RingSettled'
    <3>1. ring' = <<>> /\ 1..Len(ring') = {}
      BY <1>1, <2>1 DEF RingSettled
    <3> QED
      BY <3>1 DEF RingSettled
  <2>8. TtySettled' /\ DeviceSettled'
    BY Zenon, <1>1, <1>2, <2>1, <2>3, <2>6 DEF TtySettled, DeviceSettled
  <2> QED
    BY <2>1, <2>5, <2>6, <2>7, <2>8 DEF InStep
<1> QED
  BY <1>3, <1>4, <1>5

\* A step of the device in a calm session, but for a second answer.
LEMMA DeviceSettles ==
  ASSUME LInv, Shared, hpc \in HostIn, InStep, UNCHANGED hostvars,
         Device \/ UNCHANGED vars, ~ ResetDenied
  PROVE  InStep' \/ Lost'
<1>0. hs.tx \in Nat /\ hs.rx \in Nat /\ UNCHANGED <<hpc, hs, asked>>
  BY Zenon DEF LInv, HostState, Open, hostvars
<1>1. /\ hs.tx = IF hpc = "wait" THEN hs.rx + 1 ELSE hs.rx
      /\ RingSettled /\ TtySettled /\ DeviceSettled
  BY Zenon DEF InStep
<1>2. ASSUME \/ ring' = <<>>
             \/ ring' = ring /\ (tty' = tty \/ ring = <<>>)
                /\ (dpc' \in {"busy", "verdict"} => dpc' = dpc)
             \/ ring # <<>> /\ ring' = Tail(ring) /\ tty' = tty /\ dpc' \notin {"busy", "verdict"}
      PROVE  RingSettled'
  <2>1. CASE ring' = <<>>
    <3>1. 1..Len(ring') = {}
      BY <2>1
    <3> QED
      BY <2>1, <3>1 DEF RingSettled
  <2>2. CASE ring' = ring /\ (tty' = tty \/ ring = <<>>) /\ (dpc' \in {"busy", "verdict"} => dpc' = dpc)
    BY <1>0, <1>1, <2>2 DEF RingSettled
  <2>3. CASE ring # <<>> /\ ring' = Tail(ring) /\ tty' = tty /\ dpc' \notin {"busy", "verdict"}
    <3>1. /\ Len(ring') = Len(ring) - 1 /\ Len(ring) \in Nat
          /\ \A i \in 1..Len(ring') : ring'[i] = ring[i + 1] /\ i + 1 \in 1..Len(ring)
      BY <2>3, SeqHeadTail DEF LInv, Ports
    <3>2. \A i \in 1..Len(ring') : i + 1 = Len(ring) => i = Len(ring')
      BY <3>1
    <3>3. tty' = <<>>
      BY <1>1, <2>3 DEF RingSettled
    <3> QED
      BY <1>0, <1>1, <2>3, <3>1, <3>2, <3>3 DEF RingSettled
  <2> QED
    BY <1>2, <2>1, <2>2, <2>3
<1>3. CASE /\ tty' = tty /\ dpc' \in {"idle", "msg1"}
           /\ ring' = ring \/ ring' = <<>> \/ (ring # <<>> /\ ring' = Tail(ring))
  <2>1. TtySettled' /\ DeviceSettled'
    BY <1>0, <1>1, <1>3 DEF TtySettled, DeviceSettled, DeviceIn
  <2>2. RingSettled'
    BY <1>2, <1>3
  <2> QED
    BY <1>0, <1>1, <2>1, <2>2 DEF InStep
<1>4. CASE UNCHANGED <<ring, tty, dpc, ds, doing>>
  <2>1. TtySettled' /\ DeviceSettled'
    BY Zenon, <1>0, <1>1, <1>4 DEF TtySettled, DeviceSettled
  <2>2. RingSettled'
    BY <1>2, <1>4
  <2> QED
    BY <1>0, <1>1, <2>1, <2>2 DEF InStep
<1>5. CASE TakeMsg1
  <2>1. Head(ring).kind # "msg1" /\ ring # <<>> /\ ring' = Tail(ring)
    <3>1. ring # <<>> => Head(ring) = ring[1] /\ 1 \in 1..Len(ring)
      BY SeqHeadTail DEF LInv, Ports
    <3> QED
      BY <1>5, <3>1 DEF TakeMsg1, Shared
  <2>2. CASE dpc' = "msg3" /\ ds' = Handshake(Noise) /\ usb_send(Msg2(0, Noise))
    <3>1. tty = <<>> /\ Msg2(0, Noise) \in DeviceFrames
      BY <1>1, <2>1 DEF RingSettled, DeviceFrames
    <3>2. \A i \in 1..Len(tty') : tty'[i] = Msg2(0, Noise)
      BY <2>2, <3>1, DeviceSends
    <3> QED
      BY <2>2, <3>2 DEF Lost, DeviceIn, Msg2
  <2> QED
    BY Zenon, <1>3, <1>5, <2>1, <2>2 DEF TakeMsg1, session_close
<1>6. CASE TakeMsg3
  <2>0. ring # <<>> /\ ring' = Tail(ring) /\ tty' = tty
    BY <1>6 DEF TakeMsg3
  <2>1. CASE ds' = split(AfterMsg3(ds.h)) /\ dpc' = "gate"
    <3>1. ds'.tx = 0 /\ ds'.rx = 0 /\ hs.rx = 0 /\ tty = <<>> /\ tty' = tty
      BY <1>1, <1>6, <2>1 DEF split, TakeMsg3, DeviceSettled
    <3>2. RingSettled'
      BY <1>2, <2>0, <2>1
    <3> QED
      BY <1>0, <1>1, <2>1, <3>1, <3>2 DEF TtySettled, DeviceSettled, InStep
  <2> QED
    BY <1>3, <1>6, <2>0, <2>1 DEF TakeMsg3, session_close
<1>7. CASE PairingGate
  <2>0. ring' = ring /\ tty' = tty /\ dpc = "gate"
    BY <1>7 DEF PairingGate
  <2>1. CASE dpc' \in {"cmd", "passkey"} /\ ds' = ds
    <3>1. TtySettled' /\ DeviceSettled'
      BY <1>0, <1>1, <2>0, <2>1 DEF TtySettled, DeviceSettled, DeviceIn
    <3>2. RingSettled'
      BY <1>2, <2>0, <2>1
    <3> QED
      BY <1>0, <1>1, <3>1, <3>2 DEF InStep
  <2> QED
    BY Zenon, <1>3, <1>7, <2>0, <2>1 DEF PairingGate, session_close
<1>8. CASE session_recv
  <2>0. tty' = tty /\ dpc \in {"cmd", "passkey"} /\ ring # <<>> /\ ring' = Tail(ring)
    BY <1>8 DEF session_recv
  <2>1. CASE dpc' # "idle"
    <3>0. Opens(ds, Head(ring)) /\ ds' = Opened(ds) /\ dpc' \in {"busy", "verdict"} /\ ds \in Open
      BY <1>8, <2>1, AcceptsRequest
    <3>1. Head(ring) = ring[1] /\ 1 \in 1..Len(ring) /\ Len(ring') = Len(ring) - 1
          /\ ring' \in Seq(HostFrames)
      BY <2>0, SeqHeadTail DEF LInv, Ports
    <3>2. ring[1].kind = "data"
      BY <3>0, <3>1 DEF Opens
    <3>3. 1 = Len(ring) /\ hpc = "wait" /\ ring[1].n = hs.rx /\ ring[1].body = asked /\ tty = <<>>
      BY <1>1, <2>0, <3>1, <3>2 DEF RingSettled
    <3>4. ds.tx = ds.rx /\ ds.rx = hs.rx
      BY <1>1, <2>0, <3>0, <3>1, <3>3 DEF DeviceSettled, DeviceIn, Opens
    <3>5. doing' = asked
      BY <1>8, <2>1, <3>1, <3>3 DEF session_recv, session_close
    <3>6. ds'.tx = hs.rx /\ ds'.rx = hs.rx + 1
      BY <3>0, <3>4 DEF Opened, Open
    <3>7. ring' = <<>>
      <4>1. PICK n \in Nat : n = Len(ring) /\ n = 1
        BY <3>3
      <4>2. Len(ring') = n - 1
        BY <3>1, <4>1, Zenon
      <4>3. Len(ring') = 0
        BY <4>1, <4>2
      <4> QED
        BY <3>1, <4>3, SeqEmpty
    <3>8. RingSettled'
      BY <1>2, <3>7
    <3> QED
      BY <1>0, <1>1, <2>0, <3>0, <3>3, <3>5, <3>6, <3>8 DEF TtySettled, DeviceSettled, InStep, DeviceIn
  <2> QED
    BY <1>3, <1>8, <2>0, <2>1
<1>9. CASE Respond \/ PasskeyVerdict \/ RespondToReset
  <2>1. /\ dpc \in {"busy", "verdict"} /\ dpc' \in {"cmd", "reset", "refused"} /\ ds' = Sealed(ds)
        /\ tty' = tty \/ tty' = Append(tty, Data(ds, doing))
        /\ ring' = ring
    BY Zenon, <1>9 DEF Respond, PasskeyVerdict, RespondToReset, session_send, usb_send
  <2>2. /\ hpc = "wait" /\ doing = asked /\ tty = <<>>
        /\ ds.tx = hs.rx /\ ds.rx = hs.rx + 1
    BY <1>1, <2>1 DEF DeviceSettled
  <2>3. ds \in Open /\ ds.key = hs.key
    BY <2>1 DEF LInv, DeviceState, Shared, DeviceIn
  <2>4. ds'.tx = ds.tx + 1 /\ ds'.rx = ds.rx
    BY <2>1, <2>3 DEF Sealed, Open
  <2>5. DeviceSettled'
    BY <1>0, <1>1, <2>1, <2>2, <2>4 DEF DeviceSettled, DeviceIn
  <2>6. TtySettled'
    <3>1. CASE tty' = Append(tty, Data(ds, doing))
      <4>1. Len(tty') = 1 /\ tty'[1] = Data(ds, doing)
        BY <2>2, <3>1
      <4>2. tty'[1] = [kind |-> "data", key |-> hs.key, n |-> hs.rx, body |-> asked]
        BY Zenon, <2>2, <2>3, <4>1 DEF Data
      <4> QED
        BY Zenon, <1>0, <2>2, <4>1, <4>2 DEF TtySettled
    <3> QED
      BY Zenon, <2>1, <2>2, <3>1 DEF TtySettled
  <2>7. RingSettled'
    <3>1. ring = <<>>
      BY Zenon, <1>1, <2>1 DEF RingSettled
    <3> QED
      BY <1>2, <2>1, <3>1
  <2> QED
    BY <1>0, <1>1, <2>5, <2>6, <2>7 DEF InStep
<1>10. CASE Listen
  <2>1. CASE ring' = <<Torn>> /\ ring # <<>>
    <3>1. tty' = <<>> /\ dpc' = "msg1"
      BY <1>1, <1>10, <2>1 DEF RingSettled, Listen
    <3>2. 1..Len(tty') = {}
      BY <3>1
    <3> QED
      BY <3>1, <3>2 DEF Lost, DeviceIn
  <2> QED
    BY Zenon, <1>3, <1>10, <2>1 DEF Listen
<1>11. CASE Reboot \/ NoResponse \/ LinkLost \/ PairingRefused
  BY Zenon, <1>3, <1>11 DEF Reboot, NoResponse, LinkLost, PairingRefused, session_close
<1> QED
  BY Zenon, <1>4, <1>5, <1>6, <1>7, <1>8, <1>9, <1>10, <1>11
  DEF Device, update_connected, PollsEmpty, vars, devvars

\* A device that has left the session stays out of it.
LEMMA LostStep ==
  ASSUME LInv, Shared, Lost, hpc \in HostIn, [LinkNext]_vars, hs'.key = hs.key
  PROVE  Lost'
<1>1. \A i \in 1..Len(tty') : ~(tty'[i].kind = "data" /\ tty'[i].key = hs'.key)
  <2> SUFFICES ASSUME NEW i \in 1..Len(tty'), tty'[i].kind = "data" PROVE tty'[i].key # hs.key
    OBVIOUS
  <2>1. dpc \notin Handling
    BY DEF Lost, DeviceIn, Handling
  <2>2. \E k \in 1..Len(tty) : tty'[i] = tty[k]
    BY <2>1, TtyFacts
  <2> QED
    BY <2>2 DEF Lost
<1>2. CASE UNCHANGED devvars
  BY <1>1, <1>2 DEF Lost, devvars
<1>3. CASE Device
  <2>0. dpc \notin DeviceIn /\ (dpc = "msg3" => ds = Handshake(Noise))
    BY DEF Lost
  <2>1. ~(TakeMsg1 /\ Head(ring).kind = "msg1")
    <3>1. ring # <<>> => Head(ring) = ring[1] /\ 1 \in 1..Len(ring)
      BY SeqHeadTail DEF LInv, Ports
    <3> QED
      BY <3>1 DEF TakeMsg1, Shared
  <2>2. TakeMsg3 => dpc' = "idle"
    BY <2>0, Msg3Genuine DEF TakeMsg3, LInv, session_close
  <2>3. dpc' \in {"idle", "msg1"} \/ (dpc' = "msg3" /\ ds' = Handshake(Noise)) \/ UNCHANGED <<dpc, ds>>
    BY Zenon, <1>3, <2>0, <2>1, <2>2
    DEF Device, update_connected, Listen, PollsEmpty, LinkLost, TakeMsg1, PairingGate,
        session_recv, Respond, PasskeyVerdict, PairingRefused, RespondToReset, ResetDenied, Reboot,
        NoResponse, session_close, DeviceIn
  <2> QED
    BY <1>1, <2>0, <2>3 DEF Lost, DeviceIn
<1> QED
  BY <1>2, <1>3, Sides DEF LinkNext, vars

\* No step breaks Settled, and the answer the host accepts is the one it waits for.
LEMMA SettledStep ==
  ASSUME LInv, Greeting, Shared, Settled, AnswersItsRequest, [LinkNext]_vars
  PROVE  Settled' /\ AnswersItsRequest'
<1>1. ASSUME hpc' \in HostIn, calm'
      PROVE  InStep' \/ Lost'
  <2>1. CASE TakeMsg2 /\ Head(tty).kind = "msg2" /\ Head(tty).mac = AfterMsg2(hs.h, Head(tty).d)
    <3>0. dpc' \in {"idle", "msg1", "msg3"} /\ tty' = <<>> /\ hpc' = "ready"
          /\ \A i \in 1..Len(ring') : ring'[i].kind = "msg3"
      BY <2>1, Msg2Taken DEF devvars
    <3>1. RingSettled'
      BY <3>0 DEF RingSettled
    <3>2. dpc' = "msg3" => ds' # Handshake(Noise)
      <4>1. dpc' = "msg3" => AfterMsg3(ds.h) = Key(nopens, neph) /\ UNCHANGED <<dpc, ds>>
        BY <2>1, Msg2Taken DEF devvars
      <4>2. Key(nopens, neph) \in Sessions
        BY <2>1, Msg2Taken, HostStateStep DEF HostState, HostIn, Open
      <4>3. Handshake(Noise).h = Noise
        BY DEF Handshake
      <4> QED
        BY <4>1, <4>2, <4>3, NoiseFacts
    <3>3. TtySettled' /\ DeviceSettled'
      BY Zenon, <2>1, <3>0, <3>2, Msg2Taken DEF TtySettled, DeviceSettled, DeviceIn
    <3> QED
      BY Zenon, <2>1, <3>1, <3>3, Msg2Taken DEF InStep
  <2>2. CASE hpc \in HostIn /\ (cantil_session_drain \/ cantil_session_send \/ cantil_session_recv_to)
    <3>1. calm
      BY <1>1, <2>2, Zenon DEF cantil_session_drain, cantil_session_send, cantil_session_recv_to
    <3>2. CASE Lost
      <4>1. hs \in Open
        BY <2>2 DEF LInv, HostState
      <4>2. hs'.key = hs.key
        BY <2>2, <4>1 DEF cantil_session_drain, cantil_session_send, cantil_session_recv_to,
           Sealed, Opened, Open
      <4> QED
        BY <2>2, <3>2, <4>2, LostStep
    <3> QED
      BY <2>2, <3>1, <3>2, HostSettles DEF Settled
  <2>3. ~ RequestTimesOut
    BY <1>1, Zenon DEF RequestTimesOut
  <2>4. CASE hpc \in HostIn /\ UNCHANGED hostvars /\ (Device \/ UNCHANGED vars)
    <3>1. calm
      BY <1>1, <2>4, Zenon DEF Device, update_connected, Listen, PollsEmpty, LinkLost, TakeMsg1,
         TakeMsg3, PairingGate, session_recv, Respond, PasskeyVerdict, PairingRefused,
         RespondToReset, ResetDenied, Reboot, NoResponse, vars, history
    <3>2. ~ ResetDenied
      <4>1. dpc = "reset" => ds.key = hs.key
        BY <2>4 DEF Shared, DeviceIn
      <4> QED
        BY <1>1, <4>1, Zenon DEF ResetDenied
    <3>3. CASE Lost
      BY <2>4, <3>3, LostStep DEF hostvars
    <3> QED
      BY <2>4, <3>1, <3>2, <3>3, DeviceSettles DEF Settled
  <2> QED
    BY Zenon, <1>1, <2>1, <2>2, <2>3, <2>4, StaysInSession
<1>2. AnswersItsRequest'
  <2>1. CASE answer' = <<None, None>>
    BY <2>1 DEF AnswersItsRequest
  <2>2. CASE answer' = answer /\ (calm' => calm)
    BY <2>2, Zenon DEF AnswersItsRequest
  <2>3. CASE cantil_session_recv_to
    <3>1. hpc \in HostIn /\ calm' = calm /\ tty # <<>>
      BY <2>3 DEF cantil_session_recv_to, HostIn
    <3>2. CASE calm /\ InStep
      <4>1. answer' = <<asked, asked>>
        BY <2>3, <3>1, <3>2, HostSettles
      <4> QED
        BY <4>1 DEF AnswersItsRequest
    <3>3. CASE calm /\ Lost
      <4>1. Head(tty) = tty[1] /\ 1 \in 1..Len(tty)
        BY <3>1, SeqHeadTail DEF LInv, Ports
      <4>2. ~ Opens(hs, Head(tty))
        BY <3>3, <4>1 DEF Lost, Opens
      <4>3. answer' = answer
        BY <2>3, <4>2, Zenon DEF cantil_session_recv_to
      <4> QED
        BY <2>2, <3>1, <4>3
    <3> QED
      BY Zenon, <3>1, <3>2, <3>3 DEF Settled, AnswersItsRequest
  <2>4. CASE Host
    BY <2>1, <2>2, <2>3, <2>4, Zenon
    DEF Host, cantil_transport_open_usb, drain_transport, SendMsg1, TakeMsg2, PolicyRefuses,
        Msg2TimesOut, cantil_session_drain, cantil_session_send, RequestTimesOut,
        cantil_session_close, SessionOnOpenPort, history
  <2>5. CASE ResetDenied
    <3>1. answer' = answer /\ (calm' => calm)
      BY <2>5, Zenon DEF ResetDenied
    <3> QED
      BY Zenon, <2>2, <3>1
  <2>6. CASE \/ update_connected \/ Listen \/ PollsEmpty \/ TakeMsg1 \/ TakeMsg3 \/ PairingGate
             \/ UNCHANGED vars
    <3>1. UNCHANGED <<answer, calm>>
      BY Zenon, <2>6 DEF update_connected, Listen, PollsEmpty, TakeMsg1, TakeMsg3, PairingGate, vars,
         history
    <3> QED
      BY <2>2, <3>1, Zenon
  <2>7. CASE \/ session_recv \/ Respond \/ PasskeyVerdict \/ PairingRefused \/ RespondToReset
             \/ Reboot \/ NoResponse \/ LinkLost
    BY <2>2, <2>7, Zenon
    DEF session_recv, Respond, PasskeyVerdict, PairingRefused, RespondToReset, Reboot, NoResponse,
        LinkLost, history
  <2> QED
    BY <2>4, <2>5, <2>6, <2>7, Zenon DEF LinkNext, Device
<1> QED
  BY <1>1, <1>2, Zenon DEF Settled

\* As long as the host gave up no request, and none had a second answer, an answer
\* it accepts is the one to the request it sent, although all requests carry the
\* same sequence number.
THEOREM AnswersBelong == LinkSpec => []AnswersItsRequest
<1>1. LinkInit => Heard /\ Greeting /\ Shared /\ Settled /\ AnswersItsRequest
  <2> SUFFICES ASSUME LinkInit PROVE Heard /\ Greeting /\ Shared /\ Settled /\ AnswersItsRequest
    OBVIOUS
  <2>1. hpc = "closed" /\ answer = <<None, None>> /\ tty = <<>>
    BY DEF LinkInit
  <2>2. Heard
    <3>1. 1..Len(tty) = {}
      BY <2>1
    <3> QED
      BY <3>1 DEF Heard
  <2> QED
    BY <2>1, <2>2 DEF Greeting, Shared, Settled, AnswersItsRequest, HostIn
<1> QED
  BY <1>1, HeardStep, GreetingStep, SharedStep, SettledStep, LinkInvariant, PTL DEF LinkSpec

-----------------------------------------------------------------------------
(* A fresh handshake is not lost. *)

\* The port is open as long as the host has not closed it.
Held == hpc # "closed" => dtr

\* A handshake that started while the device was listening: its msg1 is alone in
\* the ring and the device about to take it, or its answer alone on its way.
Awaited == dpc = "msg1" /\ ring = <<Msg1(nopens)>> /\ tty = <<>>
Answered ==
  /\ ring = <<>> /\ dpc \in {"idle", "msg1", "msg3"}
  /\ \E d \in Eph : tty = <<Msg2(d, Half(nopens, d))>>
Undisturbed == clean =>
  /\ hpc = "flushed" => dpc = "msg1" /\ ring = <<>> /\ tty = <<>>
  /\ hpc = "msg2" => Awaited \/ Answered

\* No step breaks Held: the host holds the port from its opening to its close.
LEMMA HeldStep == Held /\ [LinkNext]_vars => Held'
<1> SUFFICES ASSUME Held, [LinkNext]_vars PROVE Held'
  OBVIOUS
<1>1. CASE Host
  BY <1>1, Zenon DEF Held, Host, cantil_transport_open_usb, drain_transport, SendMsg1, TakeMsg2,
     PolicyRefuses, Msg2TimesOut, cantil_session_drain, cantil_session_send, cantil_session_recv_to,
     RequestTimesOut, cantil_session_close, SessionOnOpenPort, usb_close
<1>2. CASE Device \/ UNCHANGED vars
  <2>1. UNCHANGED <<dtr, hpc>>
    BY Zenon, <1>2 DEF Device, update_connected, Listen, PollsEmpty, LinkLost, TakeMsg1, TakeMsg3,
       PairingGate, session_recv, Respond, PasskeyVerdict, PairingRefused, RespondToReset,
       ResetDenied, Reboot, NoResponse, vars, hostvars
  <2> QED
    BY <2>1, Zenon DEF Held
<1> QED
  BY <1>1, <1>2 DEF LinkNext

\* What the device does while a handshake it listens for is under way.
LEMMA DeviceWaits ==
  ASSUME LInv, clean', Device \/ UNCHANGED vars
  PROVE  /\ clean
         /\ dpc = "msg1" => \/ TakeMsg1
                            \/ UNCHANGED <<dpc, ring, tty>>
<1>1. clean
  BY Zenon DEF Device, update_connected, Listen, PollsEmpty, LinkLost, TakeMsg1, TakeMsg3, PairingGate,
     session_recv, Respond, PasskeyVerdict, PairingRefused, RespondToReset, ResetDenied, Reboot,
     NoResponse, vars, history
<1>2. ASSUME dpc = "msg1" PROVE TakeMsg1 \/ UNCHANGED <<dpc, ring, tty>>
  <2>1. ~ LinkLost
    BY <1>2, Zenon DEF LinkLost
  <2>2. UNCHANGED vars \/ update_connected \/ PollsEmpty \/ TakeMsg1
    BY <1>2, <2>1
    DEF Device, Listen, TakeMsg3, PairingGate, session_recv, Respond, PasskeyVerdict,
        PairingRefused, RespondToReset, ResetDenied, Reboot, NoResponse
  <2> QED
    BY Zenon, <2>2 DEF update_connected, PollsEmpty, vars, devvars
<1> QED
  BY <1>1, <1>2

\* No step breaks Undisturbed.
LEMMA UndisturbedStep == LInv /\ Held /\ Undisturbed /\ [LinkNext]_vars => Undisturbed'
<1> SUFFICES ASSUME LInv, Held, Undisturbed, [LinkNext]_vars, clean'
             PROVE  /\ hpc' = "flushed" => dpc' = "msg1" /\ ring' = <<>> /\ tty' = <<>>
                    /\ hpc' = "msg2" => Awaited' \/ Answered'
  BY Zenon DEF Undisturbed
<1>1. CASE SendMsg1
  <2>1. clean /\ hpc = "flushed"
    BY <1>1, Zenon DEF SendMsg1
  <2>2. dpc = "msg1" /\ ring = <<>> /\ tty = <<>>
    BY <2>1, Zenon DEF Undisturbed
  <2>3. /\ Arrives(Msg1(nopens)) /\ nopens' = nopens /\ dpc' = dpc /\ tty' = tty /\ hpc' = "msg2"
    BY <1>1 DEF SendMsg1, devvars
  <2>4. ring' = Append(ring, Msg1(nopens))
    BY <2>2, <2>3, LinkAssumption, SeqEmpty DEF Arrives
  <2>5. ring' = <<Msg1(nopens)>>
    BY <2>2, <2>4
  <2> QED
    BY <2>2, <2>3, <2>5 DEF Awaited
<1>2. CASE drain_transport
  BY <1>2, Zenon DEF drain_transport, devvars
<1>3. CASE Device \/ UNCHANGED vars
  <2>0. UNCHANGED hostvars
    BY <1>3, Sides DEF vars
  <2>1. hpc' = hpc /\ nopens' = nopens /\ clean
    BY <1>3, <2>0, DeviceWaits DEF hostvars
  <2>2. CASE hpc = "flushed"
    <3>1. dpc = "msg1" /\ ring = <<>> /\ tty = <<>>
      BY <2>1, <2>2, Zenon DEF Undisturbed
    <3>2. ~ TakeMsg1
      BY Zenon, <3>1 DEF TakeMsg1
    <3> QED
      BY <1>3, <2>1, <2>2, <3>1, <3>2, DeviceWaits
  <2>3. CASE hpc = "msg2"
    <3>0. dtr /\ (Awaited \/ Answered)
      BY <2>1, <2>3, Zenon DEF Held, Undisturbed
    <3>1. CASE Awaited
      <4>1. dpc = "msg1" /\ ring = <<Msg1(nopens)>> /\ tty = <<>> /\ ring # <<>>
        BY <3>1 DEF Awaited
      <4>2. CASE TakeMsg1
        <5>1. Head(ring) = ring[1] /\ ring[1].kind = "msg1" /\ ring[1].e = nopens
          BY <4>1 DEF Msg1
        <5>2. dpc' = "msg3"
          BY Zenon, <4>2, <5>1 DEF TakeMsg1
        <5>3. neph + 1 \in Eph /\ usb_send(Msg2(neph + 1, Half(nopens, neph + 1)))
          BY Zenon, <4>2, <5>1, <5>2, Msg1Taken
        <5>4. tty' = Append(tty, Msg2(neph + 1, Half(nopens, neph + 1)))
          BY <3>0, <5>3, Zenon DEF usb_send
        <5>5. tty' = <<Msg2(neph + 1, Half(nopens, neph + 1))>>
          BY <4>1, <5>4
        <5>6. ring' = <<>>
          <6>1. ring' = Tail(ring)
            BY <4>2 DEF TakeMsg1
          <6> QED
            BY <4>1, <6>1
        <5> QED
          BY <2>1, <2>3, <5>2, <5>3, <5>5, <5>6 DEF Answered
      <4>3. CASE UNCHANGED <<dpc, ring, tty>>
        BY <2>1, <2>3, <4>1, <4>3 DEF Awaited
      <4> QED
        BY Zenon, <1>3, <4>1, <4>2, <4>3, DeviceWaits
    <3>2. CASE Answered
      <4>1. PICK d \in Eph : tty = <<Msg2(d, Half(nopens, d))>>
        BY <3>2 DEF Answered
      <4>2. ring = <<>> /\ dpc \in {"idle", "msg1", "msg3"}
        BY <3>2 DEF Answered
      <4>3. ring' = <<>> /\ tty' = tty /\ dpc' \in {"idle", "msg1", "msg3"}
        BY Zenon, <1>3, <4>2
        DEF Device, update_connected, Listen, PollsEmpty, LinkLost, TakeMsg1, TakeMsg3, PairingGate,
            session_recv, Respond, PasskeyVerdict, PairingRefused, RespondToReset, ResetDenied,
            Reboot, NoResponse, session_close, vars, devvars
      <4> QED
        BY <2>1, <2>3, <4>1, <4>3 DEF Answered
    <3> QED
      BY <3>0, <3>1, <3>2
  <2> QED
    BY <2>1, <2>2, <2>3
<1>4. CASE Host
  <2>1. hpc' \in {"flushed", "msg2"} => SendMsg1 \/ drain_transport
    BY <1>4
    DEF Host, cantil_transport_open_usb, TakeMsg2, PolicyRefuses, Msg2TimesOut,
        cantil_session_drain, cantil_session_send, cantil_session_recv_to, RequestTimesOut,
        cantil_session_close, SessionOnOpenPort, usb_close
  <2> QED
    BY <1>1, <1>2, <2>1
<1> QED
  BY <1>3, <1>4 DEF LinkNext

\* A handshake for which the device listens, on an empty ring, from the host's
\* drain until it takes msg1 is never lost to what an earlier session left in the
\* ring, in the endpoint or at the host: it fails only when the trust policy
\* refuses the device, the caller closes the port or the device cannot answer.
THEOREM FreshHandshakes == LinkSpec => FreshHandshakeWorks
<1>1. LinkInit => Held /\ Undisturbed
  <2> SUFFICES ASSUME LinkInit PROVE Held /\ Undisturbed
    OBVIOUS
  <2>1. hpc = "closed"
    BY DEF LinkInit
  <2> QED
    BY <2>1 DEF Held, Undisturbed
<1>2. ASSUME LInv, Undisturbed, [LinkNext]_vars
      PROVE  [hpc = "msg2" /\ hpc' = "closed" => ~ clean']_vars
  <2> SUFFICES ASSUME hpc = "msg2", hpc' = "closed", clean' PROVE FALSE
    BY Zenon
  <2>1. ~ PolicyRefuses /\ ~ cantil_session_close
    BY Zenon DEF PolicyRefuses, cantil_session_close
  <2>2. CASE TakeMsg2 \/ Msg2TimesOut
    <3>1. clean' = clean
      BY Zenon, <2>2 DEF TakeMsg2, Msg2TimesOut, history
    <3>2. Awaited \/ Answered
      BY <1>2, <3>1, Zenon DEF Undisturbed
    <3>3. CASE Awaited
      <4>1. dpc = "msg1" /\ ring # <<>> /\ tty = <<>>
        BY <3>3 DEF Awaited
      <4> QED
        BY Zenon, <2>2, <4>1 DEF TakeMsg2, Msg2TimesOut
    <3>4. CASE Answered
      <4>1. PICK d \in Eph : tty = <<Msg2(d, Half(nopens, d))>>
        BY <3>4 DEF Answered
      <4>2. tty # <<>> /\ Head(tty) = Msg2(d, Half(nopens, d))
        BY <4>1
      <4>3. hs.h = mix_hash(sym_init, nopens)
        BY <1>2 DEF LInv, HostState, Handshake
      <4>4. Head(tty).kind = "msg2" /\ Head(tty).mac = AfterMsg2(hs.h, Head(tty).d)
        BY SMTT(30), <4>2, <4>3 DEF Msg2, Half
      <4> QED
        BY Zenon, <2>2, <4>2, <4>4 DEF TakeMsg2, Msg2TimesOut
    <3> QED
      BY <3>2, <3>3, <3>4
  <2>3. CASE Device \/ UNCHANGED vars
    BY <2>3, Sides DEF vars, hostvars
  <2> QED
    BY Zenon, <1>2, <2>1, <2>2, <2>3
    DEF LinkNext, Host, cantil_transport_open_usb, drain_transport, SendMsg1,
        cantil_session_drain, cantil_session_send, cantil_session_recv_to, RequestTimesOut, SessionOnOpenPort
<1> QED
  BY <1>1, <1>2, HeldStep, UndisturbedStep, LinkInvariant, PTL DEF LinkSpec, FreshHandshakeWorks
=============================================================================
