----------------------------- MODULE HostProofs ----------------------------
(***************************************************************************)
(* Proofs about Host, for every set of devices, certificates and allowed   *)
(* CAs, every number of runs, every point at which one is killed and every      *)
(* write or rename that fails.                                             *)
(***************************************************************************)
EXTENDS Host, TLAPS

\* Where a process can be: before the session is open, in pair, in a command.
Early == {"idle", "keys", "save priv", "save pub", "open"} \cup FlatFiles
Pairing == {"passkey", "save fp", "save cn", "save cert", "save chain", "tap",
            "save device_pub"}
PinSaved == Pairing \ {"passkey", "save fp"}
Acting == {"policy", "request", "session-sign", "provision-ca", "mint", "push x509",
           "update-firmware", "copy"}

\* The shape of the state, beyond what HostTypeOK says of the key store.
Shape ==
  /\ store = [f \in Files |-> store[f]]
  /\ port \in Units
  /\ leaf \in [Units -> Leaves \cup {None}]
  /\ pinned \in [Units -> Leaves \cup {None, Empty}]
  /\ pc \in Early \cup Pairing \cup Acting
  /\ pc # "idle" => cmd \in Commands
  /\ pc \in Pairing => cmd.op = "pair"
  /\ pc = "policy" => cmd.op # "pair"
  /\ warned \in BOOLEAN

\* A flat layout is of a unit that an old version paired; the unit is disturbed
\* from the first rename to the last.
FlatLayout ==
  /\ store[Flat("device_pub")] \in Units \cup {None}
  /\ store[Flat("session_fp")] \in Leaves \cup {None}
  /\ \A u \in Units : store[Flat("device_pub")] = u => pinned[u] # None
  /\ pc = "device_pub" => store[Flat("device_pub")] = device_dir
  /\ pc \in FlatFiles => device_dir \in Units /\ device_dir \in disturbed
                         /\ pinned[device_dir] # None

\* The status of a device speaks of a key that is there, and provision-ca has
\* one there before it sends the subject.
Authority ==
  /\ ca_provisioned \subseteq ca_key
  /\ ca_cert = [u \in Units |-> ca_cert[u]]
  /\ pc = "push x509" => port \in ca_key

\* One key pair a run, made before anything was paired; a session is opened
\* with a key pair that can be read.
ClientKeys ==
  /\ nruns \in 0..MaxRuns /\ newkeys \in 0..nruns
  /\ pc \in FlatFiles \cup {"keys", "save priv"} => newkeys < nruns
  /\ (\E u \in Units : pinned[u] # None) \/ pc \notin Early \/ pc = "open"
       => Readable(Priv) /\ Readable(Pub)
  /\ pc \in {"save priv", "save pub"} => \A u \in Units : pinned[u] = None
  /\ pc = "save pub" => Readable(Priv)

\* A pairing saves the certificate at the port; what it has not reported yet is
\* disturbed.
PinInHand ==
  pc \in PinSaved =>
    /\ port \in disturbed
    /\ ~ warned => store[<<port, "session_fp">>] = leaf[port]

\* The pin of an undisturbed unit is the certificate of its last pairing, once
\* the next run has moved a flat layout.
PinsKept ==
  \A u \in Units : pinned[u] \in Leaves /\ u \notin disturbed =>
    \/ store[<<u, "session_fp">>] = pinned[u]
    \/ store[Flat("device_pub")] = u /\ pc = "idle"

HInv == HostTypeOK /\ Shape /\ FlatLayout /\ Authority /\ ClientKeys /\ PinInHand /\ PinsKept
-----------------------------------------------------------------------------
(* The key store.                                                          *)

\* The places of the key store, told apart.
LEMMA Places ==
  /\ {Priv, Pub, <<"home", "client_cert">>, <<"home", "client_chain">>} \subseteq Files
  /\ \A f \in FlatFiles : Flat(f) \in Files
  /\ \A u \in Units, f \in UnitFiles : <<u, f>> \in Files
  /\ \A u \in Units : u # "home" /\ u # "flat" /\ u # None /\ u # Empty
  /\ \A l \in Leaves : l # None /\ l # Empty
  /\ \A n \in 0..MaxRuns : n # None /\ n # Empty
  BY HostAssumption DEF Files, HomeFiles, UnitFiles, FlatFiles, Priv, Pub, Flat

\* Two places are the same when both parts of their names are.
LEMMA Pairs == \A a, b, c, d : <<a, b>> = <<c, d>> => a = c /\ b = d
  OBVIOUS

\* The places HInv speaks of.
Tracked == {Priv, Pub, Flat("device_pub"), Flat("session_fp")}
           \cup (Units \X {"session_fp", "device_pub"})

\* A write changes one place.
LEMMA Wrote ==
  ASSUME Shape, NEW g \in Files, NEW v, Write(g, v)
  PROVE  /\ store' = [f \in Files |-> store'[f]]
         /\ store'[g] = v
         /\ \A f \in Tracked : f # g => store'[f] = store[f]
  BY Places DEF Shape, Write, Tracked, UnitFiles, FlatFiles

\* What the tool starts with satisfies HInv.
LEMMA HInitLemma == HInit => HInv
<1> SUFFICES ASSUME HInit PROVE HInv
  OBVIOUS
<1> USE Places, HostAssumption
<1>1. CASE store = [f \in Files |-> None]
  <2>1. HostTypeOK
    BY <1>1 DEF HInit, HostTypeOK, UnitFiles, FlatFiles
  <2>2. Shape
    BY <1>1 DEF HInit, Shape, Early, Pairing, Acting, UnitFiles, FlatFiles
  <2>3. FlatLayout /\ Authority /\ ClientKeys /\ PinInHand /\ PinsKept
    BY <1>1 DEF HInit, FlatLayout, Authority, ClientKeys, PinInHand, PinsKept,
       PinSaved, Pairing, FlatFiles, UnitFiles, Readable, Early
  <2> QED
    BY <2>1, <2>2, <2>3 DEF HInv
<1>2. ASSUME NEW v \in Units,
             store = [[f \in Files |-> None] EXCEPT
                        ![Priv] = 0, ![Pub] = 0, ![Flat("device_pub")] = v,
                        ![Flat("session_fp")] = SelfSigned,
                        ![Flat("session_cn")] = CN[SelfSigned]]
      PROVE  HInv
  <2>1. /\ store = [f \in Files |-> store[f]]
        /\ store[Priv] = 0 /\ store[Pub] = 0
        /\ store[Flat("device_pub")] = v /\ store[Flat("session_fp")] = SelfSigned
    BY <1>2 DEF UnitFiles, FlatFiles, Priv, Pub, Flat
  <2>2. \A u \in Units : store[<<u, "session_fp">>] = None /\ store[<<u, "device_pub">>] = None
    BY <1>2 DEF UnitFiles, FlatFiles, Priv, Pub, Flat
  <2>3. HostTypeOK
    <3>1. 0 \in 0..MaxRuns
      OBVIOUS
    <3> QED
      BY <2>1, <2>2, <3>1 DEF HInit, HostTypeOK
  <2>4. Shape
    BY <2>1 DEF HInit, Shape, Early, Pairing, Acting
  <2>5. FlatLayout /\ Authority /\ ClientKeys /\ PinInHand /\ PinsKept
    BY <2>1, <2>2 DEF HInit, FlatLayout, Authority, ClientKeys, PinInHand, PinsKept,
       PinSaved, Pairing, FlatFiles, UnitFiles, Readable, Early
  <2> QED
    BY <2>3, <2>4, <2>5 DEF HInv
<1> QED
  BY <1>1, <1>2 DEF HInit, FlatStores

-----------------------------------------------------------------------------
(* Steps that write nothing to the key store.                              *)

\* A process that ends by itself.
Ends ==
  /\ pc' = "idle" /\ device_dir' = None
  /\ leaf' \in [Units -> Leaves \cup {None}]
  /\ ca_provisioned' \subseteq ca_key' /\ ca_cert' = [u \in Units |-> ca_cert'[u]]
  /\ UNCHANGED <<store, port, warned, newkeys, nruns, pinned, disturbed>>

\* A process that ends, with or without an error, leaves the store as it was.
LEMMA EndsKeeps == HInv /\ Ends => HInv'
<1> SUFFICES ASSUME HInv, Ends PROVE HInv'
  OBVIOUS
<1> USE DEF Ends
<1>1. HostTypeOK' /\ Shape'
  BY DEF HInv, HostTypeOK, Shape, Early, Pairing
<1>2. FlatLayout' /\ Authority' /\ ClientKeys' /\ PinInHand' /\ PinsKept'
  BY DEF HInv, FlatLayout, Authority, ClientKeys, PinInHand, PinsKept,
       PinSaved, Pairing, FlatFiles, UnitFiles, Readable, Early
<1> QED
  BY <1>1, <1>2 DEF HInv

\* A process that goes on.
Moves ==
  /\ UNCHANGED <<store, port, leaf, cmd, warned, newkeys, nruns, pinned, disturbed>>
  /\ ca_provisioned' \subseteq ca_key' /\ ca_cert' = [u \in Units |-> ca_cert'[u]]
  /\ pc' = "push x509" => port \in ca_key'
  /\ pc \notin FlatFiles \cup {"idle"}
  /\ \/ /\ pc = "keys" /\ pc' = "open" /\ device_dir' = device_dir
        /\ Readable(Priv) /\ Readable(Pub)
     \/ /\ pc = "keys" /\ pc' = "save priv" /\ device_dir' = device_dir
        /\ Missing
     \/ /\ pc \in {"open"} \cup Acting /\ pc' \in Acting /\ device_dir' = port
        /\ pc' = "policy" => cmd.op # "pair"
     \/ /\ pc \in Pairing /\ pc' \in Pairing /\ device_dir' = device_dir
        /\ pc' \in PinSaved => pc \in PinSaved

\* Going on to the next file or the next exchange keeps HInv.
LEMMA MovesKeeps == HInv /\ Moves => HInv'
<1> SUFFICES ASSUME HInv, Moves PROVE HInv'
  OBVIOUS
<1> USE DEF Moves
<1>1. HostTypeOK'
  BY DEF HInv, HostTypeOK, Shape, Early, Pairing, Acting, PinSaved, FlatFiles, UnitFiles
<1>2. Shape'
  BY DEF HInv, Shape, Early, Pairing, Acting, PinSaved, FlatFiles, UnitFiles
<1>3. FlatLayout' /\ Authority'
  BY DEF HInv, FlatLayout, Authority, Early, Pairing, Acting, FlatFiles, UnitFiles
<1>4. ClientKeys'
  BY DEF HInv, Shape, ClientKeys, Readable, Missing, Early, Pairing, Acting,
         FlatFiles, UnitFiles
<1>5. PinInHand' /\ PinsKept'
  BY DEF HInv, PinInHand, PinsKept, Early, Pairing, Acting, FlatFiles, UnitFiles,
         PinSaved
<1> QED
  BY <1>1, <1>2, <1>3, <1>4, <1>5 DEF HInv

\* Another device, or the same one again.
LEMMA PlugKeeps == HInv /\ Plug => HInv'
<1> SUFFICES ASSUME HInv, Plug PROVE HInv'
  OBVIOUS
<1> USE DEF Plug, hist, steady
<1>1. HostTypeOK' /\ Shape'
  BY DEF HInv, HostTypeOK, Shape, Early, Pairing
<1>2. FlatLayout' /\ Authority' /\ ClientKeys' /\ PinInHand' /\ PinsKept'
  BY DEF HInv, FlatLayout, Authority, ClientKeys, PinInHand, PinsKept,
       PinSaved, Pairing, FlatFiles, UnitFiles, Readable, Early
<1> QED
  BY <1>1, <1>2 DEF HInv

\* A command starts; a flat layout is disturbed until it is moved.
LEMMA MainKeeps == HInv /\ main => HInv'
<1> SUFFICES ASSUME HInv, main PROVE HInv'
  OBVIOUS
<1> USE Places DEF main, units, authority
<1>1. HostTypeOK'
  BY DEF HInv, HostTypeOK, Shape, FlatFiles, UnitFiles
<1>2. Shape'
  BY DEF HInv, Shape, Early, Pairing, FlatFiles, UnitFiles, Acting
<1>3. FlatLayout' /\ Authority'
  BY DEF HInv, HostTypeOK, FlatLayout, Authority, FlatFiles, UnitFiles
<1>4. ClientKeys'
  <2>1. nruns' \in 0..MaxRuns /\ newkeys' \in 0..nruns' /\ newkeys' < nruns'
    BY HostAssumption DEF HInv, ClientKeys
  <2>2. pc' \in FlatFiles \cup {"keys"}
    BY DEF FlatFiles, UnitFiles
  <2> QED
    BY <2>1, <2>2 DEF HInv, ClientKeys, Readable, Early, FlatFiles, UnitFiles
<1>5. PinInHand' /\ PinsKept'
  BY DEF HInv, PinInHand, PinsKept, PinSaved, Pairing
<1> QED
  BY <1>1, <1>2, <1>3, <1>4, <1>5 DEF HInv

-----------------------------------------------------------------------------
(* Steps that write to it.                                                 *)

\* The migration of a flat layout, one rename a step, moved or failed.
LEMMA MigrateKeeps == HInv /\ (try_migrate_flat_layout \/ RenameFails) => HInv'
<1> SUFFICES ASSUME HInv, try_migrate_flat_layout \/ RenameFails PROVE HInv'
  OBVIOUS
<1>1. /\ pc \in {"device_pub", "session_fp", "session_cn"}
      /\ pc' \in {"session_fp", "session_cn", "keys"}
      /\ device_dir \in Units /\ device_dir \in disturbed /\ pinned[device_dir] # None
      /\ UNCHANGED <<port, leaf, ca_key, ca_provisioned, ca_cert, cmd, device_dir, warned,
                     newkeys, nruns, pinned>>
  BY DEF try_migrate_flat_layout, RenameFails, After, HInv, FlatLayout, FlatFiles, UnitFiles,
         units, authority, steady, Goto
<1>2. \/ disturbed' = disturbed
      \/ /\ pc = "session_cn" /\ pc' = "keys" /\ disturbed' = disturbed \ {device_dir}
         /\ store[<<device_dir, "session_fp">>] = pinned[device_dir]
  BY <1>1 DEF try_migrate_flat_layout, RenameFails, After, Goto, Mine
<1> DEFINE Effect ==
      /\ store' = [f \in Files |-> store'[f]]
      /\ store'[Priv] = store[Priv] /\ store'[Pub] = store[Pub]
      /\ store'[Flat("device_pub")] \in {store[Flat("device_pub")], None}
      /\ store'[Flat("session_fp")] \in {store[Flat("session_fp")], None}
      /\ \A u \in Units :
           \/ /\ store'[<<u, "session_fp">>] = store[<<u, "session_fp">>]
              /\ store'[<<u, "device_pub">>] = store[<<u, "device_pub">>]
           \/ /\ u = device_dir /\ pc = "session_fp"
              /\ store'[<<u, "session_fp">>] = store[Flat("session_fp")]
              /\ store'[<<u, "device_pub">>] = store[<<u, "device_pub">>]
           \/ /\ u = device_dir /\ pc = "device_pub"
              /\ store'[<<u, "session_fp">>] = store[<<u, "session_fp">>]
              /\ store'[<<u, "device_pub">>] = store[Flat("device_pub")]
<1>3. Effect
  <2>1. CASE UNCHANGED store
    BY <2>1 DEF HInv, Shape
  <2>2. CASE store' = MakeDir
    <3>1. Write(<<device_dir, "dir">>, "dir") /\ <<device_dir, "dir">> \in Files
      BY <1>1, <2>2, Places DEF Write, MakeDir, Mine, UnitFiles
    <3>2. /\ store' = [f \in Files |-> store'[f]]
          /\ \A f \in Tracked : f # <<device_dir, "dir">> => store'[f] = store[f]
      BY <3>1, Wrote DEF HInv
    <3>3. \A f \in Tracked : f # <<device_dir, "dir">>
      BY <1>1, Places DEF Tracked, Priv, Pub, Flat
    <3> QED
      BY <3>2, <3>3 DEF Tracked
  <2>3. CASE store' = [MakeDir EXCEPT ![Mine(pc)] = store[Flat(pc)], ![Flat(pc)] = None]
    <3>1. CASE pc = "device_pub"
      BY <1>1, <2>3, <3>1, Places
      DEF MakeDir, HInv, Shape, Mine, Flat, Priv, Pub, UnitFiles, FlatFiles
    <3>2. CASE pc = "session_fp"
      BY <1>1, <2>3, <3>2, Places
      DEF MakeDir, HInv, Shape, Mine, Flat, Priv, Pub, UnitFiles, FlatFiles
    <3>3. CASE pc = "session_cn"
      BY <1>1, <2>3, <3>3, Places
      DEF MakeDir, HInv, Shape, Mine, Flat, Priv, Pub, UnitFiles, FlatFiles
    <3> QED
      BY <1>1, <3>1, <3>2, <3>3
  <2> QED
    BY <2>1, <2>2, <2>3 DEF try_migrate_flat_layout, RenameFails
<1>4. HostTypeOK'
  <2>1. /\ store[Flat("session_fp")] \in Leaves \cup {None}
        /\ pc = "device_pub" => store[Flat("device_pub")] = device_dir
    BY DEF HInv, FlatLayout
  <2>2. \A u \in Units : store'[<<u, "session_fp">>] \in {None, Empty} \cup Leaves
    BY <1>3, <2>1 DEF HInv, HostTypeOK
  <2>3. \A u \in Units : store'[<<u, "device_pub">>] \in {None, Empty, u}
    BY <1>3, <2>1 DEF HInv, HostTypeOK
  <2> QED
    BY <1>1, <1>3, <2>2, <2>3 DEF HInv, HostTypeOK, FlatFiles, UnitFiles
<1>5. Shape'
  BY <1>1, <1>3 DEF HInv, Shape, Early, Pairing, FlatFiles, UnitFiles
<1>6. FlatLayout' /\ Authority'
  BY <1>1, <1>2, <1>3, Places DEF HInv, FlatLayout, Authority, FlatFiles, UnitFiles
<1>7. ClientKeys' /\ PinInHand'
  BY <1>1, <1>3
  DEF HInv, ClientKeys, PinInHand, Readable, FlatFiles, UnitFiles, Early, PinSaved, Pairing
<1>8. PinsKept'
  <2> SUFFICES ASSUME NEW u \in Units, pinned[u] \in Leaves, u \notin disturbed'
               PROVE  store'[<<u, "session_fp">>] = pinned[u]
    BY <1>1 DEF PinsKept
  <2>1. pc # "idle"
    BY <1>1
  <2>2. CASE u = device_dir
    <3>1. pc = "session_cn" /\ store[<<u, "session_fp">>] = pinned[u]
      BY <1>1, <1>2, <2>2
    <3> QED
      BY <1>3, <3>1
  <2>3. CASE u # device_dir
    <3>1. store'[<<u, "session_fp">>] = store[<<u, "session_fp">>]
      BY <1>3, <2>3
    <3>2. u \notin disturbed
      BY <1>2, <2>3
    <3> QED
      BY <2>1, <3>1, <3>2 DEF HInv, PinsKept
  <2> QED
    BY <2>2, <2>3
<1> QED
  BY <1>4, <1>5, <1>6, <1>7, <1>8 DEF HInv

\* pair makes a key pair only where none is, and nothing is paired yet.
LEMMA SavePrivKeeps == HInv /\ SavePriv => HInv'
<1> SUFFICES ASSUME HInv, SavePriv PROVE HInv'
  OBVIOUS
<1> USE Places DEF SavePriv, units, authority, steady, Goto
<1>1. nruns' \in 0..MaxRuns /\ newkeys' \in 0..nruns' /\ newkeys' \in 0..MaxRuns
  <2>1. nruns \in 0..MaxRuns /\ newkeys \in 0..nruns /\ newkeys < nruns
    BY DEF HInv, ClientKeys
  <2>2. MaxRuns \in Nat
    BY HostAssumption
  <2> QED
    BY ONLY <2>1, <2>2, newkeys' = newkeys + 1, nruns' = nruns
<1>2. /\ store' = [f \in Files |-> store'[f]]
      /\ store'[Priv] = newkeys'
      /\ \A f \in Tracked : f # Priv => store'[f] = store[f]
  BY Wrote DEF HInv
<1>3. /\ store'[Pub] = store[Pub]
      /\ store'[Flat("device_pub")] = store[Flat("device_pub")]
      /\ store'[Flat("session_fp")] = store[Flat("session_fp")]
      /\ \A u \in Units : /\ store'[<<u, "session_fp">>] = store[<<u, "session_fp">>]
                          /\ store'[<<u, "device_pub">>] = store[<<u, "device_pub">>]
  BY <1>2 DEF Tracked, Priv, Pub, Flat
<1>4. HostTypeOK'
  <2>1. {store'[Priv], store'[Pub]} \subseteq {None, Empty} \cup 0..MaxRuns
    BY <1>1, <1>2, <1>3 DEF HInv, HostTypeOK
  <2> QED
    BY <1>3, <2>1 DEF HInv, HostTypeOK, FlatFiles, UnitFiles
<1>5. Shape'
  BY <1>2 DEF HInv, Shape, Early, Pairing, FlatFiles, UnitFiles
<1>6. FlatLayout' /\ Authority' /\ PinInHand' /\ PinsKept'
  BY <1>3 DEF HInv, FlatLayout, Authority, PinInHand, PinsKept, PinSaved,
         Pairing, FlatFiles, UnitFiles
<1>7. ClientKeys'
  BY <1>1, <1>2 DEF HInv, ClientKeys, FlatFiles, UnitFiles, Readable, Early
<1> QED
  BY <1>4, <1>5, <1>6, <1>7 DEF HInv

\* The second half of the client key pair is written beside the first.
LEMMA SavePubKeeps == HInv /\ SavePub => HInv'
<1> SUFFICES ASSUME HInv, SavePub PROVE HInv'
  OBVIOUS
<1> USE Places DEF SavePub, units, authority, steady, Goto
<1>1. newkeys \in 0..MaxRuns
  <2>1. nruns \in 0..MaxRuns /\ newkeys \in 0..nruns
    BY DEF HInv, ClientKeys
  <2>2. MaxRuns \in Nat
    BY HostAssumption
  <2> QED
    BY ONLY <2>1, <2>2
<1>2. /\ store' = [f \in Files |-> store'[f]]
      /\ store'[Pub] = newkeys
      /\ \A f \in Tracked : f # Pub => store'[f] = store[f]
  BY Wrote DEF HInv
<1>3. /\ store'[Priv] = store[Priv]
      /\ store'[Flat("device_pub")] = store[Flat("device_pub")]
      /\ store'[Flat("session_fp")] = store[Flat("session_fp")]
      /\ \A u \in Units : /\ store'[<<u, "session_fp">>] = store[<<u, "session_fp">>]
                          /\ store'[<<u, "device_pub">>] = store[<<u, "device_pub">>]
  BY <1>2 DEF Tracked, Priv, Pub, Flat
<1>4. HostTypeOK'
  <2>1. {store'[Priv], store'[Pub]} \subseteq {None, Empty} \cup 0..MaxRuns
    BY <1>1, <1>2, <1>3 DEF HInv, HostTypeOK
  <2> QED
    BY <1>3, <2>1 DEF HInv, HostTypeOK, FlatFiles, UnitFiles
<1>5. Shape'
  BY <1>2 DEF HInv, Shape, Early, Pairing, FlatFiles, UnitFiles
<1>6. FlatLayout' /\ Authority' /\ PinInHand' /\ PinsKept'
  BY <1>3 DEF HInv, FlatLayout, Authority, PinInHand, PinsKept, PinSaved,
         Pairing, FlatFiles, UnitFiles
<1>7. ClientKeys'
  BY <1>1, <1>2, <1>3 DEF HInv, ClientKeys, FlatFiles, UnitFiles, Readable, Early
<1> QED
  BY <1>4, <1>5, <1>6, <1>7 DEF HInv

\* What pair writes is of the unit at the port, or nothing HInv speaks of.
PairWrote(g, v) ==
  /\ store' = [f \in Files |-> store'[f]]
  /\ store'[g] = v
  /\ store'[Priv] = store[Priv] /\ store'[Pub] = store[Pub]
  /\ store'[Flat("device_pub")] = store[Flat("device_pub")]
  /\ store'[Flat("session_fp")] = store[Flat("session_fp")]
  /\ \A u \in Units, f \in {"session_fp", "device_pub"} :
       <<u, f>> # g => store'[<<u, f>>] = store[<<u, f>>]

\* The files cmd_pair writes once it has the keys.
PairFiles == {<<port, f>> : f \in UnitFiles}
             \cup {<<"home", "client_cert">>, <<"home", "client_chain">>}

\* A pin or a client certificate that cmd_pair writes touches no other file.
LEMMA PairWrites ==
  ASSUME HInv, NEW g \in PairFiles, NEW v, Write(g, v)
  PROVE  PairWrote(g, v)
<1>1. port \in Units
  BY DEF HInv, Shape
<1>2. g \in Files
  BY <1>1, Places DEF PairFiles
<1>3. /\ store' = [f \in Files |-> store'[f]]
      /\ store'[g] = v
      /\ \A f \in Tracked : f # g => store'[f] = store[f]
  BY <1>2, Wrote DEF HInv
<1>4. g \notin {Priv, Pub, Flat("device_pub"), Flat("session_fp")}
  BY <1>1, Places DEF PairFiles, Priv, Pub, Flat, UnitFiles
<1> QED
  BY <1>3, <1>4 DEF Tracked, PairWrote

\* The handshake of pair: the unit's directory is made and selected.
LEMMA PairOpenKeeps == HInv /\ PairOpen => HInv'
<1> SUFFICES ASSUME HInv, PairOpen PROVE HInv'
  OBVIOUS
<1> USE DEF PairOpen, units, authority, steady
<1>1. CASE Exit(FALSE) /\ UNCHANGED store
  BY <1>1, EndsKeeps DEF Ends, Exit, HInv, Shape, Authority
<1>2. CASE /\ Write(<<port, "dir">>, "dir")
           /\ device_dir' = port /\ pc' = "passkey" /\ UNCHANGED <<cmd, nruns, ok>>
  <2>1. port \in Units /\ <<port, "dir">> \in PairFiles
    BY DEF HInv, Shape, PairFiles, UnitFiles
  <2>2. /\ store' = [f \in Files |-> store'[f]]
        /\ store'[Priv] = store[Priv] /\ store'[Pub] = store[Pub]
        /\ store'[Flat("device_pub")] = store[Flat("device_pub")]
        /\ store'[Flat("session_fp")] = store[Flat("session_fp")]
        /\ \A u \in Units, f \in {"session_fp", "device_pub"} :
             store'[<<u, f>>] = store[<<u, f>>]
    <3>1. PairWrote(<<port, "dir">>, "dir")
      BY <1>2, <2>1, PairWrites
    <3> QED
      BY <3>1 DEF PairWrote
  <2>3. HostTypeOK'
    BY <1>2, <2>2 DEF HInv, HostTypeOK
  <2>4. Shape'
    BY <1>2, <2>2 DEF HInv, Shape, Early, Pairing, FlatFiles, UnitFiles
  <2>5. FlatLayout' /\ Authority' /\ PinInHand' /\ PinsKept'
    BY <1>2, <2>2
    DEF HInv, FlatLayout, Authority, PinInHand, PinsKept, PinSaved,
         Pairing, FlatFiles, UnitFiles
  <2>6. ClientKeys'
    BY <1>2, <2>2 DEF HInv, ClientKeys, FlatFiles, UnitFiles, Readable, Early
  <2> QED
    BY <2>3, <2>4, <2>5, <2>6 DEF HInv
<1> QED
  BY <1>1, <1>2

\* What a step of pair saves, and where.
LEMMA SavedFile ==
  ASSUME HInv, pc \in Saves
  PROVE  /\ Saved.file \in PairFiles
         /\ \A u \in Units, f \in {"session_fp", "device_pub"} :
              <<u, f>> = Saved.file => u = port /\ f = "session_fp" /\ pc = "save fp"
         /\ pc = "save fp" => Saved.file = <<port, "session_fp">> /\ Saved.val = leaf[port]
<1>1. device_dir = port /\ port \in Units
  BY DEF HInv, HostTypeOK, Shape, Saves, FlatFiles, UnitFiles
<1>2. CASE pc = "save fp"
  <2>1. Saved.file = <<port, "session_fp">> /\ Saved.val = leaf[port]
    BY <1>1, <1>2 DEF Saved, Mine
  <2> QED
    <3>1. <<port, "session_fp">> \in PairFiles
      BY DEF PairFiles, UnitFiles
    <3>2. \A u, f : <<u, f>> = <<port, "session_fp">> => u = port /\ f = "session_fp"
      BY Pairs
    <3> QED
      BY <1>2, <2>1, <3>1, <3>2
<1>3. CASE pc = "save cn"
  <2>1. Saved.file = <<port, "session_cn">>
    BY <1>1, <1>3 DEF Saved, Mine
  <2> QED
    <3>1. <<port, "session_cn">> \in PairFiles
      BY DEF PairFiles, UnitFiles
    <3>2. \A u, f : <<u, f>> = <<port, "session_cn">> => f = "session_cn"
      BY Pairs
    <3> QED
      BY <1>3, <2>1, <3>1, <3>2
<1>4. CASE pc = "save cert"
  <2>1. Saved.file = <<"home", "client_cert">>
    BY <1>4 DEF Saved
  <2> QED
    BY <1>4, <2>1, Pairs, Places DEF PairFiles
<1>5. CASE pc = "save chain"
  <2>1. Saved.file = <<"home", "client_chain">>
    BY <1>5 DEF Saved
  <2> QED
    BY <1>5, <2>1, Pairs, Places DEF PairFiles
<1> QED
  BY <1>2, <1>3, <1>4, <1>5 DEF Saves

\* pair saves what it is about to ask the user to approve; a pin that is not
\* saved leaves the unit disturbed and the run warned.
LEMMA PairSaveKeeps == HInv /\ (PairSave \/ PairSaveFails) => HInv'
<1> SUFFICES ASSUME HInv, PairSave \/ PairSaveFails PROVE HInv'
  OBVIOUS
<1> USE DEF units, authority, steady, Goto
<1>1. /\ pc \in Saves /\ pc' \in {"save cn", "save cert", "save chain", "tap"}
      /\ disturbed' = disturbed \cup {port}
      /\ UNCHANGED <<port, leaf, ca_key, ca_provisioned, ca_cert, cmd, device_dir, newkeys,
                     nruns, pinned>>
      /\ warned => warned'
      /\ pc # "save fp" => pc \in PinSaved
      /\ port \in Units /\ leaf[port] \in Leaves \cup {None} /\ device_dir = port
  BY DEF PairSave, PairSaveFails, Saves, NextSave, PinSaved, Pairing, HInv, Shape, HostTypeOK,
         FlatFiles, UnitFiles
<1> DEFINE Effect ==
      /\ store' = [f \in Files |-> store'[f]]
      /\ store'[Priv] = store[Priv] /\ store'[Pub] = store[Pub]
      /\ store'[Flat("device_pub")] = store[Flat("device_pub")]
      /\ store'[Flat("session_fp")] = store[Flat("session_fp")]
      /\ \A u \in Units, f \in {"session_fp", "device_pub"} :
           \/ store'[<<u, f>>] = store[<<u, f>>]
           \/ u = port /\ f = "session_fp" /\ pc = "save fp"
      /\ pc = "save fp" =>
           \/ store'[<<port, "session_fp">>] = leaf[port]
           \/ store'[<<port, "session_fp">>] \in {store[<<port, "session_fp">>], Empty} /\ warned'
<1>2. Effect
  <2>1. CASE UNCHANGED store /\ (pc = "save fp" => warned')
    BY <2>1 DEF HInv, Shape
  <2>2. ASSUME NEW v, Write(Saved.file, v),
               v = Saved.val \/ (v = Empty /\ (pc = "save fp" => warned'))
        PROVE  Effect
    <3>1. PairWrote(Saved.file, v)
      BY <1>1, <2>2, SavedFile, PairWrites
    <3> QED
      BY <1>1, <2>2, <3>1, SavedFile DEF PairWrote
  <2> QED
    BY <2>1, <2>2 DEF PairSave, PairSaveFails
<1>3. HostTypeOK'
  BY <1>1, <1>2 DEF HInv, HostTypeOK
<1>4. Shape'
  <2>1. warned' \in BOOLEAN
    BY Zenon DEF HInv, Shape, PairSave, PairSaveFails
  <2> QED
    BY <1>1, <1>2, <2>1 DEF HInv, Shape, Early, Pairing, FlatFiles, UnitFiles, Saves
<1>5. FlatLayout' /\ Authority'
  BY <1>1, <1>2 DEF HInv, FlatLayout, Authority, FlatFiles, UnitFiles, Saves
<1>6. ClientKeys'
  BY <1>1, <1>2 DEF HInv, ClientKeys, FlatFiles, UnitFiles, Readable, Early, Saves
<1>7. PinInHand' /\ PinsKept'
  BY <1>1, <1>2 DEF HInv, PinInHand, PinsKept, PinSaved, Pairing, Saves
<1> QED
  BY <1>3, <1>4, <1>5, <1>6, <1>7 DEF HInv

\* A pairing reported: the pin of the unit is the certificate at the port, unless
\* the run has warned that it could not save it.
LEMMA PairDoneKeeps == HInv /\ PairDone => HInv'
<1> SUFFICES ASSUME HInv, PairDone PROVE HInv'
  OBVIOUS
<1> USE DEF PairDone, units, authority, steady, Exit
<1>1. /\ port \in Units /\ leaf[port] \in Leaves \cup {None} /\ device_dir = port
      /\ <<port, "device_pub">> \in PairFiles
  BY DEF HInv, Shape, HostTypeOK, PairFiles, FlatFiles, UnitFiles
<1>2. PairWrote(<<port, "device_pub">>, port)
  BY <1>1, PairWrites DEF Mine
<1>3. /\ pinned'[port] # None
      /\ pinned'[port] \in Leaves => pinned'[port] = leaf[port]
      /\ \A u \in Units : u # port => pinned'[u] = pinned[u]
      /\ pinned' \in [Units -> Leaves \cup {None, Empty}]
  <2>1. PICK l : /\ l = (IF leaf[port] = None THEN Empty ELSE leaf[port])
                 /\ pinned' = [pinned EXCEPT ![port] = l]
    OBVIOUS
  <2>2. l # None /\ l \in Leaves \cup {Empty} /\ (l \in Leaves => l = leaf[port])
    <3>1. None # Empty
      BY HostAssumption
    <3> QED
      BY <1>1, <2>1, <3>1, Places
  <2> QED
    BY <1>1, <2>1, <2>2 DEF HInv, Shape
<1>4. HostTypeOK'
  BY <1>1, <1>2 DEF HInv, HostTypeOK, PairWrote
<1>5. Shape'
  BY <1>2, <1>3 DEF HInv, Shape, Early, Pairing, PairWrote
<1>6. FlatLayout' /\ Authority'
  BY <1>2, <1>3 DEF HInv, FlatLayout, Authority, FlatFiles, UnitFiles, PairWrote
<1>7. ClientKeys'
  BY <1>2, <1>3 DEF HInv, ClientKeys, FlatFiles, UnitFiles, Readable, Early, PairWrote
<1>8. PinInHand' /\ PinsKept'
  BY <1>1, <1>2, <1>3 DEF HInv, PinInHand, PinsKept, PinSaved, Pairing, PairWrote
<1> QED
  BY <1>4, <1>5, <1>6, <1>7, <1>8 DEF HInv

\* A process that dies, with the file it was writing truncated or not.
LEMMA KilledKeeps == HInv /\ Killed => HInv'
<1> SUFFICES ASSUME HInv, Killed PROVE HInv'
  OBVIOUS
<1> USE DEF Killed, units, authority, Exit
<1>1. /\ port \in Units
      /\ pc \in Pairing => device_dir = port
  BY DEF HInv, Shape, HostTypeOK, Pairing, FlatFiles, UnitFiles
<1> DEFINE Effect ==
      /\ store' = [f \in Files |-> store'[f]]
      /\ \A f \in {Priv, Pub} : \/ store'[f] = store[f]
                                \/ store'[f] = Empty /\ pc \in {"save priv", "save pub"}
      /\ store'[Flat("device_pub")] = store[Flat("device_pub")]
      /\ store'[Flat("session_fp")] = store[Flat("session_fp")]
      /\ \A u \in Units, f \in {"session_fp", "device_pub"} :
           \/ store'[<<u, f>>] = store[<<u, f>>]
           \/ store'[<<u, f>>] = Empty
      /\ \A u \in Units : \/ store'[<<u, "session_fp">>] = store[<<u, "session_fp">>]
                          \/ u = port /\ pc \in Saves
<1>2. Effect
  <2>1. CASE store' = store
    BY <2>1 DEF HInv, Shape
  <2>2. ASSUME NEW g \in BeingWritten, store' = [store EXCEPT ![g] = Empty]
        PROVE  Effect
    <3>1. Write(g, Empty)
      BY <2>2 DEF Write
    <3>2. CASE pc \in {"save priv", "save pub"}
      <4>1. g \in {Priv, Pub} /\ g \in Files
        BY <2>2, <3>2, Places DEF BeingWritten, Saves
      <4>2. /\ store' = [f \in Files |-> store'[f]]
            /\ store'[g] = Empty
            /\ \A f \in Tracked : f # g => store'[f] = store[f]
        BY <3>1, <4>1, Wrote DEF HInv
      <4>3. /\ {Priv, Pub, Flat("device_pub"), Flat("session_fp")} \subseteq Tracked
            /\ Units \X {"session_fp", "device_pub"} \subseteq Tracked
            /\ g # Flat("device_pub") /\ g # Flat("session_fp")
            /\ \A u \in Units : g # <<u, "session_fp">> /\ g # <<u, "device_pub">>
        BY <4>1, Places DEF Tracked, Priv, Pub, Flat
      <4> QED
        BY <3>2, <4>1, <4>2, <4>3
    <3>3. CASE pc \notin {"save priv", "save pub"}
      <4>1. pc \in Saves \cup {"save device_pub"}
        BY <2>2, <3>3 DEF BeingWritten, Saves
      <4>2. /\ g \in PairFiles
            /\ \A u \in Units : <<u, "session_fp">> = g => u = port /\ pc \in Saves
        <5>1. CASE pc \in Saves
          <6>1. g = Saved.file
            BY <2>2, <5>1 DEF BeingWritten, Saves
          <6> QED
            BY <5>1, <6>1, SavedFile
        <5>2. CASE pc = "save device_pub"
          <6>1. g = <<port, "device_pub">>
            BY <1>1, <2>2, <5>2 DEF BeingWritten, Mine, Saves, Pairing
          <6> QED
            BY <6>1, Pairs DEF PairFiles, UnitFiles
        <5> QED
          BY <4>1, <5>1, <5>2
      <4>3. PairWrote(g, Empty)
        BY <3>1, <4>2, PairWrites
      <4> QED
        BY <4>2, <4>3 DEF PairWrote
    <3> QED
      BY <3>2, <3>3
  <2> QED
    BY <2>1, <2>2
<1>3. HostTypeOK'
  BY <1>2 DEF HInv, HostTypeOK
<1>4. Shape'
  BY <1>2 DEF HInv, Shape, Early, Pairing
<1>5. FlatLayout' /\ Authority'
  BY <1>2 DEF HInv, FlatLayout, Authority, FlatFiles, UnitFiles
<1>6. ClientKeys'
  BY <1>2 DEF HInv, ClientKeys, FlatFiles, UnitFiles, Readable, Early
<1>7. PinInHand' /\ PinsKept'
  BY <1>1, <1>2 DEF HInv, PinInHand, PinsKept, PinSaved, Pairing
<1> QED
  BY <1>3, <1>4, <1>5, <1>6, <1>7 DEF HInv

-----------------------------------------------------------------------------
(* The invariant.                                                          *)

\* The arguments of a command that is not pair.
LEMMA CommandFacts ==
  ASSUME Shape, pc = "policy"
  PROVE  /\ cmd.op \in {"request", "session-sign", "provision-ca", "update-firmware"}
         /\ cmd.trust \in {"auto", "none", "pin", "ca", "ca+cn"}
  BY DEF Shape, Commands, Others

\* Every other step ends the process or moves it on.
LEMMA QuietSteps ==
  ASSUME HInv,
         \/ LoadKeys \/ open_device_session \/ CheckPolicy \/ CannotOpen
         \/ PairPasskey \/ PairTap \/ SimpleRequest \/ SessionSign \/ ProvisionStatus
         \/ ProvisionKey \/ ProvisionCert \/ TriggerUf2 \/ CopyImage
  PROVE  Ends \/ Moves
<1> USE DEF units, authority, steady, Goto, Exit
<1>1. /\ leaf \in [Units -> Leaves \cup {None}] /\ port \in Units
      /\ ca_provisioned \subseteq ca_key /\ ca_cert = [u \in Units |-> ca_cert[u]]
      /\ pc \in Acting \cup Pairing => device_dir = port
  BY DEF HInv, HostTypeOK, Shape, Authority, Acting, Pairing, FlatFiles, UnitFiles
<1>2. CASE LoadKeys
  BY <1>1, <1>2 DEF LoadKeys, Ends, Moves, FlatFiles, UnitFiles
<1>3. CASE open_device_session
  BY <1>1, <1>3 DEF open_device_session, Ends, Moves, Acting, FlatFiles, UnitFiles
<1>4. CASE CheckPolicy
  BY <1>1, <1>4, CommandFacts DEF CheckPolicy, HInv, Ends, Moves, Acting, FlatFiles, UnitFiles
<1>5. CASE CannotOpen \/ SimpleRequest
  BY <1>1, <1>5 DEF CannotOpen, SimpleRequest, Ends
<1>6. CASE PairPasskey \/ PairTap
  BY <1>1, <1>6 DEF PairPasskey, PairTap, Ends, Moves, Pairing, PinSaved, FlatFiles, UnitFiles
<1>7. CASE SessionSign
  BY <1>1, <1>7 DEF SessionSign, Ends
<1>8. CASE ProvisionStatus \/ ProvisionKey \/ ProvisionCert
  <2>1. CASE ProvisionStatus
    BY <1>1, <2>1 DEF ProvisionStatus, Ends, Moves, Acting, FlatFiles, UnitFiles
  <2>2. CASE ProvisionKey
    BY <1>1, <2>2 DEF ProvisionKey, Minted, Shown, Ends, Moves, Acting, FlatFiles, UnitFiles
  <2>3. CASE ProvisionCert
    BY <1>1, <2>3 DEF ProvisionCert, Ends
  <2> QED
    BY <1>8, <2>1, <2>2, <2>3
<1>9. CASE TriggerUf2 \/ CopyImage
  BY <1>1, <1>9 DEF TriggerUf2, CopyImage, Ends, Moves, Acting, FlatFiles, UnitFiles
<1> QED
  BY <1>2, <1>3, <1>4, <1>5, <1>6, <1>7, <1>8, <1>9

\* Every step of cantil-cli, and of what happens to its device, keeps HInv.
LEMMA HInvStep == HInv /\ [HNext]_vars => HInv'
<1> SUFFICES ASSUME HInv, [HNext]_vars PROVE HInv'
  OBVIOUS
<1>1. CASE UNCHANGED vars
  <2> USE <1>1 DEF vars, units, authority, hist
  <2>1. HostTypeOK' /\ Shape'
    BY DEF HInv, HostTypeOK, Shape
  <2>2. FlatLayout' /\ Authority'
    BY DEF HInv, FlatLayout, Authority, Mine
  <2>3. ClientKeys'
    BY DEF HInv, ClientKeys, Readable
  <2>4. PinInHand' /\ PinsKept'
    BY DEF HInv, PinInHand, PinsKept
  <2> QED
    BY <2>1, <2>2, <2>3, <2>4 DEF HInv
<1>2. CASE HNext
  BY <1>2, QuietSteps, EndsKeeps, MovesKeeps, MainKeeps, MigrateKeeps, SavePrivKeeps,
     SavePubKeeps, PairOpenKeeps, PairSaveKeeps, PairDoneKeeps, PlugKeeps, KilledKeeps
  DEF HNext
<1> QED
  BY <1>1, <1>2

\* Whatever is run, plugged in and killed, HInv holds.
THEOREM HostInvariant == HSpec => []HInv
  BY HInitLemma, HInvStep, PTL DEF HSpec

\* What the key store holds is of its type, and from the open session on the
\* selected directory is the one of the unit at the port.
THEOREM HostTypeCorrect == HSpec => []HostTypeOK
<1>1. HInv => HostTypeOK
  BY DEF HInv
<1> QED
  BY <1>1, HostInvariant, PTL

\* Only the two saves of a new key pair, and a kill there, write it.
LEMMA KeysWritten ==
  ASSUME HInv, HNext, pc \notin {"save priv", "save pub"}
  PROVE  store'[Priv] = store[Priv] /\ store'[Pub] = store[Pub]
<1>1. /\ port \in Units /\ store = [f \in Files |-> store[f]]
      /\ pc \in Pairing => device_dir = port
      /\ pc \in FlatFiles => device_dir \in Units
  BY DEF HInv, HostTypeOK, Shape, FlatLayout, Pairing, FlatFiles, UnitFiles
<1>2. ASSUME NEW g, NEW v, g \notin {Priv, Pub}, store' = [store EXCEPT ![g] = v]
      PROVE  store'[Priv] = store[Priv] /\ store'[Pub] = store[Pub]
  BY <1>1, <1>2, Places
<1>3. \A g \in PairFiles : g \notin {Priv, Pub}
  <2>1. \A f \in UnitFiles : <<port, f>> \notin {Priv, Pub}
    BY <1>1, Places, Pairs DEF Priv, Pub
  <2>2. {<<"home", "client_cert">>, <<"home", "client_chain">>} \cap {Priv, Pub} = {}
    BY Pairs DEF Priv, Pub
  <2> QED
    <3> SUFFICES ASSUME NEW g \in PairFiles PROVE g \notin {Priv, Pub}
      OBVIOUS
    <3>1. CASE g \in {<<port, f>> : f \in UnitFiles}
      <4>1. PICK f \in UnitFiles : g = <<port, f>>
        BY <3>1
      <4> QED
        BY <2>1, <4>1
    <3>2. CASE g \in {<<"home", "client_cert">>, <<"home", "client_chain">>}
      BY <2>2, <3>2
    <3> QED
      BY <3>1, <3>2 DEF PairFiles
<1>4. \A u \in Units, f \in UnitFiles : <<u, f>> \notin {Priv, Pub}
  BY Places DEF Priv, Pub
<1>5. pc \in Saves => Saved.file \notin {Priv, Pub}
  BY <1>3, SavedFile
<1>6. pc = "save device_pub" => Mine("device_pub") \notin {Priv, Pub}
  BY <1>1, <1>4 DEF Mine, Pairing, UnitFiles
<1>7. CASE main \/ SavePriv \/ SavePub \/ Plug
  BY <1>7 DEF main, SavePriv, SavePub, Plug
<1>8. CASE try_migrate_flat_layout \/ RenameFails
  BY <1>1, <1>8, Places
  DEF try_migrate_flat_layout, RenameFails, MakeDir, Priv, Pub, Mine, Flat, UnitFiles, FlatFiles
<1>9. CASE PairOpen
  <2>1. <<port, "dir">> \notin {Priv, Pub}
    BY <1>1, <1>4 DEF UnitFiles
  <2> QED
    BY <1>2, <1>9, <2>1 DEF PairOpen, Write
<1>10. CASE PairSave \/ PairSaveFails
  BY <1>2, <1>5, <1>10 DEF PairSave, PairSaveFails, Write, Saves
<1>11. CASE PairDone
  BY <1>2, <1>6, <1>11 DEF PairDone, Write
<1>12. CASE Killed
  <2>1. \A g \in BeingWritten : g \notin {Priv, Pub}
    BY <1>5, <1>6 DEF BeingWritten, Saves
  <2> QED
    BY <1>2, <1>12, <2>1 DEF Killed
<1> QED
  BY <1>7, <1>8, <1>9, <1>10, <1>11, <1>12, QuietSteps DEF HNext, Ends, Moves

\* The client key a device has bonded is never replaced: keys are made only
\* before the first pairing is reported, and a kill truncates only those.
THEOREM ClientKeyIsKept == HSpec => ClientKeyKept
<1>1. HInv /\ [HNext]_vars => [(\E u \in Units : pinned[u] # None) =>
                                  store'[Priv] = store[Priv] /\ store'[Pub] = store[Pub]]_vars
  BY KeysWritten DEF HInv, ClientKeys
<1> QED
  BY <1>1, HostInvariant, PTL DEF HSpec, ClientKeyKept

\* The policy a command passes is the one that was asked for, and without one
\* the pin of the last reported pairing.
LEMMA PolicyHolds ==
  ASSUME HInv, pc = "policy", build_policy_ctx, cantil_trust_check_policy
  PROVE  /\ cmd.trust \in {"auto", "pin"} /\ pinned[port] \in Leaves /\ port \notin disturbed
              => leaf[port] = pinned[port]
         /\ cmd.trust = "pin" => store[Mine("session_fp")] = leaf[port]
         /\ cmd.trust \in {"ca", "ca+cn"} => Anchor[leaf[port]] \in AllowList
         /\ cmd.trust = "ca+cn" /\ cmd.cn # None => cmd.cn = CN[leaf[port]]
<1>1. /\ port \in Units /\ device_dir = port
      /\ cmd.trust \in {"auto", "none", "pin", "ca", "ca+cn"}
  BY CommandFacts DEF HInv, Shape, HostTypeOK, FlatFiles, UnitFiles
<1>2. CASE cmd.trust = "pin"
  <2>1. Tier = "pin" /\ store[Mine("session_fp")] = leaf[port]
    BY <1>2 DEF Tier, cantil_trust_check_policy, tier2
  <2> QED
    BY <1>1, <1>2, <2>1, Places DEF HInv, PinsKept, Mine
<1>3. CASE cmd.trust = "auto"
  <2> SUFFICES ASSUME pinned[port] \in Leaves, port \notin disturbed
               PROVE  leaf[port] = pinned[port]
    BY <1>3
  <2>1. store[Mine("session_fp")] = pinned[port]
    BY <1>1, Places DEF HInv, PinsKept, Mine
  <2>2. Tier = "pin"
    BY <1>1, <1>3, <2>1, Places DEF Tier, Readable
  <2> QED
    BY <2>1, <2>2 DEF cantil_trust_check_policy, tier2
<1>4. CASE cmd.trust = "ca"
  BY <1>4 DEF Tier, cantil_trust_check_policy, tier3_chain_validate
<1>5. CASE cmd.trust = "ca+cn"
  BY <1>5
  DEF Tier, cantil_trust_check_policy, tier3_chain_validate, tier4_cn_validate, expected_cn
<1>6. CASE cmd.trust = "none"
  BY <1>6
<1> QED
  BY <1>1, <1>2, <1>3, <1>4, <1>5, <1>6

\* A command reaches a device only under the policy: after a pairing that was
\* reported and not disturbed since, only while it presents the pinned certificate.
THEOREM TrustIsKept == HSpec => TrustHolds
<1>1. HInv /\ HNext /\ CommandStarts => build_policy_ctx /\ cantil_trust_check_policy
  <2> SUFFICES ASSUME HInv, HNext, CommandStarts
               PROVE  build_policy_ctx /\ cantil_trust_check_policy
    OBVIOUS
  <2>1. pc = "policy" /\ pc' \in {"request", "session-sign", "provision-ca", "update-firmware"}
    BY CommandFacts DEF CommandStarts, HInv
  <2>2. CheckPolicy
    BY <2>1
    DEF HNext, main, try_migrate_flat_layout, RenameFails, LoadKeys, SavePriv, SavePub,
        open_device_session, CannotOpen, PairOpen, PairPasskey, PairSave, PairSaveFails,
        PairTap, PairDone, SimpleRequest, SessionSign, ProvisionStatus, ProvisionKey, ProvisionCert,
        TriggerUf2, CopyImage, Plug, Killed, Exit, FlatFiles, UnitFiles, Saves
  <2> QED
    BY <2>1, <2>2 DEF CheckPolicy, Exit
<1>2. HInv /\ [HNext]_vars =>
        [CommandStarts =>
          /\ cmd.trust \in {"auto", "pin"} /\ pinned[port] \in Leaves /\ port \notin disturbed
               => leaf[port] = pinned[port]
          /\ cmd.trust = "pin" => store[Mine("session_fp")] = leaf[port]
          /\ cmd.trust \in {"ca", "ca+cn"} => Anchor[leaf[port]] \in AllowList
          /\ cmd.trust = "ca+cn" /\ cmd.cn # None => cmd.cn = CN[leaf[port]]]_vars
  BY <1>1, PolicyHolds DEF CommandStarts
<1> QED
  BY <1>2, HostInvariant, PTL DEF HSpec, TrustHolds

\* The subject goes to a device that has a CA key, by the status it gave or by
\* the key it has just made; and a provision-ca reports success only for the
\* certificate it has had made itself, whatever earlier runs left behind.
THEOREM ProvisionCanResume == HSpec => ProvisionResumes
<1>1. HInv /\ [HNext]_vars =>
        [/\ pc = "push x509" => port \in ca_key
         /\ pc = "push x509" /\ pc' = "idle" /\ ok' => ca_cert'[port] = nruns]_vars
  <2>1. HInv /\ pc = "push x509" => port \in ca_key
    BY DEF HInv, Authority
  <2>2. ASSUME HInv, HNext, pc = "push x509", pc' = "idle", ok'
        PROVE  ca_cert'[port] = nruns
    <3>1. ProvisionCert \/ Killed
      BY <2>2 DEF HNext, main, try_migrate_flat_layout, RenameFails, LoadKeys, SavePriv, SavePub,
         open_device_session, CheckPolicy, CannotOpen, PairOpen, PairPasskey, PairSave,
         PairSaveFails, PairTap, PairDone, SimpleRequest, SessionSign, ProvisionStatus,
         ProvisionKey, TriggerUf2, CopyImage, Plug, FlatFiles, UnitFiles, Saves
    <3> QED
      BY <2>2, <3>1 DEF ProvisionCert, Killed, Exit, HInv, Shape, Authority
  <2> QED
    BY <2>1, <2>2
<1> QED
  BY <1>1, HostInvariant, PTL DEF HSpec, ProvisionResumes
=============================================================================
