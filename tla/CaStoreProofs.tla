--------------------------- MODULE CaStoreProofs ---------------------------
(***************************************************************************)
(* The theorems about CaStore: whatever commands are run, and wherever     *)
(* power is lost, a write is refused or a write is lost unseen, the files  *)
(* keep what the host was told, but for the write that was lost, and no    *)
(* key is lost but on purpose.                                             *)
(*                                                                         *)
(* CaStoreSteps shows that an operation on the list keeps the invariant;   *)
(* here every handler is shown to put on the list only operations that are *)
(* fit to be there, by what it checked first and by their order.           *)
(***************************************************************************)
EXTENDS CaStoreSteps, TLAPS
-----------------------------------------------------------------------------
(* The handlers: every operation they put on the list may be there.        *)

IsPut(w, dir, at, file, val) ==
  w.do = "write" /\ w.dir = dir /\ w.at = at /\ w.file = file /\ w.val = val

\* What the constructors of operations put into them.
LEMMA Fields ==
  ASSUME NEW dir, NEW at, NEW file, NEW val
  PROVE  /\ IsPut(Put(dir, at, file, val), dir, at, file, val) /\ Put(dir, at, file, val).must
         /\ IsPut(BestEffort(Put(dir, at, file, val)), dir, at, file, val)
         /\ LET r == RemoveAll(dir, at) IN r.do = "rm_rf" /\ r.dir = dir /\ r.at = at
         /\ LET r == Reply(file, val) IN r.do = "reply" /\ r.file = file /\ r.val = val
  BY DEF Put, BestEffort, RemoveAll, Reply, IsPut

\* A step is fit for its place on the new list.
Fit(i) == StepOK(todo[i]) /\ InOrder(i)

\* A write of x509 parameters, a certificate, a chain or a CRL number to a slot.
LEMMA PlainFits ==
  ASSUME NEW i, NEW s \in Slots, NEW f \in {"x509", "cert", "chain", "crl"}, NEW v,
         IsPut(todo'[i], "keys", s, f, v), SlotFile(f, v)
  PROVE  Fit(i)'
<1>1. StepOK(todo[i])'
  BY DEF IsPut, StepOK, StepType, KeyStep, CertStep, EndStep, IsWrite, IsRemoval, IsReply,
         Forgets, SlotFile, Files
<1>2. InOrder(i)'
  BY DEF IsPut, InOrder, Placed, IsWrite, IsReply, Forgets
<1> QED
  BY <1>1, <1>2 DEF Fit

\* A write of a slot's meta.bin.
LEMMA SlotMetaFits ==
  ASSUME NEW i, NEW s \in Slots, NEW v \in SlotMeta, IsPut(todo'[i], "keys", s, "meta", v),
         op' \notin {"RESET_DEVICE", "DELETE_KEY"}
  PROVE  Fit(i)'
<1>1. StepOK(todo[i])'
  BY DEF IsPut, StepOK, StepType, KeyStep, CertStep, EndStep, IsWrite, IsRemoval, IsReply,
         Forgets, SlotFile, Files
<1>2. InOrder(i)'
  BY DEF IsPut, InOrder, Placed, IsWrite, IsReply, Forgets
<1> QED
  BY <1>1, <1>2 DEF Fit

\* A write of a key just generated to a free slot.
LEMMA NewKeyFits ==
  ASSUME NEW s \in Slots, NEW k \in Keys, IsPut(todo'[1], "keys", s, "key", k),
         k <= nkeys', k \notin doomed', slots'[s].key = None
  PROVE  Fit(1)'
<1>1. StepOK(todo[1])'
  BY DEF IsPut, StepOK, StepType, KeyStep, CertStep, EndStep, IsWrite, IsRemoval, IsReply,
         Forgets, SlotFile, Files
<1>2. InOrder(1)'
  BY DEF IsPut, InOrder, Placed, IsWrite, IsReply, Forgets
<1> QED
  BY <1>1, <1>2 DEF Fit

\* An overwrite of a key.
LEMMA GarbageFits ==
  ASSUME NEW i, NEW s \in Slots, IsPut(todo'[i], "keys", s, "key", GARBAGE), OnPurpose(s)'
  PROVE  Fit(i)'
<1>1. StepOK(todo[i])'
  BY DEF IsPut, StepOK, StepType, KeyStep, CertStep, EndStep, IsWrite, IsRemoval, IsReply,
         Forgets, SlotFile, Files
<1>2. InOrder(i)'
  BY DEF IsPut, InOrder, Placed, IsWrite, IsReply, Forgets
<1> QED
  BY <1>1, <1>2 DEF Fit

\* A recursive removal.
LEMMA RemovalFits ==
  ASSUME NEW i, todo'[i].do = "rm_rf",
         \/ /\ todo'[i].dir = "keys" /\ todo'[i].at \subseteq Slots
            /\ \A s \in todo'[i].at : OnPurpose(s)'
         \/ todo'[i].dir = "certs" /\ todo'[i].at \subseteq Serials /\ op' = "RESET_DEVICE"
  PROVE  Fit(i)'
<1>1. StepOK(todo[i])'
  BY DEF StepOK, StepType, KeyStep, CertStep, EndStep, IsWrite, IsRemoval, IsReply, Forgets
<1>2. InOrder(i)'
  BY DEF InOrder, Placed, IsWrite, IsReply, Forgets
<1> QED
  BY <1>1, <1>2 DEF Fit

\* A write of the certificate of a new record.
LEMMA RecordFits ==
  ASSUME NEW i, NEW n \in Serials, NEW c \in Certs, IsPut(todo'[i], "certs", n, "cert", c),
         n <= nserials', \A d \in given' : d.serial # n
  PROVE  Fit(i)'
<1>1. StepOK(todo[i])'
  BY DEF IsPut, StepOK, StepType, KeyStep, CertStep, EndStep, IsWrite, IsRemoval, IsReply,
         Forgets, CertFiles
<1>2. InOrder(i)'
  BY DEF IsPut, InOrder, Placed, IsWrite, IsReply, Forgets
<1> QED
  BY <1>1, <1>2 DEF Fit

\* A write of a record's meta.bin.
LEMMA MetaFits ==
  ASSUME NEW i, NEW n \in Serials, NEW m \in IssuedMeta, IsPut(todo'[i], "certs", n, "meta", m),
         n <= nserials', Grows(n, m)', \A c \in refused' : c.serial # n,
         op' = "REVOKE_CERT" => "REVOKED" \in m.flags,
         \A j \in 1..Len(todo') : IsWrite(todo'[j], "certs", "meta") /\ j # i => todo'[j].at # n
  PROVE  Fit(i)'
<1>1. StepOK(todo[i])'
  BY DEF IsPut, StepOK, StepType, KeyStep, CertStep, EndStep, IsWrite, IsRemoval, IsReply,
         Forgets, CertFiles
<1>2. InOrder(i)'
  BY DEF IsPut, InOrder, Placed, IsWrite, IsReply, Forgets
<1> QED
  BY <1>1, <1>2 DEF Fit

\* The reply to the host.
LEMMA ReplyFits ==
  ASSUME NEW i, todo'[i].do = "reply", i = Len(todo'), op' # "RESET_DEVICE",
         todo'[i].file = "cert" =>
           /\ todo'[i].val \in Certs /\ todo'[i].val.serial \in 1..nserials'
           /\ RecordedFirst(i, todo[i].val)',
         todo'[i].file = "revoked" =>
           /\ todo'[i].val \in Serials \X Slots /\ op' = "REVOKE_CERT"
           /\ FlaggedFirst(i, todo[i].val[1], todo[i].val[2])'
  PROVE  Fit(i)'
<1>1. StepOK(todo[i])'
  BY DEF StepOK, StepType, KeyStep, CertStep, EndStep, IsWrite, IsRemoval, IsReply, Forgets
<1>2. InOrder(i)'
  BY DEF InOrder, Placed, IsWrite, IsReply, Forgets
<1> QED
  BY <1>1, <1>2 DEF Fit

\* Starting a handler keeps what holds of the files and of what was told.
LEMMA BeginKeeps ==
  ASSUME CInv, op' # "BOOT", UNCHANGED <<slots, certs>>, seq_set' = seq_set, Counters',
         nkeys' \in {nkeys, nkeys + 1}, nserials' \in {nserials, nserials + 1},
         \/ given' = {} /\ refused' = {} /\ acked' = {}
         \/ op' # "RESET_DEVICE" /\ UNCHANGED <<given, refused, acked, unseen>>,
         \A k \in doomed' : k \in doomed \/ (seq_set /\ \E s \in Slots : k = slots[s].key),
         Len(todo') \in Nat, todo' = [i \in 1..Len(todo') |-> todo'[i]],
         \A i \in 1..Len(todo') : Fit(i)', Signing'
  PROVE  CInv' /\ LossOK
<1>1. Types'
  BY SlotsTyped, CertsTyped DEF CInv, Types, Shape
<1>2. nkeys \in Nat /\ nserials \in Nat /\ nkeys <= nkeys' /\ nserials <= nserials'
      /\ doomed \subseteq Nat /\ Keys \subseteq Nat /\ Serials \subseteq Nat /\ doomed' \subseteq Keys
      /\ nkeys' \in Nat /\ nserials' \in Nat
  <2>1. /\ nkeys \in 0..MaxKeys /\ nserials \in 0..MaxSerials
        /\ doomed \subseteq Keys /\ doomed' \subseteq Keys
    BY DEF CInv, Types, Counters
  <2>2. nkeys' \in {nkeys, nkeys + 1} /\ nserials' \in {nserials, nserials + 1}
    OBVIOUS
  <2> QED
    BY ONLY <2>1, <2>2, Bounds
<1>3. Fresh'
  <2>1. \A s \in Slots : slots'[s].key \in Keys => slots'[s].key <= nkeys'
    BY <1>2 DEF CInv, Fresh
  <2>2. \A k \in doomed' : k <= nkeys'
    BY <1>2 DEF CInv, Fresh
  <2> QED
    BY <2>1, <2>2 DEF Fresh
<1>4. WipeTakesKeysFirst'
  <2> SUFFICES ASSUME ~seq_set, NEW s \in Slots, slots[s].key \in doomed' PROVE FALSE
    BY Zenon DEF WipeTakesKeysFirst
  <2>1. slots[s].key \in doomed
    OBVIOUS
  <2> QED
    BY <2>1, Zenon DEF CInv, WipeTakesKeysFirst
<1>5. Told'
  <2>1. \A n \in Serials : n > nserials' => ~Readable(Meta(n))'
    BY <1>2 DEF CInv, Told, Meta, Readable
  <2>2. CASE given' = {} /\ refused' = {} /\ acked' = {}
    BY <2>1, <2>2 DEF Told
  <2>3. CASE op' # "RESET_DEVICE" /\ UNCHANGED <<given, refused, acked, unseen>>
    <3>1. \A c \in given' : c \in refused' \/ OnRecord(c)'
      BY <2>3, Zenon DEF CInv, Told, OnRecord, CertKept, MetaKept, UnseenLoss, Meta, Readable
    <3>2. \A c \in given' : c.serial \in 1..nserials'
      BY <1>2, <2>3 DEF CInv, Told
    <3>3. \A c \in refused' : ~ Readable(Meta(c.serial))'
      BY <2>3, Zenon DEF CInv, Told, Meta, Readable
    <3>4. \A a \in acked' : Acknowledged(a[1], a[2])'
      BY <2>3, Zenon DEF CInv, Told, Acknowledged, Meta, Readable
    <3> QED
      BY <2>1, <2>3, <3>1, <3>2, <3>3, <3>4 DEF Told
  <2> QED
    BY <2>2, <2>3
<1> QED
  BY <1>1, <1>3, <1>4, <1>5 DEF CInv, Plan, Fit, Booting, LossOK, Lost

\* A handler other than the wipe leaves everything alone but its list, the count
\* of commands and those of what it mints.
Starts(name, steps) ==
  /\ name \notin {"BOOT", "RESET_DEVICE"}
  /\ Begin(name, steps) /\ UNCHANGED quiet
  /\ nkeys' = nkeys \/ FreshKey
  /\ nserials' = nserials \/ FreshSerial

\* What a handler other than the wipe changes before its first operation.
LEMMA StartFacts ==
  ASSUME CInv, NEW name, NEW steps, Starts(name, steps)
  PROVE  /\ op' = name /\ todo' = steps
         /\ UNCHANGED <<slots, certs, given, refused, acked, unseen, doomed>> /\ seq_set' = seq_set
         /\ nkeys' \in {nkeys, nkeys + 1} /\ nserials' \in {nserials, nserials + 1}
         /\ Counters'
<1>1. /\ op' = name /\ todo' = steps /\ ncommands + nfaults < MaxEvents /\ ncommands' = ncommands + 1
      /\ UNCHANGED <<slots, certs, given, refused, acked, unseen, doomed, nfaults>>
      /\ seq_set' = seq_set /\ provisioned' = provisioned
  BY DEF Starts, Begin, quiet, files, told
<1>2. /\ nkeys' = nkeys \/ (nkeys < MaxKeys /\ nkeys' = nkeys + 1)
      /\ nserials' = nserials \/ (nserials < MaxSerials /\ nserials' = nserials + 1)
  BY DEF Starts, FreshKey, FreshSerial
<1>3. /\ nkeys \in 0..MaxKeys /\ nserials \in 0..MaxSerials /\ ncommands \in 0..MaxEvents
      /\ nfaults \in 0..MaxFaults
  BY DEF CInv, Types, Counters
<1>4. /\ nkeys' \in 0..MaxKeys /\ nserials' \in 0..MaxSerials /\ ncommands' \in 0..MaxEvents
      /\ nkeys' \in {nkeys, nkeys + 1} /\ nserials' \in {nserials, nserials + 1}
  BY ONLY <1>1, <1>2, <1>3, Bounds
<1>5. {seq_set', provisioned'} \subseteq BOOLEAN
  BY <1>1 DEF CInv, Types, Counters
<1>6. Counters'
  BY <1>1, <1>3, <1>4, <1>5 DEF CInv, Types, Counters
<1> QED
  BY <1>1, <1>4, <1>6

\* A handler keeps CInv if every operation it puts on the list is fit.
LEMMA StartKeeps ==
  ASSUME CInv, NEW name, NEW steps, Starts(name, steps),
         Len(todo') \in Nat, todo' = [i \in 1..Len(todo') |-> todo'[i]],
         \A i \in 1..Len(todo') : Fit(i)', name = "SIGN_CSR" => Signing'
  PROVE  CInv' /\ LossOK
<1>1. name \notin {"BOOT", "RESET_DEVICE"}
  BY DEF Starts
<1>2. Signing'
  BY StartFacts DEF Signing
<1> QED
  BY <1>1, <1>2, StartFacts, BeginKeeps

\* A generated key is in no slot and not doomed.
LEMMA FreshKeyFacts ==
  ASSUME CInv, FreshKey, doomed' = doomed
  PROVE  nkeys' \in Keys /\ nkeys' <= nkeys' /\ nkeys' \notin doomed'
<1>1. /\ nkeys \in 0..MaxKeys /\ nkeys' = nkeys + 1 /\ nkeys < MaxKeys
      /\ \A k \in doomed : k <= nkeys
  BY DEF FreshKey, CInv, Types, Counters, Fresh
<1> QED
  BY <1>1, Bounds DEF Keys

\* A reply that says no more than done.
LEMMA PlainReplyFits ==
  ASSUME NEW i, NEW file, file \notin {"cert", "revoked"}, NEW val, todo'[i] = Reply(file, val),
         i = Len(todo'), op' # "RESET_DEVICE"
  PROVE  Fit(i)'
<1>1. todo'[i].do = "reply" /\ todo'[i].file = file
  BY Fields
<1> QED
  BY <1>1, ReplyFits

\* ca_provision: key, metadata, then the device is provisioned.
LEMMA ProvisionKeeps ==
  ASSUME CInv, ca_provision
  PROVE  CInv' /\ LossOK
<1> DEFINE key == Put("keys", CA_SLOT, "key", nkeys')
           meta == [is_protected |-> TRUE, protect_issued |-> TRUE]
           steps == <<key, Put("keys", CA_SLOT, "meta", meta), Reply("provisioned", TRUE)>>
<1>1. Starts("PROVISION_CA", steps) /\ slots[CA_SLOT].key = None /\ FreshKey
  BY DEF ca_provision, Starts, KeyExists
<1>2. /\ op' = "PROVISION_CA" /\ todo' = steps /\ slots' = slots /\ doomed' = doomed
  BY <1>1, StartFacts, Zenon
<1>3. /\ Len(todo') = 3 /\ 1..Len(todo') = {1, 2, 3}
      /\ todo'[1] = key /\ todo'[2] = Put("keys", CA_SLOT, "meta", meta)
      /\ todo'[3] = Reply("provisioned", TRUE)
      /\ todo' = [i \in 1..Len(todo') |-> todo'[i]]
  BY <1>2
<1>4. nkeys' \in Keys /\ nkeys' <= nkeys' /\ nkeys' \notin doomed'
  BY <1>1, <1>2, FreshKeyFacts
<1>5. meta \in SlotMeta
  BY DEF SlotMeta
<1> HIDE DEF steps, key, meta
<1>6. Fit(1)'
  <2>1. IsPut(todo'[1], "keys", CA_SLOT, "key", nkeys')
    BY <1>3, Fields DEF key
  <2> QED
    BY <1>1, <1>2, <1>4, <2>1, Bounds, NewKeyFits
<1>7. Fit(2)'
  BY <1>2, <1>3, <1>5, Fields, Bounds, SlotMetaFits
<1>8. Fit(3)'
  BY <1>2, <1>3, PlainReplyFits, Zenon
<1> QED
  BY <1>1, <1>3, <1>6, <1>7, <1>8, StartKeeps

\* ca_gen_key: key and metadata in the first free slot.
LEMMA GenKeyKeeps ==
  ASSUME CInv, ca_gen_key
  PROVE  CInv' /\ LossOK
<1> DEFINE meta == [is_protected |-> FALSE, protect_issued |-> FALSE]
           steps(s) == <<Put("keys", s, "key", nkeys'), Put("keys", s, "meta", meta)>>
<1>1. PICK s \in Slots : Starts("GEN_KEY", steps(s)) /\ slots[s].key = None /\ FreshKey
  BY DEF ca_gen_key, Starts, KeyExists
<1>2. op' = "GEN_KEY" /\ todo' = steps(s) /\ slots' = slots /\ doomed' = doomed
  BY <1>1, StartFacts
<1>3. /\ Len(todo') = 2 /\ 1..Len(todo') = {1, 2}
      /\ todo'[1] = Put("keys", s, "key", nkeys') /\ todo'[2] = Put("keys", s, "meta", meta)
      /\ todo' = [i \in 1..Len(todo') |-> todo'[i]]
  BY <1>2
<1>4. meta \in SlotMeta
  BY DEF SlotMeta
<1> HIDE DEF steps, meta
<1>5. Fit(1)'
  <2>1. IsPut(todo'[1], "keys", s, "key", nkeys')
    BY <1>3, Fields
  <2> QED
    BY <1>1, <1>2, <2>1, FreshKeyFacts, NewKeyFits
<1>6. Fit(2)'
  BY <1>2, <1>3, <1>4, Fields, SlotMetaFits
<1> QED
  BY <1>1, <1>3, <1>5, <1>6, StartKeeps

\* ca_delete_key: the key is overwritten, then its directory removed.
LEMMA DeleteKeyKeeps ==
  ASSUME CInv, NEW s \in Slots, ca_delete_key(s)
  PROVE  CInv' /\ LossOK
<1> DEFINE steps == <<BestEffort(Put("keys", s, "key", GARBAGE)), RemoveAll("keys", {s})>>
<1>1. Starts("DELETE_KEY", steps) /\ s # CA_SLOT /\ ~Protected(s)
  BY DEF ca_delete_key, Starts, minted
<1>2. op' = "DELETE_KEY" /\ todo' = steps /\ slots' = slots
  BY <1>1, StartFacts
<1>3. /\ Len(todo') = 2 /\ 1..Len(todo') = {1, 2}
      /\ todo'[1] = BestEffort(Put("keys", s, "key", GARBAGE))
      /\ todo'[2] = RemoveAll("keys", {s})
      /\ todo' = [i \in 1..Len(todo') |-> todo'[i]]
  BY <1>2
<1> HIDE DEF steps
<1>4. OnPurpose(s)'
  BY <1>1, <1>2 DEF OnPurpose, Protected, Readable
<1>5. Fit(1)'
  BY <1>3, <1>4, Fields, GarbageFits
<1>6. Fit(2)'
  BY <1>3, <1>4, Fields, RemovalFits
<1> QED
  BY <1>1, <1>3, <1>5, <1>6, StartKeeps

\* A certificate of a key by a key, entered in /certs/ or not.
LEMMA CertTyped ==
  ASSUME NEW n \in 0..MaxSerials, NEW k \in Keys \cup ExternalKeys,
         NEW ca \in Keys \cup ExternalKeys
  PROVE  /\ [serial |-> n, subject |-> k, issuer |-> ca] \in Certs
         /\ self_signed(k) \in Certs /\ external_cert(k, ca) \in Certs
<1>1. 0 \in 0..MaxSerials
  BY Bounds
<1> QED
  BY <1>1 DEF Certs, self_signed, external_cert

\* A slot's certificate with what is above it: both files fit.
LEMMA InstallFits ==
  ASSUME NEW s \in Slots, NEW cert \in Certs \cup {Empty}, NEW chain \in ExternalKeys \cup {None},
         todo'[1] = Install(s, cert, chain)[1], todo'[2] = Install(s, cert, chain)[2]
  PROVE  Fit(1)' /\ Fit(2)'
<1>1. todo'[1] = Put("keys", s, "cert", cert)
  BY DEF Install
<1>2. \/ todo'[2] = BestEffort(Put("keys", s, "chain", None))
      \/ todo'[2] = Put("keys", s, "chain", chain)
  BY DEF Install, storage_slot_chain_delete
<1>3. SlotFile("cert", cert) /\ SlotFile("chain", chain) /\ SlotFile("chain", None)
  BY DEF SlotFile
<1>4. /\ IsPut(todo'[1], "keys", s, "cert", cert)
      /\ \E v \in {chain, None} : IsPut(todo'[2], "keys", s, "chain", v)
  BY <1>1, <1>2, Fields
<1> QED
  BY <1>3, <1>4, PlainFits

\* Lists put together.
LEMMA Joins ==
  ASSUME NEW S, NEW p \in Seq(S), NEW q \in Seq(S)
  PROVE  /\ p \o q \in Seq(S) /\ Len(p \o q) = Len(p) + Len(q)
         /\ \A i \in 1..Len(p) : (p \o q)[i] = p[i]
         /\ \A i \in 1..Len(q) : (p \o q)[Len(p) + i] = q[i]
  OBVIOUS

\* A sequence is a function on an interval.
LEMMA JoinIsList ==
  ASSUME NEW S, NEW p \in Seq(S)
  PROVE  Len(p) \in Nat /\ p = [i \in 1..Len(p) |-> p[i]]
  OBVIOUS

\* The concatenations that the handlers' lists come from.
LEMMA Joined ==
  ASSUME NEW a, NEW b, NEW c
  PROVE  /\ <<a>> \o <<>> = <<a>> /\ <<a>> \o <<b, c>> = <<a, b, c>>
         /\ <<a, b>> \o <<c>> = <<a, b, c>>
<1> DEFINE S == {a, b, c}
<1>1. /\ <<a>> \in Seq(S) /\ <<b, c>> \in Seq(S) /\ <<a, b>> \in Seq(S) /\ <<c>> \in Seq(S)
  OBVIOUS
<1> HIDE DEF S
<1>2. <<a>> \o <<b, c>> = <<a, b, c>>
  <2> DEFINE r == <<a>> \o <<b, c>>
  <2>1. /\ r = [i \in 1..Len(r) |-> r[i]] /\ Len(r) = 3
        /\ r[1] = a /\ r[2] = b /\ r[3] = c
    BY <1>1, Joins, JoinIsList
  <2> HIDE DEF r
  <2>2. r = <<a, b, c>>
    BY <2>1
  <2> QED
    BY <2>2 DEF r
<1>3. <<a, b>> \o <<c>> = <<a, b, c>>
  <2> DEFINE r == <<a, b>> \o <<c>>
  <2>1. /\ r = [i \in 1..Len(r) |-> r[i]] /\ Len(r) = 3
        /\ r[1] = a /\ r[2] = b /\ r[3] = c
    BY <1>1, Joins, JoinIsList
  <2> HIDE DEF r
  <2>2. r = <<a, b, c>>
    BY <2>1
  <2> QED
    BY <2>2 DEF r
<1>4. <<a>> \o <<>> = <<a>>
  OBVIOUS
<1> QED
  BY <1>2, <1>3, <1>4

\* ca_push_key_x509: the parameters, and a self-signed certificate if there is a key.
LEMMA PushX509Keeps ==
  ASSUME CInv, NEW s \in Slots, ca_push_key_x509(s)
  PROVE  CInv' /\ LossOK
<1> DEFINE cert == self_signed(slots[s].key)
           more == IF Live(slots, s)
                   THEN <<Put("keys", s, "cert", cert), storage_slot_chain_delete(s)>>
                   ELSE <<>>
           steps == <<Put("keys", s, "x509", "params")>> \o more
<1>1. Starts("PUSH_KEY_X509", steps)
  BY DEF ca_push_key_x509, Starts, minted
<1> HIDE DEF steps
<1>2. todo' = steps
  BY <1>1, StartFacts
<1>3. /\ Len(todo') \in {1, 3} /\ todo'[1] = Put("keys", s, "x509", "params")
      /\ Len(todo') = 3 =>
           /\ Live(slots, s) /\ todo'[2] = Put("keys", s, "cert", cert)
           /\ todo'[3] = BestEffort(Put("keys", s, "chain", None))
      /\ todo' = [i \in 1..Len(todo') |-> todo'[i]]
  <2>1. CASE Live(slots, s)
    <3>1. todo' = <<Put("keys", s, "x509", "params"), Put("keys", s, "cert", cert),
                    storage_slot_chain_delete(s)>>
      BY <1>2, <2>1, Joined, Zenon DEF steps
    <3> QED
      BY <2>1, <3>1 DEF storage_slot_chain_delete
  <2>2. CASE ~Live(slots, s)
    <3>1. todo' = <<Put("keys", s, "x509", "params")>>
      BY <1>2, <2>2, Joined DEF steps
    <3> QED
      BY <3>1
  <2> QED
    BY <2>1, <2>2
<1> HIDE DEF cert
<1>4. SlotFile("x509", "params") /\ SlotFile("chain", None)
  BY DEF SlotFile
<1>5. Len(todo') = 3 => SlotFile("cert", cert)
  <2>1. 0 \in 0..MaxSerials
    BY Bounds
  <2> QED
    BY <1>3, <2>1, CertTyped, Zenon DEF Live, SlotFile, cert
<1>6. Fit(1)'
  BY <1>3, <1>4, Fields, PlainFits
<1>7. Len(todo') = 3 => Fit(2)'
  BY <1>3, <1>5, Fields, PlainFits
<1>8. Len(todo') = 3 => Fit(3)'
  BY <1>3, <1>4, Fields, PlainFits
<1>9. Len(todo') \in Nat /\ \A i \in 1..Len(todo') : i = 1 \/ (Len(todo') = 3 /\ i \in {2, 3})
  BY <1>3
<1> QED
  BY <1>1, <1>3, <1>6, <1>7, <1>8, <1>9, StartKeeps

\* What a host can push is a certificate.
LEMMA PushableFacts == CInv => Pushable \subseteq Certs
<1> SUFFICES ASSUME CInv, NEW cert \in Pushable PROVE cert \in Certs
  OBVIOUS
<1>1. 0 \in 0..MaxSerials /\ 1..nkeys \subseteq Keys /\ given \subseteq Certs
  BY Bounds DEF CInv, Types, Counters, Keys
<1>2. ASSUME NEW k \in (1..nkeys) \cup ExternalKeys, NEW ca \in ExternalKeys
      PROVE  external_cert(k, ca) \in Certs
  BY <1>1, CertTyped, Zenon
<1>3. \A s \in Slots : slots[s].cert \in Certs \cup {None, Empty}
  BY DEF CInv, Types, TypedSlots, SlotFile, Files
<1>4. CASE \E k \in (1..nkeys) \cup ExternalKeys, ca \in ExternalKeys : cert = external_cert(k, ca)
  BY <1>2, <1>4
<1>5. CASE cert \in given \/ \E s \in Slots : cert = slots[s].cert /\ cert \notin {None, Empty}
  BY <1>1, <1>3, <1>5
<1> QED
  BY <1>4, <1>5 DEF Pushable

\* ca_push_key_cert: a certificate of the slot's key, with or without a chain.
LEMMA PushKeyCertKeeps ==
  ASSUME CInv, NEW s \in Slots, NEW cert \in Pushable, NEW chain \in ExternalKeys \cup {None},
         ca_push_key_cert(s, cert, chain)
  PROVE  CInv' /\ LossOK
<1>1. Starts("PUSH_KEY_CERT", Install(s, cert, chain)) /\ cert \in Certs
  BY PushableFacts DEF ca_push_key_cert, Starts, minted
<1>2. todo' = Install(s, cert, chain)
  BY <1>1, StartFacts
<1>3. Len(todo') = 2 /\ todo' = [i \in 1..Len(todo') |-> todo'[i]] /\ 1..Len(todo') = {1, 2}
  BY <1>2 DEF Install
<1>4. Fit(1)' /\ Fit(2)'
  BY <1>1, <1>2, InstallFits
<1> QED
  BY <1>1, <1>3, <1>4, StartKeeps

\* ca_push_cert: anything, in the CA's slot.
LEMMA PushCertKeeps ==
  ASSUME CInv, NEW cert \in Pushable \cup {Empty}, ca_push_cert(cert)
  PROVE  CInv' /\ LossOK
<1>1. Starts("PUSH_CA_CERT", Install(CA_SLOT, cert, None)) /\ cert \in Certs \cup {Empty}
  BY PushableFacts DEF ca_push_cert, Starts, minted
<1>2. todo' = Install(CA_SLOT, cert, None)
  BY <1>1, StartFacts
<1>3. Len(todo') = 2 /\ todo' = [i \in 1..Len(todo') |-> todo'[i]] /\ 1..Len(todo') = {1, 2}
  BY <1>2 DEF Install
<1>4. Fit(1)' /\ Fit(2)'
  BY <1>1, <1>2, Bounds, InstallFits
<1> QED
  BY <1>1, <1>3, <1>4, StartKeeps

\* A new serial number has no record, and no certificate handed out has it.
LEMMA FreshSerialFacts ==
  ASSUME CInv, FreshSerial, UNCHANGED <<certs, given>>
  PROVE  \E n \in Serials : /\ n = nserials' /\ n \in 0..MaxSerials /\ n <= nserials'
                            /\ n \in 1..nserials'
                            /\ \A c \in given' : c.serial # n
                            /\ ~ Readable(Meta(n))'
<1>1. PICK n : n = nserials'
  OBVIOUS
<1>2. /\ nserials \in 0..MaxSerials /\ n = nserials + 1 /\ nserials < MaxSerials
      /\ \A c \in given : c.serial \in 1..nserials
      /\ \A m \in Serials : m > nserials => ~ Readable(Meta(m))
  BY <1>1 DEF FreshSerial, CInv, Types, Counters, Told
<1>3. n \in Serials /\ n \in 0..MaxSerials /\ n <= n /\ n \in 1..n /\ n > nserials
      /\ \A c \in given : c.serial # n
  BY ONLY <1>2, Bounds DEF Serials
<1>4. ~ Readable(Meta(n))'
  BY <1>2, <1>3 DEF Meta, Readable
<1> QED
  BY <1>1, <1>3, <1>4

\* The end of a list that records a new certificate n and hands it out.
LEMMA IssueFits ==
  ASSUME NEW n \in Serials, n \in 1..nserials', n <= nserials', NEW s \in Slots,
         \A c \in given' : c.serial # n, refused' \subseteq given', ~ Readable(Meta(n))',
         NEW cert \in Certs, cert.serial = n, op' \notin {"RESET_DEVICE", "REVOKE_CERT"},
         NEW i \in Nat \ {0}, Len(todo') = i + 2,
         todo'[i] = IssuedRecord(n, cert, s)[1], todo'[i + 1] = IssuedRecord(n, cert, s)[2],
         todo'[i + 2] = Reply("cert", cert),
         \A j \in 1..(i - 1) : todo'[j].dir # "certs"
  PROVE  Fit(i)' /\ Fit(i + 1)' /\ Fit(i + 2)'
<1>1. /\ IsPut(todo'[i], "certs", n, "cert", cert) /\ todo'[i].must
      /\ IsPut(todo'[i + 1], "certs", n, "meta", issued_meta(s)) /\ todo'[i + 1].must
      /\ todo'[i + 2].do = "reply" /\ todo'[i + 2].val = cert /\ todo'[i + 2].file = "cert"
  BY Fields DEF IssuedRecord
<1>2. issued_meta(s) \in IssuedMeta
  BY Zenon DEF issued_meta, IssuedMeta
<1>3. \A j \in 1..Len(todo') : /\ j = i + 1 \/ ~ IsWrite(todo'[j], "certs", "meta")
                               /\ j = i \/ ~ IsWrite(todo'[j], "certs", "cert")
  <2>1. \A j \in 1..Len(todo') : j \in 1..(i - 1) \/ j = i \/ j = i + 1 \/ j = i + 2
    OBVIOUS
  <2> QED
    BY <1>1, <2>1, Zenon DEF IsWrite, IsPut
<1>4. Fit(i)'
  BY <1>1, RecordFits
<1>5. Grows(n, issued_meta(s))'
  BY Zenon DEF Grows, Readable
<1>6. Fit(i + 1)'
  <2>1. \A c \in refused' : c.serial # n
    OBVIOUS
  <2> QED
    BY <1>1, <1>2, <1>3, <1>5, <2>1, MetaFits, Zenon
<1>7. RecordedFirst(i + 2, todo[i + 2].val)'
  <2>1. i \in (1..((i + 2) - 1)) /\ i + 1 \in (1..((i + 2) - 1))
        /\ \A j \in (1..((i + 2) - 1)) : j \in 1..Len(todo')
    BY SMTT(30)
  <2>2. IsWrite(todo'[i], "certs", "cert") /\ IsWrite(todo'[i + 1], "certs", "meta")
    BY <1>1 DEF IsPut, IsWrite
  <2>3. todo'[i].val = cert /\ todo'[i].at = n /\ todo'[i + 1].at = n
    BY <1>1 DEF IsPut
  <2> QED
    BY <1>1, <1>3, <2>1, <2>2, <2>3, Zenon DEF RecordedFirst, Before
<1>8. Fit(i + 2)'
  BY <1>1, <1>7, ReplyFits, Zenon
<1> QED
  BY <1>4, <1>6, <1>8

\* ca_sign_csr_slot: certificate and metadata of the record, then the reply.
LEMMA SignCsrKeeps ==
  ASSUME CInv, NEW s \in Slots, NEW k \in ExternalKeys, ca_sign_csr_slot(s, k)
  PROVE  CInv' /\ LossOK
<1>1. PICK n, cert : /\ n = nserials'
                     /\ cert = [serial |-> n, subject |-> k, issuer |-> slots[s].key]
  BY Zenon
<1> DEFINE steps == IssuedRecord(n, cert, s) \o <<Reply("cert", cert)>>
           name == IF s = CA_SLOT THEN "SIGN_CSR" ELSE "SIGN_CSR_SLOT"
<1>2. Starts(name, steps) /\ FreshSerial /\ slots[s].key \in Keys
  BY <1>1, Zenon DEF ca_sign_csr_slot, Starts, CanIssue, Live
<1> HIDE DEF steps
<1>3. /\ todo' = steps /\ op' \notin {"RESET_DEVICE", "REVOKE_CERT"}
      /\ UNCHANGED <<certs, given>> /\ refused' \subseteq given'
  BY <1>2, StartFacts DEF CInv, Types, Counters
<1> HIDE DEF name
<1>4. /\ n \in Serials /\ n \in 0..MaxSerials /\ n <= nserials' /\ n \in 1..nserials'
      /\ \A c \in given' : c.serial # n
      /\ ~ Readable(Meta(n))'
  BY <1>1, <1>2, <1>3, FreshSerialFacts
<1>5. cert \in Certs /\ cert.serial = n
  BY <1>1, <1>2, <1>4, CertTyped
<1>6. todo' = <<IssuedRecord(n, cert, s)[1], IssuedRecord(n, cert, s)[2], Reply("cert", cert)>>
  BY <1>3, Joined, Zenon DEF steps, IssuedRecord
<1>7. /\ Len(todo') = 1 + 2 /\ todo' = [i \in 1..Len(todo') |-> todo'[i]]
      /\ 1..Len(todo') = {1, 2, 3} /\ 1..(1 - 1) = {}
      /\ todo'[1] = IssuedRecord(n, cert, s)[1] /\ todo'[1 + 1] = IssuedRecord(n, cert, s)[2]
      /\ todo'[1 + 2] = Reply("cert", cert)
  BY <1>6
<1>8. Fit(1)' /\ Fit(1 + 1)' /\ Fit(1 + 2)'
  <2>1. PICK i \in Nat \ {0} : i = 1
    OBVIOUS
  <2>2. Len(todo') = i + 2 /\ \A j \in 1..(i - 1) : todo'[j].dir # "certs"
    BY <1>7, <2>1
  <2>3. /\ todo'[i] = IssuedRecord(n, cert, s)[1] /\ todo'[i + 1] = IssuedRecord(n, cert, s)[2]
        /\ todo'[i + 2] = Reply("cert", cert)
    BY <1>7, <2>1
  <2>4. Fit(i)' /\ Fit(i + 1)' /\ Fit(i + 2)'
    BY <1>3, <1>4, <1>5, <2>2, <2>3, IssueFits, Zenon
  <2> QED
    BY <2>1, <2>4
<1>9. Signing'
  <2>1. /\ todo'[1] = Put("certs", n, "cert", cert)
        /\ todo'[3].do = "reply" /\ todo'[3].val = cert
    BY <1>7, Fields DEF IssuedRecord
  <2>2. ~ IsWrite(todo'[1], "certs", "meta") /\ ~ IsWrite(todo'[3], "certs", "meta")
    BY <2>1, Fields DEF IsWrite, IsPut
  <2>3. Len(todo') = 3 /\ \A i \in 1..Len(todo') : IsWrite(todo'[i], "certs", "meta") => i + 1 = 3
    BY <1>7, <2>2
  <2> QED
    BY <1>4, <1>5, <2>1, <2>3 DEF Signing
<1> QED
  BY <1>2, <1>7, <1>8, <1>9, StartKeeps

\* ca_sign_key_slot: the certificate in the slot of its key, the record, the reply.
LEMMA SignKeyKeeps ==
  ASSUME CInv, NEW issuer \in Slots, NEW s \in Slots, ca_sign_key_slot(issuer, s)
  PROVE  CInv' /\ LossOK
<1>1. PICK n, cert : /\ n = nserials'
                     /\ cert = [serial |-> n, subject |-> slots[s].key,
                                issuer |-> slots[issuer].key]
  BY Zenon
<1> DEFINE steps == Install(s, cert, None) \o IssuedRecord(n, cert, issuer)
                      \o <<Reply("cert", cert)>>
<1>2. /\ Starts("SIGN_KEY_SLOT", steps) /\ FreshSerial
      /\ slots[s].key \in Keys /\ slots[issuer].key \in Keys
  BY <1>1 DEF ca_sign_key_slot, Starts, CanIssue, Live
<1> HIDE DEF steps
<1>3. /\ todo' = steps /\ op' = "SIGN_KEY_SLOT" /\ UNCHANGED <<certs, given>>
      /\ refused' \subseteq given'
  BY <1>2, StartFacts DEF CInv, Types, Counters
<1>4. /\ n \in Serials /\ n \in 0..MaxSerials /\ n <= nserials' /\ n \in 1..nserials'
      /\ \A c \in given' : c.serial # n
      /\ ~ Readable(Meta(n))'
  BY <1>1, <1>2, <1>3, FreshSerialFacts
<1>5. cert \in Certs /\ cert.serial = n
  BY <1>1, <1>2, <1>4, CertTyped
<1>6. PICK p, q, r : /\ p = Install(s, cert, None) /\ q = IssuedRecord(n, cert, issuer)
                     /\ r = <<Reply("cert", cert)>>
  BY Zenon
<1>7. /\ Len(todo') = 3 + 2 /\ todo' = [i \in 1..Len(todo') |-> todo'[i]]
      /\ 1..Len(todo') = {1, 2, 3, 4, 5} /\ 1..(3 - 1) = {1, 2}
      /\ todo'[1] = Install(s, cert, None)[1] /\ todo'[2] = Install(s, cert, None)[2]
      /\ todo'[3] = IssuedRecord(n, cert, issuer)[1]
      /\ todo'[3 + 1] = IssuedRecord(n, cert, issuer)[2]
      /\ todo'[3 + 2] = Reply("cert", cert)
  <2> DEFINE S == {p[1], p[2], q[1], q[2], r[1]}
  <2>1. Len(p) = 2 /\ p \in Seq(S)
    BY <1>6 DEF Install
  <2>2. Len(q) = 2 /\ q \in Seq(S)
    BY <1>6 DEF IssuedRecord
  <2>3. Len(r) = 1 /\ r \in Seq(S) /\ r[1] = Reply("cert", cert)
    BY <1>6
  <2> HIDE DEF S
  <2>4. todo' = (p \o q) \o r
    BY <1>3, <1>6 DEF steps
  <2>5. /\ todo' \in Seq(S) /\ Len(todo') = 5
        /\ todo'[1] = p[1] /\ todo'[2] = p[2] /\ todo'[3] = q[1] /\ todo'[4] = q[2]
        /\ todo'[5] = r[1]
    <3>1. PICK pq : pq = p \o q
      BY Zenon
    <3>2. /\ pq \in Seq(S) /\ Len(pq) = Len(p) + Len(q)
          /\ \A i \in 1..Len(p) : pq[i] = p[i]
          /\ \A i \in 1..Len(q) : pq[Len(p) + i] = q[i]
      <4>1. p \in Seq(S) /\ q \in Seq(S)
        BY <2>1, <2>2
      <4> QED
        BY ONLY <4>1, <3>1, Joins
    <3>3. 1 \in 1..Len(p) /\ 2 \in 1..Len(p) /\ 1 \in 1..Len(q) /\ 2 \in 1..Len(q)
      BY ONLY <2>1, <2>2
    <3>4. /\ pq[1] = p[1] /\ pq[2] = p[2] /\ pq[Len(p) + 1] = q[1] /\ pq[Len(p) + 2] = q[2]
          /\ Len(p) = 2 /\ Len(pq) = 4
      BY ONLY <2>1, <2>2, <3>2, <3>3
    <3>5. /\ todo' \in Seq(S) /\ Len(todo') = Len(pq) + Len(r)
          /\ \A i \in 1..Len(pq) : todo'[i] = pq[i]
          /\ \A i \in 1..Len(r) : todo'[Len(pq) + i] = r[i]
      <4>1. todo' = pq \o r /\ pq \in Seq(S) /\ r \in Seq(S)
        BY <2>3, <2>4, <3>1, <3>2
      <4> QED
        BY ONLY <4>1, Joins
    <3>6. 1..Len(pq) = {1, 2, 3, 4} /\ 1 \in 1..Len(r) /\ Len(r) = 1
      BY ONLY <2>3, <3>4
    <3>7. /\ todo'[1] = pq[1] /\ todo'[2] = pq[2] /\ todo'[3] = pq[3] /\ todo'[4] = pq[4]
          /\ todo'[Len(pq) + 1] = r[1]
      BY ONLY <3>5, <3>6
    <3> QED
      BY ONLY <3>4, <3>5, <3>6, <3>7
  <2>6. todo' = [i \in 1..Len(todo') |-> todo'[i]]
    BY ONLY <2>5
  <2> QED
    BY <1>6, <2>3, <2>5, <2>6
<1>8. \A j \in 1..(3 - 1) : todo'[j].dir # "certs"
  <2>1. todo'[1].dir # "certs" /\ todo'[2].dir # "certs"
    BY <1>7, Fields, SMTT(30) DEF Install, storage_slot_chain_delete, IsPut
  <2> QED
    BY <1>7, <2>1
<1>9. Fit(1)' /\ Fit(2)'
  BY <1>5, <1>7, InstallFits
<1>10. Fit(3)' /\ Fit(3 + 1)' /\ Fit(3 + 2)'
  <2>1. PICK i \in Nat \ {0} : i = 3
    OBVIOUS
  <2>2. Len(todo') = i + 2 /\ \A j \in 1..(i - 1) : todo'[j].dir # "certs"
    BY <1>7, <1>8, <2>1
  <2>3. /\ todo'[i] = IssuedRecord(n, cert, issuer)[1]
        /\ todo'[i + 1] = IssuedRecord(n, cert, issuer)[2]
        /\ todo'[i + 2] = Reply("cert", cert)
    BY <1>7, <2>1
  <2>4. Fit(i)' /\ Fit(i + 1)' /\ Fit(i + 2)'
    BY <1>3, <1>4, <1>5, <2>2, <2>3, IssueFits, Zenon
  <2> QED
    BY <2>1, <2>4
<1> QED
  BY <1>2, <1>7, <1>9, <1>10, StartKeeps

\* A flag is added to what meta.bin says.
LEMMA FlagGrows ==
  ASSUME CInv, NEW n \in Serials, Readable(Meta(n)), NEW flag \in Flags,
         UNCHANGED <<certs, refused>>, nserials' \in {nserials, nserials + 1},
         flag = "REVOKED" => "PROTECTED" \notin Meta(n).flags
  PROVE  \E m \in IssuedMeta :
           /\ m = Flagged(n, flag) /\ Grows(n, m)' /\ n <= nserials'
           /\ m.issuer_slot = Meta(n).issuer_slot /\ m.issuer_slot \in Slots
           /\ flag \in m.flags /\ \A c \in refused' : c.serial # n
<1>1. Meta(n) \in IssuedMeta
  BY DEF CInv, Types, TypedCerts, CertFiles, CertFile, Meta, Readable
<1>2. PICK m : m = Flagged(n, flag)
  OBVIOUS
<1>3. /\ m \in IssuedMeta /\ m.issuer_slot = Meta(n).issuer_slot
      /\ m.flags = Meta(n).flags \cup {flag} /\ Meta(n).issuer_slot \in Slots
  BY <1>1, <1>2 DEF Flagged, IssuedMeta
<1>4. Grows(n, m)'
  BY <1>3 DEF Grows, Meta, Readable
<1>5. n <= nserials'
  <2>1. nserials \in 0..MaxSerials /\ ~ (n > nserials)
    BY DEF CInv, Types, Counters, Told
  <2> QED
    BY <2>1, Bounds
<1>6. \A c \in refused' : c.serial # n
  BY DEF CInv, Told
<1> QED
  BY <1>2, <1>3, <1>4, <1>5, <1>6, Zenon

\* ca_revoke_cert: the flag, then the reply.
LEMMA RevokeKeeps ==
  ASSUME CInv, NEW n \in Serials, ca_revoke_cert(n)
  PROVE  CInv' /\ LossOK
<1>1. PICK m, s, v : /\ m = Flagged(n, "REVOKED") /\ s = Meta(n).issuer_slot
                     /\ v = CrlNumber(s) + 1
  OBVIOUS
<1> DEFINE steps == <<Put("certs", n, "meta", m), BestEffort(Put("keys", s, "crl", v)),
                      Reply("revoked", <<n, s>>)>>
<1>2. /\ Starts("REVOKE_CERT", steps) /\ Readable(Meta(n))
      /\ "PROTECTED" \notin Meta(n).flags
  BY <1>1, Zenon DEF ca_revoke_cert, Starts, minted
<1> HIDE DEF steps
<1>3. /\ todo' = steps /\ op' = "REVOKE_CERT" /\ UNCHANGED <<certs, refused>>
      /\ nserials' \in {nserials, nserials + 1}
  BY <1>2, StartFacts
<1>4. /\ Len(todo') = 3 /\ 1..Len(todo') = {1, 2, 3}
      /\ todo'[1] = Put("certs", n, "meta", m)
      /\ todo'[2] = BestEffort(Put("keys", s, "crl", v))
      /\ todo'[3] = Reply("revoked", <<n, s>>)
      /\ todo' = [i \in 1..Len(todo') |-> todo'[i]]
  BY <1>3 DEF steps
<1>5. /\ m \in IssuedMeta /\ Grows(n, m)' /\ n <= nserials'
      /\ m.issuer_slot = s /\ s \in Slots /\ "REVOKED" \in m.flags
      /\ \A c \in refused' : c.serial # n
  BY <1>1, <1>2, <1>3, FlagGrows DEF Flags
<1>6. SlotFile("crl", v)
  <2>1. SlotFile("crl", slots[s].crl)
    BY <1>5 DEF CInv, Types, TypedSlots, Files
  <2>2. CrlNumber(s) \in Nat
    BY <2>1 DEF SlotFile, CrlNumber, Readable
  <2> QED
    BY <1>1, <2>2, SMTT(30) DEF SlotFile
<1>7. /\ IsPut(todo'[1], "certs", n, "meta", m) /\ todo'[1].must
      /\ IsPut(todo'[2], "keys", s, "crl", v)
      /\ todo'[3].do = "reply" /\ todo'[3].file = "revoked" /\ todo'[3].val = <<n, s>>
  BY <1>4, Fields
<1>8. Fit(1)'
  <2>1. \A j \in 1..Len(todo') : IsWrite(todo'[j], "certs", "meta") => j = 1
    BY <1>4, <1>7, Zenon DEF IsPut, IsWrite
  <2> QED
    BY <1>5, <1>7, <2>1, MetaFits, Zenon
<1>9. Fit(2)'
  BY <1>5, <1>6, <1>7, PlainFits
<1>10. Fit(3)'
  <2>1. <<n, s>> \in Serials \X Slots /\ <<n, s>>[1] = n /\ <<n, s>>[2] = s
    BY <1>5, Zenon
  <2>2. /\ IsWrite(todo'[1], "certs", "meta") /\ todo'[1].at = n /\ todo'[1].must
        /\ Readable(Meta(n))' /\ Meta(n)'.issuer_slot = s
    BY <1>1, <1>2, <1>3, <1>7 DEF IsPut, IsWrite, Meta, Readable
  <2>3. 1 \in Before(3)'
    BY DEF Before
  <2>4. FlaggedFirst(3, todo[3].val[1], todo[3].val[2])'
    BY <1>5, <1>7, <2>1, <2>2, <2>3, Zenon DEF FlaggedFirst
  <2> QED
    BY <1>3, <1>4, <1>7, <2>1, <2>4, ReplyFits, Zenon
<1> QED
  BY <1>2, <1>4, <1>8, <1>9, <1>10, StartKeeps

\* ca_unprotect_slot: one rewrite of the slot's metadata.
LEMMA UnprotectKeeps ==
  ASSUME CInv, NEW s \in Slots, ca_unprotect_slot(s)
  PROVE  CInv' /\ LossOK
<1>1. PICK meta : meta = [is_protected |-> FALSE, protect_issued |-> FALSE]
  BY Zenon
<1>2. Starts("UNPROTECT_SLOT", <<Put("keys", s, "meta", meta)>>) /\ meta \in SlotMeta
  BY <1>1 DEF ca_unprotect_slot, Starts, minted, SlotMeta
<1>3. todo' = <<Put("keys", s, "meta", meta)>> /\ op' = "UNPROTECT_SLOT"
  BY <1>2, StartFacts
<1>4. /\ Len(todo') = 1 /\ 1..Len(todo') = {1} /\ todo'[1] = Put("keys", s, "meta", meta)
      /\ todo' = [i \in 1..Len(todo') |-> todo'[i]]
  BY <1>3
<1>5. Fit(1)'
  BY <1>2, <1>3, <1>4, Fields, SlotMetaFits
<1> QED
  BY <1>2, <1>4, <1>5, StartKeeps

\* A new unlock sequence.
LEMMA SetSeqKeeps ==
  ASSUME CInv, set_unlock_seq
  PROVE  CInv' /\ LossOK
<1>1. Starts("SET_UNLOCK_SEQ", <<Put("config", 0, "seq", TRUE)>>)
  BY DEF set_unlock_seq, Starts, minted
<1>2. todo' = <<Put("config", 0, "seq", TRUE)>>
  BY <1>1, StartFacts, Zenon
<1>3. /\ Len(todo') = 1 /\ 1..Len(todo') = {1} /\ todo'[1] = Put("config", 0, "seq", TRUE)
      /\ todo' = [i \in 1..Len(todo') |-> todo'[i]]
  BY <1>2
<1>4. IsPut(todo'[1], "config", 0, "seq", TRUE)
  BY <1>3 DEF IsPut, Put
<1>5. Fit(1)'
  <2>1. todo'[1].val \in BOOLEAN /\ todo'[1].val # FALSE
    BY <1>4, Zenon DEF IsPut
  <2>2. StepOK(todo[1])'
    BY <1>4, <2>1, Zenon DEF IsPut, StepOK, StepType, KeyStep, CertStep, EndStep, IsWrite, IsRemoval,
                      IsReply, Forgets
  <2>3. InOrder(1)'
    BY <1>4, <2>1, Zenon DEF IsPut, InOrder, Placed, IsWrite, IsReply, Forgets
  <2> QED
    BY <2>2, <2>3 DEF Fit
<1> QED
  BY <1>1, <1>3, <1>5, StartKeeps

\* A listing names records that are due, each once.
LEMMA ListingFacts ==
  ASSUME NEW due, NEW listed \in Listings(due)
  PROVE  \E n \in Nat : /\ DOMAIN listed = 1..n
                        /\ \A i \in 1..n : listed[i] \in due
                        /\ \A i, j \in 1..n : listed[i] = listed[j] => i = j
<1>1. PICK n \in 0..MaxSerials : listed \in Bijection(1..n, due)
  BY DEF Listings
<1>2. n \in Nat
  BY <1>1, Bounds
<1>3. listed \in [1..n -> due] /\ IsInjective(listed)
  BY <1>1 DEF Bijection, Injection
<1> QED
  BY <1>2, <1>3 DEF IsInjective

\* One meta.bin after the other is flagged.
LEMMA MarkFits ==
  ASSUME CInv, UNCHANGED <<certs, refused>>, nserials' \in {nserials, nserials + 1},
         op' # "REVOKE_CERT", NEW flag \in {"EXPIRED", "PROTECTED"}, NEW listed, NEW n \in Nat, NEW at \in Nat,
         \A i \in 1..n : listed[i] \in Serials /\ Readable(Meta(listed[i])),
         \A i, j \in 1..n : listed[i] = listed[j] => i = j,
         Len(todo') = at + n, \A i \in 1..at : ~ IsWrite(todo'[i], "certs", "meta"),
         \A i \in 1..n :
           IsPut(todo'[at + i], "certs", listed[i], "meta", Flagged(listed[i], flag)),
         NEW i \in 1..n
  PROVE  Fit(at + i)'
<1>1. PICK c \in Serials : c = listed[i] /\ Readable(Meta(c))
  OBVIOUS
<1>2. PICK m \in IssuedMeta : /\ m = Flagged(c, flag) /\ Grows(c, m)' /\ c <= nserials'
                              /\ \A d \in refused' : d.serial # c
  <2>1. flag \in Flags /\ flag # "REVOKED"
    BY DEF Flags
  <2> QED
    BY <1>1, <2>1, FlagGrows, Zenon
<1>3. IsPut(todo'[at + i], "certs", c, "meta", m)
  BY <1>1, <1>2
<1>4. ASSUME NEW j \in 1..Len(todo'), IsWrite(todo'[j], "certs", "meta"), j # at + i
      PROVE  todo'[j].at # c
  <2>1. PICK k \in 1..n : j = at + k
    <3>1. j \in 1..at \/ (j - at \in 1..n /\ j = at + (j - at))
      OBVIOUS
    <3> QED
      BY <1>4, <3>1
  <2>2. k # i /\ todo'[j].at = listed[k]
    BY <1>4, <2>1 DEF IsPut
  <2> QED
    BY <1>1, <2>1, <2>2, Zenon
<1> QED
  BY <1>2, <1>3, <1>4, MetaFits, Zenon

\* ca_auto_expire: every record that is due gets its flag.
LEMMA ExpireKeeps ==
  ASSUME CInv, ca_auto_expire
  PROVE  CInv' /\ LossOK
<1> DEFINE due == {n \in Serials : Readable(Meta(n)) /\ "EXPIRED" \notin Meta(n).flags}
           mark(n) == Put("certs", n, "meta", Flagged(n, "EXPIRED"))
<1>1. PICK listed \in Listings(due) :
        Starts("AUTO_EXPIRE", [i \in DOMAIN listed |-> mark(listed[i])])
  BY Zenon DEF ca_auto_expire, Starts, minted
<1>2. PICK n \in Nat : /\ DOMAIN listed = 1..n
                       /\ \A i \in 1..n : listed[i] \in due
                       /\ \A i, j \in 1..n : listed[i] = listed[j] => i = j
  BY ListingFacts
<1>3. /\ todo' = [i \in 1..n |-> mark(listed[i])] /\ UNCHANGED <<certs, refused>>
      /\ op' # "REVOKE_CERT"
      /\ nserials' \in {nserials, nserials + 1}
  BY <1>1, <1>2, StartFacts, Zenon
<1>4. /\ Len(todo') = n /\ todo' = [i \in 1..Len(todo') |-> todo'[i]]
      /\ \A i \in 1..n : todo'[i] = mark(listed[i])
  BY <1>3, SMTT(30)
<1>5. \A i \in 1..n : IsPut(todo'[i], "certs", listed[i], "meta", Flagged(listed[i], "EXPIRED"))
  BY <1>4, Fields
<1>6. ASSUME NEW i \in 1..n PROVE Fit(i)'
  <2>1. PICK at \in Nat : at = 0
    OBVIOUS
  <2>2. /\ Len(todo') = at + n /\ 1..at = {}
        /\ \A k \in 1..n : at + k = k
    BY <1>4, <2>1
  <2>3. Fit(at + i)'
    BY <1>2, <1>3, <1>5, <2>2, MarkFits, Zenon
  <2> QED
    BY <2>2, <2>3
<1> QED
  BY <1>1, <1>4, <1>6, StartKeeps

\* ca_protect_slot: the slot, and on request the records it issued.
LEMMA ProtectKeeps ==
  ASSUME CInv, NEW s \in Slots, NEW protect_issued \in BOOLEAN,
         ca_protect_slot(s, protect_issued)
  PROVE  CInv' /\ LossOK
<1> DEFINE due == IF protect_issued THEN Unmarked(s) ELSE {}
           mark(n) == BestEffort(Put("certs", n, "meta", Flagged(n, "PROTECTED")))
           meta == [is_protected |-> TRUE, protect_issued |-> protect_issued]
           first == <<Put("keys", s, "meta", meta)>>
<1>1. PICK listed \in Listings(due) :
        Starts("PROTECT_SLOT", first \o [i \in DOMAIN listed |-> mark(listed[i])])
  BY Zenon DEF ca_protect_slot, Starts, minted
<1>2. PICK n \in Nat : /\ DOMAIN listed = 1..n
                       /\ \A i \in 1..n : listed[i] \in due
                       /\ \A i, j \in 1..n : listed[i] = listed[j] => i = j
  BY ListingFacts
<1>3. \A i \in 1..n : listed[i] \in Serials /\ Readable(Meta(listed[i]))
  BY <1>2, Zenon DEF Unmarked
<1>4. PICK marks : marks = [i \in 1..n |-> mark(listed[i])]
  BY Zenon
<1>5. /\ todo' = first \o marks /\ UNCHANGED <<certs, refused>> /\ op' = "PROTECT_SLOT"
      /\ nserials' \in {nserials, nserials + 1}
  BY <1>1, <1>2, <1>4, StartFacts, Zenon
<1>6. /\ Len(todo') = 1 + n /\ todo' = [i \in 1..Len(todo') |-> todo'[i]]
      /\ todo'[1] = Put("keys", s, "meta", meta)
      /\ \A i \in 1..n : todo'[1 + i] = mark(listed[i])
  <2>1. PICK w : w = Put("keys", s, "meta", meta)
    BY Zenon
  <2> DEFINE S == {w} \cup {marks[i] : i \in 1..n}
  <2>2. first \in Seq(S) /\ Len(first) = 1 /\ first[1] = w
    BY <2>1
  <2>3. marks \in Seq(S) /\ Len(marks) = n /\ \A i \in 1..n : marks[i] = mark(listed[i])
    BY <1>4
  <2> HIDE DEF S, mark, meta, first
  <2>4. /\ todo' \in Seq(S) /\ Len(todo') = Len(first) + Len(marks)
        /\ \A i \in 1..Len(first) : todo'[i] = first[i]
        /\ \A i \in 1..Len(marks) : todo'[Len(first) + i] = marks[i]
    <3>1. first \in Seq(S) /\ marks \in Seq(S) /\ todo' = first \o marks
      BY <1>5, <2>2, <2>3
    <3> QED
      BY ONLY <3>1, Joins
  <2>5. todo' = [i \in 1..Len(todo') |-> todo'[i]]
    BY <2>4, JoinIsList
  <2>6. 1 \in 1..Len(first)
    BY <2>2
  <2> QED
    BY <2>1, <2>2, <2>3, <2>4, <2>5, <2>6, Zenon
<1>7. Fit(1)'
  <2>1. meta \in SlotMeta
    BY DEF SlotMeta
  <2> HIDE DEF meta
  <2> QED
    BY <1>5, <1>6, <2>1, Fields, SlotMetaFits, SMTT(30)
<1>8. \A i \in 1..n :
        IsPut(todo'[1 + i], "certs", listed[i], "meta", Flagged(listed[i], "PROTECTED"))
  BY <1>6, Fields
<1>9. ASSUME NEW i \in 1..n PROVE Fit(1 + i)'
  <2>1. PICK at \in Nat : at = 1
    OBVIOUS
  <2>2. Len(todo') = at + n /\ 1..at = {1}
    BY <1>6, <2>1
  <2>3. ~ IsWrite(todo'[1], "certs", "meta")
    BY <1>6, Fields, SMTT(30) DEF IsWrite, IsPut
  <2>4. \A k \in 1..n :
          IsPut(todo'[at + k], "certs", listed[k], "meta", Flagged(listed[k], "PROTECTED"))
    BY <1>8, <2>1
  <2>5. Fit(at + i)'
    BY <1>2, <1>3, <1>5, <2>2, <2>3, <2>4, MarkFits, Zenon
  <2> QED
    BY <2>1, <2>5
<1>10. Len(todo') \in Nat /\ \A j \in 1..Len(todo') : j = 1 \/ (j - 1 \in 1..n /\ j = 1 + (j - 1))
  BY <1>6, SMTT(30)
<1>11. \A j \in 1..Len(todo') : Fit(j)'
  BY <1>7, <1>9, <1>10, Zenon
<1>12. "PROTECT_SLOT" # "SIGN_CSR"
  OBVIOUS
<1> QED
  BY <1>1, <1>6, <1>10, <1>11, <1>12, StartKeeps, Zenon

\* storage_secure_wipe: the keys are overwritten and removed, then the rest.
LEMMA WipeKeeps ==
  ASSUME CInv, storage_secure_wipe
  PROVE  CInv' /\ LossOK
<1> DEFINE steps == <<BestEffort(Put("keys", CA_SLOT, "key", GARBAGE)),
                      RemoveAll("keys", Slots), RemoveAll("certs", Serials),
                      BestEffort(Put("config", 0, "seq", FALSE))>>
<1>1. /\ op' = "RESET_DEVICE" /\ todo' = steps
      /\ ncommands + nfaults < MaxEvents /\ ncommands' = ncommands + 1
      /\ given' = {} /\ refused' = {} /\ acked' = {}
      /\ UNCHANGED <<slots, certs, nkeys, nserials, nfaults>>
  BY Zenon DEF storage_secure_wipe, Begin, files, minted
<1>2. seq_set' = seq_set /\ provisioned' = provisioned
  BY DEF storage_secure_wipe, files
<1>3. \A k \in doomed' : seq_set /\ \E s \in Slots : k = slots[s].key /\ k \in Keys
  BY DEF storage_secure_wipe, Live
<1>4. Counters'
  <2>1. {seq_set', provisioned'} \subseteq BOOLEAN
    BY <1>2, Zenon DEF CInv, Types, Counters
  <2>2. ncommands' \in 0..MaxEvents
    <3>1. ncommands \in 0..MaxEvents /\ nfaults \in 0..MaxFaults
      BY DEF CInv, Types, Counters
    <3> QED
      BY ONLY <1>1, <3>1, Bounds
  <2>3. doomed' \subseteq Keys
    BY <1>3
  <2> QED
    BY <1>1, <2>1, <2>2, <2>3 DEF CInv, Types, Counters
<1>5. /\ Len(todo') = 4 /\ 1..Len(todo') = {1, 2, 3, 4}
      /\ todo'[1] = BestEffort(Put("keys", CA_SLOT, "key", GARBAGE))
      /\ todo'[2] = RemoveAll("keys", Slots) /\ todo'[3] = RemoveAll("certs", Serials)
      /\ todo'[4] = BestEffort(Put("config", 0, "seq", FALSE))
      /\ todo' = [i \in 1..Len(todo') |-> todo'[i]]
  BY <1>1
<1> HIDE DEF steps
<1>6. \A s \in Slots : OnPurpose(s)'
  BY <1>1 DEF OnPurpose
<1>7. Fit(1)'
  BY <1>5, <1>6, Fields, Bounds, GarbageFits, SMTT(30)
<1>8. todo'[2].do = "rm_rf" /\ todo'[2].dir = "keys" /\ todo'[2].at = Slots
  BY <1>5, Fields, SMTT(30)
<1>9. Fit(2)'
  BY <1>6, <1>8, RemovalFits, Zenon
<1>10. Fit(3)'
  BY <1>1, <1>5, Fields, RemovalFits, SMTT(30)
<1>11. Fit(4)'
  <2>1. /\ IsPut(todo'[4], "config", 0, "seq", FALSE)
        /\ todo'[4].val = FALSE /\ todo'[4].val \in BOOLEAN
    BY <1>5 DEF IsPut, Put, BestEffort
  <2>2. StepOK(todo[4])'
    BY <1>1, <2>1, Zenon DEF IsPut, StepOK, StepType, KeyStep, CertStep, EndStep, IsWrite, IsRemoval,
                      IsReply, Forgets
  <2>3. 2 \in Before(4)'
    BY DEF Before
  <2>4. KeysGoFirst(4)'
    BY <1>8, <2>3 DEF KeysGoFirst, IsRemoval
  <2>5. InOrder(4)'
    BY <2>1, <2>4, Zenon DEF IsPut, InOrder, Placed, IsWrite, IsReply, Forgets
  <2> QED
    BY <2>2, <2>5 DEF Fit
<1>12. Signing'
  BY <1>1 DEF Signing
<1> QED
  BY <1>1, <1>2, <1>3, <1>4, <1>5, <1>7, <1>9, <1>10, <1>11, <1>12, BeginKeeps, SMTT(30)

-----------------------------------------------------------------------------
(* The invariant, and the properties.                                      *)

\* A step that changes nothing the invariant is about.
LEMMA IdleKeeps ==
  ASSUME CInv, seq_set' = seq_set, provisioned' = provisioned,
         UNCHANGED <<slots, certs, op, todo, nkeys, nserials, ncommands, nfaults, given, refused,
                     acked, unseen, doomed>>
  PROVE  CInv' /\ LossOK
<1>1. Counters'
  <2>1. {seq_set', provisioned'} \subseteq BOOLEAN
    BY DEF CInv, Types, Counters
  <2> QED
    BY <2>1, Zenon DEF CInv, Types, Counters
<1>2. Types'
  BY <1>1, SlotsTyped, CertsTyped, Zenon DEF CInv, Types, Shape
<1>3. Told' /\ Fresh' /\ Signing'
  <2>1. Told'
    BY Zenon DEF CInv, Told, OnRecord, CertKept, MetaKept, UnseenLoss, Acknowledged, Meta, Readable
  <2>2. Fresh' /\ Signing'
    BY Zenon DEF CInv, Fresh, Signing, Meta, Readable
  <2> QED
    BY <2>1, <2>2
<1>4. Booting'
  BY Zenon DEF CInv, Booting
<1>5. WipeTakesKeysFirst'
  BY Zenon DEF CInv, WipeTakesKeysFirst
<1>6. ASSUME NEW i \in 1..Len(todo) PROVE StepOK(todo[i])'
  <2>1. StepType(todo[i])' /\ EndStep(todo[i])'
    BY <1>6, Zenon DEF CInv, Plan, StepOK, StepType, EndStep
  <2>2. KeyStep(todo[i])'
    BY <1>6, Zenon DEF CInv, Plan, StepOK, KeyStep, OnPurpose, Protected, Readable
  <2>3. CertStep(todo[i])'
    BY <1>6, Zenon DEF CInv, Plan, StepOK, CertStep, Grows, Meta, Readable
  <2> QED
    BY <2>1, <2>2, <2>3 DEF StepOK
<1>7. ASSUME NEW i \in 1..Len(todo) PROVE InOrder(i)'
  <2>1. InOrder(i)
    BY <1>7 DEF CInv, Plan
  <2>2. Placed(i)'
    BY <2>1, Zenon DEF InOrder, Placed
  <2>3. IsReply(todo'[i], "cert") => RecordedFirst(i, todo[i].val)'
    BY <2>1, Zenon DEF InOrder, RecordedFirst, CertKept, MetaKept, UnseenLoss, Meta, Readable
  <2>4. IsReply(todo'[i], "revoked") => FlaggedFirst(i, todo[i].val[1], todo[i].val[2])'
    BY <2>1, Zenon DEF InOrder, FlaggedFirst, Acknowledged, Meta, Readable
  <2>5. Forgets(todo'[i]) => KeysGoFirst(i)'
    BY <2>1, Zenon DEF InOrder, KeysGoFirst
  <2> QED
    BY <2>2, <2>3, <2>4, <2>5, Zenon DEF InOrder
<1>8. Plan'
  BY <1>6, <1>7 DEF Plan
<1> QED
  BY <1>2, <1>3, <1>4, <1>5, <1>8 DEF CInv, LossOK, Lost

\* ca_get_crl changes no file.
LEMMA GetCrlKeeps ==
  ASSUME CInv, NEW s \in Slots, ca_get_crl(s)
  PROVE  CInv' /\ LossOK
<1>1. UNCHANGED <<slots, certs, op, todo, nkeys, nserials, ncommands, nfaults, given, refused,
                  acked, unseen, doomed>>
  BY Zenon DEF ca_get_crl, files, bounds, minted
<1>2. seq_set' = seq_set /\ provisioned' = provisioned
  BY DEF ca_get_crl, files
<1> QED
  BY <1>1, <1>2, IdleKeeps

\* Every command keeps CInv and loses no key but on purpose.
LEMMA HandlerKeeps ==
  ASSUME CInv, Handler
  PROVE  CInv' /\ LossOK
<1>1. CASE \/ ca_provision \/ ca_gen_key \/ ca_auto_expire
           \/ set_unlock_seq \/ storage_secure_wipe
  BY <1>1, ProvisionKeeps, GenKeyKeeps, ExpireKeeps, SetSeqKeeps, WipeKeeps, Zenon
<1>2. ASSUME NEW s \in Slots,
             \/ ca_delete_key(s) \/ ca_push_key_x509(s) \/ ca_unprotect_slot(s) \/ ca_get_crl(s)
      PROVE  CInv' /\ LossOK
  BY <1>2, DeleteKeyKeeps, PushX509Keeps, UnprotectKeeps, GetCrlKeeps
<1>3. ASSUME NEW s \in Slots, NEW b \in BOOLEAN, ca_protect_slot(s, b)
      PROVE  CInv' /\ LossOK
  BY <1>3, ProtectKeeps
<1>4. ASSUME NEW s \in Slots, NEW k \in ExternalKeys, ca_sign_csr_slot(s, k)
      PROVE  CInv' /\ LossOK
  BY <1>4, SignCsrKeeps
<1>5. ASSUME NEW s \in Slots, NEW cert \in Pushable, NEW c \in ExternalKeys \cup {None},
             ca_push_key_cert(s, cert, c)
      PROVE  CInv' /\ LossOK
  BY <1>5, PushKeyCertKeeps
<1>6. ASSUME NEW s \in Slots, NEW issuer \in Slots, ca_sign_key_slot(issuer, s)
      PROVE  CInv' /\ LossOK
  BY <1>6, SignKeyKeeps
<1>7. ASSUME NEW cert \in Pushable \cup {Empty}, ca_push_cert(cert)
      PROVE  CInv' /\ LossOK
  BY <1>7, PushCertKeeps
<1>8. ASSUME NEW n \in Serials, ca_revoke_cert(n)
      PROVE  CInv' /\ LossOK
  BY <1>8, RevokeKeeps
<1> QED
  BY <1>1, <1>2, <1>3, <1>4, <1>5, <1>6, <1>7, <1>8 DEF Handler

\* Every step keeps the invariant, and loses a key only on purpose.
LEMMA StepKeeps ==
  ASSUME CInv, [CNext]_cvars
  PROVE  CInv' /\ LossOK
<1>1. CASE UNCHANGED cvars
  <2>1. UNCHANGED <<slots, certs, op, todo, nkeys, nserials, ncommands, nfaults, given, refused,
                    acked, unseen, doomed>>
    BY <1>1 DEF cvars
  <2>2. seq_set' = seq_set /\ provisioned' = provisioned
    BY <1>1 DEF cvars
  <2> QED
    BY <2>1, <2>2, IdleKeeps, Zenon
<1> QED
  BY <1>1, HandlerKeeps, WriteKeeps, RemovalKeeps, DoneKeeps, FinishKeeps, FailsKeeps,
     CloseFailsKeeps, RestartKeeps, CrashKeeps
  DEF CNext

\* Whatever power loss, refused writes, writes lost unseen and commands do, the
\* files, the plan of the running handler and what the host was told stay as CInv
\* says.
THEOREM CaStoreInvariant == CSpec => []CInv
<1>1. CInv /\ [CNext]_cvars => CInv'
  BY StepKeeps
<1> QED
  BY <1>1, CInitLemma, PTL DEF CSpec

\* Every file holds what its readers expect, or is missing or empty.
THEOREM CaStoreTypeCorrect == CSpec => []CTypeOK
<1>1. CInv => CTypeOK
  BY TypeFacts DEF CInv
<1> QED
  BY <1>1, CaStoreInvariant, PTL

\* A certificate that left with a success has both files of its record on flash,
\* but for a file whose fs_close failed unseen; one that left with the error of a
\* SIGN_CSR has no meta.bin.
THEOREM IssuedStaysOnRecord == CSpec => []IssuedIsOnRecord
<1>1. CInv => IssuedIsOnRecord
  BY Zenon DEF CInv, Told, OnRecord, CertKept, MetaKept, IssuedIsOnRecord
<1> QED
  BY <1>1, CaStoreInvariant, PTL

\* A device that forgot its unlock sequence in a wipe forgot its keys before that.
THEOREM KeysGoBeforeSequence == CSpec => []WipeTakesKeysFirst
<1>1. CInv => WipeTakesKeysFirst
  BY DEF CInv
<1> QED
  BY <1>1, CaStoreInvariant, PTL

\* A private key leaves the flash only through DELETE_KEY of an unprotected slot
\* other than the CA's, or through RESET_DEVICE.
THEOREM KeysAreKept == CSpec => KeysOnlyLostOnPurpose
<1>1. CInv /\ [CNext]_cvars =>
        [\A s \in Slots : Lost(s) =>
           \/ op = "RESET_DEVICE"
           \/ op = "DELETE_KEY" /\ s # CA_SLOT /\ ~Protected(s)]_cvars
  BY StepKeeps DEF LossOK, OnPurpose
<1> QED
  BY <1>1, CaStoreInvariant, PTL DEF CSpec, KeysOnlyLostOnPurpose

\* What a step does to the records of issued certificates: nothing, or a meta.bin
\* with more in it, or what a wipe does.
LEMMA MetaGrows ==
  ASSUME CInv, CNext, NEW n \in Serials, Readable(Meta(n)), op # "RESET_DEVICE"
  PROVE  \/ Meta(n)' = Meta(n)
         \/ \E m \in IssuedMeta : Meta(n)' = m /\ Grows(n, m)
<1>1. CASE Handler
  <2>1. certs' = certs
    BY <1>1, Zenon
    DEF Handler, ca_provision, ca_gen_key, ca_auto_expire, set_unlock_seq, storage_secure_wipe,
        ca_delete_key, ca_push_key_x509, ca_unprotect_slot, ca_get_crl, ca_protect_slot,
        ca_sign_csr_slot, ca_push_key_cert, ca_sign_key_slot, ca_push_cert, ca_revoke_cert,
        quiet, files
  <2> QED
    BY <2>1 DEF Meta
<1>2. CASE Done \/ Finish \/ Restart
  BY <1>2 DEF Done, Finish, Restart, files, Meta
<1>3. ASSUME NEW w, w.dir = "certs" /\ w.do = "write" => w.at \in Serials /\ w.file \in CertFiles,
             certs' = IF w.dir = "certs" THEN Torn(certs, w) ELSE certs, w.do = "write"
      PROVE  Meta(n)' = Meta(n)
  <2>1. CASE w.dir # "certs"
    BY <1>3, <2>1 DEF Meta
  <2>2. CASE w.dir = "certs"
    <3>1. Tree(certs, Serials, CertFiles)
      BY DEF CInv, Types, Shape
    <3>2. Leaves(certs, certs', Serials, CertFiles, w)
      BY <1>3, <2>2, <3>1, TornLeaves
    <3> QED
      BY <3>2, Zenon DEF Leaves, Put1, Meta, Readable, CertFiles
  <2> QED
    BY <2>1, <2>2
<1>4. ASSUME todo # <<>>, NEW w, w = Head(todo)
      PROVE  /\ StepOK(w) /\ ~ (w.do = "rm_rf" /\ w.dir = "certs")
             /\ w.dir = "certs" /\ w.do = "write" => w.at \in Serials /\ w.file \in CertFiles
  BY <1>4, HeadIs DEF StepOK, StepType, CertStep, IsRemoval
<1>5. CASE rm_rf
  <2>1. PICK w : w = Head(todo) /\ ~ (w.do = "rm_rf" /\ w.dir = "certs") /\ w.do = "rm_rf"
    BY <1>4, <1>5 DEF rm_rf
  <2> QED
    BY <1>5, <2>1, Zenon DEF rm_rf, rm_rf_part, Meta
<1>6. CASE Fails \/ CloseFails \/ Crash
  <2>1. PICK w : /\ w = Head(todo) /\ ~ (w.do = "rm_rf" /\ w.dir = "certs")
                 /\ w.dir = "certs" /\ w.do = "write" => w.at \in Serials /\ w.file \in CertFiles
    BY <1>4, <1>6, Zenon DEF Fails, CloseFails, Crash
  <2>2. \/ certs' = certs
        \/ w.do = "write" /\ certs' = IF w.dir = "certs" THEN Torn(certs, w) ELSE certs
    <3>1. CASE Fails
      BY <2>1, <3>1 DEF Fails, Leftovers, write_file
    <3>2. CASE CloseFails
      BY <2>1, <3>2, Zenon DEF CloseFails, write_file
    <3>3. CASE Crash
      BY <2>1, <3>3, Zenon DEF Crash, files, write_file, rm_rf_part
    <3> QED
      BY <1>6, <3>1, <3>2, <3>3
  <2>3. certs' = certs => Meta(n)' = Meta(n)
    BY DEF Meta
  <2> QED
    BY <1>3, <2>1, <2>2, <2>3, Zenon
<1>7. CASE Write
  <2>1. PICK w : w = Head(todo) /\ StepOK(w) /\ w.do = "write"
    BY <1>4, <1>7, Zenon DEF Write
  <2>2. CASE w.dir # "certs"
    BY <1>7, <2>1, <2>2, Zenon DEF Write, Meta
  <2>3. CASE w.dir = "certs"
    <3>1. /\ w.at \in Serials /\ w.file \in CertFiles /\ Tree(certs, Serials, CertFiles)
          /\ certs' = [certs EXCEPT ![w.at][w.file] = w.val]
      BY <1>7, <2>1, <2>3, Zenon DEF Write, StepOK, StepType, CInv, Types, Shape
    <3>2. Put1(certs, certs', Serials, CertFiles, w.at, w.file, w.val)
      BY <3>1, WritePuts, Zenon
    <3>3. Meta(n)' = Meta(n) \/ (IsWrite(w, "certs", "meta") /\ w.at = n /\ Meta(n)' = w.val)
      BY <2>1, <2>3, <3>1, <3>2, Zenon DEF Put1, CertFiles, Meta, IsWrite
    <3>4. IsWrite(w, "certs", "meta") => w.val \in IssuedMeta /\ Grows(w.at, w.val)
      BY <2>1, Zenon DEF StepOK, StepType, CertStep, IsWrite
    <3> QED
      BY <3>3, <3>4
  <2> QED
    BY <2>2, <2>3
<1> QED
  BY <1>1, <1>2, <1>5, <1>6, <1>7 DEF CNext

\* Short of a wipe, the flags on an issued certificate only grow, and one that
\* became protected is not revoked afterwards.
THEOREM FlagsStay == CSpec => FlagsOnlyGrow
<1>1. CInv /\ [CNext]_cvars =>
        [\A n \in Serials : Readable(Meta(n)) /\ op # "RESET_DEVICE" =>
           /\ Readable(Meta(n)')
           /\ Meta(n).flags \subseteq Meta(n)'.flags
           /\ "PROTECTED" \in Meta(n).flags =>
                ("REVOKED" \in Meta(n)'.flags => "REVOKED" \in Meta(n).flags)]_cvars
  <2> SUFFICES ASSUME CInv, CNext, NEW n \in Serials, Readable(Meta(n)), op # "RESET_DEVICE"
               PROVE  /\ Readable(Meta(n)')
                      /\ Meta(n).flags \subseteq Meta(n)'.flags
                      /\ "PROTECTED" \in Meta(n).flags =>
                           ("REVOKED" \in Meta(n)'.flags => "REVOKED" \in Meta(n).flags)
    BY Zenon
  <2>1. CASE Meta(n)' = Meta(n)
    BY <2>1 DEF Readable
  <2>2. ASSUME NEW m \in IssuedMeta, Meta(n)' = m, Grows(n, m)
        PROVE  /\ Readable(Meta(n)')
               /\ Meta(n).flags \subseteq Meta(n)'.flags
               /\ "PROTECTED" \in Meta(n).flags =>
                    ("REVOKED" \in Meta(n)'.flags => "REVOKED" \in Meta(n).flags)
    BY <2>2, NoFile, Zenon DEF Grows, Readable
  <2> QED
    BY <2>1, <2>2, MetaGrows, Zenon
<1> QED
  BY <1>1, CaStoreInvariant, PTL DEF CSpec, FlagsOnlyGrow

\* Only GET_CRL hands out a CRL, and it lists what is flagged for the slot.
LEMMA NewCrl ==
  ASSUME CInv, CNext, NEW c \in crls' \ crls
  PROVE  \E s \in Slots :
           /\ c.slot = s
           /\ \/ c.revoked = {n \in Serials : Revoked(n, s)}
              \/ Cardinality(c.revoked) = CRL_MAX_REVOKED
<1>1. CASE \E s \in Slots : ca_get_crl(s)
  <2>1. PICK s \in Slots : ca_get_crl(s)
    BY <1>1
  <2>2. {n \in Serials : Revoked(n, s)} =
          {n \in Serials : /\ Readable(Meta(n)) /\ Meta(n).issuer_slot = s
                           /\ "REVOKED" \in Meta(n).flags}
    BY DEF Revoked
  <2>3. PICK listed :
          /\ \/ listed = {n \in Serials : Revoked(n, s)}
             \/ Cardinality(listed) = CRL_MAX_REVOKED
          /\ crls' = crls \cup
               {[slot |-> s, key |-> slots[s].key, revoked |-> listed,
                 number |-> IF CrlNumber(s) = 0 THEN 1 ELSE CrlNumber(s)]}
    BY <2>1, <2>2, Zenon DEF ca_get_crl
  <2>4. c.slot = s /\ c.revoked = listed
    BY <2>3, SMTT(30)
  <2> QED
    BY <2>3, <2>4, Zenon
<1>2. CASE Handler /\ ~ \E s \in Slots : ca_get_crl(s)
  <2>1. crls' = crls \/ crls' = {}
    BY <1>2, Zenon
    DEF Handler, ca_provision, ca_gen_key, ca_auto_expire, set_unlock_seq, storage_secure_wipe,
        ca_delete_key, ca_push_key_x509, ca_unprotect_slot, ca_protect_slot,
        ca_sign_csr_slot, ca_push_key_cert, ca_sign_key_slot, ca_push_cert, ca_revoke_cert,
        quiet, told
  <2> QED
    BY <2>1, Zenon
<1>3. CASE ~ Handler
  <2>1. crls' = crls
    BY <1>3, Zenon DEF CNext, Write, rm_rf, Done, Finish, Fails, CloseFails, Restart, Crash, ca_init, told
  <2> QED
    BY <2>1, Zenon
<1> QED
  BY <1>1, <1>2, <1>3, Zenon

\* Every revocation that was acknowledged is in each later CRL that is not full,
\* but for those whose meta.bin was lost in an fs_close that failed unseen.
THEOREM RevocationsAreListed == CSpec => RevocationsReachCrl
<1>1. CInv /\ [CNext]_cvars =>
        [\A c \in crls' \ crls : Cardinality(c.revoked) < CRL_MAX_REVOKED =>
           {n \in Serials : /\ <<n, c.slot>> \in acked
                            /\ <<"REVOKE_CERT", n, "meta">> \notin unseen} \subseteq c.revoked]_cvars
  <2> SUFFICES ASSUME CInv, CNext, NEW c \in crls' \ crls,
                      Cardinality(c.revoked) < CRL_MAX_REVOKED,
                      NEW n \in Serials, <<n, c.slot>> \in acked,
                      <<"REVOKE_CERT", n, "meta">> \notin unseen
               PROVE  n \in c.revoked
    BY Zenon
  <2>1. Revoked(n, c.slot)
    BY DEF CInv, Told, Acknowledged, Revoked
  <2>2. Cardinality(c.revoked) # CRL_MAX_REVOKED
    BY Bounds
  <2> QED
    BY <2>1, <2>2, NewCrl, Zenon
<1> QED
  BY <1>1, CaStoreInvariant, PTL DEF CSpec, RevocationsReachCrl

\* Once the device is up after a restart, a CA key with parameters has a cert.der:
\* one that was missing has been written, an empty one has not.
THEOREM BootIsComplete == CSpec => BootCompletesCert
<1>1. CInv /\ [CNext]_cvars =>
        [op = "BOOT" /\ op' = "idle" =>
           (Live(slots, CA_SLOT) /\ slots[CA_SLOT].x509 = "params"
              => slots[CA_SLOT].cert \in Certs \cup {Empty})]_cvars
  <2> SUFFICES ASSUME CInv, CNext, op = "BOOT", op' = "idle",
                      Live(slots, CA_SLOT), slots[CA_SLOT].x509 = "params"
               PROVE  slots[CA_SLOT].cert \in Certs \cup {Empty}
    BY Zenon
  <2>1. ~ Handler
    BY Zenon DEF Handler, ca_provision, ca_gen_key, ca_auto_expire, set_unlock_seq,
        storage_secure_wipe, ca_delete_key, ca_push_key_x509, ca_unprotect_slot, ca_get_crl,
        ca_protect_slot, ca_sign_csr_slot, ca_push_key_cert, ca_sign_key_slot, ca_push_cert,
        ca_revoke_cert, Begin
  <2>2. Finish
    BY <2>1, Zenon DEF CNext, Write, rm_rf, Done, Fails, CloseFails, Restart, Crash, ca_init
  <2>3. Len(todo) = 0
    BY <2>2 DEF Finish
  <2>4. Booting /\ SlotFile("cert", slots[CA_SLOT].cert)
    BY Bounds DEF CInv, Types, TypedSlots, Files
  <2>5. slots[CA_SLOT].cert # None
    BY <2>3, <2>4, SMTT(30) DEF Booting
  <2> QED
    BY <2>4, <2>5 DEF SlotFile
<1> QED
  BY <1>1, CaStoreInvariant, PTL DEF CSpec, BootCompletesCert
=============================================================================
