--------------------------- MODULE CaStoreSteps ---------------------------
(***************************************************************************)
(* The inductive invariant of CaStore, for any number of slots, keys,      *)
(* certificates and commands, and that every operation on the flash keeps  *)
(* it, whether it succeeds, fails, is lost unseen or is cut short by a     *)
(* loss of power.                                                          *)
(*                                                                         *)
(* What a handler still has to do is in todo, so the invariant says of     *)
(* every file operation in it why it may be carried out: StepOK of each by *)
(* itself, InOrder of those that rely on one before them.                  *)
(***************************************************************************)
EXTENDS CaStore, TLAPS

IsWrite(w, dir, file) == w.do = "write" /\ w.dir = dir /\ w.file = file
IsRemoval(w, dir) == w.do = "rm_rf" /\ w.dir = dir
IsReply(w, file) == w.do = "reply" /\ w.file = file

\* The values of the files of a slot, and of an issued certificate.
SlotFile(f, v) ==
  /\ f = "key"   => v \in Keys \cup {GARBAGE, None, Empty}
  /\ f = "meta"  => v \in SlotMeta \cup {None, Empty}
  /\ f = "x509"  => v \in {"params", None, Empty}
  /\ f = "cert"  => v \in Certs \cup {None, Empty}
  /\ f = "chain" => v \in ExternalKeys \cup {None, Empty}
  /\ f = "crl"   => v \in Nat \cup {None, Empty}
CertFile(f, v) ==
  /\ f = "cert" => v \in Certs \cup {None, Empty}
  /\ f = "meta" => v \in IssuedMeta \cup {None, Empty}

CertFiles == {"cert", "meta"}
TypedSlots == \A s \in Slots, f \in Files : SlotFile(f, slots[s][f])
TypedCerts == \A n \in Serials, f \in CertFiles : CertFile(f, certs[n][f])
Counters ==
  /\ {seq_set, provisioned} \subseteq BOOLEAN
  /\ nkeys \in 0..MaxKeys /\ nserials \in 0..MaxSerials
  /\ ncommands \in 0..MaxEvents /\ nfaults \in 0..MaxFaults
  /\ given \subseteq Certs /\ refused \subseteq given
  /\ acked \subseteq Serials \X Slots /\ doomed \subseteq Keys

\* Directories D of files F.
Tree(dirs, D, F) ==
  dirs = [d \in D |-> dirs[d]] /\ \A d \in D : dirs[d] = [f \in F |-> dirs[d][f]]

\* The two trees of directories; todo is a sequence.
Shape ==
  /\ Tree(slots, Slots, Files) /\ Tree(certs, Serials, CertFiles)
  /\ Len(todo) \in Nat /\ todo = [i \in 1..Len(todo) |-> todo[i]]

\* A new meta.bin keeps what the old one says.
Grows(n, new) ==
  Readable(Meta(n)) =>
    /\ Meta(n).flags \subseteq new.flags
    /\ Meta(n).issuer_slot = new.issuer_slot
    /\ "PROTECTED" \in Meta(n).flags => ("REVOKED" \in new.flags => "REVOKED" \in Meta(n).flags)

\* The type of an operation.
StepType(w) ==
  /\ w.do \in {"write", "rm_rf", "reply"}
  /\ w.do = "write" =>
       \/ /\ w.dir = "keys" /\ w.at \in Slots /\ w.file \in Files
          /\ SlotFile(w.file, w.val)
       \/ /\ w.dir = "certs" /\ w.at \in Serials /\ w.file \in CertFiles
          /\ w.file = "cert" => w.val \in Certs
          /\ w.file = "meta" => w.val \in IssuedMeta
       \/ w.dir = "config" /\ w.val \in BOOLEAN
  /\ w.do = "rm_rf" => \/ w.dir = "keys" /\ w.at \subseteq Slots
                       \/ w.dir = "certs" /\ w.at \subseteq Serials

\* A key is written where there is none, or overwritten on purpose.
OnPurpose(s) == \/ op = "RESET_DEVICE"
                \/ op = "DELETE_KEY" /\ s # CA_SLOT /\ ~Protected(s)
KeyStep(w) ==
  /\ IsWrite(w, "keys", "key") =>
       \/ w.val \in Keys /\ w.val <= nkeys /\ w.val \notin doomed /\ slots[w.at].key = None
       \/ w.val = GARBAGE /\ OnPurpose(w.at)
  /\ IsWrite(w, "keys", "meta") => op \notin {"RESET_DEVICE", "DELETE_KEY"}
  /\ IsRemoval(w, "keys") => \A s \in w.at : OnPurpose(s)

\* A record is written once, and its meta.bin rewritten with more in it.
CertStep(w) ==
  /\ IsWrite(w, "certs", "cert") => w.at <= nserials /\ \A c \in given : c.serial # w.at
  /\ IsWrite(w, "certs", "meta") =>
       /\ w.at <= nserials /\ Grows(w.at, w.val)
       /\ \A c \in refused : c.serial # w.at
       /\ op = "REVOKE_CERT" => "REVOKED" \in w.val.flags
  /\ IsRemoval(w, "certs") => op = "RESET_DEVICE"

Forgets(w) == w.do = "write" /\ w.dir = "config" /\ w.val = FALSE

EndStep(w) ==
  /\ Forgets(w) => op = "RESET_DEVICE"
  /\ w.do = "reply" => op # "RESET_DEVICE"
  /\ IsReply(w, "cert") => w.val \in Certs /\ w.val.serial \in 1..nserials
  /\ IsReply(w, "revoked") => w.val \in Serials \X Slots /\ op = "REVOKE_CERT"

StepOK(w) == StepType(w) /\ KeyStep(w) /\ CertStep(w) /\ EndStep(w)

\* What the host was told is on flash, or was lost unseen.
CertKept(c) == certs[c.serial].cert = c \/ UnseenLoss(c.serial, "cert")
MetaKept(n) == Readable(Meta(n)) \/ UnseenLoss(n, "meta")
OnRecord(c) == CertKept(c) /\ MetaKept(c.serial)
Revoked(n, s) ==
  Readable(Meta(n)) /\ Meta(n).issuer_slot = s /\ "REVOKED" \in Meta(n).flags
Acknowledged(n, s) ==
  /\ Readable(Meta(n)) /\ Meta(n).issuer_slot = s
  /\ "REVOKED" \in Meta(n).flags \/ <<"REVOKE_CERT", n, "meta">> \in unseen

Before(i) == 1..(i - 1)

\* A new key comes first, the reply last, and no record's meta.bin twice.
Placed(i) ==
  /\ IsWrite(todo[i], "keys", "key") /\ todo[i].val # GARBAGE => i = 1
  /\ todo[i].do = "reply" => i = Len(todo)
  /\ IsWrite(todo[i], "certs", "meta") =>
       \A j \in 1..Len(todo) :
         IsWrite(todo[j], "certs", "meta") /\ j # i => todo[j].at # todo[i].at

\* Before a certificate is handed out, both files of its record are written ...
RecordedFirst(i, c) ==
  /\ \/ CertKept(c)
     \/ \E j \in Before(i) : IsWrite(todo[j], "certs", "cert") /\ todo[j].must
  /\ \A j \in Before(i) : IsWrite(todo[j], "certs", "cert") =>
       todo[j].val = c /\ todo[j].at = c.serial
  /\ \/ MetaKept(c.serial)
     \/ \E j \in Before(i) : /\ IsWrite(todo[j], "certs", "meta") /\ todo[j].must
                             /\ todo[j].at = c.serial

\* ... before a revocation is acknowledged, the flag ...
FlaggedFirst(i, n, s) ==
  \/ Acknowledged(n, s)
  \/ /\ Readable(Meta(n)) /\ Meta(n).issuer_slot = s
     /\ \E j \in Before(i) :
          IsWrite(todo[j], "certs", "meta") /\ todo[j].must /\ todo[j].at = n

\* ... and before the unlock sequence goes, the keys do.
KeysGoFirst(i) ==
  \/ \A s \in Slots : slots[s].key \notin doomed
  \/ \E j \in Before(i) : IsRemoval(todo[j], "keys") /\ todo[j].at = Slots

InOrder(i) ==
  /\ Placed(i)
  /\ IsReply(todo[i], "cert") => RecordedFirst(i, todo[i].val)
  /\ IsReply(todo[i], "revoked") => FlaggedFirst(i, todo[i].val[1], todo[i].val[2])
  /\ Forgets(todo[i]) => KeysGoFirst(i)

Plan == \A i \in 1..Len(todo) : StepOK(todo[i]) /\ InOrder(i)

\* A certificate that would leave with an error has no meta.bin yet.
Signing ==
  op = "SIGN_CSR" /\ Len(todo) > 0 =>
    /\ todo[Len(todo)].do = "reply" /\ todo[Len(todo)].val \in Certs
    /\ todo[Len(todo)].val.serial \in 1..nserials
    /\ todo[1].do # "reply" => ~Readable(Meta(todo[Len(todo)].val.serial))
    /\ \A i \in 1..Len(todo) : IsWrite(todo[i], "certs", "meta") => i + 1 = Len(todo)

\* What holds of the files and of what the host was told, whatever is pending.
Told ==
  /\ \A c \in given : c.serial \in 1..nserials /\ (c \in refused \/ OnRecord(c))
  /\ \A c \in refused : ~Readable(Meta(c.serial))
  /\ \A a \in acked : Acknowledged(a[1], a[2])
  /\ op = "RESET_DEVICE" => given = {} /\ acked = {}
  /\ \A n \in Serials : n > nserials => ~Readable(Meta(n))

Fresh ==
  /\ \A s \in Slots : slots[s].key \in Keys => slots[s].key <= nkeys
  /\ \A k \in doomed : k <= nkeys

\* ca_init has the missing certificate on its list.
Booting ==
  op = "BOOT" =>
    \/ Len(todo) = 1 /\ IsWrite(todo[1], "keys", "cert") /\ todo[1].at = CA_SLOT
       /\ todo[1].val \in Certs /\ todo[1].must
    \/ Len(todo) = 0 /\ ~ (/\ Live(slots, CA_SLOT) /\ slots[CA_SLOT].x509 = "params"
                           /\ slots[CA_SLOT].cert = None)

Types == Shape /\ TypedSlots /\ TypedCerts /\ Counters
CInv == Types /\ Plan /\ Signing /\ Told /\ Fresh /\ Booting /\ WipeTakesKeysFirst

\* Types says of single files what CTypeOK says of the trees.
LEMMA TypeFacts == Types => CTypeOK
<1>1. TypedSlots =>
        \A s \in Slots :
          /\ SlotFile("key", slots[s].key) /\ SlotFile("meta", slots[s].meta)
          /\ SlotFile("x509", slots[s].x509) /\ SlotFile("cert", slots[s].cert)
          /\ SlotFile("chain", slots[s].chain) /\ SlotFile("crl", slots[s].crl)
  BY DEF TypedSlots, Files
<1>2. TypedCerts => \A n \in Serials : /\ CertFile("cert", certs[n].cert)
                                       /\ CertFile("meta", certs[n].meta)
  BY DEF TypedCerts, CertFiles
<1> QED
  BY <1>1, <1>2 DEF Types, Counters, CTypeOK, SlotFile, CertFile

\* Numbers that the constants bound.
LEMMA Bounds ==
  /\ MAX_KEY_SLOTS \in Nat /\ MaxKeys \in Nat /\ MaxSerials \in Nat /\ MaxEvents \in Nat
  /\ MaxFaults \in Nat /\ CRL_MAX_REVOKED \in Nat
  /\ Slots \subseteq Nat /\ Serials \subseteq Nat /\ Keys \subseteq Nat
  /\ CA_SLOT \in Slots /\ GARBAGE \notin Keys
  BY StoreAssumption DEF Slots, Serials, Keys, CA_SLOT, GARBAGE

\* A missing or an empty file is none of the values a handler writes.
LEMMA NoFile ==
  /\ None # Empty
  /\ None \notin Keys /\ Empty \notin Keys
  /\ None \notin Certs /\ Empty \notin Certs
  /\ None \notin IssuedMeta /\ Empty \notin IssuedMeta
  BY FileAssumption

\* An unprovisioned device satisfies CInv.
LEMMA CInitLemma == CInit => CInv
<1> SUFFICES ASSUME CInit PROVE CInv
  OBVIOUS
<1>1. Shape
  BY DEF CInit, Shape, Tree, NoSlot, NoCert, CertFiles
<1>2. TypedSlots /\ TypedCerts
  BY DEF CInit, TypedSlots, TypedCerts, SlotFile, CertFile, NoSlot, NoCert, Files, CertFiles
<1>3. Counters
  <2>1. {seq_set, provisioned} \subseteq BOOLEAN
    BY Zenon DEF CInit
  <2>2. 0 \in 0..MaxKeys /\ 0 \in 0..MaxSerials /\ 0 \in 0..MaxEvents /\ 0 \in 0..MaxFaults
    BY Bounds
  <2> QED
    BY <2>1, <2>2 DEF CInit, Counters
<1>4. Plan /\ Booting /\ Signing
  BY DEF CInit, Plan, Booting, Signing
<1>5. Told /\ Fresh /\ WipeTakesKeysFirst
  BY NoFile DEF CInit, Told, Fresh, WipeTakesKeysFirst, Readable, Meta, NoSlot, NoCert, Files
<1> QED
  BY <1>1, <1>2, <1>3, <1>4, <1>5 DEF CInv, Types
-----------------------------------------------------------------------------
(* Carrying out, or skipping, the next file operation.                     *)

\* What a step w at the head of the list can do to the plan and to what was told,
PopsList(w) ==
  /\ todo # <<>> /\ w = todo[1] /\ todo' = Tail(todo)
  /\ op' = op /\ UNCHANGED <<nkeys, nserials, refused>>
  /\ \/ given' = given
     \/ IsReply(w, "cert") /\ given' = given \cup {w.val}
  /\ \/ acked' = acked
     \/ IsReply(w, "revoked") /\ acked' = acked \cup {w.val}

\* to the slots,
PopsSlots(w) ==
  /\ doomed' \subseteq doomed
  /\ \/ seq_set' = seq_set
     \/ w.do = "write" /\ w.dir = "config" /\ seq_set' = w.val
  /\ \A s \in Slots : Protected(s)' => Protected(s) \/ IsWrite(w, "keys", "meta")
  /\ \A s \in Slots :
       \/ slots'[s].key = slots[s].key
       \/ /\ slots'[s].key \notin doomed'
          /\ slots'[s].key \in Keys => slots'[s].key <= nkeys
  /\ IsRemoval(w, "keys") /\ w.at = Slots => \A s \in Slots : slots'[s].key \notin doomed'
  /\ w.must /\ IsWrite(w, "keys", "cert") /\ w.val # None => slots'[w.at].cert # None

\* and to the records: a write that must be is done, or noted as lost unseen.
PopsCerts(w) ==
  /\ \A n \in Serials :
       \/ certs'[n].cert = certs[n].cert
       \/ /\ IsWrite(w, "certs", "cert") /\ w.at = n
          /\ certs'[n].cert = w.val \/ certs[n].cert = None
       \/ op = "RESET_DEVICE"
  /\ \A n \in Serials :
       \/ Meta(n)' = Meta(n)
       \/ IsWrite(w, "certs", "meta") /\ w.at = n /\ Meta(n)' = w.val
       \/ ~ Readable(Meta(n))' /\ (op = "RESET_DEVICE" \/ ~ Readable(Meta(n)))
  /\ \A x \in unseen :
       \/ x \in unseen'
       \/ /\ IsWrite(w, "certs", w.file) /\ x = <<op, w.at, w.file>>
          /\ certs'[w.at][w.file] = w.val
  /\ w.must => /\ IsWrite(w, "certs", "cert") =>
                    certs'[w.at].cert = w.val \/ <<op, w.at, "cert">> \in unseen'
               /\ IsWrite(w, "certs", "meta") =>
                    Meta(w.at)' = w.val \/ <<op, w.at, "meta">> \in unseen'

Pops(w) == PopsList(w) /\ PopsSlots(w) /\ PopsCerts(w)

\* The list without its first operation.
LEMMA PopFacts ==
  ASSUME Shape, NEW w, Pops(w)
  PROVE  /\ Len(todo) \in Nat \ {0} /\ Len(todo') = Len(todo) - 1
         /\ todo' = [i \in 1..Len(todo') |-> todo'[i]]
         /\ \A i \in 1..Len(todo') : todo'[i] = todo[i + 1] /\ i + 1 \in 1..Len(todo)
<1> DEFINE T == {todo[i] : i \in 1..Len(todo)}
<1>1. todo \in Seq(T)
  BY DEF Shape
<1>2. todo # <<>> /\ todo' = Tail(todo)
  BY DEF Pops, PopsList
<1> HIDE DEF T
<1>3. todo' \in Seq(T) /\ Len(todo) \in Nat \ {0}
  BY <1>1, <1>2
<1>4. Len(todo') = Len(todo) - 1 /\ \A i \in 1..Len(todo') : todo'[i] = todo[i + 1]
  BY <1>1, <1>2
<1>5. todo' = [i \in 1..Len(todo') |-> todo'[i]]
  BY <1>3
<1> QED
  BY <1>3, <1>4, <1>5

\* The head of the list, and a step behind it.
LEMMA HeadOK ==
  ASSUME CInv, NEW w, Pops(w)
  PROVE  StepOK(w) /\ InOrder(1) /\ w = todo[1] /\ 1 \in 1..Len(todo)
<1>1. 1 \in 1..Len(todo) /\ w = todo[1]
  BY PopFacts DEF CInv, Types, Pops, PopsList
<1> QED
  BY <1>1 DEF CInv, Plan

\* What was lost unseen is still known to be, or has been written since.
LEMMA PopKeepsUnseen ==
  ASSUME CInv, NEW w, Pops(w), StepOK(w), op # "RESET_DEVICE"
  PROVE  /\ \A n \in Serials :
              UnseenLoss(n, "cert") =>
                \/ UnseenLoss(n, "cert")'
                \/ IsWrite(w, "certs", "cert") /\ w.at = n /\ certs'[n].cert = w.val
         /\ \A n \in Serials : MetaKept(n) => MetaKept(n)'
         /\ \A n \in Serials, s \in Slots : Acknowledged(n, s) => Acknowledged(n, s)'
<1>1. /\ IsWrite(w, "certs", "meta") =>
           /\ w.val \in IssuedMeta /\ Grows(w.at, w.val)
           /\ op = "REVOKE_CERT" => "REVOKED" \in w.val.flags
      /\ None \notin IssuedMeta /\ Empty \notin IssuedMeta
  BY NoFile DEF StepOK, StepType, CertStep, IsWrite
<1>2. \A n \in Serials :
        \/ Meta(n)' = Meta(n)
        \/ IsWrite(w, "certs", "meta") /\ w.at = n /\ Meta(n)' = w.val
        \/ ~ Readable(Meta(n))' /\ ~ Readable(Meta(n))
  BY Zenon DEF Pops, PopsCerts
<1>3. \A o : \A n \in Serials, f \in CertFiles : <<o, n, f>> \in unseen =>
        \/ <<o, n, f>> \in unseen'
        \/ /\ IsWrite(w, "certs", f) /\ o = op /\ w.at = n
           /\ certs'[n][f] = w.val
  BY DEF Pops, PopsCerts, IsWrite
<1>4. ASSUME NEW n \in Serials, NEW f \in CertFiles, UnseenLoss(n, f)
      PROVE  UnseenLoss(n, f)' \/ (IsWrite(w, "certs", f) /\ w.at = n /\ certs'[n][f] = w.val)
  <2>1. PICK x \in unseen : x[2] = n /\ x[3] = f
    BY <1>4 DEF UnseenLoss
  <2>2. x \in unseen' \/ (IsWrite(w, "certs", f) /\ w.at = n /\ certs'[n][f] = w.val)
    <3>1. \/ x \in unseen'
          \/ /\ IsWrite(w, "certs", w.file) /\ x = <<op, w.at, w.file>>
             /\ certs'[w.at][w.file] = w.val
      BY DEF Pops, PopsCerts
    <3>2. x = <<op, w.at, w.file>> => w.at = n /\ w.file = f
      BY <2>1
    <3> QED
      BY <3>1, <3>2, Zenon
  <2> QED
    BY <2>1, <2>2, Zenon DEF UnseenLoss
<1>5. \A n \in Serials : Readable(Meta(n)) =>
        /\ Readable(Meta(n))' /\ Meta(n)'.issuer_slot = Meta(n).issuer_slot
        /\ Meta(n).flags \subseteq Meta(n)'.flags
  BY <1>1, <1>2 DEF Readable, Grows
<1>6. ASSUME NEW n \in Serials, MetaKept(n) PROVE MetaKept(n)'
  <2>1. IsWrite(w, "certs", "meta") /\ w.at = n /\ certs'[n].meta = w.val => Readable(Meta(n))'
    BY <1>1 DEF Readable, Meta
  <2> QED
    BY <1>4, <1>5, <1>6, <2>1, Zenon DEF MetaKept, CertFiles
<1>7. ASSUME NEW n \in Serials, NEW s \in Slots, Acknowledged(n, s) PROVE Acknowledged(n, s)'
  <2>1. Readable(Meta(n))' /\ Meta(n)'.issuer_slot = s /\ Meta(n).flags \subseteq Meta(n)'.flags
    BY <1>5, <1>7 DEF Acknowledged
  <2>2. <<"REVOKE_CERT", n, "meta">> \in unseen =>
          <<"REVOKE_CERT", n, "meta">> \in unseen' \/ "REVOKED" \in Meta(n)'.flags
    BY <1>1, <1>3, Zenon DEF CertFiles, Meta
  <2> QED
    BY <1>7, <2>1, <2>2 DEF Acknowledged
<1> QED
  BY <1>4, <1>6, <1>7, Zenon DEF CertFiles

\* A write that is noted as lost.
LEMMA LossIsSeen ==
  \A o, n, f : <<o, n, f>> \in unseen' => UnseenLoss(n, f)'
<1> SUFFICES ASSUME NEW o, NEW n, NEW f, <<o, n, f>> \in unseen' PROVE UnseenLoss(n, f)'
  OBVIOUS
<1>1. <<o, n, f>>[2] = n /\ <<o, n, f>>[3] = f
  OBVIOUS
<1> QED
  BY <1>1, Zenon DEF UnseenLoss

\* An operation that is on the list keeps what the host was told.
LEMMA PopKeepsTold ==
  ASSUME CInv, NEW w, Pops(w)
  PROVE  Told'
<1>1. StepOK(w) /\ InOrder(1) /\ w = todo[1] /\ Before(1) = {}
  BY HeadOK DEF Before
<1>2. /\ IsReply(w, "cert") => w.val \in Certs /\ w.val.serial \in 1..nserials /\ OnRecord(w.val)
      /\ IsReply(w, "revoked") => w.val \in Serials \X Slots /\ Acknowledged(w.val[1], w.val[2])
      /\ w.do = "reply" => op # "RESET_DEVICE"
  BY <1>1 DEF StepOK, EndStep, InOrder, RecordedFirst, FlaggedFirst, OnRecord
<1>3. /\ IsWrite(w, "certs", "cert") => \A c \in given : c.serial # w.at
      /\ IsWrite(w, "certs", "meta") =>
           /\ w.val \in IssuedMeta /\ w.at <= nserials
           /\ \A c \in refused : c.serial # w.at
      /\ nserials \in 0..MaxSerials /\ nserials' = nserials
      /\ given \subseteq Certs /\ refused \subseteq given /\ refused' = refused
  BY <1>1 DEF StepOK, StepType, CertStep, IsWrite, CInv, Types, Counters, Pops, PopsList
<1>4. \A n \in Serials :
        /\ n \in Nat
        /\ \/ Meta(n)' = Meta(n)
           \/ IsWrite(w, "certs", "meta") /\ w.at = n
           \/ ~ Readable(Meta(n))'
  BY Bounds, Zenon DEF Pops, PopsCerts
<1>5. \A n \in Serials : n > nserials' => ~Readable(Meta(n))'
  <2> SUFFICES ASSUME NEW n \in Serials, n > nserials PROVE ~Readable(Meta(n))'
    BY <1>3
  <2>1. ~Readable(Meta(n)) /\ n \in Nat /\ nserials \in Nat
    BY <1>3, <1>4 DEF CInv, Told
  <2>2. Meta(n)' = Meta(n) \/ ~Readable(Meta(n))'
    BY <1>3, <1>4, <2>1
  <2> QED
    BY <2>1, <2>2 DEF Readable
<1>6. \A c \in given : c.serial \in 1..nserials /\ c.serial \in Serials
  BY <1>3, Bounds DEF CInv, Told, Serials
<1>7. \A a \in acked' : Acknowledged(a[1], a[2])'
  <2> SUFFICES ASSUME NEW a \in acked' PROVE Acknowledged(a[1], a[2])'
    OBVIOUS
  <2>1. Acknowledged(a[1], a[2]) /\ op # "RESET_DEVICE" /\ a \in Serials \X Slots
    BY <1>2 DEF CInv, Told, Pops, PopsList, IsReply, Types, Counters
  <2>2. a[1] \in Serials /\ a[2] \in Slots
    BY <2>1
  <2> QED
    BY <1>1, <2>1, <2>2, PopKeepsUnseen
<1>8. \A c \in given' : c.serial \in 1..nserials' /\ (c \in refused' \/ OnRecord(c)')
  <2> SUFFICES ASSUME NEW c \in given', c \notin refused
               PROVE  c.serial \in 1..nserials /\ OnRecord(c)'
    BY <1>2, <1>3, <1>6 DEF Pops, PopsList
  <2>1. c.serial \in 1..nserials /\ OnRecord(c) /\ op # "RESET_DEVICE"
    BY <1>2 DEF CInv, Told, Pops, PopsList, IsReply
  <2>2. c.serial \in Serials
    BY <1>3, <2>1, Bounds DEF Serials
  <2>3. ~ (IsWrite(w, "certs", "cert") /\ w.at = c.serial)
    BY <1>2, <1>3 DEF Pops, PopsList, IsWrite, IsReply
  <2>4. certs'[c.serial].cert = certs[c.serial].cert
    BY <2>1, <2>2, <2>3, Zenon DEF Pops, PopsCerts
  <2>5. CertKept(c)'
    BY <1>1, <2>1, <2>2, <2>3, <2>4, PopKeepsUnseen, Zenon DEF OnRecord, CertKept
  <2>6. MetaKept(c.serial)'
    BY <1>1, <2>1, <2>2, PopKeepsUnseen, Zenon DEF OnRecord
  <2> QED
    BY <2>1, <2>5, <2>6 DEF OnRecord
<1>9. op' = "RESET_DEVICE" => given' = {} /\ acked' = {}
  BY <1>2 DEF CInv, Told, Pops, PopsList, IsReply
<1>10. \A c \in refused' : ~Readable(Meta(c.serial))'
  <2> SUFFICES ASSUME NEW c \in refused PROVE ~Readable(Meta(c.serial))'
    BY <1>3
  <2>1. c.serial \in Serials /\ ~Readable(Meta(c.serial))
    BY <1>3, <1>6 DEF CInv, Told
  <2>2. ~ (IsWrite(w, "certs", "meta") /\ w.at = c.serial)
    BY <1>3
  <2> QED
    BY <1>4, <2>1, <2>2 DEF Readable
<1> QED
  BY <1>5, <1>7, <1>8, <1>9, <1>10 DEF Told

\* Keys only go, or come fresh; and the sequence goes after them.
LEMMA PopKeepsKeys ==
  ASSUME CInv, NEW w, Pops(w)
  PROVE  Fresh' /\ WipeTakesKeysFirst'
<1>1. InOrder(1) /\ w = todo[1] /\ Before(1) = {} /\ StepOK(w)
  BY HeadOK DEF Before
<1>2. Fresh'
  BY DEF CInv, Fresh, Pops, PopsSlots, PopsList
<1>3. \A s \in Slots : slots[s].key \notin doomed => slots'[s].key \notin doomed'
  BY DEF Pops, PopsSlots
<1>4. seq_set' = seq_set \/ seq_set' \/ Forgets(w)
  <2>1. w.do = "write" /\ w.dir = "config" => w.val \in BOOLEAN
    BY <1>1 DEF StepOK, StepType
  <2>2. seq_set' = seq_set \/ (w.do = "write" /\ w.dir = "config" /\ seq_set' = w.val)
    BY Zenon DEF Pops, PopsSlots
  <2> QED
    BY <2>1, <2>2, Zenon DEF Forgets
<1>5. Forgets(w) => \A s \in Slots : slots[s].key \notin doomed
  BY <1>1 DEF InOrder, KeysGoFirst
<1>6. WipeTakesKeysFirst'
  BY <1>3, <1>4, <1>5, Zenon DEF CInv, WipeTakesKeysFirst
<1> QED
  BY <1>2, <1>6

\* The certificate ca_init found missing is written, or the boot has failed.
LEMMA PopKeepsBooting ==
  ASSUME CInv, NEW w, Pops(w)
  PROVE  Booting'
<1> SUFFICES ASSUME op' = "BOOT" PROVE Booting'
  BY DEF Booting
<1>0. Len(todo) \in Nat \ {0} /\ Len(todo') = Len(todo) - 1 /\ w = todo[1] /\ op = "BOOT"
  BY PopFacts DEF CInv, Types, Pops, PopsList
<1>1. Len(todo) = 1 /\ Len(todo') = 0
  BY <1>0 DEF CInv, Booting
<1>2. IsWrite(w, "keys", "cert") /\ w.at = CA_SLOT /\ w.val \in Certs /\ w.must
  BY <1>0, <1>1 DEF CInv, Booting
<1>3. slots'[CA_SLOT].cert # None
  BY <1>2, NoFile DEF Pops, PopsSlots
<1> QED
  BY <1>1, <1>3 DEF Booting

\* What is behind the head is as safe as it was.
LEMMA PopKeepsSteps ==
  ASSUME CInv, NEW w, Pops(w), NEW i \in 1..Len(todo')
  PROVE  StepOK(todo[i])'
<1>1. /\ StepOK(w) /\ Placed(1) /\ w = todo[1] /\ 1 \in 1..Len(todo)
      /\ Len(todo) \in Nat /\ Len(todo') = Len(todo) - 1
      /\ todo'[i] = todo[i + 1] /\ i + 1 \in 1..Len(todo) /\ i + 1 # 1
  BY HeadOK, PopFacts DEF CInv, Types, InOrder
<1>2. PICK v : v = todo[i + 1]
  OBVIOUS
<1>3. StepOK(v) /\ Placed(i + 1)
  BY <1>1, <1>2 DEF CInv, Plan, InOrder
<1>4. given' = given /\ UNCHANGED <<op, nkeys, nserials, refused>>
  BY <1>1 DEF Placed, Pops, PopsList, IsReply
<1>5. StepType(v)'
  BY <1>3 DEF StepOK, StepType, SlotFile
<1>6. KeyStep(v)'
  <2>1. IsWrite(v, "keys", "key") => v.val = GARBAGE
    BY <1>1, <1>2, <1>3 DEF Placed
  <2>2. \A s \in Slots : OnPurpose(s) => OnPurpose(s)'
    BY <1>1, <1>4 DEF Pops, PopsSlots, StepOK, KeyStep, OnPurpose
  <2>3. IsWrite(v, "keys", "key") => v.at \in Slots
    BY <1>3 DEF StepOK, StepType, IsWrite
  <2>4. IsRemoval(v, "keys") => v.at \subseteq Slots
    BY <1>3 DEF StepOK, StepType, IsRemoval
  <2> QED
    BY <1>3, <1>4, <2>1, <2>2, <2>3, <2>4, Bounds, Zenon DEF StepOK, KeyStep, IsWrite, IsRemoval
<1>7. CertStep(v)'
  <2>1. ASSUME IsWrite(v, "certs", "meta") PROVE Grows(v.at, v.val)'
    <3>1. v.at \in Serials /\ Grows(v.at, v.val)
      BY <1>3, <2>1 DEF StepOK, StepType, CertStep, IsWrite
    <3>2. ~ (IsWrite(w, "certs", "meta") /\ w.at = v.at)
      BY <1>1, <1>2, <2>1 DEF Placed
    <3>3. Meta(v.at)' = Meta(v.at) \/ ~ Readable(Meta(v.at))'
      BY <3>1, <3>2, Zenon DEF Pops, PopsCerts
    <3> QED
      BY <3>1, <3>3 DEF Grows, Readable
  <2> QED
    BY <1>3, <1>4, <2>1 DEF StepOK, CertStep, IsWrite, IsRemoval
<1>8. EndStep(v)'
  BY <1>3, <1>4 DEF StepOK, EndStep, Forgets, IsReply
<1> QED
  BY <1>1, <1>2, <1>5, <1>6, <1>7, <1>8 DEF StepOK

\* What came before a step still does, or was the head and has been carried out.
LEMMA PopKeepsOrder ==
  ASSUME CInv, NEW w, Pops(w), NEW i \in 1..Len(todo')
  PROVE  InOrder(i)'
<1>1. /\ StepOK(w) /\ InOrder(1) /\ w = todo[1]
      /\ Len(todo) \in Nat /\ Len(todo') = Len(todo) - 1
      /\ \A j \in 1..Len(todo') : todo'[j] = todo[j + 1] /\ j + 1 \in 1..Len(todo)
      /\ i \in Nat \ {0} /\ i + 1 \in 1..Len(todo)
  BY HeadOK, PopFacts DEF CInv, Types
<1>2. PICK v : v = todo[i + 1] /\ v = todo'[i]
  BY <1>1
<1>3. StepOK(v) /\ InOrder(i + 1)
  BY <1>1, <1>2 DEF CInv, Plan
<1>4. \A j \in Before(i + 1) : j = 1 \/ (j - 1 \in Before(i) /\ todo'[j - 1] = todo[j])
  BY <1>1 DEF Before
<1>5. \A j \in Before(i) : j + 1 \in Before(i + 1) /\ todo'[j] = todo[j + 1]
  BY <1>1 DEF Before
<1>6. 1 \in Before(i + 1)
  BY <1>1 DEF Before
<1>7. Placed(i)'
  <2>1. IsWrite(v, "keys", "key") => v.val = GARBAGE
    BY <1>1, <1>2, <1>3 DEF InOrder, Placed
  <2>2. v.do = "reply" => i = Len(todo')
    BY <1>1, <1>2, <1>3 DEF InOrder, Placed
  <2>3. ASSUME IsWrite(v, "certs", "meta"), NEW j \in 1..Len(todo'),
               IsWrite(todo'[j], "certs", "meta"), j # i
        PROVE  todo'[j].at # v.at
    <3>1. j + 1 \in 1..Len(todo) /\ j + 1 # i + 1 /\ todo'[j] = todo[j + 1]
      BY <1>1, <2>3
    <3> QED
      BY <1>2, <1>3, <2>3, <3>1 DEF InOrder, Placed
  <2> QED
    BY <1>2, <2>1, <2>2, <2>3 DEF Placed, IsWrite
<1>8. ASSUME IsReply(v, "cert") PROVE RecordedFirst(i, v.val)'
  <2>1. RecordedFirst(i + 1, v.val) /\ op # "RESET_DEVICE" /\ v.val.serial \in Serials
    BY <1>2, <1>3, <1>8, Bounds
    DEF InOrder, StepOK, EndStep, IsReply, Serials, CInv, Types, Counters
  <2>2. PICK c : c = v.val
    OBVIOUS
  <2>3. \/ CertKept(c)'
        \/ \E j \in Before(i) : IsWrite(todo'[j], "certs", "cert") /\ todo'[j].must
    <3>1. IsWrite(w, "certs", "cert") => w.val = c /\ w.at = c.serial
      BY <1>1, <1>6, <2>1, <2>2, Zenon DEF RecordedFirst
    <3>2. CertKept(c) => CertKept(c)'
      <4>1. IsWrite(w, "certs", "cert") /\ certs'[c.serial].cert = w.val => CertKept(c)'
        BY <3>1 DEF CertKept
      <4>2. ~ IsWrite(w, "certs", "cert") => certs'[c.serial].cert = certs[c.serial].cert
        BY <2>1, <2>2, Zenon DEF Pops, PopsCerts
      <4>3. ASSUME certs[c.serial].cert = c, IsWrite(w, "certs", "cert") PROVE CertKept(c)'
        <5>1. c # None
          BY <1>3, <1>8, <2>2, NoFile, Zenon DEF StepOK, EndStep
        <5> QED
          BY <2>1, <2>2, <3>1, <4>3, <5>1, Zenon DEF CertKept, Pops, PopsCerts
      <4> QED
        BY <1>1, <2>1, <2>2, <4>1, <4>2, <4>3, PopKeepsUnseen, Zenon DEF CertKept
    <3>3. IsWrite(w, "certs", "cert") /\ w.must => CertKept(c)'
      BY <3>1, LossIsSeen, Zenon DEF CertKept, Pops, PopsCerts
    <3> QED
      BY <1>1, <1>4, <2>1, <2>2, <3>2, <3>3, Zenon DEF RecordedFirst
  <2>4. \A j \in Before(i) : IsWrite(todo'[j], "certs", "cert") =>
          todo'[j].val = c /\ todo'[j].at = c.serial
    BY <1>5, <2>1, <2>2 DEF RecordedFirst
  <2>5. \/ MetaKept(c.serial)'
        \/ \E j \in Before(i) : /\ IsWrite(todo'[j], "certs", "meta") /\ todo'[j].must
                                /\ todo'[j].at = c.serial
    <3>1. IsWrite(w, "certs", "meta") => w.val \in IssuedMeta
      BY <1>1, Zenon DEF StepOK, StepType, IsWrite
    <3>2. MetaKept(c.serial) => MetaKept(c.serial)'
      BY <1>1, <2>1, <2>2, PopKeepsUnseen, Zenon
    <3>3. IsWrite(w, "certs", "meta") /\ Meta(c.serial)' = w.val => MetaKept(c.serial)'
      BY <3>1, NoFile DEF MetaKept, Readable
    <3>4. IsWrite(w, "certs", "meta") /\ w.must /\ w.at = c.serial => MetaKept(c.serial)'
      BY <3>3, LossIsSeen, Zenon DEF MetaKept, Pops, PopsCerts
    <3>5. ASSUME NEW j \in Before(i + 1), IsWrite(todo[j], "certs", "meta"), todo[j].must,
                 todo[j].at = c.serial, j # 1
          PROVE  /\ j - 1 \in Before(i)
                 /\ IsWrite(todo'[j - 1], "certs", "meta") /\ todo'[j - 1].must
                 /\ todo'[j - 1].at = c.serial
      BY <1>4, <3>5, Zenon
    <3> QED
      BY <1>1, <2>1, <2>2, <3>2, <3>4, <3>5, Zenon DEF RecordedFirst
  <2> QED
    BY <2>2, <2>3, <2>4, <2>5 DEF RecordedFirst, IsWrite, Before
<1>9. ASSUME IsReply(v, "revoked") PROVE FlaggedFirst(i, v.val[1], v.val[2])'
  <2>1. /\ FlaggedFirst(i + 1, v.val[1], v.val[2]) /\ op = "REVOKE_CERT"
        /\ op # "RESET_DEVICE" /\ v.val \in Serials \X Slots
    BY <1>2, <1>3, <1>9, Zenon DEF InOrder, StepOK, EndStep, IsReply
  <2>2. PICK n \in Serials, s \in Slots : n = v.val[1] /\ s = v.val[2]
    BY <2>1
  <2>3. IsWrite(w, "certs", "meta") /\ w.at = n =>
          w.val \in IssuedMeta /\ Grows(n, w.val) /\ "REVOKED" \in w.val.flags
    BY <1>1, <2>1, Zenon DEF StepOK, StepType, CertStep, IsWrite
  <2>4. Readable(Meta(n)) =>
          \/ Meta(n)' = Meta(n)
          \/ IsWrite(w, "certs", "meta") /\ w.at = n /\ Meta(n)' = w.val
    BY <2>1, Zenon DEF Pops, PopsCerts
  <2>5. Acknowledged(n, s) => Acknowledged(n, s)'
    BY <1>1, <2>1, PopKeepsUnseen, Zenon
  <2>6. Readable(Meta(n)) /\ Meta(n).issuer_slot = s =>
          Readable(Meta(n))' /\ Meta(n)'.issuer_slot = s
    BY <2>3, <2>4, NoFile DEF Grows, Readable
  <2>7. ASSUME Readable(Meta(n)), Meta(n).issuer_slot = s,
               IsWrite(w, "certs", "meta"), w.must, w.at = n
        PROVE  Acknowledged(n, s)'
    <3>1. Meta(n)' = w.val \/ <<op, n, "meta">> \in unseen'
      BY <2>7, Zenon DEF Pops, PopsCerts
    <3>2. Meta(n)' = w.val => "REVOKED" \in Meta(n)'.flags
      BY <2>3, <2>7
    <3>3. Readable(Meta(n))' /\ Meta(n)'.issuer_slot = s
      BY <2>6, <2>7
    <3> QED
      BY <2>1, <3>1, <3>2, <3>3, Zenon DEF Acknowledged
  <2>8. CASE Acknowledged(n, s)
    BY <2>2, <2>5, <2>8, Zenon DEF FlaggedFirst
  <2>9. ASSUME Readable(Meta(n)), Meta(n).issuer_slot = s, NEW j \in Before(i + 1),
               IsWrite(todo[j], "certs", "meta"), todo[j].must, todo[j].at = n
        PROVE  FlaggedFirst(i, n, s)'
    <3>1. CASE j = 1
      BY <1>1, <2>7, <2>9, <3>1, Zenon DEF FlaggedFirst
    <3>2. CASE j # 1
      BY <1>4, <2>6, <2>9, <3>2, Zenon DEF FlaggedFirst, IsWrite, Before
    <3> QED
      BY <3>1, <3>2
  <2> QED
    BY <2>1, <2>2, <2>8, <2>9, Zenon DEF FlaggedFirst
<1>10. ASSUME Forgets(v) PROVE KeysGoFirst(i)'
  <2>1. KeysGoFirst(i + 1)
    BY <1>2, <1>3, <1>10 DEF InOrder
  <2>2. CASE \A s \in Slots : slots[s].key \notin doomed
    BY <2>2 DEF KeysGoFirst, Pops, PopsSlots
  <2>3. ASSUME NEW j \in Before(i + 1), IsRemoval(todo[j], "keys"), todo[j].at = Slots
        PROVE  KeysGoFirst(i)'
    <3>1. CASE j = 1
      BY <1>1, <2>3, <3>1, Zenon DEF KeysGoFirst, Pops, PopsSlots
    <3>2. CASE j # 1
      BY <1>4, <2>3, <3>2, Zenon DEF KeysGoFirst, IsRemoval, Before
    <3> QED
      BY <3>1, <3>2
  <2> QED
    BY <2>1, <2>2, <2>3 DEF KeysGoFirst
<1> QED
  BY <1>2, <1>7, <1>8, <1>9, <1>10, Zenon DEF InOrder, IsReply, Forgets

\* A certificate that would leave with an error still has no meta.bin.
LEMMA PopKeepsSigning ==
  ASSUME CInv, NEW w, Pops(w)
  PROVE  Signing'
<1> SUFFICES ASSUME op' = "SIGN_CSR", Len(todo') > 0 PROVE Signing'
  BY DEF Signing
<1>1. /\ Len(todo) \in Nat \ {0} /\ Len(todo') = Len(todo) - 1 /\ w = todo[1]
      /\ \A i \in 1..Len(todo') : todo'[i] = todo[i + 1] /\ i + 1 \in 1..Len(todo)
      /\ op = "SIGN_CSR" /\ nserials' = nserials
  BY PopFacts DEF CInv, Types, Pops, PopsList
<1>2. PICK c : c = todo[Len(todo)].val
  OBVIOUS
<1>3. /\ todo[Len(todo)].do = "reply" /\ c \in Certs /\ c.serial \in 1..nserials
      /\ w.do # "reply" => ~Readable(Meta(c.serial))
      /\ \A i \in 1..Len(todo) : IsWrite(todo[i], "certs", "meta") => i + 1 = Len(todo)
  BY <1>1, <1>2 DEF CInv, Signing
<1>4. /\ Len(todo') \in 1..Len(todo') /\ 1 \in 1..Len(todo') /\ 1 \in 1..Len(todo)
      /\ todo'[Len(todo')] = todo[Len(todo)]
  BY <1>1
<1>5. ASSUME todo'[1].do # "reply" PROVE ~Readable(Meta(c.serial))'
  <2>1. c.serial \in Serials
    BY <1>3, Bounds DEF Serials, CInv, Types, Counters
  <2>2. Len(todo') # 1
    BY <1>3, <1>4, <1>5
  <2>3. ~ IsWrite(w, "certs", "meta")
    BY <1>1, <1>3, <1>4, <2>2
  <2>4. w.do # "reply"
    BY <1>1, <1>4, HeadOK DEF InOrder, Placed
  <2> QED
    BY <1>3, <2>1, <2>3, <2>4 DEF Pops, PopsCerts, Readable
<1>6. \A i \in 1..Len(todo') : IsWrite(todo'[i], "certs", "meta") => i + 1 = Len(todo')
  BY <1>1, <1>3
<1> QED
  BY <1>1, <1>2, <1>3, <1>4, <1>5, <1>6 DEF Signing, IsWrite

\* Carrying out the first operation on the list keeps CInv.
LEMMA PopKeeps ==
  ASSUME CInv, Types', NEW w, Pops(w)
  PROVE  CInv'
<1>1. Plan'
  BY PopKeepsSteps, PopKeepsOrder DEF Plan
<1> QED
  BY <1>1, PopKeepsTold, PopKeepsKeys, PopKeepsBooting, PopKeepsSigning DEF CInv

-----------------------------------------------------------------------------
(* What the operations do to the files.                                    *)

\* Some files under at are gone.
Cut(old, new, D, F, at) ==
  /\ Tree(new, D, F)
  /\ \A d \in D, f \in F : \/ new[d][f] = old[d][f]
                           \/ d \in at /\ new[d][f] = None

\* A recursive removal, finished or not, takes files away and changes none; the
\* directories it is done with are empty.
LEMMA UnlinkedCuts ==
  ASSUME NEW D, NEW F, NEW dirs, Tree(dirs, D, F), NEW at, NEW order, NEW last, NEW k
  PROVE  /\ Cut(dirs, Unlinked(dirs, at, order, last, k), D, F, at)
         /\ \A d \in D, f \in F :
              d \in at /\ d < last /\ ~ (d > last)
                => Unlinked(dirs, at, order, last, k)[d][f] = None
<1> DEFINE u == Unlinked(dirs, at, order, last, k)
<1>1. /\ DOMAIN dirs = D /\ \A d \in D : DOMAIN dirs[d] = F
  BY DEF Tree
<1>2. u = [d \in D |-> IF d \notin at \/ d > last THEN dirs[d]
                       ELSE [f \in F |-> IF d < last \/ \E j \in 1..k : order[j] = f
                                         THEN None ELSE dirs[d][f]]]
  BY <1>1 DEF Unlinked
<1> HIDE DEF u
<1>3. Tree(u, D, F)
  BY <1>2 DEF Tree
<1> QED
  BY <1>2, <1>3 DEF Cut, u

\* So does one that fails at a file.
LEMMA SparedCuts ==
  ASSUME NEW D, NEW F, NEW dirs, Tree(dirs, D, F), NEW at, NEW new \in Spared(dirs, at)
  PROVE  Cut(dirs, new, D, F, at)
<1>1. CASE new = dirs
  BY <1>1 DEF Cut
<1>2. ASSUME NEW kept \in at, NEW file \in Files,
             new = [d \in DOMAIN dirs |->
                      IF d \notin at THEN dirs[d]
                      ELSE [f \in DOMAIN dirs[d] |->
                              IF d = kept /\ f = file THEN dirs[d][f] ELSE None]]
      PROVE  Cut(dirs, new, D, F, at)
  <2>1. /\ DOMAIN dirs = D /\ \A d \in D : DOMAIN dirs[d] = F
    BY DEF Tree
  <2>2. Tree(new, D, F)
    BY <1>2, <2>1 DEF Tree
  <2> QED
    BY <1>2, <2>1, <2>2 DEF Cut
<1> QED
  BY <1>1, <1>2 DEF Spared

\* One file is written.
Put1(old, new, D, F, d, f, v) ==
  /\ Tree(new, D, F)
  /\ new[d][f] = v
  /\ \A e \in D, g \in F : e # d \/ g # f => new[e][g] = old[e][g]

\* A write changes one file.
LEMMA WritePuts ==
  ASSUME NEW D, NEW F, NEW dirs, Tree(dirs, D, F), NEW d \in D, NEW f \in F, NEW v
  PROVE  Put1(dirs, [dirs EXCEPT ![d][f] = v], D, F, d, f, v)
<1> DEFINE new == [dirs EXCEPT ![d][f] = v]
<1>1. new = [e \in D |-> IF e = d THEN [dirs[d] EXCEPT ![f] = v] ELSE dirs[e]]
  BY DEF Tree
<1> HIDE DEF new
<1>2. new[d] = [g \in F |-> IF g = f THEN v ELSE dirs[d][g]]
  BY <1>1 DEF Tree
<1>3. \A e \in D : e # d => new[e] = dirs[e]
  BY <1>1
<1>4. Tree(new, D, F)
  BY <1>1, <1>2, <1>3 DEF Tree
<1> QED
  BY <1>2, <1>3, <1>4 DEF Put1, new

\* What a write leaves that is not committed.
Leaves(old, new, D, F, w) ==
  \/ new = old
  \/ w.at \in D /\ w.file \in F /\ old[w.at][w.file] = None /\ Put1(old, new, D, F, w.at, w.file, Empty)

\* A file that was there is kept, a new one is empty.
LEMMA TornLeaves ==
  ASSUME NEW D, NEW F, NEW dirs, Tree(dirs, D, F), NEW w, w.at \in D, w.file \in F
  PROVE  /\ Leaves(dirs, Torn(dirs, w), D, F, w)
         /\ Torn(dirs, w)[w.at][w.file] # None
<1>1. CASE dirs[w.at][w.file] = None
  <2>1. Torn(dirs, w) = [dirs EXCEPT ![w.at][w.file] = Empty]
    BY <1>1 DEF Torn
  <2>2. PICK d \in D, f \in F : d = w.at /\ f = w.file
    OBVIOUS
  <2>3. Put1(dirs, [dirs EXCEPT ![d][f] = Empty], D, F, d, f, Empty)
    BY WritePuts
  <2> QED
    BY <1>1, <2>1, <2>2, <2>3, NoFile DEF Leaves, Put1
<1>2. CASE dirs[w.at][w.file] # None
  BY <1>2 DEF Torn, Leaves
<1> QED
  BY <1>1, <1>2

\* A file that is written, or created and left empty, is of its type, and so is
\* what a removal leaves.
LEMMA SlotsTyped ==
  ASSUME Types,
         \/ slots' = slots
         \/ \E at : Cut(slots, slots', Slots, Files, at)
         \/ \E s \in Slots, f \in Files : \E v :
              SlotFile(f, v) /\ Put1(slots, slots', Slots, Files, s, f, v)
  PROVE  Tree(slots', Slots, Files) /\ TypedSlots'
<1>1. CASE slots' = slots
  BY <1>1 DEF Types, Shape, TypedSlots
<1>2. ASSUME NEW at, Cut(slots, slots', Slots, Files, at)
      PROVE  Tree(slots', Slots, Files) /\ TypedSlots'
  <2>1. \A f \in Files : SlotFile(f, None)
    BY DEF SlotFile
  <2> QED
    BY <1>2, <2>1 DEF Types, TypedSlots, Cut
<1>3. ASSUME NEW s \in Slots, NEW f \in Files, NEW v, SlotFile(f, v),
             Put1(slots, slots', Slots, Files, s, f, v)
      PROVE  Tree(slots', Slots, Files) /\ TypedSlots'
  BY <1>3 DEF Types, TypedSlots, Put1
<1> QED
  BY <1>1, <1>2, <1>3

\* The same for the records.
LEMMA CertsTyped ==
  ASSUME Types,
         \/ certs' = certs
         \/ \E at : Cut(certs, certs', Serials, CertFiles, at)
         \/ \E n \in Serials, f \in CertFiles : \E v :
              CertFile(f, v) /\ Put1(certs, certs', Serials, CertFiles, n, f, v)
  PROVE  Tree(certs', Serials, CertFiles) /\ TypedCerts'
<1>1. CASE certs' = certs
  BY <1>1 DEF Types, Shape, TypedCerts
<1>2. ASSUME NEW at, Cut(certs, certs', Serials, CertFiles, at)
      PROVE  Tree(certs', Serials, CertFiles) /\ TypedCerts'
  <2>1. \A f \in CertFiles : CertFile(f, None)
    BY DEF CertFile
  <2> QED
    BY <1>2, <2>1 DEF Types, TypedCerts, Cut
<1>3. ASSUME NEW n \in Serials, NEW f \in CertFiles, NEW v, CertFile(f, v),
             Put1(certs, certs', Serials, CertFiles, n, f, v)
      PROVE  Tree(certs', Serials, CertFiles) /\ TypedCerts'
  BY <1>3 DEF Types, TypedCerts, Put1
<1> QED
  BY <1>1, <1>2, <1>3

\* The head of the list is there.
LEMMA HeadIs ==
  ASSUME CInv, todo # <<>>
  PROVE  /\ Head(todo) = todo[1] /\ 1 \in 1..Len(todo) /\ StepOK(todo[1]) /\ InOrder(1)
         /\ todo' = Tail(todo) => Len(todo') \in Nat /\ todo' = [i \in 1..Len(todo') |-> todo'[i]]
<1> DEFINE T == {todo[i] : i \in 1..Len(todo)}
<1>1. todo \in Seq(T)
  BY DEF CInv, Types, Shape
<1> HIDE DEF T
<1>2. Head(todo) = todo[1] /\ 1 \in 1..Len(todo)
  BY <1>1
<1>3. ASSUME todo' = Tail(todo)
      PROVE  Len(todo') \in Nat /\ todo' = [i \in 1..Len(todo') |-> todo'[i]]
  <2>1. todo' \in Seq(T)
    BY <1>1, <1>3
  <2> QED
    BY <2>1
<1> QED
  BY <1>2, <1>3 DEF CInv, Plan

\* No key is lost, but on purpose.
LossOK == \A s \in Slots : Lost(s) => OnPurpose(s)

\* A write that succeeds.
LEMMA WriteKeeps ==
  ASSUME CInv, Write
  PROVE  CInv' /\ LossOK
<1>1. PICK w : w = Head(todo)
  OBVIOUS
<1>2. /\ todo # <<>> /\ w = todo[1] /\ StepOK(w) /\ w.do = "write" /\ todo' = Tail(todo)
      /\ Len(todo') \in Nat /\ todo' = [i \in 1..Len(todo') |-> todo'[i]]
  BY <1>1, HeadIs DEF Write
<1>3. /\ slots' = IF w.dir = "keys" THEN [slots EXCEPT ![w.at][w.file] = w.val] ELSE slots
      /\ certs' = IF w.dir = "certs" THEN [certs EXCEPT ![w.at][w.file] = w.val] ELSE certs
      /\ unseen' = IF w.dir = "certs" THEN unseen \ {<<op, w.at, w.file>>} ELSE unseen
      /\ UNCHANGED <<op, nkeys, nserials, ncommands, nfaults, given, refused, acked, doomed>>
  BY <1>1 DEF Write, bounds, minted, told, Path
<1>4. /\ w.dir = "config" => w.val \in BOOLEAN /\ seq_set' = w.val
      /\ w.dir # "config" => seq_set' = seq_set
      /\ seq_set' \in BOOLEAN /\ provisioned' \in BOOLEAN
  <2>1. seq_set \in BOOLEAN /\ provisioned \in BOOLEAN /\ provisioned' = provisioned
    BY DEF CInv, Types, Counters, Write
  <2>2. w.dir = "config" => w.val \in BOOLEAN
    BY <1>2 DEF StepOK, StepType
  <2>3. seq_set' = IF w.dir = "config" THEN w.val ELSE seq_set
    BY <1>1, Zenon DEF Write
  <2> QED
    BY <2>1, <2>2, <2>3, Zenon
<1>5. Counters'
  BY <1>3, <1>4 DEF CInv, Types, Counters
<1>6. PopsList(w)
  BY <1>2, <1>3 DEF PopsList
<1>7. seq_set' = seq_set \/ (w.do = "write" /\ w.dir = "config" /\ seq_set' = w.val)
  BY <1>2, <1>4, Zenon
<1>8. Tree(slots, Slots, Files) /\ Tree(certs, Serials, CertFiles) /\ doomed \subseteq Keys
  BY DEF CInv, Types, Shape, Counters
<1>9. CASE w.dir = "keys"
  <2>1. /\ w.at \in Slots /\ w.file \in Files /\ SlotFile(w.file, w.val)
        /\ slots' = [slots EXCEPT ![w.at][w.file] = w.val] /\ certs' = certs
    BY <1>2, <1>3, <1>9 DEF StepOK, StepType
  <2>2. Put1(slots, slots', Slots, Files, w.at, w.file, w.val)
    BY <1>8, <2>1, WritePuts, Zenon
  <2>3. Types'
    BY <1>2, <1>5, <2>1, <2>2, SlotsTyped, CertsTyped, Zenon DEF CInv, Types, Shape
  <2>4. \A s \in Slots :
          \/ slots'[s].key = slots[s].key
          \/ s = w.at /\ IsWrite(w, "keys", "key") /\ slots'[s].key = w.val
    BY <1>2, <1>9, <2>1, <2>2, Zenon DEF Put1, IsWrite, Files
  <2>5. \A s \in Slots : slots'[s].meta = slots[s].meta \/ IsWrite(w, "keys", "meta")
    BY <1>2, <1>9, <2>1, <2>2, Zenon DEF Put1, IsWrite, Files
  <2>6. IsWrite(w, "keys", "key") =>
          /\ w.val \notin doomed /\ (w.val \in Keys => w.val <= nkeys)
          /\ slots[w.at].key = None \/ OnPurpose(w.at)
    BY <1>2, <1>8, Bounds DEF StepOK, KeyStep
  <2>7. PopsSlots(w)
    <3>1. \A s \in Slots : Protected(s)' => Protected(s) \/ IsWrite(w, "keys", "meta")
      BY <2>5 DEF Protected, Readable
    <3>2. ~ IsRemoval(w, "keys")
      BY <1>2 DEF IsRemoval
    <3>3. IsWrite(w, "keys", "cert") /\ w.val # None => slots'[w.at].cert # None
      BY <2>2 DEF Put1, IsWrite
    <3> QED
      BY <1>3, <1>7, <2>4, <2>6, <3>1, <3>2, <3>3 DEF PopsSlots
  <2>8. PopsCerts(w)
    BY <1>3, <1>9, <2>1 DEF PopsCerts, IsWrite, Meta
  <2>9. LossOK
    BY <2>4, <2>6, NoFile DEF LossOK, Lost, Live
  <2> QED
    BY <1>6, <2>3, <2>7, <2>8, <2>9, PopKeeps DEF Pops
<1>10. CASE w.dir = "certs"
  <2>1. /\ w.at \in Serials /\ w.file \in CertFiles /\ CertFile(w.file, w.val)
        /\ certs' = [certs EXCEPT ![w.at][w.file] = w.val] /\ slots' = slots
    BY <1>2, <1>3, <1>10 DEF StepOK, StepType, CertFile
  <2>2. Put1(certs, certs', Serials, CertFiles, w.at, w.file, w.val)
    BY <1>8, <2>1, WritePuts, Zenon
  <2>3. Types'
    BY <1>2, <1>5, <2>1, <2>2, SlotsTyped, CertsTyped, Zenon DEF CInv, Types, Shape
  <2>4. PopsSlots(w)
    BY <1>2, <1>3, <1>7, <1>10, <2>1 DEF PopsSlots, IsWrite, IsRemoval, Protected, Readable
  <2>5. PopsCerts(w)
    <3>1. \A n \in Serials :
            /\ certs'[n].cert = certs[n].cert \/ (w.file = "cert" /\ w.at = n /\ certs'[n].cert = w.val)
            /\ certs'[n].meta = certs[n].meta \/ (w.file = "meta" /\ w.at = n /\ certs'[n].meta = w.val)
      BY <2>1, <2>2, Zenon DEF Put1, CertFiles
    <3>2. certs'[w.at][w.file] = w.val /\ w.do = "write"
      BY <1>2, <2>2 DEF Put1
    <3>3. \A x \in unseen : x \in unseen' \/ x = <<op, w.at, w.file>>
      BY <1>3, <1>10
    <3> QED
      BY <1>10, <3>1, <3>2, <3>3, Zenon DEF PopsCerts, IsWrite, Meta
  <2>6. LossOK
    BY <2>1 DEF LossOK, Lost
  <2> QED
    BY <1>6, <2>3, <2>4, <2>5, <2>6, PopKeeps DEF Pops
<1>11. CASE w.dir = "config"
  <2>1. slots' = slots /\ certs' = certs
    BY <1>3, <1>11
  <2>2. Types'
    BY <1>2, <1>5, <2>1, SlotsTyped, CertsTyped DEF CInv, Types, Shape
  <2>3. PopsSlots(w)
    BY <1>2, <1>3, <1>7, <1>11, <2>1 DEF PopsSlots, IsWrite, IsRemoval, Protected, Readable
  <2>4. PopsCerts(w)
    BY <1>3, <1>11, <2>1 DEF PopsCerts, IsWrite, Meta
  <2>5. LossOK
    BY <2>1 DEF LossOK, Lost
  <2> QED
    BY <1>6, <2>2, <2>3, <2>4, <2>5, PopKeeps DEF Pops
<1> QED
  BY <1>2, <1>9, <1>10, <1>11 DEF StepOK, StepType

\* What is left of the files when the operation w is not carried out, or is a
\* removal that may have stopped at any file.
Scraps(w) ==
  /\ \/ slots' = slots
     \/ IsRemoval(w, "keys") /\ Cut(slots, slots', Slots, Files, w.at)
     \/ w.do = "write" /\ w.dir = "keys" /\ Leaves(slots, slots', Slots, Files, w)
  /\ \/ certs' = certs
     \/ IsRemoval(w, "certs") /\ Cut(certs, certs', Serials, CertFiles, w.at)
     \/ w.do = "write" /\ w.dir = "certs" /\ Leaves(certs, certs', Serials, CertFiles, w)

\* They are of their types, keys are gone on purpose, and records in a wipe only.
LEMMA ScrapsFacts ==
  ASSUME CInv, NEW w, StepOK(w), Scraps(w)
  PROVE  /\ Tree(slots', Slots, Files) /\ TypedSlots'
         /\ Tree(certs', Serials, CertFiles) /\ TypedCerts'
         /\ \A s \in Slots : \/ slots'[s].key = slots[s].key
                             \/ /\ slots'[s].key \in {None, Empty}
                                /\ slots[s].key = None \/ OnPurpose(s)
         /\ \A s \in Slots : slots'[s].meta = slots[s].meta \/ slots'[s].meta \in {None, Empty}
         /\ \A n \in Serials : \/ certs'[n].cert = certs[n].cert
                               \/ op = "RESET_DEVICE"
                               \/ /\ IsWrite(w, "certs", "cert") /\ w.at = n
                                  /\ certs[n].cert = None
         /\ \A n \in Serials : \/ Meta(n)' = Meta(n)
                               \/ /\ ~ Readable(Meta(n))'
                                  /\ op = "RESET_DEVICE" \/ ~ Readable(Meta(n))
         /\ LossOK
<1>1. Types
  BY DEF CInv
<1>2. \A f : SlotFile(f, Empty) /\ CertFile(f, Empty)
  BY DEF SlotFile, CertFile
<1>3. Tree(slots', Slots, Files) /\ TypedSlots'
  BY <1>1, <1>2, SlotsTyped, Zenon DEF Scraps, Leaves
<1>4. Tree(certs', Serials, CertFiles) /\ TypedCerts'
  BY <1>1, <1>2, CertsTyped, Zenon DEF Scraps, Leaves
<1>5. "key" \in Files /\ "meta" \in Files /\ "cert" \in CertFiles /\ "meta" \in CertFiles
  BY DEF Files, CertFiles
<1>6. IsRemoval(w, "keys") => \A s \in w.at : OnPurpose(s)
  BY DEF StepOK, KeyStep
<1>7. \A s \in Slots : \/ slots'[s].key = slots[s].key
                       \/ /\ slots'[s].key \in {None, Empty}
                          /\ slots[s].key = None \/ OnPurpose(s)
  BY <1>5, <1>6, Zenon DEF Scraps, Leaves, Cut, Put1
<1>8. \A s \in Slots : slots'[s].meta = slots[s].meta \/ slots'[s].meta \in {None, Empty}
  BY <1>5, Zenon DEF Scraps, Leaves, Cut, Put1
<1>9. IsRemoval(w, "certs") => op = "RESET_DEVICE"
  BY DEF StepOK, CertStep
<1>10. \A n \in Serials : \/ certs'[n].cert = certs[n].cert
                          \/ op = "RESET_DEVICE"
                          \/ IsWrite(w, "certs", "cert") /\ w.at = n /\ certs[n].cert = None
  BY <1>5, <1>9, Zenon DEF Scraps, Leaves, Cut, Put1, IsWrite
<1>11. \A n \in Serials : \/ Meta(n)' = Meta(n)
                          \/ /\ Meta(n)' \in {None, Empty}
                             /\ op = "RESET_DEVICE" \/ Meta(n) = None
  BY <1>5, <1>9, Zenon DEF Scraps, Leaves, Cut, Put1, Meta
<1>12. \A n \in Serials : \/ Meta(n)' = Meta(n)
                          \/ ~ Readable(Meta(n))' /\ (op = "RESET_DEVICE" \/ ~ Readable(Meta(n)))
  BY <1>11, Zenon DEF Readable
<1>13. LossOK
  BY <1>7, NoFile, Zenon DEF LossOK, Lost, Live
<1> QED
  BY <1>3, <1>4, <1>7, <1>8, <1>10, <1>12, <1>13

\* An operation that is skipped or cut short is one less to do.  One that must be
\* is not skipped, unless it is noted as lost.
LEMMA ScrapsPop ==
  ASSUME CInv, NEW w, StepOK(w), Scraps(w), PopsList(w), Counters',
         Len(todo') \in Nat, todo' = [i \in 1..Len(todo') |-> todo'[i]],
         seq_set' = seq_set, doomed' \subseteq doomed, unseen \subseteq unseen',
         IsRemoval(w, "keys") /\ w.at = Slots => \A s \in Slots : slots'[s].key \notin doomed',
         w.must => /\ IsWrite(w, "keys", "cert") => slots'[w.at].cert # None
                   /\ w.do = "write" /\ w.dir = "certs" => <<op, w.at, w.file>> \in unseen'
  PROVE  CInv' /\ LossOK
<1>1. Types'
  BY ScrapsFacts DEF Types, Shape
<1>2. None \notin doomed' /\ Empty \notin doomed' /\ None \notin Keys /\ Empty \notin Keys
  BY NoFile DEF CInv, Types, Counters
<1>3. PopsSlots(w)
  <2>1. \A s \in Slots : Protected(s)' => Protected(s)
    BY ScrapsFacts DEF Protected, Readable
  <2>2. \A s \in Slots : \/ slots'[s].key = slots[s].key
                         \/ /\ slots'[s].key \notin doomed'
                            /\ slots'[s].key \in Keys => slots'[s].key <= nkeys
    BY <1>2, ScrapsFacts
  <2> QED
    BY <2>1, <2>2, Zenon DEF PopsSlots
<1>4. PopsCerts(w)
  BY ScrapsFacts, Zenon DEF PopsCerts, IsWrite
<1> QED
  BY <1>1, <1>3, <1>4, ScrapsFacts, PopKeeps DEF Pops

\* A recursive removal that succeeds.
LEMMA RemovalKeeps ==
  ASSUME CInv, rm_rf
  PROVE  CInv' /\ LossOK
<1>1. PICK w : w = Head(todo)
  OBVIOUS
<1>2. /\ todo # <<>> /\ w = todo[1] /\ StepOK(w) /\ w.do = "rm_rf" /\ todo' = Tail(todo)
      /\ Len(todo') \in Nat /\ todo' = [i \in 1..Len(todo') |-> todo'[i]]
  BY <1>1, HeadIs DEF rm_rf
<1>3. rm_rf_part(w, IF w.dir = "keys" THEN MAX_KEY_SLOTS ELSE MaxSerials + 1, 0)
  BY <1>1 DEF rm_rf
<1>4. /\ UNCHANGED <<op, nkeys, nserials, ncommands, nfaults, given, refused, acked, unseen, doomed>>
      /\ seq_set' = seq_set /\ provisioned' = provisioned
  BY DEF rm_rf, bounds, minted, told
<1>5. Counters'
  <2>1. {seq_set', provisioned'} \subseteq BOOLEAN
    BY <1>4 DEF CInv, Types, Counters
  <2> QED
    BY <1>4, <2>1 DEF CInv, Types, Counters
<1>6. PopsList(w)
  BY <1>2, <1>4 DEF PopsList
<1>7. Tree(slots, Slots, Files) /\ Tree(certs, Serials, CertFiles) /\ doomed \subseteq Keys
  BY DEF CInv, Types, Shape, Counters
<1>8. slots' = slots \/ (w.dir = "keys" /\ Cut(slots, slots', Slots, Files, w.at))
  BY <1>3, <1>7, UnlinkedCuts DEF rm_rf_part
<1>9. certs' = certs \/ (w.dir = "certs" /\ Cut(certs, certs', Serials, CertFiles, w.at))
  BY <1>3, <1>7, UnlinkedCuts DEF rm_rf_part
<1>10. ASSUME IsRemoval(w, "keys"), w.at = Slots, NEW s \in Slots
       PROVE  slots'[s].key \notin doomed'
  <2>1. s < MAX_KEY_SLOTS /\ ~(s > MAX_KEY_SLOTS)
    BY Bounds DEF Slots
  <2>2. slots' = Unlinked(slots, Slots, SlotOrder, MAX_KEY_SLOTS, 0)
    BY <1>3, <1>10 DEF rm_rf_part, IsRemoval
  <2>3. slots'[s].key = None
    BY <1>7, <2>1, <2>2, UnlinkedCuts DEF Files
  <2> QED
    BY <1>4, <1>7, <2>3, NoFile
<1>11. Scraps(w)
  BY <1>2, <1>8, <1>9, Zenon DEF Scraps, IsRemoval
<1>12. ~ (w.do = "write") /\ ~ IsWrite(w, "keys", "cert")
  BY <1>2 DEF IsWrite
<1> QED
  BY <1>2, <1>4, <1>5, <1>6, <1>10, <1>11, <1>12, ScrapsPop, Zenon

\* The reply, which makes a certificate or a revocation known to the host.
LEMMA DoneKeeps ==
  ASSUME CInv, Done
  PROVE  CInv' /\ LossOK
<1>1. PICK w : w = Head(todo)
  OBVIOUS
<1>2. /\ todo # <<>> /\ w = todo[1] /\ StepOK(w) /\ w.do = "reply" /\ todo' = Tail(todo)
      /\ Len(todo') \in Nat /\ todo' = [i \in 1..Len(todo') |-> todo'[i]]
  BY <1>1, HeadIs DEF Done
<1>3. /\ given' = IF w.file = "cert" THEN given \cup {w.val} ELSE given
      /\ acked' = IF w.file = "revoked" THEN acked \cup {w.val} ELSE acked
      /\ UNCHANGED <<slots, certs, op, nkeys, nserials, ncommands, nfaults, refused, unseen, doomed>>
      /\ seq_set' = seq_set
  BY <1>1 DEF Done, files, bounds, minted
<1>4. PopsList(w)
  BY <1>2, <1>3 DEF PopsList, IsReply
<1>5. Counters'
  <2>1. provisioned' \in BOOLEAN
    <3>1. provisioned' = (provisioned \/ w.file = "provisioned")
      BY <1>1, Zenon DEF Done
    <3> QED
      BY <3>1, Zenon
  <2>2. {seq_set', provisioned'} \subseteq BOOLEAN
    BY <1>3, <2>1 DEF CInv, Types, Counters
  <2>3. given' \subseteq Certs /\ refused' \subseteq given' /\ acked' \subseteq Serials \X Slots
    BY <1>2, <1>3 DEF CInv, Types, Counters, StepOK, EndStep, IsReply
  <2> QED
    BY <1>3, <2>2, <2>3 DEF CInv, Types, Counters
<1>6. Types'
  BY <1>2, <1>3, <1>5, SlotsTyped, CertsTyped DEF CInv, Types, Shape
<1>7. PopsSlots(w) /\ PopsCerts(w)
  BY <1>2, <1>3 DEF PopsSlots, PopsCerts, IsWrite, IsRemoval, Protected, Readable, Meta
<1> QED
  BY <1>3, <1>4, <1>6, <1>7, PopKeeps DEF Pops, LossOK, Lost

-----------------------------------------------------------------------------
(* Giving up the list: a failed write, the end of a handler, a restart.    *)

Drops ==
  /\ UNCHANGED <<nkeys, nserials, acked, unseen>> /\ seq_set' = seq_set /\ doomed' \subseteq doomed
  /\ op' # "RESET_DEVICE"
  /\ \E sent : /\ given' = given \cup sent /\ refused' = refused \cup sent
               /\ \A c \in sent : c.serial \in 1..nserials /\ ~ Readable(Meta(c.serial))'
  /\ \A s \in Slots : slots'[s].key = slots[s].key \/ slots'[s].key \notin Keys
  /\ \A n \in Serials :
       /\ \/ certs'[n].cert = certs[n].cert
          \/ op = "RESET_DEVICE" \/ certs[n].cert = None
       /\ \/ Meta(n)' = Meta(n)
          \/ ~ Readable(Meta(n))' /\ (op = "RESET_DEVICE" \/ ~ Readable(Meta(n)))

\* Nothing goes out with a list that is given up, but for a failed write's error.
LEMMA NothingSent ==
  ASSUME given' = given, refused' = refused
  PROVE  \E sent : /\ given' = given \cup sent /\ refused' = refused \cup sent
                  /\ \A c \in sent : c.serial \in 1..nserials /\ ~ Readable(Meta(c.serial))'
<1>1. PICK none : none = {}
  OBVIOUS
<1>2. /\ given' = given \cup none /\ refused' = refused \cup none
      /\ \A c \in none : c.serial \in 1..nserials /\ ~ Readable(Meta(c.serial))'
  BY <1>1
<1> QED
  BY <1>2, Zenon

\* Giving up the list keeps what is on flash and what the host was told.
LEMMA DropKeeps ==
  ASSUME CInv, Drops, Types', Plan', Booting', Signing'
  PROVE  CInv'
<1>1. Fresh'
  BY Zenon DEF CInv, Fresh, Drops
<1>2. WipeTakesKeysFirst'
  <2>1. seq_set' = seq_set /\ \A s \in Slots : slots[s].key \notin doomed => slots'[s].key \notin doomed'
    BY Zenon DEF Drops, CInv, Types, Counters
  <2> QED
    BY <2>1, Zenon DEF CInv, WipeTakesKeysFirst
<1>3. /\ acked' = acked /\ unseen' = unseen /\ nserials' = nserials /\ nserials \in 0..MaxSerials
      /\ given \subseteq Certs /\ refused \subseteq given /\ acked \subseteq Serials \X Slots
      /\ op = "RESET_DEVICE" => given = {} /\ acked = {}
  BY DEF CInv, Types, Counters, Told, Drops
<1>4. PICK sent : /\ given' = given \cup sent /\ refused' = refused \cup sent
                  /\ \A c \in sent : c.serial \in 1..nserials /\ ~ Readable(Meta(c.serial))'
  BY Zenon DEF Drops
<1>5. \A c \in given : c.serial \in Serials /\ c.serial \in 1..nserials /\ c # None /\ op # "RESET_DEVICE"
  BY <1>3, NoFile, Bounds DEF CInv, Told, Serials
<1>6. \A c \in given' : c.serial \in 1..nserials' /\ (c \in refused' \/ OnRecord(c)')
  <2>1. ASSUME NEW c \in given, OnRecord(c) PROVE OnRecord(c)'
    <3>1. CertKept(c)'
      BY <1>3, <1>5, <2>1, Zenon DEF Drops, OnRecord, CertKept, UnseenLoss
    <3>2. MetaKept(c.serial)'
      BY <1>3, <1>5, <2>1, Zenon DEF Drops, OnRecord, MetaKept, UnseenLoss
    <3> QED
      BY <3>1, <3>2 DEF OnRecord
  <2>2. \A c \in given : c \in refused \/ OnRecord(c)
    BY DEF CInv, Told
  <2> QED
    BY <1>3, <1>4, <1>5, <2>1, <2>2, Zenon
<1>7. \A c \in refused' : ~ Readable(Meta(c.serial))'
  <2>1. \A c \in refused : ~ Readable(Meta(c.serial)) /\ c.serial \in Serials
    BY <1>3, <1>5, Zenon DEF CInv, Told
  <2>2. \A n \in Serials : ~ Readable(Meta(n)) => ~ Readable(Meta(n))'
    BY Zenon DEF Drops, Readable
  <2> QED
    BY <1>4, <2>1, <2>2, Zenon
<1>8. \A a \in acked' : Acknowledged(a[1], a[2])'
  <2> SUFFICES ASSUME NEW a \in acked PROVE Acknowledged(a[1], a[2])'
    BY <1>3
  <2>1. a[1] \in Serials /\ Acknowledged(a[1], a[2]) /\ op # "RESET_DEVICE"
    BY <1>3 DEF CInv, Told
  <2> QED
    BY <1>3, <2>1, Zenon DEF Drops, Acknowledged
<1>9. \A n \in Serials : n > nserials' => ~Readable(Meta(n))'
  BY <1>3, Zenon DEF CInv, Told, Drops, Readable
<1> QED
  BY <1>1, <1>2, <1>6, <1>7, <1>8, <1>9, Zenon DEF CInv, Told, Drops

\* A list that is empty.
LEMMA EmptyPlan ==
  ASSUME todo' = <<>>, op' # "BOOT"
  PROVE  /\ Plan' /\ Booting' /\ Signing'
         /\ Len(todo') \in Nat /\ todo' = [i \in 1..Len(todo') |-> todo'[i]]
<1>1. Len(todo') = 0 /\ 1..Len(todo') = {} /\ ~ (Len(todo') > 0)
  OBVIOUS
<1> QED
  BY <1>1, SMTT(30) DEF Plan, Booting, Signing

\* What ca_init leaves to do.
LEMMA BootPlan ==
  ASSUME ca_init(slots'), nserials \in 0..MaxSerials
  PROVE  /\ Plan' /\ Booting' /\ Signing' /\ provisioned' \in BOOLEAN /\ op' = "BOOT"
         /\ Len(todo') \in Nat /\ todo' = [i \in 1..Len(todo') |-> todo'[i]]
         /\ UNCHANGED <<nkeys, nserials, ncommands, given, refused, acked, unseen, doomed>>
<1>1. op' = "BOOT" /\ UNCHANGED <<nkeys, nserials, ncommands, given, refused, acked, unseen, doomed>>
  BY DEF ca_init, minted, told
<1>sign. Signing'
  BY <1>1 DEF Signing
<1>2. provisioned' \in BOOLEAN
  <2>1. provisioned' = Readable(slots'[CA_SLOT].key)
    BY Zenon DEF ca_init
  <2> QED
    BY <2>1, Zenon DEF Readable
<1> DEFINE missing == /\ Live(slots', CA_SLOT) /\ slots'[CA_SLOT].cert = None
                      /\ slots'[CA_SLOT].x509 = "params"
           cert == self_signed(slots'[CA_SLOT].key)
           w == Put("keys", CA_SLOT, "cert", cert)
<1>3. CASE ~ missing
  <2>1. todo' = <<>> /\ Len(todo') = 0 /\ 1..Len(todo') = {}
    BY <1>3 DEF ca_init
  <2> QED
    BY <1>1, <1>2, <1>3, <1>sign, <2>1 DEF Plan, Booting, Live
<1>4. CASE missing
  <2>1. todo' = <<w>> /\ Len(todo') = 1 /\ todo'[1] = w /\ 1..Len(todo') = {1}
    BY <1>4, SMTT(30) DEF ca_init
  <2>2. cert \in Certs
    <3>1. slots'[CA_SLOT].key \in Keys /\ 0 \in 0..MaxSerials
      BY <1>4, Bounds DEF Live
    <3> QED
      BY <3>1 DEF self_signed, Certs
  <2>3. /\ w.do = "write" /\ w.dir = "keys" /\ w.at = CA_SLOT /\ w.file = "cert"
        /\ w.val = cert /\ w.must
    BY DEF Put
  <2> HIDE DEF w, cert
  <2>4. StepOK(todo[1])'
    BY <2>1, <2>2, <2>3, Bounds, Zenon
    DEF StepOK, StepType, KeyStep, CertStep, EndStep, SlotFile, Files, IsWrite, IsRemoval,
        IsReply, Forgets
  <2>5. InOrder(1)'
    BY <2>1, <2>3, Zenon DEF InOrder, Placed, IsWrite, IsReply, Forgets
  <2>6. Plan'
    BY <2>1, <2>4, <2>5 DEF Plan
  <2>7. Booting'
    BY <2>1, <2>2, <2>3, Zenon DEF Booting, IsWrite
  <2> QED
    BY <1>1, <1>2, <1>sign, <2>1, <2>6, <2>7
<1> QED
  BY <1>3, <1>4

\* A write or a removal that littlefs refuses.
LEMMA FailsKeeps ==
  ASSUME CInv, Fails
  PROVE  CInv' /\ LossOK
<1>1. PICK w : w = Head(todo)
  OBVIOUS
<1>2. /\ todo # <<>> /\ w = todo[1] /\ StepOK(w) /\ w.do # "reply"
      /\ w.do = "write" \/ w.do = "rm_rf"
  BY <1>1, HeadIs, Zenon DEF Fails, StepOK, StepType
<1>3. /\ \/ /\ w.must /\ op' = "FAILED" /\ todo' = <<>>
            /\ \E sent \in Sent : given' = given \cup sent /\ refused' = refused \cup sent
         \/ ~w.must /\ todo' = Tail(todo) /\ op' = op /\ given' = given /\ refused' = refused
      /\ slots' \in Leftovers(slots, "keys", w) /\ certs' \in Leftovers(certs, "certs", w)
      /\ doomed' = IF op = "RESET_DEVICE" THEN {} ELSE doomed
      /\ UNCHANGED <<nkeys, nserials, ncommands, acked, unseen>>
      /\ seq_set' = seq_set /\ provisioned' = provisioned
      /\ nfaults' \in 0..MaxFaults /\ doomed' \subseteq doomed
  <2>1. nfaults' \in 0..MaxFaults
    BY Bounds DEF Fails, Fault, CInv, Types, Counters
  <2> QED
    BY <1>1, <2>1, Zenon DEF Fails, minted
<1>4. Scraps(w)
  <2>1. Tree(slots, Slots, Files) /\ Tree(certs, Serials, CertFiles)
    BY DEF CInv, Types, Shape
  <2>2. /\ w.do = "write" /\ w.dir = "keys" => w.at \in Slots /\ w.file \in Files
        /\ w.do = "write" /\ w.dir = "certs" => w.at \in Serials /\ w.file \in CertFiles
    BY <1>2 DEF StepOK, StepType
  <2>3. CASE w.do = "rm_rf"
    BY <1>3, <2>1, <2>3, SparedCuts DEF Scraps, IsRemoval, Leftovers
  <2>4. CASE w.do = "write"
    <3>1. slots' = slots \/ (w.dir = "keys" /\ slots' = Torn(slots, w))
      BY <1>3, <2>4 DEF Leftovers
    <3>2. certs' = certs \/ (w.dir = "certs" /\ certs' = Torn(certs, w))
      BY <1>3, <2>4 DEF Leftovers
    <3> QED
      BY <2>1, <2>2, <2>4, <3>1, <3>2, TornLeaves, Zenon DEF Scraps
  <2> QED
    BY <1>2, <2>3, <2>4
<1>5. CASE w.must /\ op' = "FAILED" /\ todo' = <<>>
  <2>1. /\ Plan' /\ Booting' /\ Signing'
        /\ Len(todo') \in Nat /\ todo' = [i \in 1..Len(todo') |-> todo'[i]]
    BY <1>5, EmptyPlan
  <2>2. PICK sent \in Sent : given' = given \cup sent /\ refused' = refused \cup sent
    BY <1>3, <1>5
  <2>3. \A n \in Serials : ~ Readable(Meta(n)) => ~ Readable(Meta(n))'
    BY <1>2, <1>4, ScrapsFacts, Zenon DEF Readable
  <2>4. \A c \in sent : /\ c \in Certs /\ c.serial \in 1..nserials
                        /\ ~ Readable(Meta(c.serial))'
    <3> SUFFICES ASSUME NEW c \in sent
                 PROVE  c \in Certs /\ c.serial \in 1..nserials /\ ~ Readable(Meta(c.serial))'
      OBVIOUS
    <3>1. op = "SIGN_CSR" /\ c = todo[Len(todo)].val
      BY <2>2 DEF Sent
    <3>2. Len(todo) > 0
      BY <1>2, HeadIs DEF CInv, Types, Shape
    <3>3. c \in Certs /\ c.serial \in 1..nserials /\ ~ Readable(Meta(c.serial))
      BY <1>2, <3>1, <3>2 DEF CInv, Signing
    <3>4. c.serial \in Serials
      BY <3>3, Bounds DEF Serials, CInv, Types, Counters
    <3> QED
      BY <2>3, <3>3, <3>4
  <2>5. Counters'
    <3>1. {seq_set', provisioned'} \subseteq BOOLEAN
      BY <1>3 DEF CInv, Types, Counters
    <3>2. given' \subseteq Certs /\ refused' \subseteq given'
      BY <2>2, <2>4 DEF CInv, Types, Counters
    <3> QED
      BY <1>3, <3>1, <3>2 DEF CInv, Types, Counters
  <2>6. Types'
    BY <1>2, <1>4, <2>1, <2>5, ScrapsFacts DEF Types, Shape
  <2>7. Drops
    <3>1. \A s \in Slots : slots'[s].key = slots[s].key \/ slots'[s].key \notin Keys
      BY <1>2, <1>4, ScrapsFacts, NoFile
    <3> QED
      BY <1>2, <1>3, <1>4, <1>5, <2>2, <2>4, <3>1, ScrapsFacts, Zenon DEF Drops
  <2> QED
    BY <1>2, <1>4, <2>1, <2>6, <2>7, ScrapsFacts, DropKeeps
<1>6. CASE ~w.must /\ todo' = Tail(todo) /\ op' = op /\ given' = given /\ refused' = refused
  <2>1. Len(todo') \in Nat /\ todo' = [i \in 1..Len(todo') |-> todo'[i]]
    BY <1>2, <1>6, HeadIs
  <2>2. PopsList(w)
    BY <1>2, <1>3, <1>6 DEF PopsList
  <2>3. Counters'
    <3>1. {seq_set', provisioned'} \subseteq BOOLEAN
      BY <1>3 DEF CInv, Types, Counters
    <3> QED
      BY <1>3, <1>6, <3>1 DEF CInv, Types, Counters
  <2>4. IsRemoval(w, "keys") /\ w.at = Slots => \A s \in Slots : slots'[s].key \notin doomed'
    <3>1. IsRemoval(w, "keys") /\ w.at = Slots => doomed' = {}
      BY <1>2, <1>3, Bounds, Zenon DEF StepOK, KeyStep, OnPurpose
    <3> QED
      BY <3>1
  <2> QED
    BY <1>2, <1>3, <1>4, <1>6, <2>1, <2>2, <2>3, <2>4, ScrapsPop, Zenon
<1> QED
  BY <1>3, <1>5, <1>6

\* A write that is lost while the handler goes on.
LEMMA CloseFailsKeeps ==
  ASSUME CInv, CloseFails
  PROVE  CInv' /\ LossOK
<1>1. PICK w : w = Head(todo)
  OBVIOUS
<1>2. /\ todo # <<>> /\ w = todo[1] /\ StepOK(w) /\ w.do = "write" /\ todo' = Tail(todo)
      /\ Len(todo') \in Nat /\ todo' = [i \in 1..Len(todo') |-> todo'[i]]
  BY <1>1, HeadIs DEF CloseFails, write_file
<1>3. /\ slots' = IF w.dir = "keys" THEN Torn(slots, w) ELSE slots
      /\ certs' = IF w.dir = "certs" THEN Torn(certs, w) ELSE certs
      /\ unseen' = IF w.dir = "certs" THEN unseen \cup {<<op, w.at, w.file>>} ELSE unseen
      /\ doomed' = IF op = "RESET_DEVICE" THEN {} ELSE doomed
      /\ UNCHANGED <<op, nkeys, nserials, ncommands, given, refused, acked>>
      /\ seq_set' = seq_set /\ provisioned' = provisioned
      /\ nfaults' \in 0..MaxFaults /\ doomed' \subseteq doomed
  <2>1. nfaults' \in 0..MaxFaults
    BY Bounds DEF CloseFails, Fault, CInv, Types, Counters
  <2> QED
    BY <1>1, <2>1, Zenon DEF CloseFails, minted, told, Path
<1>4. PopsList(w)
  BY <1>2, <1>3 DEF PopsList
<1>5. Counters'
  <2>1. {seq_set', provisioned'} \subseteq BOOLEAN
    BY <1>3 DEF CInv, Types, Counters
  <2> QED
    BY <1>3, <2>1 DEF CInv, Types, Counters
<1>6. Tree(slots, Slots, Files) /\ Tree(certs, Serials, CertFiles)
  BY DEF CInv, Types, Shape
<1>7. /\ w.dir = "keys" => w.at \in Slots /\ w.file \in Files
      /\ w.dir = "certs" => w.at \in Serials /\ w.file \in CertFiles
  BY <1>2 DEF StepOK, StepType
<1>8. Scraps(w)
  BY <1>2, <1>3, <1>6, <1>7, TornLeaves, Zenon DEF Scraps
<1>9. IsWrite(w, "keys", "cert") => slots'[w.at].cert # None
  BY <1>3, <1>6, <1>7, TornLeaves DEF IsWrite
<1>10. unseen \subseteq unseen' /\ (w.dir = "certs" => <<op, w.at, w.file>> \in unseen')
  BY <1>3
<1>11. ~ IsRemoval(w, "keys")
  BY <1>2 DEF IsRemoval
<1> QED
  BY <1>2, <1>3, <1>4, <1>5, <1>8, <1>9, <1>10, <1>11, ScrapsPop, Zenon

\* A handler that is through with its list.
LEMMA FinishKeeps ==
  ASSUME CInv, Finish
  PROVE  CInv' /\ LossOK
<1>1. /\ UNCHANGED <<slots, certs, nkeys, nserials, ncommands, nfaults, given, refused, acked, unseen, doomed>>
      /\ seq_set' = seq_set /\ provisioned' = provisioned /\ todo' = <<>> /\ op' = "idle"
  BY DEF Finish, files, bounds, minted, told
<1>2. /\ Plan' /\ Booting' /\ Signing'
      /\ Len(todo') \in Nat /\ todo' = [i \in 1..Len(todo') |-> todo'[i]]
  BY <1>1, EmptyPlan
<1>3. Counters'
  <2>1. {seq_set', provisioned'} \subseteq BOOLEAN
    BY <1>1 DEF CInv, Types, Counters
  <2> QED
    BY <1>1, <2>1 DEF CInv, Types, Counters
<1>4. Types'
  BY <1>1, <1>2, <1>3, SlotsTyped, CertsTyped DEF CInv, Types, Shape
<1>5. Drops
  <2>1. \E sent : /\ given' = given \cup sent /\ refused' = refused \cup sent
                 /\ \A c \in sent : c.serial \in 1..nserials /\ ~ Readable(Meta(c.serial))'
    BY <1>1, NothingSent
  <2> QED
    BY <1>1, <2>1 DEF Drops, Meta
<1> QED
  BY <1>1, <1>2, <1>4, <1>5, DropKeeps DEF LossOK, Lost

\* The restart that ends a wipe.
LEMMA RestartKeeps ==
  ASSUME CInv, Restart
  PROVE  CInv' /\ LossOK
<1>1. UNCHANGED <<slots, certs, nfaults>> /\ seq_set' = seq_set /\ ca_init(slots')
  BY DEF Restart, files
<1>2. /\ Plan' /\ Booting' /\ Signing' /\ provisioned' \in BOOLEAN /\ op' = "BOOT"
      /\ Len(todo') \in Nat /\ todo' = [i \in 1..Len(todo') |-> todo'[i]]
      /\ UNCHANGED <<nkeys, nserials, ncommands, given, refused, acked, unseen, doomed>>
  BY <1>1, BootPlan DEF CInv, Types, Counters
<1>3. Counters'
  <2>1. {seq_set', provisioned'} \subseteq BOOLEAN
    BY <1>1, <1>2 DEF CInv, Types, Counters
  <2> QED
    BY <1>1, <1>2, <2>1 DEF CInv, Types, Counters
<1>4. Types'
  BY <1>1, <1>2, <1>3, SlotsTyped, CertsTyped DEF CInv, Types, Shape
<1>5. Drops
  <2>1. \E sent : /\ given' = given \cup sent /\ refused' = refused \cup sent
                 /\ \A c \in sent : c.serial \in 1..nserials /\ ~ Readable(Meta(c.serial))'
    BY <1>2, NothingSent
  <2> QED
    BY <1>1, <1>2, <2>1 DEF Drops, Meta
<1> QED
  BY <1>1, <1>2, <1>4, <1>5, DropKeeps DEF LossOK, Lost

\* Power lost in the middle of a write or of a removal, and the boot after it.
LEMMA CrashKeeps ==
  ASSUME CInv, Crash
  PROVE  CInv' /\ LossOK
<1>1. ca_init(slots') /\ nfaults' \in 0..MaxFaults
  BY Bounds, SMTT(30) DEF Crash, Fault, CInv, Types, Counters
<1>2. /\ Plan' /\ Booting' /\ Signing' /\ provisioned' \in BOOLEAN /\ op' = "BOOT"
      /\ Len(todo') \in Nat /\ todo' = [i \in 1..Len(todo') |-> todo'[i]]
      /\ UNCHANGED <<nkeys, nserials, ncommands, given, refused, acked, unseen, doomed>>
  BY <1>1, BootPlan DEF CInv, Types, Counters
<1>3. PICK w : w = Head(todo)
  OBVIOUS
<1>4. todo # <<>> /\ w = todo[1] /\ StepOK(w)
  BY <1>3, HeadIs DEF Crash
<1>5. seq_set' = seq_set /\ Scraps(w)
  <2>1. Tree(slots, Slots, Files) /\ Tree(certs, Serials, CertFiles)
    BY DEF CInv, Types, Shape
  <2>2. CASE UNCHANGED files
    BY <2>2 DEF files, Scraps
  <2>3. CASE /\ write_file(w)
             /\ slots' = IF w.dir = "keys" THEN Torn(slots, w) ELSE slots
             /\ certs' = IF w.dir = "certs" THEN Torn(certs, w) ELSE certs
             /\ UNCHANGED seq_set
    <3>1. /\ w.do = "write"
          /\ w.dir = "keys" => w.at \in Slots /\ w.file \in Files
          /\ w.dir = "certs" => w.at \in Serials /\ w.file \in CertFiles
      BY <1>4, <2>3 DEF StepOK, StepType, write_file
    <3> QED
      BY <2>1, <2>3, <3>1, TornLeaves, Zenon DEF Scraps
  <2>4. CASE /\ w.do = "rm_rf" /\ UNCHANGED seq_set
             /\ \E last \in w.at, k \in 1..6 : rm_rf_part(w, last, k)
    <3>1. PICK last, k : rm_rf_part(w, last, k)
      BY <2>4, Zenon
    <3>2. slots' = slots \/ (IsRemoval(w, "keys") /\ Cut(slots, slots', Slots, Files, w.at))
      BY <2>1, <2>4, <3>1, UnlinkedCuts, Zenon DEF rm_rf_part, IsRemoval
    <3>3. certs' = certs \/ (IsRemoval(w, "certs") /\ Cut(certs, certs', Serials, CertFiles, w.at))
      BY <2>1, <2>4, <3>1, UnlinkedCuts, Zenon DEF rm_rf_part, IsRemoval
    <3> QED
      BY <2>4, <3>2, <3>3 DEF Scraps
  <2> QED
    BY <1>3, <2>2, <2>3, <2>4, Zenon DEF Crash
<1>6. Counters'
  <2>1. {seq_set', provisioned'} \subseteq BOOLEAN
    BY <1>2, <1>5 DEF CInv, Types, Counters
  <2> QED
    BY <1>1, <1>2, <2>1 DEF CInv, Types, Counters
<1>7. Types'
  BY <1>2, <1>4, <1>5, <1>6, ScrapsFacts DEF Types, Shape
<1>8. Drops
  <2>1. \A s \in Slots : slots'[s].key = slots[s].key \/ slots'[s].key \notin Keys
    BY <1>4, <1>5, ScrapsFacts, NoFile
  <2>2. \E sent : /\ given' = given \cup sent /\ refused' = refused \cup sent
                 /\ \A c \in sent : c.serial \in 1..nserials /\ ~ Readable(Meta(c.serial))'
    BY <1>2, NothingSent
  <2> QED
    BY <1>2, <1>4, <1>5, <2>1, <2>2, ScrapsFacts, Zenon DEF Drops
<1> QED
  BY <1>2, <1>4, <1>5, <1>7, <1>8, ScrapsFacts, DropKeeps

=============================================================================
