------------------------------ MODULE CaStore ------------------------------
(***************************************************************************)
(* firmware/src/ca/ca.c over firmware/src/storage/storage.c: the key slots *)
(* /keys/<slot>/ and the issued certificates /certs/<serial>/, as files.   *)
(*                                                                         *)
(* The main thread is the only one to touch these files, so a handler      *)
(* reads all it needs when it starts; what it then does is the list of     *)
(* its file operations, in order, ending with its reply.  A power cut may  *)
(* fall before or inside any of them; a write may fail, and a write may be *)
(* lost without the handler seeing it, for write_file does not look at     *)
(* what fs_close returns.                                                  *)
(*                                                                         *)
(* Data abstraction.  A key is a number, fresh at every key generation; a  *)
(* certificate is its serial, its subject's key and its issuer's key, and  *)
(* a chain.der is the key at its lower end.  Self-signed certificates are  *)
(* not entered in /certs/ and share the serial 0.  csr.der is read by      *)
(* nothing but its getter and left out.  Serials are drawn at random and   *)
(* taken to be fresh; the volume is one that may mint (the gates on it are *)
(* in Protocol).                                                           *)
(***************************************************************************)
EXTENDS Integers, FiniteSets, Sequences, Functions

CONSTANTS
  MAX_KEY_SLOTS,     \* CONFIG_CANTIL_MAX_KEY_SLOTS
  CRL_MAX_REVOKED,   \* capacity of a CRL
  MaxKeys,           \* bound: key generations
  MaxSerials,        \* bound: certificates entered in /certs/
  ExternalKeys,      \* keys held outside the device
  MaxCrls,           \* bound: CRLs fetched
  MaxEvents,         \* bound: commands that write, and faults
  MaxFaults,         \* bound: power cuts and failed writes
  None, Empty        \* no such file; an empty one, which holds nothing that parses

ASSUME StoreAssumption ==
  /\ MAX_KEY_SLOTS \in Nat \ {0}
  /\ {MaxKeys, MaxSerials, MaxCrls, MaxEvents, MaxFaults, CRL_MAX_REVOKED} \subseteq Nat
  /\ ExternalKeys \cap (0..MaxKeys) = {}

CA_SLOT == 0
Slots   == 0..(MAX_KEY_SLOTS - 1)
Keys    == 1..MaxKeys
Serials == 1..MaxSerials
GARBAGE == 0          \* the 0xA5 blob that overwrites a key

VARIABLES
  slots,        \* /keys/<slot>/: key.bin, meta.bin, x509_data.bin, cert.der,
                \* chain.der, crl_number.bin
  certs,        \* /certs/<serial>/: cert.der, meta.bin
  seq_set,      \* config_unlock_seq.bin exists
  op,           \* the handler running, "idle" between commands
  todo,         \* the file operations it still has to do
  provisioned   \* static bool provisioned

\* History, read by no action but for the bounds and for what the host can push:
\* keys and serials handed out, certificates and CRLs the host was given (refused:
\* the certificates among them that came with an error), revocations acknowledged,
\* writes to /certs/ that were lost unseen, keys that a wipe set out to destroy
\* behind a sequence of the user's, as long as none of its file operations failed.
VARIABLES nkeys, nserials, ncommands, nfaults, given, refused, crls, acked, unseen, doomed

cvars == <<slots, certs, seq_set, op, todo, provisioned, nkeys, nserials,
           ncommands, nfaults, given, refused, crls, acked, unseen, doomed>>

Files   == {"key", "meta", "x509", "cert", "chain", "crl"}
NoSlot  == [f \in Files |-> None]
NoCert  == [f \in {"cert", "meta"} |-> None]
Readable(file) == file \notin {None, Empty}

Certs == [serial : 0..MaxSerials, subject : Keys \cup ExternalKeys,
          issuer : Keys \cup ExternalKeys]
SlotMeta == [is_protected : BOOLEAN, protect_issued : BOOLEAN]
Flags == {"REVOKED", "PROTECTED", "EXPIRED"}
IssuedMeta == [flags : SUBSET Flags, issuer_slot : Slots]

\* What is in a file is told apart from there being none.
ASSUME FileAssumption ==
  /\ None # Empty
  /\ \A none \in {None, Empty} : none \notin (Keys \cup Certs \cup IssuedMeta)

\* Every file holds what its readers expect, or is missing or empty: in
\* particular, no certificate is ever built for a key that a wipe destroyed.
CTypeOK ==
  /\ \A s \in Slots :
       /\ slots[s].key \in Keys \cup {GARBAGE, None, Empty}
       /\ slots[s].meta \in SlotMeta \cup {None, Empty}
       /\ slots[s].x509 \in {"params", None, Empty}
       /\ slots[s].cert \in Certs \cup {None, Empty}
       /\ slots[s].chain \in ExternalKeys \cup {None, Empty}
       /\ slots[s].crl \in Nat \cup {None, Empty}
  /\ \A n \in Serials :
       /\ certs[n].cert \in Certs \cup {None, Empty}
       /\ certs[n].meta \in IssuedMeta \cup {None, Empty}
  /\ {seq_set, provisioned} \subseteq BOOLEAN
  /\ nkeys \in 0..MaxKeys /\ nserials \in 0..MaxSerials
  /\ ncommands \in 0..MaxEvents /\ nfaults \in 0..MaxFaults
  /\ given \subseteq Certs /\ refused \subseteq given
  /\ acked \subseteq Serials \X Slots /\ doomed \subseteq Keys

CInit ==
  /\ slots = [s \in Slots |-> NoSlot]
  /\ certs = [n \in Serials |-> NoCert]
  /\ seq_set = FALSE
  /\ op = "idle"
  /\ todo = <<>>
  /\ provisioned = FALSE
  /\ nkeys = 0 /\ nserials = 0 /\ ncommands = 0 /\ nfaults = 0
  /\ given = {} /\ refused = {} /\ crls = {} /\ acked = {} /\ unseen = {} /\ doomed = {}
-----------------------------------------------------------------------------
(* File operations.  must: the handler gives up when this one fails.       *)

Put(dir, at, file, val) ==
  [do |-> "write", dir |-> dir, at |-> at, file |-> file, val |-> val,
   must |-> TRUE]
BestEffort(step) == [step EXCEPT !.must = FALSE]
storage_slot_chain_delete(s) == BestEffort(Put("keys", s, "chain", None))
RemoveAll(dir, at) ==
  [do |-> "rm_rf", dir |-> dir, at |-> at, file |-> "all", val |-> None,
   must |-> FALSE]
Reply(file, val) ==
  [do |-> "reply", dir |-> "ram", at |-> 0, file |-> file, val |-> val,
   must |-> TRUE]

Begin(name, steps) ==
  /\ op = "idle"
  /\ ncommands + nfaults < MaxEvents /\ ncommands' = ncommands + 1
  /\ op' = name
  /\ todo' = steps

Fault ==
  /\ ncommands + nfaults < MaxEvents
  /\ nfaults < MaxFaults /\ nfaults' = nfaults + 1

files == <<slots, certs, seq_set>>
minted == <<nkeys, nserials>>
bounds == <<minted, ncommands, nfaults>>
told  == <<given, refused, crls, acked>>

\* write_file, where the other operations on a single file are fs_unlink.
write_file(w) ==
  /\ w.do = "write"
  /\ IF w.dir = "config" THEN w.val = TRUE ELSE w.val # None

\* A write is known by its handler, its certificate and its file.
Path(w) == <<op, w.at, w.file>>

\* write_file and fs_unlink.
Write ==
  /\ todo # <<>> /\ Head(todo).do = "write"
  /\ LET w == Head(todo) IN
       /\ slots' = IF w.dir = "keys"
                   THEN [slots EXCEPT ![w.at][w.file] = w.val] ELSE slots
       /\ certs' = IF w.dir = "certs"
                   THEN [certs EXCEPT ![w.at][w.file] = w.val] ELSE certs
       /\ seq_set' = IF w.dir = "config" THEN w.val ELSE seq_set
       /\ unseen' = IF w.dir = "certs" THEN unseen \ {Path(w)} ELSE unseen
  /\ todo' = Tail(todo)
  /\ UNCHANGED <<op, provisioned, bounds, told, doomed>>

\* A directory tree, with everything up to the first k files of directory last
\* unlinked: littlefs lists a directory in the order of the names.
Unlinked(dirs, at, order, last, k) ==
  [d \in DOMAIN dirs |->
     IF d \notin at \/ d > last THEN dirs[d]
     ELSE [f \in DOMAIN dirs[d] |->
             IF d < last \/ \E j \in 1..k : order[j] = f THEN None ELSE dirs[d][f]]]

SlotOrder == <<"cert", "chain", "crl", "key", "meta", "x509">>
CertOrder == <<"cert", "meta">>

\* The first part of an rm_rf, or with last and k at their maximum all of it.
rm_rf_part(w, last, k) ==
  /\ slots' = IF w.dir = "keys"
              THEN Unlinked(slots, w.at, SlotOrder, last, k) ELSE slots
  /\ certs' = IF w.dir = "certs"
              THEN Unlinked(certs, w.at, CertOrder, last, k) ELSE certs

rm_rf ==
  /\ todo # <<>> /\ Head(todo).do = "rm_rf"
  /\ LET w == Head(todo) IN
       rm_rf_part(w, IF w.dir = "keys" THEN MAX_KEY_SLOTS ELSE MaxSerials + 1, 0)
  /\ todo' = Tail(todo)
  /\ UNCHANGED <<seq_set, op, provisioned, bounds, told, unseen, doomed>>

\* What the handler does in RAM, and the answer the host gets.
Done ==
  /\ todo # <<>> /\ Head(todo).do = "reply"
  /\ LET w == Head(todo) IN
       /\ provisioned' = (provisioned \/ w.file = "provisioned")
       /\ given' = IF w.file = "cert" THEN given \cup {w.val} ELSE given
       /\ acked' = IF w.file = "revoked" THEN acked \cup {w.val} ELSE acked
  /\ todo' = Tail(todo)
  /\ UNCHANGED <<files, op, bounds, refused, crls, unseen, doomed>>

Finish ==
  /\ op \notin {"idle", "RESET_DEVICE"}
  /\ todo = <<>>
  /\ op' = "idle"
  /\ UNCHANGED <<files, todo, provisioned, bounds, told, unseen, doomed>>

\* What a failing rm_rf leaves: everything when the directory does not open, one
\* file when its unlink fails and is ignored.
Spared(dirs, at) ==
  {dirs} \cup
  {[d \in DOMAIN dirs |->
      IF d \notin at THEN dirs[d]
      ELSE [f \in DOMAIN dirs[d] |-> IF d = kept /\ f = file THEN dirs[d][f] ELSE None]]
   : kept \in at, file \in Files}

\* What a write leaves that is not committed: a file that was there keeps its
\* content, a new one is there since fs_open and empty (external: littlefs).
Torn(dirs, w) ==
  IF dirs[w.at][w.file] = None THEN [dirs EXCEPT ![w.at][w.file] = Empty] ELSE dirs

\* What a failing operation on the tree dir may leave; mkdir_p and fs_open fail
\* before there is a file.
Leftovers(dirs, dir, w) ==
  IF w.dir # dir THEN {dirs}
  ELSE IF w.do = "rm_rf" THEN Spared(dirs, w.at)
  ELSE IF write_file(w) THEN {dirs, Torn(dirs, w)}
  ELSE {dirs}

\* What goes out with the error of a handler that gives up: ca_sign_csr_slot has
\* put the certificate in the response before it writes, CMD_SIGN_CSR leaves it
\* there, and CMD_SIGN_CSR_SLOT, the other way to ask slot 0 for one, does not.
Sent == {{}} \cup IF op = "SIGN_CSR" THEN {{todo[Len(todo)].val}} ELSE {}

\* A failed operation ends the handler, unless its result is ignored, as are all
\* in a wipe; that wipe then promises nothing.
Fails ==
  /\ Fault
  /\ todo # <<>> /\ Head(todo).do # "reply"
  /\ LET w == Head(todo) IN
       /\ \/ /\ w.must
             /\ op' = "FAILED" /\ todo' = <<>>
             /\ \E sent \in Sent : given' = given \cup sent /\ refused' = refused \cup sent
          \/ /\ ~w.must
             /\ todo' = Tail(todo)
             /\ UNCHANGED <<op, given, refused>>
       /\ slots' \in Leftovers(slots, "keys", w)
       /\ certs' \in Leftovers(certs, "certs", w)
  /\ doomed' = IF op = "RESET_DEVICE" THEN {} ELSE doomed
  /\ UNCHANGED <<seq_set, provisioned, minted, ncommands, crls, acked, unseen>>

\* fs_close fails, which is where littlefs commits the file: write_file returns 0
\* and the handler goes on.
CloseFails ==
  /\ Fault
  /\ todo # <<>> /\ write_file(Head(todo))
  /\ LET w == Head(todo) IN
       /\ slots' = IF w.dir = "keys" THEN Torn(slots, w) ELSE slots
       /\ certs' = IF w.dir = "certs" THEN Torn(certs, w) ELSE certs
       /\ unseen' = IF w.dir = "certs" THEN unseen \cup {Path(w)} ELSE unseen
  /\ todo' = Tail(todo)
  /\ doomed' = IF op = "RESET_DEVICE" THEN {} ELSE doomed
  /\ UNCHANGED <<seq_set, op, provisioned, minted, ncommands, told>>
-----------------------------------------------------------------------------
(* Start-up: ca_init, and the ways to get there.                           *)

\* Mutant: any blob decrypts.
LiveAnyBlob(files_of, s) == Readable(files_of[s].key)

\* load_slot_privkey succeeds: the blob is one that decrypts.
Live(files_of, s) == files_of[s].key \in Keys
self_signed(k) == [serial |-> 0, subject |-> k, issuer |-> k]

\* Mutant: without the crash-window recovery.
ca_init_no_recovery(st) ==
  /\ provisioned' = Readable(st[CA_SLOT].key)
  /\ todo' = <<>>
  /\ op' = "BOOT"
  /\ UNCHANGED <<minted, ncommands, told, unseen, doomed>>

\* ca_init on the files as they are after the step: a key that is there, even
\* one that a wipe overwrote, makes the device provisioned; a certificate that
\* is missing beside key and parameters is built again.
ca_init(st) ==
  /\ provisioned' = Readable(st[CA_SLOT].key)
  /\ todo' = IF /\ Live(st, CA_SLOT)
                /\ st[CA_SLOT].cert = None
                /\ st[CA_SLOT].x509 = "params"
             THEN <<Put("keys", CA_SLOT, "cert", self_signed(st[CA_SLOT].key))>>
             ELSE <<>>
  /\ op' = "BOOT"
  /\ UNCHANGED <<minted, ncommands, told, unseen, doomed>>

\* handle_reset_device restarts the device when the wipe is over; power may be
\* cycled when no file is being written.
Restart ==
  /\ todo = <<>>
  /\ UNCHANGED <<files, nfaults>>
  /\ ca_init(slots)

\* Power loss between two file operations, or inside one: a file that is being
\* created may be left empty, a tree that is being removed half removed.
Crash ==
  /\ todo # <<>> /\ Fault
  /\ LET w == Head(todo) IN
       \/ UNCHANGED files
       \/ /\ write_file(w)
          /\ slots' = IF w.dir = "keys" THEN Torn(slots, w) ELSE slots
          /\ certs' = IF w.dir = "certs" THEN Torn(certs, w) ELSE certs
          /\ UNCHANGED seq_set
       \/ /\ w.do = "rm_rf"
          /\ \E last \in w.at, k \in 1..6 :
               /\ w.dir = "certs" => k <= 2
               /\ rm_rf_part(w, last, k)
          /\ UNCHANGED seq_set
  /\ ca_init(slots')
-----------------------------------------------------------------------------
(* Command handlers: their refusals are their guards.                      *)

Protected(s) == Readable(slots[s].meta) /\ slots[s].meta.is_protected
KeyExists(s) == slots[s].key # None
CertExists(s) == slots[s].cert # None
ca_ready == provisioned /\ CertExists(CA_SLOT)

FreshKey == nkeys < MaxKeys /\ nkeys' = nkeys + 1
FreshSerial == nserials < MaxSerials /\ nserials' = nserials + 1
quiet == <<files, provisioned, told, unseen, doomed, nfaults>>

\* Mutant: without the check that refuses to overwrite.
ca_provision_overwrites ==
  /\ FreshKey
  /\ Begin("PROVISION_CA",
       <<Put("keys", CA_SLOT, "key", nkeys'),
         Put("keys", CA_SLOT, "meta", [is_protected |-> TRUE, protect_issued |-> TRUE]),
         Reply("provisioned", TRUE)>>)
  /\ UNCHANGED <<quiet, nserials>>

ca_provision ==
  /\ ~KeyExists(CA_SLOT)
  /\ FreshKey
  /\ Begin("PROVISION_CA",
       <<Put("keys", CA_SLOT, "key", nkeys'),
         Put("keys", CA_SLOT, "meta", [is_protected |-> TRUE, protect_issued |-> TRUE]),
         Reply("provisioned", TRUE)>>)
  /\ UNCHANGED <<quiet, nserials>>

ca_gen_key ==
  /\ \E s \in Slots \ {CA_SLOT} :
       /\ ~KeyExists(s)
       /\ \A t \in Slots \ {CA_SLOT} : t < s => KeyExists(t)
       /\ FreshKey
       /\ Begin("GEN_KEY",
            <<Put("keys", s, "key", nkeys'),
              Put("keys", s, "meta", [is_protected |-> FALSE, protect_issued |-> FALSE])>>)
  /\ UNCHANGED <<quiet, nserials>>

\* storage_slot_delete ignores the result of the overwrite.
ca_delete_key(s) ==
  /\ s # CA_SLOT /\ KeyExists(s) /\ ~Protected(s)
  /\ Begin("DELETE_KEY",
       <<BestEffort(Put("keys", s, "key", GARBAGE)), RemoveAll("keys", {s})>>)
  /\ UNCHANGED <<quiet, minted>>

\* The parameters are stored before the key is looked at.
ca_push_key_x509(s) ==
  /\ ~(Protected(s) /\ CertExists(s))
  /\ Begin("PUSH_KEY_X509",
       <<Put("keys", s, "x509", "params")>> \o
       (IF Live(slots, s)
        THEN <<Put("keys", s, "cert", self_signed(slots[s].key)),
               storage_slot_chain_delete(s)>>
        ELSE <<>>))
  /\ UNCHANGED <<quiet, minted>>

Install(s, cert, chain) ==
  <<Put("keys", s, "cert", cert),
    IF chain = None THEN storage_slot_chain_delete(s) ELSE Put("keys", s, "chain", chain)>>
external_cert(k, ca) == [serial |-> 0, subject |-> k, issuer |-> ca]

\* The certificates a host can push: any signed outside the device, any it was
\* given, and those GET_CA_CHAIN shows it.
Pushable ==
  {external_cert(k, ca) : k \in (1..nkeys) \cup ExternalKeys, ca \in ExternalKeys}
  \cup given \cup ({slots[s].cert : s \in Slots} \ {None, Empty})

\* The pushed certificate must be for the slot's own key.
ca_push_key_cert(s, cert, chain) ==
  /\ Live(slots, s) /\ cert.subject = slots[s].key
  /\ ~(Protected(s) /\ CertExists(s))
  /\ Begin("PUSH_KEY_CERT", Install(s, cert, chain))
  /\ UNCHANGED <<quiet, minted>>

\* Checks nothing of what it is given, not even that it is a certificate.
ca_push_cert(cert) ==
  /\ provisioned
  /\ Begin("PUSH_CA_CERT", Install(CA_SLOT, cert, None))
  /\ UNCHANGED <<quiet, minted>>

issued_meta(s) == [flags |-> {}, issuer_slot |-> s]
\* Mutant: the result of storage_issued_meta_write is dropped.
IssuedRecordUnchecked(n, cert, s) ==
  <<Put("certs", n, "cert", cert),
    BestEffort(Put("certs", n, "meta", issued_meta(s)))>>
IssuedRecord(n, cert, s) ==
  <<Put("certs", n, "cert", cert), Put("certs", n, "meta", issued_meta(s))>>
CanIssue(s) == Live(slots, s) /\ slots[s].x509 = "params"

ca_sign_csr_slot(s, k) ==
  /\ CanIssue(s)
  /\ s = CA_SLOT => ca_ready
  /\ FreshSerial
  /\ LET cert == [serial |-> nserials', subject |-> k, issuer |-> slots[s].key] IN
       Begin(IF s = CA_SLOT THEN "SIGN_CSR" ELSE "SIGN_CSR_SLOT",
             IssuedRecord(nserials', cert, s) \o <<Reply("cert", cert)>>)
  /\ UNCHANGED <<quiet, nkeys>>

\* Installs before it records, and does not ask whether s is protected.
ca_sign_key_slot(issuer, s) ==
  /\ CanIssue(issuer) /\ CanIssue(s)
  /\ FreshSerial
  /\ LET cert == [serial |-> nserials', subject |-> slots[s].key,
                  issuer |-> slots[issuer].key] IN
       Begin("SIGN_KEY_SLOT",
         Install(s, cert, None) \o IssuedRecord(nserials', cert, issuer)
           \o <<Reply("cert", cert)>>)
  /\ UNCHANGED <<quiet, nkeys>>

Meta(n) == certs[n].meta
\* Mutant: flags = instead of flags |=.
FlaggedAlone(n, flag) == [Meta(n) EXCEPT !.flags = {flag}]
Flagged(n, flag) == [Meta(n) EXCEPT !.flags = @ \cup {flag}]
CrlNumber(s) == IF Readable(slots[s].crl) THEN slots[s].crl ELSE 0

\* Mutant: the revocation is acknowledged when meta.bin could not be written.
ca_revoke_cert_unchecked(n) ==
  /\ Readable(Meta(n)) /\ Meta(n).flags \cap {"PROTECTED", "REVOKED"} = {}
  /\ LET s == Meta(n).issuer_slot IN
       Begin("REVOKE_CERT",
         <<BestEffort(Put("certs", n, "meta", Flagged(n, "REVOKED"))),
           BestEffort(Put("keys", s, "crl", CrlNumber(s) + 1)),
           Reply("revoked", <<n, s>>)>>)
  /\ UNCHANGED <<quiet, minted>>

\* Mutant: the number is read but not raised.
ca_revoke_cert_same_number(n) ==
  /\ Readable(Meta(n)) /\ Meta(n).flags \cap {"PROTECTED", "REVOKED"} = {}
  /\ LET s == Meta(n).issuer_slot IN
       Begin("REVOKE_CERT",
         <<Put("certs", n, "meta", Flagged(n, "REVOKED")),
           BestEffort(Put("keys", s, "crl", CrlNumber(s))),
           Reply("revoked", <<n, s>>)>>)
  /\ UNCHANGED <<quiet, minted>>

ca_revoke_cert(n) ==
  /\ Readable(Meta(n)) /\ Meta(n).flags \cap {"PROTECTED", "REVOKED"} = {}
  /\ LET s == Meta(n).issuer_slot IN
       Begin("REVOKE_CERT",
         <<Put("certs", n, "meta", Flagged(n, "REVOKED")),
           BestEffort(Put("keys", s, "crl", CrlNumber(s) + 1)),
           Reply("revoked", <<n, s>>)>>)
  /\ UNCHANGED <<quiet, minted>>

\* /certs/ is listed by the names of its directories, the serials, which are
\* random: the orders in which storage_issued_certs_iter may come to those in due.
Listings(due) == UNION {Bijection(1..n, due) : n \in 0..MaxSerials}

\* Every issued certificate has the same validity, so at any time the host
\* names either none or all of them have run out.
ca_auto_expire ==
  /\ LET due == {n \in Serials : Readable(Meta(n)) /\ "EXPIRED" \notin Meta(n).flags}
         mark(n) == Put("certs", n, "meta", Flagged(n, "EXPIRED"))
     IN  \E listed \in Listings(due) :
           Begin("AUTO_EXPIRE", [i \in DOMAIN listed |-> mark(listed[i])])
  /\ UNCHANGED <<quiet, minted>>

\* The certificates propagate_protected_cb still has to mark.
Unmarked(s) ==
  {n \in Serials : /\ Readable(Meta(n))
                   /\ Meta(n).issuer_slot = s
                   /\ "PROTECTED" \notin Meta(n).flags}

ca_protect_slot(s, protect_issued) ==
  /\ KeyExists(s) /\ Readable(slots[s].meta)
  /\ LET due == IF protect_issued THEN Unmarked(s) ELSE {}
         mark(n) == BestEffort(Put("certs", n, "meta", Flagged(n, "PROTECTED")))
     IN  \E listed \in Listings(due) :
           Begin("PROTECT_SLOT",
             <<Put("keys", s, "meta",
                   [is_protected |-> TRUE, protect_issued |-> protect_issued])>>
             \o [i \in DOMAIN listed |-> mark(listed[i])])
  /\ UNCHANGED <<quiet, minted>>

ca_unprotect_slot(s) ==
  /\ KeyExists(s) /\ Readable(slots[s].meta)
  /\ Begin("UNPROTECT_SLOT",
       <<Put("keys", s, "meta", [is_protected |-> FALSE, protect_issued |-> FALSE])>>)
  /\ UNCHANGED <<quiet, minted>>

\* crl_collect_cb and build_crl_der: at most CRL_MAX_REVOKED entries, those
\* that the listing of /certs/ (serials are random) happens to give first.
ca_get_crl(s) ==
  /\ op = "idle"
  /\ Cardinality(crls) < MaxCrls
  /\ Live(slots, s) /\ Readable(slots[s].cert)
  /\ LET revoked == {n \in Serials : /\ Readable(Meta(n))
                                     /\ Meta(n).issuer_slot = s
                                     /\ "REVOKED" \in Meta(n).flags}
     IN \E listed \in SUBSET revoked :
          /\ \/ listed = revoked
             \/ Cardinality(listed) = CRL_MAX_REVOKED
          /\ Cardinality(listed) <= CRL_MAX_REVOKED
          /\ crls' = crls \cup
               {[slot |-> s, key |-> slots[s].key, revoked |-> listed,
                 number |-> IF CrlNumber(s) = 0 THEN 1 ELSE CrlNumber(s)]}
  /\ UNCHANGED <<files, op, todo, provisioned, bounds, given, refused, acked, unseen, doomed>>

\* GET_CA_CHAIN reads: the certificate of the slot, then what is above it, which
\* is chain.der, or the chain of the slot on record as the issuer, or nothing.
\* external_root stands for the certificates in a chain.der.
external_root(ca) == external_cert(ca, ca)

\* read_issued_meta by the serial in the certificate.
IssuerSlot(s, cert) ==
  IF cert.serial # 0 /\ Readable(Meta(cert.serial)) THEN Meta(cert.serial).issuer_slot ELSE s

\* Mutant: one slot short.
MaxDepthShort == MAX_KEY_SLOTS - 1
MaxDepth == MAX_KEY_SLOTS

chain_walk[s \in Slots, depth \in 0..MAX_KEY_SLOTS] ==
  LET cert == slots[s].cert
      chain == slots[s].chain
      own == IF cert = Empty THEN <<>> ELSE <<cert>>
      above == chain_walk[IssuerSlot(s, cert), depth + 1]
  IN CASE depth >= MaxDepth -> [rc |-> "ELOOP", chain |-> <<>>]
       [] depth < MaxDepth /\ ~CertExists(s) -> [rc |-> "ENOENT", chain |-> <<>>]
       [] depth < MaxDepth /\ CertExists(s) /\ chain # None ->
            [rc |-> "OK",
             chain |-> own \o IF chain = Empty THEN <<>> ELSE <<external_root(chain)>>]
       [] depth < MaxDepth /\ cert = Empty /\ chain = None -> [rc |-> "EIO", chain |-> <<>>]
       [] OTHER -> IF IssuerSlot(s, cert) = s THEN [rc |-> "OK", chain |-> own]
                   ELSE [rc |-> above.rc, chain |-> own \o above.chain]
ca_get_chain_slot(s) == chain_walk[s, 0]

set_unlock_seq ==
  /\ Begin("SET_UNLOCK_SEQ", <<Put("config", 0, "seq", TRUE)>>)
  /\ UNCHANGED <<quiet, minted>>

\* Mutant: the configuration goes before the keys.
storage_secure_wipe_config_first ==
  /\ Begin("RESET_DEVICE",
       <<BestEffort(Put("config", 0, "seq", FALSE)),
         BestEffort(Put("keys", CA_SLOT, "key", GARBAGE)),
         RemoveAll("keys", Slots), RemoveAll("certs", Serials)>>)
  /\ doomed' = {slots[s].key : s \in {t \in Slots : seq_set /\ Live(slots, t)}}
  /\ given' = {} /\ refused' = {} /\ crls' = {} /\ acked' = {} /\ unseen' = {}
  /\ UNCHANGED <<files, provisioned, minted, nfaults>>

\* After a wipe the host's certificates and revocations are of no account.
storage_secure_wipe ==
  /\ Begin("RESET_DEVICE",
       <<BestEffort(Put("keys", CA_SLOT, "key", GARBAGE)),
         RemoveAll("keys", Slots), RemoveAll("certs", Serials),
         BestEffort(Put("config", 0, "seq", FALSE))>>)
  /\ doomed' = {slots[s].key : s \in {t \in Slots : seq_set /\ Live(slots, t)}}
  /\ given' = {} /\ refused' = {} /\ crls' = {} /\ acked' = {} /\ unseen' = {}
  /\ UNCHANGED <<files, provisioned, minted, nfaults>>

Handler ==
  \/ ca_provision \/ ca_gen_key \/ ca_auto_expire
  \/ set_unlock_seq \/ storage_secure_wipe
  \/ \E s \in Slots :
       \/ ca_delete_key(s) \/ ca_push_key_x509(s)
       \/ ca_unprotect_slot(s) \/ ca_get_crl(s)
       \/ \E b \in BOOLEAN : ca_protect_slot(s, b)
       \/ \E k \in ExternalKeys : ca_sign_csr_slot(s, k)
       \/ \E cert \in Pushable, chain \in ExternalKeys \cup {None} :
            ca_push_key_cert(s, cert, chain)
       \/ \E issuer \in Slots : ca_sign_key_slot(issuer, s)
  \/ \E cert \in Pushable \cup {Empty} : ca_push_cert(cert)
  \/ \E n \in Serials : ca_revoke_cert(n)

CNext ==
  Handler \/ Write \/ rm_rf \/ Done \/ Finish \/ Fails \/ CloseFails \/ Restart \/ Crash

CSpec == CInit /\ [][CNext]_cvars
-----------------------------------------------------------------------------
(* Properties.                                                             *)

Lost(s) == Live(slots, s) /\ slots'[s].key # slots[s].key

\* A private key leaves the flash only through DELETE_KEY of an unprotected
\* slot other than the CA's, or through RESET_DEVICE: no crash, no failed write
\* and no other command, in any order, overwrites one.
KeysOnlyLostOnPurpose ==
  [][\A s \in Slots : Lost(s) =>
       \/ op = "RESET_DEVICE"
       \/ op = "DELETE_KEY" /\ s # CA_SLOT /\ ~Protected(s)]_cvars

\* Short of a wipe, the flags on an issued certificate only grow, and one that
\* became protected is not revoked afterwards: ca_revoke_cert, expire_cb and
\* propagate_protected_cb rewrite the same meta.bin in turn.
FlagsOnlyGrow ==
  [][\A n \in Serials : Readable(Meta(n)) /\ op # "RESET_DEVICE" =>
       /\ Readable(Meta(n)')
       /\ Meta(n).flags \subseteq Meta(n)'.flags
       /\ "PROTECTED" \in Meta(n).flags =>
            ("REVOKED" \in Meta(n)'.flags => "REVOKED" \in Meta(n).flags)]_cvars

UnseenLoss(n, file) == \E x \in unseen : x[2] = n /\ x[3] = file

\* A certificate that left the device with a success has both files of its record
\* on flash, so that it can be listed, expired and revoked, but for a file whose
\* fs_close failed unseen.  One that left with an error, as the certificate of a
\* SIGN_CSR does whose record could not be written, is on no record.
IssuedIsOnRecord ==
  \A c \in given :
    IF c \in refused THEN ~Readable(Meta(c.serial))
    ELSE /\ certs[c.serial].cert = c \/ UnseenLoss(c.serial, "cert")
         /\ Readable(Meta(c.serial)) \/ UnseenLoss(c.serial, "meta")

\* Every revocation that was acknowledged is in each later CRL of the slot that
\* issued the certificate, as long as the CRL is not full, and but for those whose
\* meta.bin was lost in an fs_close that failed unseen.
RevocationsReachCrl ==
  [][\A c \in crls' \ crls : Cardinality(c.revoked) < CRL_MAX_REVOKED =>
       {n \in Serials : /\ <<n, c.slot>> \in acked
                        /\ <<"REVOKE_CERT", n, "meta">> \notin unseen} \subseteq c.revoked]_cvars

\* The number on a CRL keeps up with the revocations it is there to tell apart:
\* the CA's CRL carries at least as many as it acknowledged, less one for every
\* fault, for the counter is written after meta.bin and a failure is ignored.
CrlNumberKeepsUp ==
  [][\A c \in crls' \ crls : c.slot = CA_SLOT =>
       c.number + nfaults >= Cardinality({n \in Serials : <<n, CA_SLOT>> \in acked})]_cvars

\* A CRL number stands for one CRL, so that verifiers can tell an older one:
\* "Per-slot CRL number monotonic: bump on every successful revoke so verifiers
\* can detect rollback".  It is expected to fail: build_crl_der writes the number
\* 0, from before the first revocation, as 1.
CrlNumberTellsApart ==
  \A c, d \in crls :
    c.slot = d.slot /\ c.key = d.key /\ c.number = d.number => c.revoked = d.revoked

\* storage_secure_wipe removes the unlock sequence last: a device that forgot
\* its sequence in a wipe, interrupted or not, forgot its keys before that,
\* if no file operation of the wipe failed.
WipeTakesKeysFirst ==
  ~seq_set => \A s \in Slots : slots[s].key \notin doomed

\* ca_init closes the window between x509_data.bin and cert.der: once the device
\* is up after a restart, a CA key with parameters has a cert.der (unless the flash
\* refused it, which leaves the handler as FAILED).  It asks no more than that the
\* file is there: the empty one that a cut creation leaves, or that was pushed,
\* stays, and is the one way for the CA to come up without a certificate.
BootCompletesCert ==
  [][op = "BOOT" /\ op' = "idle" =>
       (Live(slots, CA_SLOT) /\ slots[CA_SLOT].x509 = "params"
          => slots[CA_SLOT].cert \in Certs \cup {Empty})]_cvars

\* The slots of C have a certificate each that another slot of C has on record
\* as issued, and no chain.der.
IssuedWithin(C) ==
  \A t \in C : /\ Readable(slots[t].cert) /\ slots[t].chain = None
               /\ IssuerSlot(t, slots[t].cert) \in C \ {t}

\* chain_walk gives up with ELOOP exactly when it would go on for ever, where
\* slots signed each other (SIGN_KEY_SLOT both ways) or a certificate was pushed
\* into the slot that issued it: a chain through every slot is still returned.
ChainGivesUpOnlyOnCycle ==
  \A s \in Slots : ca_get_chain_slot(s).rc = "ELOOP" <=>
    \E C \in SUBSET Slots : s \in C /\ IssuedWithin(C)

=============================================================================
