---------------------------- MODULE SessionSlot ----------------------------
(***************************************************************************)
(* firmware/src/session/session_slot.c: the identity the device shows in   *)
(* the Noise handshake.  An identity is minted as a whole; its X25519 key  *)
(* and its P-256 key are named by a number no file holds any more.         *)
(* A certificate is [x, id, signer, dn]: the two keys it binds, who signed *)
(* it, and the build constant its subject fields come from.                *)
(***************************************************************************)
EXTENDS Volume

CONSTANTS
  Garbage,       \* 0xA5A5...: does not decrypt
  Constants      \* the values of cantil_session_x509_constant builds have

VARIABLES
  constant,      \* the one of the image on the device
  s_eph,         \* s_eph.active: the identity is in RAM only
  s_in_recovery  \* the latch

svars == <<constant, s_eph, s_in_recovery>>

STRICT == "STRICT" \in build.opts   \* CONFIG_CANTIL_SESSION_X509_STRICT

KeyPath   == <<"session", "key">>
IdKeyPath == <<"session", "id_key">>
CertPath  == <<"session", "cert">>
MetaPath  == <<"session", "meta">>
ChainPath == <<"session", "chain">>

Signers == {"self", "slot", "external"}

\* A secret that decrypts.
Decrypts(p) == Readable(p) /\ disk[p] # Garbage

\* session_slot_get_pubkey and load_static_keypair: the handshake needs both.
session_slot_get_pubkey == IF s_eph THEN None ELSE disk[MetaPath].pub
HasIdentity == s_eph \/ (Readable(MetaPath) /\ Decrypts(KeyPath))

ca_session_cert_matches_constant == Readable(CertPath) /\ disk[CertPath].dn = constant

KeysOnDisk ==
  {disk[p] : p \in {q \in {KeyPath, IdKeyPath} : Decrypts(q)}} \cup
  (IF Readable(MetaPath) THEN {disk[MetaPath].pub} ELSE {}) \cup
  (IF Readable(CertPath) THEN {disk[CertPath].x, disk[CertPath].id} ELSE {})
FreshKey == CHOOSE g \in 1..6 : g \notin KeysOnDisk /\ 1..(g - 1) \subseteq KeysOnDisk

\* The certificate of a new identity.
ca_build_session_cert(g) == [x |-> g, id |-> g, signer |-> "self", dn |-> constant]

\* Mutant: the certificate is written first.
CertFirst(g) ==
  << Put(CertPath, ca_build_session_cert(g)),
     Put(KeyPath, g), Put(IdKeyPath, g), Put(MetaPath, [pub |-> g, ca_signed |-> FALSE]) >>

\* The four writes of a mint, in order.
MintSteps(g) ==
  << Put(KeyPath, g), Put(IdKeyPath, g),
     Put(CertPath, ca_build_session_cert(g)),
     Put(MetaPath, [pub |-> g, ca_signed |-> FALSE]) >>

session_slot_init_ephemeral ==
  /\ s_eph' = TRUE
  /\ Run(<<>>)
  /\ UNCHANGED s_in_recovery

\* A read error and an unparsable certificate end like a mismatch, except that a
\* lenient build returns the read error.
verify_session_identity ==
  /\ s_eph' = FALSE
  /\ s_in_recovery' = (STRICT /\ ~ca_session_cert_matches_constant)
  /\ Run(<<>>)

session_slot_mint ==
  /\ s_eph' = FALSE
  /\ Run(MintSteps(FreshKey))
  /\ UNCHANGED s_in_recovery

session_slot_init ==
  /\ op = "verified" /\ todo = <<>>
  /\ volume_state' = AdoptedState
  /\ IF AdoptedState # "MISMATCH" /\ Exists(CertPath) THEN verify_session_identity
     ELSE IF MayMint(AdoptedState) THEN session_slot_mint
     ELSE session_slot_init_ephemeral
  /\ op' = "booting"
  /\ UNCHANGED <<mounted, constant>>
-----------------------------------------------------------------------------
\* What every change of the certificate goes through first; a CA-signed one is
\* only replaced by force.
check_resign_allowed(force) == disk[MetaPath].ca_signed => force
MayResign(force) ==
  /\ Exists(CertPath)
  /\ Readable(MetaPath) /\ check_resign_allowed(force)
  /\ Decrypts(IdKeyPath)

\* The new certificate binds the key meta.bin caches to the identity key.
ca_sign_session_cert ==
  [x |-> disk[MetaPath].pub, id |-> disk[IdKeyPath], signer |-> "slot", dn |-> constant]
SignSteps ==
  << Put(CertPath, ca_sign_session_cert),
     Put(MetaPath, [disk[MetaPath] EXCEPT !.ca_signed = TRUE]) >>

\* ca_validate_pushed_session_cert: it must bind this device's keys, carry the
\* build's subject fields and, unless it is self-signed, verify up its chain.
ca_validate_pushed_session_cert(cert, chain) ==
  /\ cert.id = disk[IdKeyPath]
  /\ cert.x = session_slot_get_pubkey
  /\ cert.dn = constant
  /\ cert.signer # "self" => chain = cert.signer

PushSteps(cert, chain) ==
  << Put(CertPath, cert), Put(ChainPath, chain),
     Put(MetaPath, [disk[MetaPath] EXCEPT !.ca_signed = (cert.signer # "self")]) >>

\* The certificates a client may send, and the chains with them.
PushedCerts == [x : KeysOnDisk, id : KeysOnDisk, signer : Signers, dn : Constants]
PushedChains == {None} \cup (Signers \ {"self"})
=============================================================================
