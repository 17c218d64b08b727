------------------------------- MODULE Device ------------------------------
(***************************************************************************)
(* The device between power-up and power-down, over its flash: main.c's    *)
(* boot and session loop, the pairing gate (clients/pairing.c), and the    *)
(* commands that change the identity, the bonds or the whole volume.       *)
(* Power can go at any moment and any file operation can fail.             *)
(***************************************************************************)
EXTENDS SessionSlot, ClientBond

CONSTANTS
  Setups,        \* <<pairing method, build options, content of the flash part>>
  MaxCommands    \* bound: commands and taps that write, over the device's life

VARIABLES
  peer,          \* the client of the session
  target,        \* the client a command is about
  approved,      \* clients somebody confirmed, and nobody removed since
  wipe_cut,      \* power was lost in the middle of a wipe
  fresh,         \* nothing but a reboot has happened since a wipe was completed
  ncommands

history == <<approved, wipe_cut, fresh, ncommands>>
link    == <<build, peer, target>>
vars == <<fvars, op, mounted, volume_state, svars, link, history>>

method == build.method                \* CONFIG_PAIRING_*
TapMethods     == {"TAP_CONFIRM", "PASSKEY", "CA_ANCHOR_PLUS_PASSKEY"}
PasskeyMethods == {"PASSKEY", "CA_ANCHOR_PLUS_PASSKEY"}
LookupMethods  == TapMethods \cup {"TOFU"}

SystemPaths ==
  {FsPath, MarkerPath, CaKeyPath, KeyPath, IdKeyPath, CertPath, MetaPath, ChainPath}
BondPaths == Clients \X {"meta", "psk", "pubkey", "dir"}

\* The files there are; the directories of the clients have names of their own.
ASSUME PathAssumption ==
  /\ Paths = SystemPaths \cup BondPaths
  /\ Clients \cap {"root", "keys", "session"} = {}
  /\ IsFiniteSet(Clients)
  /\ Len(ClientOrder) \in Nat /\ ClientOrder \in [1..Len(ClientOrder) -> Clients]
  /\ \A c \in Clients : \E i \in 1..Len(ClientOrder) : ClientOrder[i] = c
  /\ \A i, j \in 1..Len(ClientOrder) : ClientOrder[i] = ClientOrder[j] => i = j

ASSUME BoundAssumption ==
  {MAX_CLIENT_BONDS, MaxFaults, MaxCommands} \subseteq Nat /\ Constants # {}

Certs == [x : 1..6, id : 1..6, signer : Signers, dn : Constants]
Metas == [pub : 1..6, ca_signed : BOOLEAN]

\* What is in a file is told apart from there being none, and a key from garbage.
ASSUME ContentAssumption ==
  /\ None # Empty /\ Garbage \notin {None, Empty} /\ Garbage \notin 1..6
  /\ \A none \in {None, Empty} :
       /\ none \notin Clients \cup {"lfs", "ours", "other", "live", "dir", "host", "psk"}
       /\ none \notin {"slot", "external"}
       /\ none \notin 1..6 /\ none \notin Certs /\ none \notin Metas

OnDisk(v, p) ==
  CASE p = FsPath     -> IF v = "blank" THEN None ELSE "lfs"
    [] p = MarkerPath -> CASE v = "marked" -> "ours" [] v = "foreign" -> "other" [] OTHER -> None
    [] p = CaKeyPath  -> IF v \in {"premarker", "foreign"} THEN "live" ELSE None
    [] OTHER          -> None

Init ==
  /\ \E setup \in Setups :
       /\ build = [method |-> setup[1], opts |-> setup[2]]
       /\ FInit([p \in Paths |-> OnDisk(setup[3], p)])
  /\ op = "off" /\ mounted = FALSE /\ volume_state = "UNMARKED"
  /\ constant = CHOOSE c \in Constants : TRUE
  /\ s_eph = FALSE /\ s_in_recovery = FALSE
  /\ peer = None /\ target = None
  /\ approved = {} /\ wipe_cut = FALSE /\ fresh = FALSE /\ ncommands = 0
-----------------------------------------------------------------------------
\* Boot: storage_init, session_slot_init, then the loop.  A failed mint is
\* logged and the device runs on.
BootDone ==
  /\ op = "booting" /\ todo = <<>>
  /\ op' = "ready"
  /\ UNCHANGED <<fvars, mounted, volume_state, svars, link, history>>

Boot ==
  \/ (storage_init \/ storage_volume_verify) /\ UNCHANGED <<svars, link, history>>
  \/ session_slot_init /\ UNCHANGED <<link, history>>
  \/ BootDone

Factory == (factory_main \/ factory_park) /\ UNCHANGED <<svars, link, history>>

\* RAM after a reset.
RamLost ==
  /\ op' = "off" /\ mounted' = FALSE /\ volume_state' = "UNMARKED"
  /\ s_eph' = FALSE /\ s_in_recovery' = FALSE
  /\ peer' = None /\ target' = None
  /\ UNCHANGED build
-----------------------------------------------------------------------------
\* The pairing gate.  The handshake that comes before it needs an identity.
Handshake == op = "ready" /\ HasIdentity

Accept(c) == op' = "session" /\ peer' = c /\ Run(<<>>)

\* A client may have a chain to the certificate of slot 0, once that has a key.
ca_validate_client_cert_chain == Exists(CaKeyPath)

\* A method that keeps no bonds decides from the client's chain, or not at all.
GateWithoutBond(c) ==
  /\ Handshake
  /\ \/ method = "PROMISCUOUS"
     \/ method = "CA_ANCHOR" /\ ca_validate_client_cert_chain
  /\ Accept(c)
  /\ UNCHANGED approved

GateKnown(c) ==
  /\ Handshake /\ method \in LookupMethods
  /\ TRUE \in client_bond_exists(c)
  /\ Accept(c)
  /\ UNCHANGED approved

\* client_bond_add and what the gate makes of its answer.
CommitBond(c) ==
  \E match \in IF Exists(PubPath(c)) THEN id_matches_pub(c) ELSE {FALSE} :
    LET res == client_bond_add(c, match) IN
    IF res \in {"EADDRINUSE", "ENOSPC"} THEN op' = "ready" /\ peer' = None /\ Run(<<>>)
    ELSE /\ op' = "bonding" /\ peer' = c
         /\ Run((IF res = "OK" THEN BondSteps(c) ELSE <<>>)
                \o (IF res # "EROFS" /\ method \in PasskeyMethods
                    THEN <<Try(Put(PskPath(c), "psk"))>> ELSE <<>>))

GateTofu(c) ==
  /\ Handshake /\ method = "TOFU"
  /\ FALSE \in client_bond_exists(c)
  /\ CommitBond(c)
  /\ UNCHANGED approved

\* The user is asked only when there is room; the passkey, and before it the
\* client's chain, may also be refused, which leaves everything as it was.
GateAsk(c) ==
  /\ Handshake /\ method \in TapMethods
  /\ FALSE \in client_bond_exists(c)
  /\ method = "CA_ANCHOR_PLUS_PASSKEY" => ca_validate_client_cert_chain
  /\ client_bond_count < MAX_CLIENT_BONDS
  /\ op' = "asking" /\ peer' = c
  /\ Run(<<>>)
  /\ UNCHANGED approved

GateAnswer ==
  /\ op = "asking"
  /\ \/ CommitBond(peer) /\ approved' = approved \cup {peer}
     \/ op' = "ready" /\ peer' = None /\ Run(<<>>) /\ UNCHANGED approved

GateBonded ==
  /\ op = "bonding" /\ todo = <<>>
  /\ IF failed THEN op' = "ready" /\ peer' = None ELSE op' = "session" /\ UNCHANGED peer
  /\ Run(<<>>)
  /\ UNCHANGED approved

pairing_check_and_bond ==
  /\ \/ \E c \in Clients : GateWithoutBond(c) \/ GateKnown(c) \/ GateTofu(c) \/ GateAsk(c)
     \/ GateAnswer
     \/ GateBonded
  /\ fresh' = FALSE
  /\ UNCHANGED <<mounted, volume_state, svars, build, target, wipe_cut, ncommands>>
-----------------------------------------------------------------------------
(* The commands of a session.  protocol_handle_one refuses nearly everything *)
(* in recovery mode and on a volume it cannot trust.                         *)

Command(name) ==
  /\ op = "session" /\ ncommands < MaxCommands
  /\ ncommands' = ncommands + 1
  /\ op' = name
  /\ fresh' = FALSE
  /\ UNCHANGED <<mounted, volume_state, svars, build, peer, approved, wipe_cut>>

Gated == ~s_in_recovery /\ storage_volume_trusted

cmd_unpair(c) ==
  /\ Command("UNPAIR") /\ Gated
  /\ Exists(PubPath(c)) => TRUE \in id_matches_pub(c)
  /\ Run(storage_client_bond_delete(c))
  /\ target' = c

cmd_sign_session(force) ==
  /\ Command("SIGN_SESSION") /\ Gated
  /\ disk[CaKeyPath] = "live"
  /\ MayResign(force)
  /\ Run(SignSteps)
  /\ UNCHANGED target

cmd_push_session(cert, chain, force) ==
  /\ Command("PUSH_SESSION") /\ Gated
  /\ MayResign(force)
  /\ ca_validate_pushed_session_cert(cert, chain)
  /\ Run(PushSteps(cert, chain))
  /\ UNCHANGED target

\* PROVISION, as far as the volume is concerned: slot 0 gets a key.
cmd_provision ==
  /\ Command("PROVISION") /\ Gated
  /\ storage_volume_may_mint /\ ~Exists(CaKeyPath)
  /\ Run(<<Put(CaKeyPath, "live")>>)
  /\ UNCHANGED target

CommandDone ==
  /\ op \in {"UNPAIR", "SIGN_SESSION", "PUSH_SESSION", "PROVISION"} /\ todo = <<>>
  /\ op' = "session"
  /\ approved' = IF op = "UNPAIR" /\ ~failed THEN approved \ {target} ELSE approved
  /\ target' = None
  /\ Run(<<>>)
  /\ UNCHANGED <<mounted, volume_state, svars, build, peer, wipe_cut, fresh, ncommands>>

\* Mutant: the bonds survive a wipe.
NoTrees == <<>>

\* The files of all bonds, directory by directory.
ClientTrees ==
  [i \in 1..(4 * Len(ClientOrder)) |->
     <<ClientOrder[((i - 1) \div 4) + 1], <<"meta", "psk", "pubkey", "dir">>[((i - 1) % 4) + 1]>>]

\* storage_secure_wipe: the secrets are overwritten, which creates the ones that
\* are missing, and then every tree is removed; nothing looks at a result.
Trash(p) == Try(Put(p, Garbage))
storage_secure_wipe ==
  <<Trash(CaKeyPath), Trash(KeyPath), Trash(IdKeyPath)>>
  \o rm_rf("keys", <<"key">>)
  \o rm_rf("session", <<"cert", "chain", "id_key", "key", "meta">>)
  \o [i \in 1..Len(ClientTrees) |-> Unlink(ClientTrees[i])]

\* Mutant: without the check of the volume.
ResetAnyVolume ==
  /\ Command("wipe")
  /\ Run(storage_secure_wipe)
  /\ UNCHANGED target

\* RESET_DEVICE, confirmed on the device; recovery mode does not refuse it.
RESET_DEVICE ==
  /\ Command("wipe") /\ storage_volume_trusted
  /\ Run(storage_secure_wipe)
  /\ UNCHANGED target

WipeDone ==
  /\ op = "wipe" /\ todo = <<>>
  /\ RamLost /\ Run(<<>>)
  /\ approved' = IF unnoticed THEN approved ELSE {}
  /\ fresh' = ~unnoticed
  /\ UNCHANGED <<constant, wipe_cut, ncommands>>

\* UPDATE_FIRMWARE: another image boots on the same flash.
UPDATE_FIRMWARE ==
  /\ op = "session" /\ ncommands < MaxCommands
  /\ ncommands' = ncommands + 1 /\ fresh' = FALSE
  /\ RamLost /\ Run(<<>>)
  /\ constant' \in Constants
  /\ UNCHANGED <<approved, wipe_cut>>

session_close ==
  /\ op = "session"
  /\ op' = "ready" /\ peer' = None
  /\ UNCHANGED <<fvars, mounted, volume_state, svars, build, target, history>>

\* The plug is pulled while nothing is being written.
Unplug ==
  /\ op \in {"ready", "no_storage"}
  /\ RamLost
  /\ UNCHANGED <<fvars, constant, history>>

Commands ==
  \/ \E c \in Clients : cmd_unpair(c)
  \/ \E force \in BOOLEAN :
       \/ cmd_sign_session(force)
       \/ \E cert \in PushedCerts, chain \in PushedChains : cmd_push_session(cert, chain, force)
  \/ cmd_provision
  \/ CommandDone
  \/ RESET_DEVICE \/ WipeDone
  \/ UPDATE_FIRMWARE \/ session_close
-----------------------------------------------------------------------------
Flash ==
  /\ \/ FileStep /\ UNCHANGED fresh
     \/ (FileFails \/ CloseFails) /\ fresh' = FALSE
  /\ UNCHANGED <<op, mounted, volume_state, svars, link, approved, wipe_cut, ncommands>>

PowerCut ==
  /\ op # "off"
  /\ PowerLost /\ RamLost
  /\ wipe_cut' = (wipe_cut \/ op = "wipe")
  /\ fresh' = FALSE
  /\ UNCHANGED <<constant, approved, ncommands>>

Next == Boot \/ Factory \/ pairing_check_and_bond \/ Commands \/ Unplug \/ Flash \/ PowerCut

Spec == Init /\ [][Next]_vars
-----------------------------------------------------------------------------
\* Whatever parts of the stored identity can be read belong together: the keys,
\* the certificate that binds them and the cached public key come from one mint,
\* however often minting, signing or pushing was interrupted or refused by the
\* flash.  (A wipe that was cut short may leave the meta.bin of the old identity.)
OneIdentity ==
  ~wipe_cut /\ ~unnoticed /\ Readable(CertPath) /\ op # "wipe" =>
    /\ Decrypts(KeyPath) /\ disk[CertPath].x = disk[KeyPath]
    /\ Decrypts(IdKeyPath) /\ disk[CertPath].id = disk[IdKeyPath]
    /\ Readable(MetaPath) => disk[MetaPath].pub = disk[KeyPath]

\* A method that asks the user lets nobody in whom no user ever confirmed, or
\* who was unpaired or wiped away with success since.
AcceptedWasApproved ==
  [][op' = "session" /\ op \in {"ready", "bonding"} /\ method \in TapMethods
       => peer' \in approved']_vars

\* The bonds that count never exceed the cap, and between two operations every
\* fault so far accounts for at most one client that gets in without being
\* counted, and at most one directory LIST_CLIENTS announces and does not list.
FaultsLeaveOneBondEach ==
  /\ client_bond_count <= MAX_CLIENT_BONDS
  /\ todo = <<>> =>
       /\ Cardinality({c \in Clients : Readable(PubPath(c))}) - client_bond_count <= nfaults
       /\ storage_count_client_bonds - list_cb_count <= nfaults

\* After a wipe that met no error the device comes up clean: it can be reached,
\* out of recovery, and knows neither a CA key nor a client.
ResetRecovers ==
  fresh /\ op = "ready" =>
    /\ HasIdentity /\ ~s_in_recovery
    /\ ~Exists(CaKeyPath)
    /\ \A c \in Clients : ~Exists(PubPath(c)) /\ ~Exists(DirPath(c))

\* A CA key leaves the flash by a wipe of a volume that is ours, or by a format of
\* one that did not mount, which only the factory image and a development build
\* do; the factory image formats a good one only when it was built to.
CaKeyLostOnlyByWipe ==
  [][disk[CaKeyPath] = "live" /\ disk'[CaKeyPath] # "live" =>
       \/ op = "wipe" /\ storage_volume_trusted
       \/ op = "factory" /\ (nfaults > 0 \/ FACTORY_FORCE)
       \/ op = "verify" /\ MAY_FORMAT /\ nfaults > 0]_vars

\* docs/storage.md on chain.der: with a CA-signed certificate it is the chain of
\* that certificate's issuer, once the commands that change them have returned.
ChainBelongsToCert ==
  op = "session" /\ Readable(ChainPath) /\ Readable(CertPath) /\ disk[CertPath].signer # "self"
    => disk[ChainPath] = disk[CertPath].signer
=============================================================================
