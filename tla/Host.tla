-------------------------------- MODULE Host --------------------------------
(***************************************************************************)
(* The cantil command line tool: its key store in the user's home, the     *)
(* trust policy it applies to the device at the port, pairing, and the     *)
(* commands.  One process at a time; it can be killed between any two      *)
(* steps, and a file it was writing is then left truncated.                *)
(***************************************************************************)
EXTENDS Naturals

CONSTANTS
  Units,         \* devices that may be plugged in; a unit is its static key
  Leaves,        \* session certificates a unit may present ...
  SelfSigned,    \* ... and the one it mints at its first boot
  Anchor,        \* for each leaf, the CA it chains to
  CN,            \* and its subject CN, None when it has none that fits
  AllowList,     \* the CAs given with --ca-dir and --ca-cert
  Migrates,      \* TRUE: the home may hold the flat layout of old versions
  MaxRuns,       \* bound: commands run
  MaxFaults,     \* bound: processes killed, writes and renames that fail
  None, Empty    \* no such file; a file truncated and not written

\* What is in a file is told apart from there being none, and a unit's name
\* from the two places of the key store that are no unit's.
ASSUME HostAssumption ==
  /\ MaxRuns \in Nat /\ MaxFaults \in Nat
  /\ SelfSigned \in Leaves
  /\ None # Empty /\ {None, Empty} \cap (Leaves \cup Units \cup 0..MaxRuns) = {}
  /\ {"home", "flat"} \cap Units = {}

HomeFiles   == {"client_priv", "client_pub", "client_cert", "client_chain"}
UnitFiles   == {"dir", "device_pub", "session_fp", "session_cn"}
FlatFiles   == UnitFiles \ {"dir"}
Files == ({"home"} \X HomeFiles) \cup (Units \X UnitFiles) \cup ({"flat"} \X FlatFiles)

Priv == <<"home", "client_priv">>
Pub  == <<"home", "client_pub">>
Flat(f) == <<"flat", f>>

VARIABLES
  store,       \* the key store
  port, leaf,  \* the unit plugged in; per unit, the certificate of its session
               \* slot, None for a firmware that presents none
  ca_key,      \* units with a CA key ...
  ca_provisioned, \* ... and those whose status says so
  ca_cert,     \* per unit, the run whose subject its CA certificate has, or 0
  uf2,         \* units that sit in the UF2 bootloader
  pc,          \* the step the process is at, "idle" when none runs
  cmd,         \* its arguments
  device_dir,  \* key_store.c: the unit whose directory is selected
  warned,      \* the run has warned that it could not save the pin
  newkeys,     \* client key pairs generated so far
  nruns, nfaults,
  pinned,      \* history: the leaf at the last pairing reported successful,
               \* Empty when the device presented none
  disturbed,   \* history: units whose files a later run left unfinished
  ok           \* history: what the last run reported

authority == <<ca_key, ca_provisioned, ca_cert>>
units == <<port, leaf, authority, uf2>>
steady == <<warned, nfaults>>
hist  == <<pinned, disturbed, ok>>
vars  == <<store, units, pc, cmd, device_dir, warned, newkeys, nruns, nfaults, hist>>

Exists(f)   == store[f] # None
Readable(f) == store[f] \notin {None, Empty}

\* build_device_path: in devices/<fp16>/, named after the device's key.
Mine(f) == <<device_dir, f>>

\* A flat layout, where there is one, is of a unit paired by an old version.
FlatStores ==
  LET none == [f \in Files |-> None]
  IN  {none} \cup
      (IF Migrates
       THEN {[none EXCEPT ![Priv] = 0, ![Pub] = 0,
                          ![Flat("device_pub")] = u,
                          ![Flat("session_fp")] = SelfSigned,
                          ![Flat("session_cn")] = CN[SelfSigned]]
              : u \in Units}
       ELSE {})

HInit ==
  /\ store \in FlatStores
  /\ port \in Units
  /\ leaf \in [Units -> {SelfSigned, None}]
  /\ ca_key = {} /\ ca_provisioned = {} /\ ca_cert = [u \in Units |-> 0] /\ uf2 = {}
  /\ pc = "idle" /\ cmd = None /\ device_dir = None /\ warned = FALSE
  /\ newkeys = 0 /\ nruns = 0 /\ nfaults = 0
  /\ pinned = [u \in Units |-> IF store[Flat("device_pub")] = u THEN SelfSigned ELSE None]
  /\ disturbed = {} /\ ok = TRUE

Goto(step) == pc' = step /\ UNCHANGED <<cmd, device_dir, nruns, ok>>
Exit(status) ==
  pc' = "idle" /\ ok' = status /\ device_dir' = None /\ cmd' = None /\ UNCHANGED nruns

Fault == nfaults < MaxFaults /\ nfaults' = nfaults + 1

\* write_key_file, which truncates before it writes.
Write(f, val) == store' = [store EXCEPT ![f] = val]

(***************************************************************************)
(* Starting a command: key_store_init, with the migration of a flat        *)
(* layout, and the client key pair.                                        *)
(***************************************************************************)
Others == {"request", "session-sign", "provision-ca", "update-firmware"}

\* --cn counts with --trust ca+cn only.
Commands ==
  [op : {"pair"}, force : BOOLEAN, client_cert : {"none", "leaf", "chain"}]
  \cup [op : Others, trust : {"auto", "none", "pin", "ca"}, cn : {None}]
  \cup [op : Others, trust : {"ca+cn"}, cn : {None} \cup {CN[l] : l \in Leaves}]

main ==
  /\ pc = "idle" /\ nruns < MaxRuns /\ nruns' = nruns + 1
  /\ cmd' \in Commands
  /\ IF store[Flat("device_pub")] \in Units
     THEN pc' = "device_pub" /\ device_dir' = store[Flat("device_pub")]
     ELSE pc' = "keys" /\ UNCHANGED device_dir
  /\ disturbed' = disturbed \cup ({device_dir'} \ {None})
  /\ warned' = FALSE
  /\ ok' = TRUE
  /\ UNCHANGED <<store, units, newkeys, nfaults, pinned>>

\* try_migrate_flat_layout: the renames, in the order of names[].
After == [device_pub |-> "session_fp", session_fp |-> "session_cn", session_cn |-> "keys"]

MakeDir == [store EXCEPT ![Mine("dir")] = "dir"]

try_migrate_flat_layout ==
  /\ pc \in FlatFiles
  /\ store' = IF Exists(Flat(pc))
              THEN [MakeDir EXCEPT ![Mine(pc)] = store[Flat(pc)], ![Flat(pc)] = None]
              ELSE MakeDir
  /\ Goto(After[pc])
  /\ disturbed' = IF pc = "session_cn" /\ store[Mine("session_fp")] = pinned[device_dir]
                  THEN disturbed \ {device_dir} ELSE disturbed
  /\ UNCHANGED <<units, steady, newkeys, pinned>>

\* A rename that fails is passed over; without the directory all of them fail.
RenameFails ==
  /\ pc \in FlatFiles /\ Fault
  /\ \/ store' = MakeDir /\ Goto(After[pc])
     \/ pc = "device_pub" /\ UNCHANGED store /\ Goto("keys")
  /\ UNCHANGED <<units, warned, newkeys, pinned, disturbed>>

\* key_store_load_client_keypair: -ENOENT, and only it, makes pair generate.
Missing == store[Priv] = None \/ (Readable(Priv) /\ store[Pub] = None)

\* Mutant: pair --force makes a new client key as well.
LoadKeysUnlessForced ==
  /\ pc = "keys"
  /\ IF cmd.op = "pair" /\ cmd.force THEN Goto("save priv")
     ELSE IF Readable(Priv) /\ Readable(Pub) THEN Goto("open")
     ELSE IF Missing /\ cmd.op = "pair" THEN Goto("save priv")
     ELSE Exit(FALSE)
  /\ UNCHANGED <<store, units, steady, newkeys, pinned, disturbed>>

LoadKeys ==
  /\ pc = "keys"
  /\ \/ /\ Readable(Priv) /\ Readable(Pub) /\ Goto("open")
     \/ /\ Missing /\ cmd.op = "pair" /\ Goto("save priv")
     \/ /\ ~(Readable(Priv) /\ Readable(Pub)) /\ ~(Missing /\ cmd.op = "pair")
        /\ Exit(FALSE)
  /\ UNCHANGED <<store, units, steady, newkeys, pinned, disturbed>>

SavePriv ==
  /\ pc = "save priv"
  /\ newkeys' = newkeys + 1 /\ Write(Priv, newkeys') /\ Goto("save pub")
  /\ UNCHANGED <<units, steady, pinned, disturbed>>

SavePub ==
  /\ pc = "save pub"
  /\ Write(Pub, newkeys) /\ Goto("open")
  /\ UNCHANGED <<units, steady, newkeys, pinned, disturbed>>

(***************************************************************************)
(* The trust policy.                                                       *)
(***************************************************************************)
\* Mutant: without --trust the stored fingerprint is not looked at.
TierNeverPins == IF cmd.trust # "auto" THEN cmd.trust ELSE "none"

\* build_policy_ctx: the tier, and whether what it needs is there.
Tier == IF cmd.trust # "auto" THEN cmd.trust
        ELSE IF Readable(Mine("session_fp")) THEN "pin" ELSE "none"

expected_cn == IF cmd.cn # None THEN cmd.cn ELSE store[Mine("session_cn")]

build_policy_ctx ==
  /\ Tier = "pin" => Readable(Mine("session_fp"))
  /\ Tier \in {"ca", "ca+cn"} => AllowList # {}
  /\ Tier = "ca+cn" => expected_cn \notin {None, Empty}

tier2 == leaf[port] # None /\ store[Mine("session_fp")] = leaf[port]
tier3_chain_validate == leaf[port] # None /\ Anchor[leaf[port]] \in AllowList
tier4_cn_validate == tier3_chain_validate /\ expected_cn = CN[leaf[port]]

cantil_trust_check_policy ==
  CASE Tier = "none"  -> TRUE
    [] Tier = "pin"   -> tier2
    [] Tier = "ca"    -> tier3_chain_validate
    [] Tier = "ca+cn" -> tier4_cn_validate

\* open_device_session: a handshake without a policy, to learn the key; then
\* the directory of that key, and the policy on the open session.
key_store_select_device == Exists(<<port, "dir">>)

open_device_session ==
  /\ pc = "open" /\ cmd.op # "pair" /\ port \notin uf2
  /\ \/ key_store_select_device /\ device_dir' = port /\ pc' = "policy"
        /\ UNCHANGED <<cmd, nruns, ok>>
     \/ ~key_store_select_device /\ Exit(FALSE)
  /\ UNCHANGED <<store, units, steady, newkeys, pinned, disturbed>>

CheckPolicy ==
  /\ pc = "policy"
  /\ IF build_policy_ctx /\ cantil_trust_check_policy
     THEN Goto(cmd.op)
     ELSE Exit(FALSE)
  /\ UNCHANGED <<store, units, steady, newkeys, pinned, disturbed>>

\* No device answers, or it refuses the handshake.
CannotOpen ==
  /\ pc = "open"
  /\ Exit(FALSE)
  /\ UNCHANGED <<store, units, steady, newkeys, pinned, disturbed>>

(***************************************************************************)
(* cantil pair.                                                            *)
(***************************************************************************)
\* Mutant: a directory the migration has selected stays selected.
PairOpenKeepsDirectory ==
  /\ pc = "open" /\ cmd.op = "pair" /\ port \notin uf2
  /\ IF ~cmd.force /\ key_store_select_device /\ Exists(<<port, "device_pub">>)
     THEN Exit(FALSE) /\ UNCHANGED store
     ELSE /\ Write(<<port, "dir">>, "dir")
          /\ device_dir' = (IF device_dir = None THEN port ELSE device_dir)
          /\ pc' = "passkey" /\ UNCHANGED <<cmd, nruns, ok>>
  /\ UNCHANGED <<units, steady, newkeys, pinned, disturbed>>

\* The handshake, the force check and key_store_init_device.
PairOpen ==
  /\ pc = "open" /\ cmd.op = "pair" /\ port \notin uf2
  /\ IF ~cmd.force /\ key_store_select_device /\ Exists(<<port, "device_pub">>)
     THEN Exit(FALSE) /\ UNCHANGED store
     ELSE /\ Write(<<port, "dir">>, "dir")
          /\ device_dir' = port /\ pc' = "passkey" /\ UNCHANGED <<cmd, nruns, ok>>
  /\ UNCHANGED <<units, steady, newkeys, pinned, disturbed>>

\* The passkey exchange, where --passkey asks for it.
PairPasskey ==
  /\ pc = "passkey"
  /\ Goto("save fp") \/ Exit(FALSE)
  /\ UNCHANGED <<store, units, steady, newkeys, pinned, disturbed>>

\* What the steps up to the tap save, where there is something to save, and the
\* step that follows.
Saves == {"save fp", "save cn", "save cert", "save chain"}
Saved ==
  CASE pc = "save fp" -> [file |-> Mine("session_fp"), val |-> leaf[port]]
    [] pc = "save cn" -> [file |-> Mine("session_cn"),
                          val |-> IF leaf[port] = None THEN None ELSE CN[leaf[port]]]
    [] pc = "save cert" -> [file |-> <<"home", "client_cert">>,
                            val |-> IF cmd.client_cert # "none" THEN "cert" ELSE None]
    [] pc = "save chain" -> [file |-> <<"home", "client_chain">>,
                             val |-> IF cmd.client_cert = "chain" THEN "chain" ELSE None]
NextSave ==
  CASE pc = "save fp" -> "save cn" [] pc = "save cn" -> "save cert"
    [] pc = "save cert" -> "save chain" [] pc = "save chain" -> "tap"

\* A device without a certificate is paired without a pin, with a warning.
PairSave ==
  /\ pc \in Saves
  /\ IF Saved.val = None THEN UNCHANGED store ELSE Write(Saved.file, Saved.val)
  /\ Goto(NextSave)
  /\ warned' = (warned \/ (pc = "save fp" /\ Saved.val = None))
  /\ disturbed' = disturbed \cup {port}
  /\ UNCHANGED <<units, nfaults, newkeys, pinned>>

\* A write that fails may leave the file truncated, and pair goes on.
PairSaveFails ==
  /\ pc \in Saves /\ Saved.val # None /\ Fault
  /\ UNCHANGED store \/ Write(Saved.file, Empty)
  /\ Goto(NextSave)
  /\ warned' = (warned \/ pc = "save fp")
  /\ disturbed' = disturbed \cup {port}
  /\ UNCHANGED <<units, newkeys, pinned>>

\* cantil_get_status_wait while the device waits for its tap.
PairTap ==
  /\ pc = "tap"
  /\ Goto("save device_pub") \/ Exit(FALSE)
  /\ UNCHANGED <<store, units, steady, newkeys, pinned, disturbed>>

PairDone ==
  /\ pc = "save device_pub"
  /\ Write(Mine("device_pub"), port)
  /\ Exit(TRUE)
  /\ pinned' = [pinned EXCEPT ![port] = IF leaf[port] = None THEN Empty ELSE leaf[port]]
  /\ disturbed' = IF warned THEN disturbed ELSE disturbed \ {port}
  /\ UNCHANGED <<units, steady, newkeys>>

(***************************************************************************)
(* The commands on an open session.                                        *)
(***************************************************************************)
\* Everything else, from status to unpair: one request and its answer, and
\* nothing kept on the host.
SimpleRequest ==
  /\ pc = "request"
  /\ \E status \in BOOLEAN : Exit(status)
  /\ UNCHANGED <<store, units, steady, newkeys, pinned, disturbed>>

\* session-sign and session-push replace the certificate the host pinned.  Here
\* and below, the device may have done what the tool saw fail or did not live to
\* see, or still do it before it listens again.
SessionSign ==
  /\ pc = "session-sign"
  /\ \/ /\ leaf' \in {[leaf EXCEPT ![port] = l] : l \in Leaves}
        /\ \E status \in BOOLEAN : Exit(status)
     \/ /\ UNCHANGED leaf /\ Exit(FALSE)
  /\ UNCHANGED <<store, port, authority, uf2, steady, newkeys, pinned, disturbed>>

\* provision-ca (without --new): a key, unless the status says there is one ...
ProvisionStatus ==
  /\ pc = "provision-ca"
  /\ \/ Goto(IF port \in ca_provisioned THEN "push x509" ELSE "mint")
     \/ Exit(FALSE)
  /\ UNCHANGED <<store, units, steady, newkeys, pinned, disturbed>>

\* ... which the device makes where there is none; when it fails after that, its
\* status says there is one only from the next boot on ...
Minted == port \notin ca_key /\ ca_key' = ca_key \cup {port}
Shown == ca_provisioned' = ca_provisioned \cup {port}

ProvisionKey ==
  /\ pc = "mint"
  /\ \/ Minted /\ Shown /\ Goto("push x509")
     \/ Minted /\ (Shown \/ UNCHANGED ca_provisioned) /\ Exit(FALSE)
     \/ UNCHANGED <<ca_key, ca_provisioned>> /\ Exit(FALSE)
  /\ UNCHANGED <<store, port, leaf, ca_cert, uf2, steady, newkeys, pinned, disturbed>>

\* Mutant: that the slot is protected already counts as success.
ProvisionCertLockedIsFine ==
  /\ pc = "push x509"
  /\ \/ /\ port \in ca_key /\ ca_cert[port] = 0
        /\ ca_cert' = [ca_cert EXCEPT ![port] = nruns]
        /\ \E status \in BOOLEAN : Exit(status)
     \/ UNCHANGED ca_cert /\ Exit(ca_cert[port] # 0)
  /\ UNCHANGED <<store, port, leaf, ca_key, ca_provisioned, uf2, steady, newkeys, pinned,
                 disturbed>>

\* ... and then the subject, from which the device makes the certificate, once.
ProvisionCert ==
  /\ pc = "push x509"
  /\ \/ /\ port \in ca_key /\ ca_cert[port] = 0
        /\ ca_cert' = [ca_cert EXCEPT ![port] = nruns]
        /\ \E status \in BOOLEAN : Exit(status)
     \/ UNCHANGED ca_cert /\ Exit(FALSE)
  /\ UNCHANGED <<store, port, leaf, ca_key, ca_provisioned, uf2, steady, newkeys, pinned,
                 disturbed>>

\* update-firmware: the device acknowledges and reboots into the bootloader,
\* whose drive the image is copied to.
TriggerUf2 ==
  /\ pc = "update-firmware"
  /\ \/ uf2' = uf2 \cup {port} /\ Goto("copy")
     \/ uf2' \in {uf2, uf2 \cup {port}} /\ Exit(FALSE)
  /\ UNCHANGED <<store, port, leaf, authority, steady, newkeys, pinned, disturbed>>

CopyImage ==
  /\ pc = "copy"
  /\ \/ uf2' = uf2 \ {port} /\ \E status \in BOOLEAN : Exit(status)
     \/ UNCHANGED uf2 /\ Exit(FALSE)
  /\ UNCHANGED <<store, port, leaf, authority, steady, newkeys, pinned, disturbed>>

(***************************************************************************)
(* The user: another device, or a power cycle; and a process that dies.    *)
(***************************************************************************)
Plug ==
  /\ pc = "idle"
  /\ port' \in Units /\ uf2' = uf2 \ {port'}
  /\ ca_provisioned' = ca_provisioned \cup (ca_key \cap {port'})
  /\ UNCHANGED <<store, leaf, ca_key, ca_cert, pc, cmd, device_dir, steady, newkeys, nruns, hist>>

\* The file the step at hand writes.
BeingWritten ==
  CASE pc = "save priv" -> {Priv}
    [] pc = "save pub"  -> {Pub}
    [] pc \in Saves -> IF Saved.val # None THEN {Saved.file} ELSE {}
    [] pc = "save device_pub" -> {Mine("device_pub")}
    [] OTHER -> {}

\* Killed, or ended by a write that fails.
Killed ==
  /\ pc # "idle" /\ Fault
  /\ Exit(FALSE)
  /\ store' \in {store} \cup {[store EXCEPT ![f] = Empty] : f \in BeingWritten}
  /\ disturbed' = IF pc \in Saves THEN disturbed \cup {port} ELSE disturbed
  /\ UNCHANGED <<units, warned, newkeys, pinned>>

HNext ==
  \/ main \/ try_migrate_flat_layout \/ RenameFails \/ LoadKeys \/ SavePriv \/ SavePub
  \/ open_device_session \/ CheckPolicy \/ CannotOpen
  \/ PairOpen \/ PairPasskey \/ PairSave \/ PairSaveFails \/ PairTap \/ PairDone
  \/ SimpleRequest \/ SessionSign \/ ProvisionStatus \/ ProvisionKey \/ ProvisionCert
  \/ TriggerUf2 \/ CopyImage \/ Plug \/ Killed

HSpec == HInit /\ [][HNext]_vars

-----------------------------------------------------------------------------
(***************************************************************************)
(* Properties.                                                             *)
(***************************************************************************)
\* The type of the tool's state: a directory is selected only while a
\* command runs, and it is always the one of the device at the port once a
\* session is open.
HostTypeOK ==
  /\ {store[Priv], store[Pub]} \subseteq {None, Empty} \cup 0..MaxRuns
  /\ \A u \in Units : store[<<u, "session_fp">>] \in {None, Empty} \cup Leaves
  /\ \A u \in Units : store[<<u, "device_pub">>] \in {None, Empty, u}
  /\ pc = "idle" => device_dir = None
  /\ pc \notin FlatFiles \cup {"idle", "keys", "save priv", "save pub", "open"}
       => device_dir = port

CommandStarts == pc = "policy" /\ pc' = cmd.op

\* Once pair has reported that a device is pinned, a command goes to that
\* device only while it presents the certificate that was pinned, unless the
\* user asked for another tier, the pin could not be saved, or a later pairing
\* or migration was cut short or had a rename fail; and whatever tier the user
\* asked for is the one applied.
TrustHolds ==
  [][CommandStarts =>
      /\ cmd.trust \in {"auto", "pin"} /\ pinned[port] \in Leaves /\ port \notin disturbed
           => leaf[port] = pinned[port]
      /\ cmd.trust = "pin" => store[Mine("session_fp")] = leaf[port]
      /\ cmd.trust \in {"ca", "ca+cn"} => Anchor[leaf[port]] \in AllowList
      /\ cmd.trust = "ca+cn" /\ cmd.cn # None => cmd.cn = CN[leaf[port]]]_vars

\* The client key a device has bonded is never replaced: after the first
\* successful pairing no command, however it ends, writes another.
ClientKeyKept ==
  [][(\E u \in Units : pinned[u] # None) => store'[Priv] = store[Priv]
                                            /\ store'[Pub] = store[Pub]]_vars

\* provision-ca can be run again after one that was cut short or that saw a
\* request fail which the device carried out: the subject goes to a device that
\* has a CA key, and a run that reports success has made the certificate itself,
\* with the subject it was given, and not found that of an earlier run.
ProvisionResumes ==
  [][/\ pc = "push x509" => port \in ca_key
     /\ pc = "push x509" /\ pc' = "idle" /\ ok' => ca_cert'[port] = nruns]_vars
=============================================================================
