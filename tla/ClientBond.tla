----------------------------- MODULE ClientBond ----------------------------
(***************************************************************************)
(* firmware/src/clients/client_bond.c: the bonds under /clients, one       *)
(* directory a client, named by the first bytes of its key.  pubkey.bin is *)
(* what makes a bond; only a readable meta.bin makes it count.             *)
(***************************************************************************)
EXTENDS Volume, FiniteSets

CONSTANTS
  Clients,          \* Noise static keys, with distinct prefixes
  ClientOrder,      \* the same, in the order of their names
  MAX_CLIENT_BONDS  \* CONFIG_CANTIL_MAX_CLIENT_BONDS

PubPath(c)  == <<c, "pubkey">>
BMetaPath(c) == <<c, "meta">>
PskPath(c)  == <<c, "psk">>
DirPath(c)  == <<c, "dir">>

BondFiles == <<"meta", "psk", "pubkey">>

\* id_matches_pub: the comparison reads a buffer nobody wrote when the file is
\* empty, so its outcome is anything.
id_matches_pub(c) == IF disk[PubPath(c)] = Empty THEN BOOLEAN ELSE {disk[PubPath(c)] = c}

\* What client_bond_exists may answer.
client_bond_exists(c) == IF Exists(PubPath(c)) THEN id_matches_pub(c) ELSE {FALSE}

\* client_bond_count: count_cb skips a directory whose meta.bin it cannot use.
client_bond_count == Cardinality({c \in Clients : Exists(DirPath(c)) /\ Readable(BMetaPath(c))})

\* Mutant: the result of removing the directory is ignored.
DeleteIgnored(c) == rm_rf(c, BondFiles) \o <<Unlink(DirPath(c))>>

\* storage_client_bond_delete is rm_rf of the directory.
storage_client_bond_delete(c) == rm_rf(c, BondFiles) \o <<Put(DirPath(c), None)>>
CleanUp(c) ==
  <<Unlink(BMetaPath(c)), Unlink(PskPath(c)), Unlink(PubPath(c)), Unlink(DirPath(c))>>

\* Mutant: > for >= in the cap.
CapOffByOne(c, match) ==
  IF ~storage_volume_may_mint THEN "EROFS"
  ELSE IF Exists(PubPath(c)) THEN IF match THEN "EEXIST" ELSE "EADDRINUSE"
  ELSE IF client_bond_count > MAX_CLIENT_BONDS THEN "ENOSPC" ELSE "OK"

\* client_bond_add: what it answers before it writes, for a lookup that said
\* match; and its writes.
client_bond_add(c, match) ==
  IF ~storage_volume_may_mint THEN "EROFS"
  ELSE IF Exists(PubPath(c)) THEN IF match THEN "EEXIST" ELSE "EADDRINUSE"
  ELSE IF client_bond_count >= MAX_CLIENT_BONDS THEN "ENOSPC" ELSE "OK"

BondSteps(c) ==
  << Put(DirPath(c), "dir"), Put(PubPath(c), c), OrElse(Put(BMetaPath(c), "host"), CleanUp(c)) >>

\* client_bond_list_cbor: the header counts directories, list_cb leaves out the
\* ones whose pubkey.bin cannot be read; an empty one reads as whatever the
\* buffer held.
storage_count_client_bonds == Cardinality({c \in Clients : Exists(DirPath(c))})
list_cb_count == Cardinality({c \in Clients : Exists(DirPath(c)) /\ Exists(PubPath(c))})
=============================================================================
