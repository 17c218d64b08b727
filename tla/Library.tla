------------------------------- MODULE Library ------------------------------
(***************************************************************************)
(* libcantil's calls (ca.c, device.c, clients.c, pairing.c): what each     *)
(* checks, the request it lays out, and what it makes of the response.     *)
(*                                                                         *)
(* Arguments are fields (Cbor): a slot is Field(4, slot), a certificate or *)
(* a name of n bytes Field(n, id), a missing one Nothing.  A call yields a *)
(* request, with the size of the buffer it gives the response and what it  *)
(* expects in it, or is refused before anything is sent.                   *)
(***************************************************************************)
EXTENDS Cbor, FiniteSets, TLC

CMD == [SIGN_CSR |-> 1, GET_CA_CERT |-> 2, GET_CA_CHAIN |-> 3, GET_CA_SERIAL |-> 4,
        LIST_CERTS |-> 16, GET_CERT_COUNT |-> 18, REVOKE_CERT |-> 19, AUTO_EXPIRE |-> 20,
        GET_CRL |-> 21, LIST_KEYS |-> 32, GEN_KEY |-> 33, GEN_KEY_CSR |-> 34,
        GET_KEY_CSR |-> 35, PUSH_KEY_CERT |-> 36, SIGN_KEY_SLOT |-> 37, PUSH_KEY_X509 |-> 38,
        DELETE_KEY |-> 39, PROTECT_SLOT |-> 40, UNPROTECT_SLOT |-> 41, SIGN_CSR_SLOT |-> 42,
        DEVICE_STATUS |-> 48, UPDATE_FIRMWARE |-> 51, PROVISION_CA |-> 52, GET_RANDOM |-> 64,
        GET_SESSION_CERT |-> 96, GET_SESSION_CSR |-> 97, SIGN_SESSION_FROM_SLOT |-> 98,
        PUSH_SESSION_CERT |-> 99, LIST_CLIENTS |-> 112, UNPAIR_CLIENT |-> 113,
        SET_CLIENT_NAME |-> 114, PAIRING_PASSKEY_REPLY |-> 115]

CA_SCRATCH_SZ == 4096 + 64
CLIENTS_SCRATCH_SZ == 4096
RANDOM_SCRATCH_SZ == 16 + 4096
CANTIL_CLIENT_NAME_MAX == 32
CANTIL_SUBJECT_MAX == 256
CANTIL_FW_CHUNK_MAX == 3968

Refused == [ok |-> FALSE]
Request(cmd, body, scratch, out) ==
  [ok |-> TRUE, cmd |-> cmd, body |-> body, scratch |-> scratch, out |-> out]
RequestIf(valid, cmd, body, scratch, out) ==
  IF valid THEN Request(cmd, body, scratch, out) ELSE Refused
-----------------------------------------------------------------------------
(* ca.c *)

cantil_sign_csr(csr) ==
  RequestIf(csr.w > 0, CMD.SIGN_CSR, <<csr>>, CA_SCRATCH_SZ, "dup")
cantil_get_ca_serial == Request(CMD.GET_CA_SERIAL, <<>>, 128, "dup")
cantil_get_cert_count == Request(CMD.GET_CERT_COUNT, <<>>, 64, "u32")
\* A list is shown to the caller's callback, which stops it at entry stop (0: never).
Listing(cmd, scratch, out, stop) == [stop |-> stop.v] @@ Request(cmd, <<>>, scratch, out)
cantil_list_certs(stop) == Listing(CMD.LIST_CERTS, CA_SCRATCH_SZ, "certs", stop)
cantil_gen_key(type) == Request(CMD.GEN_KEY, <<U8(type.v)>>, 64, "u32")
cantil_provision_ca(type) == Request(CMD.PROVISION_CA, <<U8(type.v)>>, 64, "zero")
cantil_protect_slot(slot, protect_issued) ==
  Request(CMD.PROTECT_SLOT, <<U32(slot.v), Flag(protect_issued)>>, 64, "none")
cantil_unprotect_slot(slot) == Request(CMD.UNPROTECT_SLOT, <<U32(slot.v)>>, 64, "none")
cantil_gen_key_csr(slot, dn) ==
  RequestIf(dn.w \in 1..240, CMD.GEN_KEY_CSR, <<U32(slot.v), dn>>, 64, "none")
cantil_get_key_csr(slot) == Request(CMD.GET_KEY_CSR, <<U32(slot.v)>>, CA_SCRATCH_SZ, "dup")
cantil_push_key_cert(slot, cert, chain) ==
  RequestIf(cert.w \in 1..65535 /\ 6 + cert.w + chain.w <= 2000, CMD.PUSH_KEY_CERT,
            <<U32(slot.v), U16(cert.w), cert>> \o Some(chain), 64, "none")

x509_emit_str(s) == <<U8(s.w)>> \o Some(s)
cantil_push_key_x509(slot, validity_days, is_ca, path_len, key_usage, cn, o, ou, c, st, l) ==
  RequestIf(/\ validity_days.v # 0 /\ cn.w \in 1..64 /\ c.w \in {0, 2}
            /\ \A s \in {o, ou, st, l} : s.w <= 64,
            CMD.PUSH_KEY_X509,
            <<U32(slot.v), U16(validity_days.v), Flag(is_ca),
              IF path_len.v < 0 THEN U8(255) ELSE U8(path_len.v), U16(key_usage.v)>>
              \o x509_emit_str(cn) \o x509_emit_str(o) \o x509_emit_str(ou)
              \o x509_emit_str(c) \o x509_emit_str(st) \o x509_emit_str(l),
            64, "none")

cantil_sign_csr_slot(issuer, csr) ==
  RequestIf(csr.w \in 1..1024, CMD.SIGN_CSR_SLOT, <<U32(issuer.v), csr>>, CA_SCRATCH_SZ, "dup")
cantil_sign_key_slot(issuer, subject) ==
  Request(CMD.SIGN_KEY_SLOT, <<U32(issuer.v), U32(subject.v)>>, 64, "none")
cantil_delete_key(slot) == Request(CMD.DELETE_KEY, <<U32(slot.v)>>, 64, "none")
cantil_list_keys(stop) == Listing(CMD.LIST_KEYS, CA_SCRATCH_SZ, "keys", stop)
cantil_auto_expire(now) ==
  RequestIf(now.v > 0, CMD.AUTO_EXPIRE, <<U64(now.v)>>, 64, "u32")
cantil_revoke_cert_at(serial, now) ==
  RequestIf(serial.w \in 1..20, CMD.REVOKE_CERT,
            <<U8(serial.w), serial>> \o (IF now.v # 0 THEN <<U64(now.v)>> ELSE <<>>), 64, "none")
cantil_get_crl(slot, now) ==
  RequestIf(now.v # 0, CMD.GET_CRL, <<U32(slot.v), U64(now.v)>>, CA_SCRATCH_SZ, "dup")
cantil_get_ca_cert == Request(CMD.GET_CA_CERT, <<>>, CA_SCRATCH_SZ, "dup")
cantil_get_session_cert == Request(CMD.GET_SESSION_CERT, <<>>, CA_SCRATCH_SZ, "dup")
cantil_get_session_csr == Request(CMD.GET_SESSION_CSR, <<>>, CA_SCRATCH_SZ, "dup")
cantil_sign_session_from_slot(issuer, force) ==
  Request(CMD.SIGN_SESSION_FROM_SLOT, <<U32(issuer.v), Flag(force)>>, 64, "none")
cantil_push_session_cert(cert, chain, force) ==
  RequestIf(cert.w \in 1..65535 /\ 3 + cert.w + chain.w <= 3000, CMD.PUSH_SESSION_CERT,
            <<Flag(force), U16(cert.w), cert>> \o Some(chain), 64, "none")
cantil_get_key_chain(slot) == Request(CMD.GET_CA_CHAIN, <<U32(slot.v)>>, CA_SCRATCH_SZ, "dup")
cantil_get_ca_chain == Request(CMD.GET_CA_CHAIN, <<>>, CA_SCRATCH_SZ, "dup")
-----------------------------------------------------------------------------
(* device.c, clients.c, pairing.c *)

\* Mutant: room for the status and not for what is around it.
GetStatusTight == Request(CMD.DEVICE_STATUS, <<>>, 32, "status")

cantil_get_status == Request(CMD.DEVICE_STATUS, <<>>, 128, "status")
cantil_trigger_uf2_reboot == Request(CMD.UPDATE_FIRMWARE, <<>>, 64, "uf2")
cantil_random_bytes(n) ==
  RequestIf(n.v \in 1..65535 /\ n.v <= RANDOM_SCRATCH_SZ - 32, CMD.GET_RANDOM, <<U16(n.v)>>,
            RANDOM_SCRATCH_SZ, "exactly")
cantil_list_clients(stop) == Listing(CMD.LIST_CLIENTS, CLIENTS_SCRATCH_SZ, "clients", stop)
cantil_unpair_client(pubkey) == Request(CMD.UNPAIR_CLIENT, <<pubkey>>, 64, "none")
cantil_set_client_name(pubkey, name) ==
  RequestIf(name.w < CANTIL_CLIENT_NAME_MAX, CMD.SET_CLIENT_NAME, <<pubkey>> \o Some(name),
            64, "none")
cantil_pairing_passkey_reply(digits) ==
  RequestIf(digits.v \in 1..999999, CMD.PAIRING_PASSKEY_REPLY, emit_uint(digits.v), 32, "none")

\* The image goes out as BEGIN (its size), then CHUNK by CHUNK (offset and data).
encode_fw_begin(total) ==
  emit_map(2) \o emit_uint(0) \o emit_uint(0) \o emit_uint(1) \o emit_uint(total)
encode_fw_chunk(offset, data) ==
  emit_map(3) \o emit_uint(0) \o emit_uint(1) \o emit_uint(1) \o emit_uint(offset)
    \o emit_uint(2) \o emit_bstr(<<data>>)
cantil_fw_update(image) ==
  RequestIf(image.w > 0, CMD.UPDATE_FIRMWARE, encode_fw_begin(image.w), 256, "fw")
-----------------------------------------------------------------------------
(* Sending and receiving: cantil_do_request_to. *)

SEQ == 1
REQ_BUF == 64 + 16
\* Mutant: requests as large as the device's receive buffer.
RxBufSize == 4096

LARGE_REQ_BUF == 2048

\* The frame a request is sent in; it is refused when it outgrows its buffer.
EncodeRequest(req) ==
  LET need == Size(req.body) + 32
      buf == IF need > REQ_BUF THEN LARGE_REQ_BUF ELSE REQ_BUF
      frame == cantil_cbor_encode_request(req.cmd, SEQ, req.body)
  IN IF need > LARGE_REQ_BUF \/ Size(frame) > buf THEN [ok |-> FALSE]
     ELSE [ok |-> TRUE, frame |-> frame]

\* Mutant: an error the library has no code for passes for none.
UnknownErrorsPass(err) ==
  CASE err = 1 -> "DEVICE_LOCKED"
    [] err = 8 -> "TIMEOUT"
    [] OTHER -> "OK"

map_proto_err(err) ==
  CASE err = 0 -> "OK"
    [] err = 1 -> "DEVICE_LOCKED"
    [] err = 8 -> "TIMEOUT"
    [] err = 10 -> "AUTH"
    [] err = 11 -> "PASSKEY_REQUIRED"
    [] err = 12 -> "FW_UPDATE_BUSY"
    [] err = 13 -> "FW_UPDATE_FLASH"
    [] err = 14 -> "INVALID_ARG"
    [] err = 15 -> "NOT_PROVISIONED"
    [] err = 16 -> "ALREADY_PROVISIONED"
    [] err = 17 -> "VOLUME_INVALID"
    [] OTHER -> "PROTOCOL"

Result(rc, val) == [rc |-> rc, val |-> val]
ResultIf(valid, val) == IF valid THEN Result("OK", val) ELSE Result("PROTOCOL", <<>>)

\* dup_resp: an empty answer is no answer.
dup_resp(d) == ResultIf(Size(d) > 0, d)

\* The two fields appended to the status default to what older firmware meant.
parse_status(d) ==
  ResultIf(Size(d) >= 26,
    [k \in 1..4 |-> At(d, k - 1, 1)] \o [k \in 1..5 |-> At(d, 4 * k, 4)]
      \o <<At(d, 24, 1), At(d, 25, 1)>>
      \o <<IF Size(d) > 26 THEN At(d, 26, 1) ELSE U8(1),
           IF Size(d) > 27 THEN At(d, 27, 1) ELSE U8(1)>>)
-----------------------------------------------------------------------------
(* The three lists: an array of maps of one-letter keys, handed to the     *)
(* caller entry by entry.  An entry is a function from letters to fields.  *)

Uint == [mt |-> MT.UINT, len |-> {4}]
Text == [mt |-> MT.TSTR, len |-> 0..CA_SCRATCH_SZ]
Bytes(lens) == [mt |-> MT.BSTR, len |-> lens]

Number(u) == [ok |-> u.ok, i |-> u.i, val |-> U32(u.v)]
String(s, lens) ==
  [ok |-> s.ok /\ Size(s.b) \in lens, i |-> s.i, val |-> IF s.b = <<>> THEN Nothing ELSE s.b[1]]
ReadValue(d, i, kind) ==
  IF kind.mt = MT.UINT THEN Number(read_uint32(d, i))
  ELSE String(ReadString(d, i, kind.mt), kind.len)

ReadInfo(d, kinds, h) ==
  LET n == Cardinality(DOMAIN kinds)
      Known(key) == key.ok /\ Size(key.b) = 1 /\ key.b[1].v \in DOMAIN kinds
      With(st, letter, x) == [ok |-> x.ok, i |-> x.i, info |-> (letter :> x.val) @@ st.info]
      Value(st, key) ==
        IF ~st.ok \/ ~Known(key) THEN [st EXCEPT !.ok = FALSE]
        ELSE With(st, key.b[1].v, ReadValue(d, key.i, kinds[key.b[1].v]))
      Pair(st, j) == Value(st, cantil_cbor_read_tstr(d, st.i))
  IN FoldLeft(Pair, [ok |-> h.ok /\ h.mt = MT.MAP /\ h.v = n, i |-> h.i, info |-> <<>>],
              [j \in 1..n |-> j])

\* What the callback saw is kept when the payload ends before its count does, or
\* the callback stops it.
Listed(st, e, stop) ==
  LET infos == IF e.ok THEN Append(st.infos, e.info) ELSE st.infos
      stopped == e.ok /\ Len(infos) = stop
  IN [rc |-> IF stopped THEN "STOPPED" ELSE IF e.ok THEN "OK" ELSE "PROTOCOL",
      i |-> e.i, infos |-> infos]
RECURSIVE ReadInfos(_, _, _, _, _)
ReadInfos(d, kinds, st, n, stop) ==
  IF st.rc # "OK" \/ n = 0 THEN st
  ELSE ReadInfos(d, kinds, Listed(st, ReadInfo(d, kinds, read_head(d, st.i)), stop), n - 1, stop)
Before(h) == [rc |-> IF h.ok /\ h.mt = MT.ARRAY THEN "OK" ELSE "PROTOCOL", i |-> h.i, infos |-> <<>>]

\* Mutant: the end of the payload is the end of the list.
ReadArrayToTheEnd(d, kinds, h, stop) ==
  [ReadInfos(d, kinds, Before(h), h.v, stop) EXCEPT !.rc = "OK"]

ReadArray(d, kinds, h, stop) == ReadInfos(d, kinds, Before(h), h.v, stop)

CertKinds == Letter.f :> Uint @@ Letter.i :> Uint @@ Letter.n :> Text @@ Letter.s :> Bytes(0..20)
\* cantil_list_keys takes any letter with a number; the device writes these five.
KeyKinds == [l \in {Letter.c, Letter.p, Letter.r, Letter.s, Letter.t} |-> Uint]
ClientKinds == Letter.k :> Uint @@ Letter.n :> Uint @@ Letter.p :> Bytes({32}) @@ Letter.t :> Text

\* Of the flags the caller is given the lowest, revoked; of a key slot not the
\* protection, and the certificate and the CSR as a byte; of a name what fits.
Cut(s, max) == IF s.w < max THEN s ELSE Garbage(max - 1)
cantil_cert_info_t(e) ==
  [e EXCEPT ![Letter.f] = U8(@.v % 2), ![Letter.n] = Cut(@, CANTIL_SUBJECT_MAX)]
cantil_key_slot_info_t(e) ==
  [l \in DOMAIN e \ {Letter.p} |-> IF l \in {Letter.c, Letter.r} THEN U8(e[l].v) ELSE e[l]]
cantil_client_info_t(e) == [e EXCEPT ![Letter.t] = Cut(@, CANTIL_CLIENT_NAME_MAX)]

\* The callback is given a struct, filled from an entry.
Kinds == [certs |-> CertKinds, keys |-> KeyKinds, clients |-> ClientKinds]
Struct(list, e) == CASE list = "certs" -> cantil_cert_info_t(e)
                     [] list = "keys" -> cantil_key_slot_info_t(e)
                     [] list = "clients" -> cantil_client_info_t(e)
ReadList(d, list, stop) ==
  LET end == ReadArray(d, Kinds[list], read_head(d, 1), stop)
  IN Result(end.rc, [j \in DOMAIN end.infos |-> Struct(list, end.infos[j])])
-----------------------------------------------------------------------------
\* What the caller is told once a response arrived.
Delivered(req, m) ==
  LET rc == map_proto_err(m.code)
      d == m.data
  IN IF ~m.ok \/ m.seq # SEQ THEN Result("PROTOCOL", <<>>)
     ELSE IF rc = "PROTOCOL" /\ req.out \in {"uf2", "fw"} THEN Result("NOT_SUPPORTED", <<>>)
     ELSE IF rc # "OK" THEN Result(rc, <<>>)
     ELSE CASE req.out \in {"none", "uf2", "fw"} -> Result("OK", <<>>)
            [] req.out = "dup" -> dup_resp(d)
            [] req.out = "u32" -> ResultIf(Size(d) = 4, <<At(d, 0, 4)>>)
            [] req.out = "zero" -> ResultIf(d = <<U32(0)>>, <<>>)
            [] req.out = "exactly" -> ResultIf(Size(d) = At(req.body, 0, 2).v, d)
            [] req.out = "status" -> parse_status(d)
            [] req.out \in DOMAIN Kinds -> ReadList(d, req.out, req.stop)
Deliver(req, frame) == Delivered(req, cantil_cbor_decode_response(frame))

\* cantil_fw_update goes on after BEGIN; the device that acknowledged it has
\* rebooted, so a chunk is refused for its size or gets no answer.
FirstChunk(image) ==
  LET n == IF image.w > CANTIL_FW_CHUNK_MAX THEN CANTIL_FW_CHUNK_MAX ELSE image.w
      req == Request(CMD.UPDATE_FIRMWARE, encode_fw_chunk(0, Field(n, image.v)), 256, "none")
  IN Result(IF EncodeRequest(req).ok THEN "IO" ELSE "INVALID_ARG", <<>>)
=============================================================================
