------------------------------ MODULE Dispatch ------------------------------
(***************************************************************************)
(* The opcode switch of protocol_handle_one (firmware/src/protocol/        *)
(* protocol.c), case by case: the checks a case makes on the data, the     *)
(* function it calls and with which arguments, whether the user taps       *)
(* first, how the function's errno becomes a wire error, and what the      *)
(* response carries when the function succeeded and when it did not.       *)
(* The gates before the switch and the taps themselves are Protocol's and  *)
(* Gesture's.                                                              *)
(***************************************************************************)
EXTENDS Cbor, TLC

CONSTANT MAX_KEY_SLOTS

cantil_cmd_t == [SIGN_CSR |-> 1, GET_CA_CERT |-> 2, GET_CA_CHAIN |-> 3, GET_CA_SERIAL |-> 4,
                 PUSH_CA_CERT |-> 6, LIST_CERTS |-> 16, GET_CERT_COUNT |-> 18,
                 REVOKE_CERT |-> 19, AUTO_EXPIRE |-> 20, GET_CRL |-> 21, LIST_KEYS |-> 32,
                 GEN_KEY |-> 33, GEN_KEY_CSR |-> 34, GET_KEY_CSR |-> 35, PUSH_KEY_CERT |-> 36,
                 SIGN_KEY_SLOT |-> 37, PUSH_KEY_X509 |-> 38, DELETE_KEY |-> 39,
                 PROTECT_SLOT |-> 40, UNPROTECT_SLOT |-> 41, SIGN_CSR_SLOT |-> 42,
                 DEVICE_STATUS |-> 48, UPDATE_FIRMWARE |-> 51, PROVISION_CA |-> 52,
                 GET_RANDOM |-> 64, GET_SESSION_CERT |-> 96, GET_SESSION_CSR |-> 97,
                 SIGN_SESSION_FROM_SLOT |-> 98, PUSH_SESSION_CERT |-> 99, LIST_CLIENTS |-> 112,
                 UNPAIR_CLIENT |-> 113, SET_CLIENT_NAME |-> 114, PAIRING_PASSKEY_REPLY |-> 115]
cantil_err_t == [OK |-> 0, DEVICE_LOCKED |-> 1, INVALID_CMD |-> 2, INVALID_ARGS |-> 3,
                 STORAGE |-> 4, CRYPTO |-> 5, NOT_FOUND |-> 6, NO_SLOTS |-> 7, BUSY |-> 8,
                 IDENTITY_MISMATCH |-> 9, AUTH |-> 10, PASSKEY_REQUIRED |-> 11, NOT_PROVISIONED |-> 15,
                 ALREADY_PROVISIONED |-> 16, VOLUME_INVALID |-> 17]

MSG_BUF_SIZE == 4096
RESP_DATA == MSG_BUF_SIZE - 2
CLIENT_META_NAME_MAX == 32

\* What a case comes to: a refusal, with the length it leaves the response, or
\* a call.  errs maps errnos to wire errors, "other" standing for the rest; out
\* says what the response holds: see Payload and FailedPayload.
Refuse(err, len) == [call |-> FALSE, err |-> err, len |-> len]
Invalid == Refuse("INVALID_ARGS", 0)
Call(tap, fn, args, errs, out) ==
  [call |-> TRUE, tap |-> tap, fn |-> fn, args |-> args, errs |-> errs, out |-> out]
Checked(valid, call) == IF valid THEN call ELSE Invalid

Slot(data, off) == At(data, off, 4)
Truth(data, off) == Flag(At(data, off, 1))
RestFrom(data, off) == At(data, off, Size(data) - off)

\* await_protect_confirm comes before the call.
Tapped == TRUE
Plain == FALSE
-----------------------------------------------------------------------------
(* 0x01-0x06, the master CA.  The plain getters leave resp_data_len at the *)
(* size of the buffer when they fail.                                      *)

handle_sign_csr(data) ==
  Call(Plain, "ca_sign_csr", <<RestFrom(data, 0)>>, [other |-> "CRYPTO"], "signed")
handle_get_ca_cert(data) == Call(Plain, "ca_get_cert", <<>>, [other |-> "STORAGE"], "kept")
GET_CA_CHAIN(data) ==
  Checked(Size(data) \in {0, 4},
    Call(Plain, "ca_get_chain_slot", <<IF Size(data) = 4 THEN Slot(data, 0) ELSE U32(0)>>,
         [ENOENT |-> "NOT_FOUND", EINVAL |-> "INVALID_ARGS", other |-> "STORAGE"], "blob"))
GET_CA_SERIAL(data) == Call(Plain, "ca_get_serial", <<>>, [other |-> "STORAGE"], "serial")
-----------------------------------------------------------------------------
(* 0x10-0x15, the certificates it issued. *)

LIST_CERTS(data) == Call(Plain, "ca_list_certs", <<>>, [other |-> "STORAGE"], "certs")
GET_CERT_COUNT(data) == Call(Plain, "ca_get_cert_count", <<>>, [other |-> "STORAGE"], "four")
AUTO_EXPIRE(data) ==
  Checked(Size(data) >= 8,
    Call(Plain, "ca_auto_expire", <<At(data, 0, 8)>>, [other |-> "STORAGE"], "four"))
\* require_now: the build option that takes no revocation without its date.
REVOKE_CERT(data, require_now) ==
  LET sl == At(data, 0, 1).v
      tail == Size(data) - 1 - sl
  IN Checked(/\ Size(data) >= 2 /\ sl \in 1..20 /\ tail \in {0, 8}
             /\ require_now => tail = 8 /\ At(data, 1 + sl, 8).v # 0,
       Call(Plain, "ca_revoke_cert",
            <<At(data, 1, sl), IF tail = 8 THEN At(data, 1 + sl, 8) ELSE U64(0)>>,
            [EINVAL |-> "INVALID_ARGS", EACCES |-> "INVALID_ARGS", ENOENT |-> "NOT_FOUND",
             EALREADY |-> "INVALID_ARGS", other |-> "STORAGE"], "none"))
GET_CRL(data) ==
  Checked(Size(data) = 12 /\ Slot(data, 0).v < MAX_KEY_SLOTS,
    Call(Plain, "ca_get_crl", <<Slot(data, 0), At(data, 4, 8)>>,
         [EINVAL |-> "INVALID_ARGS", ENOENT |-> "NOT_FOUND", ENOMEM |-> "STORAGE",
          other |-> "STORAGE"], "blob"))
-----------------------------------------------------------------------------
(* 0x20-0x2A, the key slots. *)

LIST_KEYS(data) == Call(Plain, "ca_list_keys", <<>>, [other |-> "STORAGE"], "keys")
GEN_KEY(data) ==
  Call(Plain, "ca_gen_key", <<IF Size(data) > 0 THEN At(data, 0, 1) ELSE U8(0)>>,
       [ENOSPC |-> "NO_SLOTS", ENOTSUP |-> "INVALID_ARGS", EINVAL |-> "INVALID_ARGS",
        EPERM |-> "VOLUME_INVALID", other |-> "CRYPTO"], "four")
PROTECT_SLOT(data) ==
  Checked(Size(data) >= 5,
    Call(Tapped, "ca_protect_slot", <<Slot(data, 0), Truth(data, 4)>>,
         [ENOENT |-> "NOT_FOUND", EINVAL |-> "INVALID_ARGS", other |-> "STORAGE"], "none"))
UNPROTECT_SLOT(data) ==
  Checked(Size(data) >= 4,
    Call(Tapped, "ca_unprotect_slot", <<Slot(data, 0)>>,
         [ENOENT |-> "NOT_FOUND", EINVAL |-> "INVALID_ARGS", other |-> "STORAGE"], "none"))
DELETE_KEY(data) ==
  Checked(Size(data) >= 4,
    Call(Plain, "ca_delete_key", <<Slot(data, 0)>>,
         [EPERM |-> "DEVICE_LOCKED", EACCES |-> "DEVICE_LOCKED", ENOENT |-> "NOT_FOUND",
          EINVAL |-> "INVALID_ARGS", other |-> "STORAGE"], "none"))
GEN_KEY_CSR(data) ==
  Checked(Size(data) \in 5..259,
    Call(Plain, "ca_gen_key_csr", <<Slot(data, 0), RestFrom(data, 4)>>,
         [ENOENT |-> "NOT_FOUND", EINVAL |-> "INVALID_ARGS", other |-> "CRYPTO"], "none"))
GET_KEY_CSR(data) ==
  Checked(Size(data) >= 4,
    Call(Plain, "ca_get_key_csr", <<Slot(data, 0)>>,
         [ENOENT |-> "NOT_FOUND", other |-> "STORAGE"], "blob"))
SIGN_CSR_SLOT(data) ==
  Checked(Size(data) >= 5 /\ Slot(data, 0).v < MAX_KEY_SLOTS,
    Call(Plain, "ca_sign_csr_slot", <<Slot(data, 0), RestFrom(data, 4)>>,
         [ENOENT |-> "NOT_FOUND", EINVAL |-> "INVALID_ARGS", other |-> "CRYPTO"], "blob"))
\* Mutant: the issuer is taken for the subject.
SignsTheIssuer(data) ==
  Checked(Size(data) >= 8 /\ Slot(data, 4).v < MAX_KEY_SLOTS,
    Call(Plain, "ca_sign_key_slot", <<Slot(data, 4), Slot(data, 0)>>,
         [ENOENT |-> "NOT_FOUND", EINVAL |-> "INVALID_ARGS", other |-> "CRYPTO"], "none"))

SIGN_KEY_SLOT(data) ==
  Checked(Size(data) >= 8 /\ Slot(data, 0).v < MAX_KEY_SLOTS,
    Call(Plain, "ca_sign_key_slot", <<Slot(data, 0), Slot(data, 4)>>,
         [ENOENT |-> "NOT_FOUND", EINVAL |-> "INVALID_ARGS", other |-> "CRYPTO"], "none"))
PUSH_KEY_CERT(data) ==
  LET cert_len == At(data, 4, 2).v
  IN Checked(Size(data) >= 6 /\ 6 + cert_len <= Size(data),
       Call(Plain, "ca_push_key_cert",
            <<Slot(data, 0), At(data, 6, cert_len), RestFrom(data, 6 + cert_len)>>,
            [EACCES |-> "DEVICE_LOCKED", ENOENT |-> "NOT_FOUND", EINVAL |-> "INVALID_ARGS",
             other |-> "CRYPTO"], "none"))

\* Six length-prefixed strings behind a header of six bytes.
parse_str_field(b, off, cap) ==
  LET n == At(b, off, 1).v
  IN IF off >= Size(b) \/ n >= cap \/ off + 1 + n > Size(b) THEN [ok |-> FALSE]
     ELSE [ok |-> TRUE, str |-> At(b, off + 1, n), off |-> off + 1 + n]
x509_parse(b) ==
  LET One(st, cap) ==
        LET f == parse_str_field(b, st.off, cap)
        IN IF ~st.ok \/ ~f.ok THEN [st EXCEPT !.ok = FALSE]
           ELSE [ok |-> TRUE, off |-> f.off, strs |-> Append(st.strs, f.str)]
      end == FoldLeft(One, [ok |-> Size(b) >= 6, off |-> 6, strs |-> <<>>],
                      <<65, 65, 65, 3, 65, 65>>)
      header == <<At(b, 0, 2), At(b, 2, 1), At(b, 3, 1), At(b, 4, 2)>>
  IN [ok |-> /\ end.ok
             /\ end.strs[1].w > 0 /\ header[1].v # 0 /\ end.strs[4].w \in {0, 2},
      params |-> header \o end.strs]
PUSH_KEY_X509(data) ==
  LET x509 == x509_parse(From(data, 4))
  IN Checked(Size(data) >= 4 /\ x509.ok,
       Call(Plain, "ca_push_key_x509", <<Slot(data, 0)>> \o x509.params,
            [EACCES |-> "DEVICE_LOCKED", EINVAL |-> "INVALID_ARGS", other |-> "CRYPTO"], "none"))
-----------------------------------------------------------------------------
(* 0x30-0x50, the device itself. *)

handle_device_status(data) == Call(Plain, "device_status", <<>>, <<>>, "status")
\* The ACK is out before the reboot; nothing after it is answered.
handle_update_firmware(data) == Call(Plain, "sys_reboot", <<>>, <<>>, "none")
\* provisioned: slot 0 has a key, checked before the user is asked to tap.
PROVISION_CA(data, provisioned) ==
  IF provisioned THEN Refuse("ALREADY_PROVISIONED", 0)
  ELSE Call(Tapped, "ca_provision", <<IF Size(data) > 0 THEN At(data, 0, 1) ELSE U8(0)>>,
            [EEXIST |-> "ALREADY_PROVISIONED", ENOTSUP |-> "INVALID_ARGS",
             EINVAL |-> "INVALID_ARGS", EPERM |-> "VOLUME_INVALID", other |-> "CRYPTO"], "zero")
handle_get_random(data) ==
  IF Size(data) < 2 \/ At(data, 0, 2).v > RESP_DATA THEN Refuse("INVALID_ARGS", RESP_DATA)
  ELSE Call(Plain, "crypto_trng", <<At(data, 0, 2)>>, [other |-> "CRYPTO"], "random")
-----------------------------------------------------------------------------
(* 0x60-0x63, the session certificate. *)

SessionErrs == [ENOENT |-> "NOT_FOUND", EEXIST |-> "INVALID_ARGS", EINVAL |-> "INVALID_ARGS",
                ENOMEM |-> "STORAGE", other |-> "CRYPTO"]
GET_SESSION_CERT(data) ==
  Call(Plain, "session_slot_get_cert", <<>>, [ENOENT |-> "NOT_FOUND", other |-> "STORAGE"], "blob")
GET_SESSION_CSR(data) ==
  Call(Plain, "session_slot_get_csr", <<>>,
       [ENOENT |-> "NOT_FOUND", EINVAL |-> "INVALID_ARGS", ENOMEM |-> "STORAGE",
        other |-> "CRYPTO"], "blob")
SIGN_SESSION_FROM_SLOT(data) ==
  Checked(Size(data) >= 5 /\ Slot(data, 0).v < MAX_KEY_SLOTS,
    Call(Tapped, "session_slot_sign_from_slot", <<Slot(data, 0), Truth(data, 4)>>,
         SessionErrs, "none"))
PUSH_SESSION_CERT(data) ==
  LET cert_len == At(data, 1, 2).v
  IN Checked(Size(data) >= 3 /\ 3 + cert_len <= Size(data),
       Call(Tapped, "session_slot_push_cert",
            <<At(data, 3, cert_len), RestFrom(data, 3 + cert_len), Truth(data, 0)>>,
            SessionErrs, "none"))
-----------------------------------------------------------------------------
(* 0x70-0x73, the clients. *)

LIST_CLIENTS(data) == Call(Plain, "client_bond_list_cbor", <<>>, [other |-> "STORAGE"], "clients")
UNPAIR_CLIENT(data) ==
  Checked(Size(data) = 32,
    Call(Tapped, "client_bond_remove", <<At(data, 0, 32)>>,
         [ENOENT |-> "NOT_FOUND", other |-> "STORAGE"], "none"))
SET_CLIENT_NAME(data) ==
  Checked(Size(data) \in 33..32 + CLIENT_META_NAME_MAX - 1,
    Call(Plain, "client_bond_set_name", <<At(data, 0, 32), RestFrom(data, 32)>>,
         [ENOENT |-> "NOT_FOUND", EINVAL |-> "INVALID_ARGS", other |-> "STORAGE"], "none"))

\* In a build that pairs by passkey the reply is read by the pairing gate, before
\* the session serves commands: wrong digits, a denied tap and a failure to store
\* the bond are the answers that refuse it.
passkey_exchange_and_bond(data) ==
  LET digits == read_uint32(data, 1)
  IN Checked(Size(data) > 0 /\ digits.ok,
       Call(Plain, "passkey_exchange_and_bond", <<U32(digits.v)>>,
            [mismatch |-> "AUTH", busy |-> "BUSY", denied |-> "AUTH", crypto |-> "CRYPTO",
             other |-> "STORAGE"], "none"))
-----------------------------------------------------------------------------
(* The gates before the switch, then the switch.  d is what they look at:  *)
(* see Protocol for how the device comes to be in such a state, and for    *)
(* RESET_DEVICE, which they exempt and the library cannot send.            *)

Dev == [pairing : BOOLEAN, recovery : BOOLEAN, trusted : BOOLEAN, locked : BOOLEAN,
        provisioned : BOOLEAN, may_mint : BOOLEAN, require_now : BOOLEAN]

gate(cmd, d) ==
  LET always == cmd \in {cantil_cmd_t.DEVICE_STATUS, cantil_cmd_t.UPDATE_FIRMWARE}
      master_ca == cmd \in cantil_cmd_t.SIGN_CSR..cantil_cmd_t.PUSH_CA_CERT
      mints == cmd \in {cantil_cmd_t.PROVISION_CA, cantil_cmd_t.GEN_KEY}
  IN IF d.recovery /\ ~always THEN "IDENTITY_MISMATCH"
     ELSE IF ~d.trusted /\ ~always THEN "VOLUME_INVALID"
     ELSE IF d.locked /\ ~always THEN "DEVICE_LOCKED"
     ELSE IF master_ca /\ ~d.provisioned THEN "NOT_PROVISIONED"
     ELSE IF mints /\ ~d.may_mint THEN "VOLUME_INVALID"
     ELSE "OK"

Switch(cmd, data, d) ==
  CASE cmd = cantil_cmd_t.SIGN_CSR -> handle_sign_csr(data)
    [] cmd = cantil_cmd_t.GET_CA_CERT -> handle_get_ca_cert(data)
    [] cmd = cantil_cmd_t.GET_CA_CHAIN -> GET_CA_CHAIN(data)
    [] cmd = cantil_cmd_t.GET_CA_SERIAL -> GET_CA_SERIAL(data)
    [] cmd = cantil_cmd_t.LIST_CERTS -> LIST_CERTS(data)
    [] cmd = cantil_cmd_t.GET_CERT_COUNT -> GET_CERT_COUNT(data)
    [] cmd = cantil_cmd_t.REVOKE_CERT -> REVOKE_CERT(data, d.require_now)
    [] cmd = cantil_cmd_t.AUTO_EXPIRE -> AUTO_EXPIRE(data)
    [] cmd = cantil_cmd_t.GET_CRL -> GET_CRL(data)
    [] cmd = cantil_cmd_t.LIST_KEYS -> LIST_KEYS(data)
    [] cmd = cantil_cmd_t.GEN_KEY -> GEN_KEY(data)
    [] cmd = cantil_cmd_t.GEN_KEY_CSR -> GEN_KEY_CSR(data)
    [] cmd = cantil_cmd_t.GET_KEY_CSR -> GET_KEY_CSR(data)
    [] cmd = cantil_cmd_t.PUSH_KEY_CERT -> PUSH_KEY_CERT(data)
    [] cmd = cantil_cmd_t.SIGN_KEY_SLOT -> SIGN_KEY_SLOT(data)
    [] cmd = cantil_cmd_t.PUSH_KEY_X509 -> PUSH_KEY_X509(data)
    [] cmd = cantil_cmd_t.DELETE_KEY -> DELETE_KEY(data)
    [] cmd = cantil_cmd_t.PROTECT_SLOT -> PROTECT_SLOT(data)
    [] cmd = cantil_cmd_t.UNPROTECT_SLOT -> UNPROTECT_SLOT(data)
    [] cmd = cantil_cmd_t.SIGN_CSR_SLOT -> SIGN_CSR_SLOT(data)
    [] cmd = cantil_cmd_t.DEVICE_STATUS -> handle_device_status(data)
    [] cmd = cantil_cmd_t.UPDATE_FIRMWARE -> handle_update_firmware(data)
    [] cmd = cantil_cmd_t.PROVISION_CA -> PROVISION_CA(data, d.provisioned)
    [] cmd = cantil_cmd_t.GET_RANDOM -> handle_get_random(data)
    [] cmd = cantil_cmd_t.GET_SESSION_CERT -> GET_SESSION_CERT(data)
    [] cmd = cantil_cmd_t.GET_SESSION_CSR -> GET_SESSION_CSR(data)
    [] cmd = cantil_cmd_t.SIGN_SESSION_FROM_SLOT -> SIGN_SESSION_FROM_SLOT(data)
    [] cmd = cantil_cmd_t.PUSH_SESSION_CERT -> PUSH_SESSION_CERT(data)
    [] cmd = cantil_cmd_t.LIST_CLIENTS -> LIST_CLIENTS(data)
    [] cmd = cantil_cmd_t.UNPAIR_CLIENT -> UNPAIR_CLIENT(data)
    [] cmd = cantil_cmd_t.SET_CLIENT_NAME -> SET_CLIENT_NAME(data)
    [] OTHER -> Refuse("INVALID_CMD", 0)

\* A frame taken in: the malformed ones are answered with seq 0; while the client
\* pairs by passkey, a reply with the digits is the only command.
Dispatched(m, d) ==
  LET g == gate(m.code, d)
  IN IF ~m.ok THEN Refuse(IF d.pairing THEN "INVALID_ARGS" ELSE "INVALID_CMD", 0)
     ELSE IF d.pairing
          THEN IF m.code = cantil_cmd_t.PAIRING_PASSKEY_REPLY THEN passkey_exchange_and_bond(m.data)
               ELSE Refuse("PASSKEY_REQUIRED", 0)
     ELSE IF g # "OK" THEN Refuse(g, 0)
     ELSE Switch(m.code, m.data, d)
Numbered(m, d) == [seq |-> IF m.ok THEN m.seq ELSE 0] @@ Dispatched(m, d)
protocol_handle_one(frame, d) == Numbered(cantil_cbor_decode_request(frame), d)
-----------------------------------------------------------------------------
(* What the functions behind the switch hand back. *)

list_certs_cb(e) ==
  emit_map(4) \o emit_letter("f") \o emit_uint(e.f.v) \o emit_letter("i") \o emit_uint(e.i.v)
    \o emit_letter("n") \o emit_tstr(e.n) \o emit_letter("s") \o emit_bstr(Some(e.s))
list_keys_entry(e) ==
  emit_map(5) \o emit_letter("c") \o emit_uint(e.c.v) \o emit_letter("p") \o emit_uint(e.p.v)
    \o emit_letter("r") \o emit_uint(e.r.v) \o emit_letter("s") \o emit_uint(e.s.v)
    \o emit_letter("t") \o emit_uint(e.t.v)
list_cb(e) ==
  emit_map(4) \o emit_letter("k") \o emit_uint(e.k.v) \o emit_letter("n") \o emit_uint(e.n.v)
    \o emit_letter("p") \o emit_bstr(<<e.p>>) \o emit_letter("t") \o emit_tstr(e.t)

\* The header counts what is on the disk, total; an entry that cannot be read is
\* skipped in the list of clients only.
emit_list(items, total) == emit_array(total) \o FlattenSeq(items)

put_be32(x) == U32(x)
device_status(locked, certs, slots, free, provisioned, state) ==
  <<U8(0), U8(1), U8(0), U8(locked), put_be32(certs), put_be32(certs), put_be32(slots),
    put_be32(MAX_KEY_SLOTS), put_be32(free), U8(0), U8(0), U8(provisioned), U8(state)>>

\* What a response carries once the function failed.  The getters that check
\* nothing leave the length of the buffer; ca_sign_csr may also have written the
\* certificate it then failed to record.
FailedPayload(out) ==
  CASE out = "four" -> {<<U32(0)>>}
    [] out \in {"kept", "random"} -> {<<Garbage(RESP_DATA)>>}
    [] out = "signed" -> {<<Garbage(RESP_DATA)>>, <<Field(500, 1)>>}
    [] OTHER -> {<<>>}

\* Mutant: the response is sent whatever its size.
ResponseUnchecked(seq, err, data) ==
  [ok |-> TRUE, frame |-> cantil_cbor_encode_response(seq, cantil_err_t[err], data)]

Response(seq, err, data) ==
  LET frame == cantil_cbor_encode_response(seq, cantil_err_t[err], data)
  IN IF Size(frame) > MSG_BUF_SIZE THEN [ok |-> FALSE] ELSE [ok |-> TRUE, frame |-> frame]
=============================================================================
