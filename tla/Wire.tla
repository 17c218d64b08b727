-------------------------------- MODULE Wire --------------------------------
(***************************************************************************)
(* A libcantil call from the arguments to the result: the request it lays  *)
(* out, what the device's dispatcher makes of it, the function that runs,  *)
(* the response, and what the caller is told.  The two ends are separate   *)
(* programs that agree on layouts, lengths and limits by hand; the state   *)
(* machine takes each call over the lengths at which one of them changes   *)
(* its mind.  A call may be given up, and its answer reach the next one;   *)
(* when that happens is Link's.                                            *)
(***************************************************************************)
EXTENDS Library, Dispatch, Chains

CONSTANTS
  Slots, Flags, Times,                    \* numbers a caller passes
  CsrLens, DnLens, CertLens, ChainLens,   \* lengths of what they pass
  NameLens, SerialLens, StrLens, RandomLens, ImageLens,
  OutLens, ListLens,                      \* what the device answers with
  Stops, GivenUp,                         \* when callbacks stop; calls given up
  LeafLens, IssuerLens                    \* the certificates of the handshake

VARIABLES
  phase,
  call,    \* what the caller asked for
  frame,   \* the request, then the response
  job,     \* what the dispatcher made of the request
  ran,     \* what the function behind it came to
  res,     \* what the caller is told
  late,    \* the response to a call that was given up, <<>> if there is none
  own,     \* FALSE: the call was given up or got another one's answer
  met      \* the certificates of the handshake
vars == <<phase, call, frame, job, ran, res, late, own, met>>

NoCall == [name |-> "none", args |-> <<>>]
NoJob == Refuse("OK", 0)
NotRun == [rc |-> "none", data |-> <<>>, entries |-> <<>>, total |-> 0]
NoResult == Result("none", <<>>)
NotMet == [two |-> Failed, three |-> Failed, leaf |-> Nothing, chain |-> <<>>, client |-> <<>>]
-----------------------------------------------------------------------------
(* The calls. *)

Octets(n, id) == IF n = 0 THEN Nothing ELSE Field(n, id)
Of(lens, id) == {Octets(n, id) : n \in lens}
SlotIds == {U32(s) : s \in Slots}
Bools == {U8(x) : x \in Flags}
Nows == {U64(t) : t \in Times}
Pubkey == Field(32, 21)
Strs == Of(StrLens, 31)

\* The function of the firmware each call of the library is there for.
Serves ==
  [sign_csr |-> "ca_sign_csr", get_ca_serial |-> "ca_get_serial",
   get_cert_count |-> "ca_get_cert_count", list_certs |-> "ca_list_certs",
   gen_key |-> "ca_gen_key", provision_ca |-> "ca_provision", protect_slot |-> "ca_protect_slot",
   unprotect_slot |-> "ca_unprotect_slot", gen_key_csr |-> "ca_gen_key_csr",
   get_key_csr |-> "ca_get_key_csr", push_key_cert |-> "ca_push_key_cert",
   push_key_x509 |-> "ca_push_key_x509", sign_csr_slot |-> "ca_sign_csr_slot",
   sign_key_slot |-> "ca_sign_key_slot", delete_key |-> "ca_delete_key",
   list_keys |-> "ca_list_keys", auto_expire |-> "ca_auto_expire",
   revoke_cert_at |-> "ca_revoke_cert", get_crl |-> "ca_get_crl", get_ca_cert |-> "ca_get_cert",
   get_session_cert |-> "session_slot_get_cert", get_session_csr |-> "session_slot_get_csr",
   sign_session_from_slot |-> "session_slot_sign_from_slot",
   push_session_cert |-> "session_slot_push_cert", get_key_chain |-> "ca_get_chain_slot",
   get_ca_chain |-> "ca_get_chain_slot", get_status |-> "device_status",
   trigger_uf2_reboot |-> "sys_reboot", random_bytes |-> "crypto_trng",
   list_clients |-> "client_bond_list_cbor", unpair_client |-> "client_bond_remove",
   set_client_name |-> "client_bond_set_name",
   pairing_passkey_reply |-> "passkey_exchange_and_bond", fw_update |-> "sys_reboot"]

Calls(name) ==
  {[name |-> name, args |-> a] : a \in
    CASE name \in {"get_ca_serial", "get_cert_count", "get_ca_cert", "get_session_cert",
                   "get_session_csr", "get_ca_chain", "get_status", "trigger_uf2_reboot"} ->
           {<<>>}
      [] name \in {"list_certs", "list_keys", "list_clients"} -> {<<U32(k)>> : k \in Stops}
      [] name \in {"unprotect_slot", "get_key_csr", "delete_key", "get_key_chain"} ->
           {<<s>> : s \in SlotIds}
      [] name \in {"gen_key", "provision_ca"} -> {<<t>> : t \in Bools}
      [] name \in {"protect_slot", "sign_session_from_slot"} -> SlotIds \X Bools
      [] name = "sign_key_slot" -> SlotIds \X SlotIds
      [] name = "sign_csr" -> {<<c>> : c \in Of(CsrLens, 11)}
      [] name = "sign_csr_slot" -> SlotIds \X Of(CsrLens, 11)
      [] name = "gen_key_csr" -> SlotIds \X Of(DnLens, 12)
      [] name = "push_key_cert" -> SlotIds \X Of(CertLens, 13) \X Of(ChainLens, 14)
      [] name = "push_session_cert" -> Of(CertLens, 13) \X Of(ChainLens, 14) \X Bools
      [] name = "push_key_x509" ->
           {<<U32(1), U16(days), isca, pl, U16(6), cn, o, Nothing, c, Nothing, l>> :
              days \in {0, 365}, isca \in Bools, pl \in {Field(1, -1), U8(0), U8(3)},
              cn \in Strs, o \in Strs, c \in {Nothing, Field(2, 32), Field(3, 33)}, l \in Strs}
      [] name = "auto_expire" -> {<<t>> : t \in Nows}
      [] name = "revoke_cert_at" -> Of(SerialLens, 15) \X Nows
      [] name = "get_crl" -> SlotIds \X Nows
      [] name = "random_bytes" -> {<<Field(2, n)>> : n \in RandomLens}
      [] name = "unpair_client" -> {<<Pubkey>>}
      [] name = "set_client_name" -> {<<Pubkey, n>> : n \in Of(NameLens, 16)}
      [] name = "pairing_passkey_reply" -> {<<U32(p)>> : p \in {0, 23, 24, 65536, 999999}}
      [] name = "fw_update" -> {<<i>> : i \in Of(ImageLens, 17)}}

Ask(c) ==
  LET a == c.args
  IN CASE c.name = "sign_csr" -> cantil_sign_csr(a[1])
       [] c.name = "get_ca_serial" -> cantil_get_ca_serial
       [] c.name = "get_cert_count" -> cantil_get_cert_count
       [] c.name = "list_certs" -> cantil_list_certs(a[1])
       [] c.name = "gen_key" -> cantil_gen_key(a[1])
       [] c.name = "provision_ca" -> cantil_provision_ca(a[1])
       [] c.name = "protect_slot" -> cantil_protect_slot(a[1], a[2])
       [] c.name = "unprotect_slot" -> cantil_unprotect_slot(a[1])
       [] c.name = "gen_key_csr" -> cantil_gen_key_csr(a[1], a[2])
       [] c.name = "get_key_csr" -> cantil_get_key_csr(a[1])
       [] c.name = "push_key_cert" -> cantil_push_key_cert(a[1], a[2], a[3])
       [] c.name = "push_key_x509" ->
            cantil_push_key_x509(a[1], a[2], a[3], a[4], a[5], a[6], a[7], a[8], a[9], a[10], a[11])
       [] c.name = "sign_csr_slot" -> cantil_sign_csr_slot(a[1], a[2])
       [] c.name = "sign_key_slot" -> cantil_sign_key_slot(a[1], a[2])
       [] c.name = "delete_key" -> cantil_delete_key(a[1])
       [] c.name = "list_keys" -> cantil_list_keys(a[1])
       [] c.name = "auto_expire" -> cantil_auto_expire(a[1])
       [] c.name = "revoke_cert_at" -> cantil_revoke_cert_at(a[1], a[2])
       [] c.name = "get_crl" -> cantil_get_crl(a[1], a[2])
       [] c.name = "get_ca_cert" -> cantil_get_ca_cert
       [] c.name = "get_session_cert" -> cantil_get_session_cert
       [] c.name = "get_session_csr" -> cantil_get_session_csr
       [] c.name = "sign_session_from_slot" -> cantil_sign_session_from_slot(a[1], a[2])
       [] c.name = "push_session_cert" -> cantil_push_session_cert(a[1], a[2], a[3])
       [] c.name = "get_key_chain" -> cantil_get_key_chain(a[1])
       [] c.name = "get_ca_chain" -> cantil_get_ca_chain
       [] c.name = "get_status" -> cantil_get_status
       [] c.name = "trigger_uf2_reboot" -> cantil_trigger_uf2_reboot
       [] c.name = "random_bytes" -> cantil_random_bytes(a[1])
       [] c.name = "list_clients" -> cantil_list_clients(a[1])
       [] c.name = "unpair_client" -> cantil_unpair_client(a[1])
       [] c.name = "set_client_name" -> cantil_set_client_name(a[1], a[2])
       [] c.name = "pairing_passkey_reply" -> cantil_pairing_passkey_reply(a[1])
       [] c.name = "fw_update" -> cantil_fw_update(a[1])
-----------------------------------------------------------------------------
(* What the functions behind the dispatcher may come to. *)

Ok(data) == [rc |-> "ok", data |-> data, entries |-> <<>>, total |-> 0]
OkList(data, entries, total) ==
  [rc |-> "ok", data |-> data, entries |-> entries, total |-> total]
Lists(Emit(_), entries, totals) ==
  {OkList(emit_list([j \in DOMAIN entries |-> Emit(entries[j])], n), entries, n) : n \in totals}
Fits(os) == {o \in os : Size(o.data) <= RESP_DATA}

Certs(n) == [j \in 1..n |-> [f |-> U32(j % 8), i |-> U32(j % 8), n |-> Octets(IF j = 1 THEN 0 ELSE 60, j),
                             s |-> Field(8, 100 + j)]]
Keys(n) == [j \in 1..n |-> [c |-> U32(1), p |-> U32(j % 4), r |-> U32(0), s |-> U32(j - 1),
                            t |-> U32(0)]]
Clients(n) == [j \in 1..n |-> [k |-> U32(0), n |-> U32(70000 + j), p |-> Field(32, 200 + j),
                               t |-> Octets(IF j = 1 THEN 0 ELSE 31, j)]]

\* A bond whose key cannot be read is counted and not listed.
Successes(c) ==
  CASE c.out = "none" -> {Ok(<<>>)}
    [] c.out = "zero" -> {Ok(<<U32(0)>>)}
    [] c.out = "four" -> {Ok(<<U32(5)>>)}
    [] c.out = "serial" -> {Ok(<<Field(n, 3)>>) : n \in {8, 20}}
    [] c.out = "random" -> {Ok(Some(Field(c.args[1].v, 4)))}
    [] c.out = "status" -> {Ok(device_status(0, 2, 1, 64, 1, st)) : st \in 0..2}
    [] c.out \in {"kept", "signed", "blob"} -> {Ok(Some(Field(n, 6))) : n \in OutLens}
    [] c.out = "certs" -> Fits(UNION {Lists(list_certs_cb, Certs(n), {n}) : n \in ListLens})
    [] c.out = "keys" ->
         Fits(UNION {Lists(list_keys_entry, Keys(n), {n}) : n \in ListLens \cap 0..MAX_KEY_SLOTS})
    [] c.out = "clients" -> Fits(UNION {Lists(list_cb, Clients(n), {n, n + 1}) : n \in ListLens})
Failures(c) ==
  {[rc |-> e, data |-> d, entries |-> <<>>, total |-> 0] :
     e \in DOMAIN c.errs, d \in FailedPayload(c.out)}
-----------------------------------------------------------------------------
(* The handshake's certificates.  The device's were pushed by this library *)
(* or are the ones it made for itself.                                     *)

Pushed(leaf, chain) ==
  LET blob == Field(Size(chain), 18)
      req == cantil_push_session_cert(leaf, blob, U8(1))
  IN req.ok /\ EncodeRequest(req).ok
Chain(lens, max) ==
  {[j \in DOMAIN ns |-> Field(ns[j], 300 + j)] : ns \in UNION {[1..n -> lens] : n \in 0..max}}

SendMsg2 ==
  /\ phase = "new"
  /\ \E leaf \in Of(LeafLens, 300), chain \in Chain(IssuerLens, SESSION_CHAIN_MAX_CERTS) :
       /\ Pushed(leaf, chain)
       /\ met' = [NotMet EXCEPT !.leaf = leaf, !.chain = chain, !.two = Msg2Chain(leaf, chain)]
  /\ phase' = IF met'.two.ok THEN "met" ELSE "failed"
  /\ UNCHANGED <<call, frame, job, ran, res, late, own>>

SendMsg3 ==
  /\ phase = "met"
  /\ \E certs \in Chain(LeafLens \cup IssuerLens, SESSION_CHAIN_MAX_CERTS + 1) :
       met' = [NotMet EXCEPT !.client = certs, !.three = Msg3Chain(certs)]
  /\ phase' = IF met'.three.ok THEN "open" ELSE "failed"
  /\ UNCHANGED <<call, frame, job, ran, res, late, own>>

Retry ==
  /\ phase = "failed"
  /\ phase' = "new" /\ met' = NotMet
  /\ UNCHANGED <<call, frame, job, ran, res, late, own>>
-----------------------------------------------------------------------------
(* A call. *)

Names == DOMAIN Serves
\* A client of a later version may send an entry this device does not know.
Later(req) ==
  emit_map(3) \o emit_tstr(Field(5, 9)) \o emit_array(2) \o emit_uint(70000) \o emit_map(1)
    \o emit_tstr(Field(2, 8)) \o emit_bstr(<<Field(300, 1)>>)
    \o emit_tstr(Key.cmd) \o emit_uint(req.cmd) \o emit_tstr(Key.seq) \o emit_uint(SEQ)

Begin ==
  /\ phase = "open"
  /\ met' = NotMet
  /\ \E name \in Names : \E c \in Calls(name) :
       LET req == Ask(c)
           enc == EncodeRequest(req)
       IN /\ call' = c
          /\ IF req.ok /\ enc.ok
             THEN /\ phase' = "asked" /\ UNCHANGED res
                  /\ \E f \in {enc.frame} \cup (IF req.body = <<>> THEN {Later(req)} ELSE {}) :
                       frame' = f
             ELSE phase' = "done" /\ res' = Result("INVALID_ARG", <<>>) /\ UNCHANGED frame
  /\ UNCHANGED <<job, ran, late, own>>

Send(seq, err, data) ==
  LET r == Response(seq, err, data)
  IN IF r.ok THEN frame' = r.frame /\ phase' = "reply"
     ELSE frame' = <<>> /\ phase' = "closed"

Handle ==
  /\ phase = "asked" /\ late = <<>>
  /\ \E d \in Dev : job' = protocol_handle_one(frame, d)
  /\ IF job'.call THEN phase' = "called" /\ UNCHANGED frame
     ELSE Send(job'.seq, job'.err, Some(Garbage(job'.len)))
  /\ UNCHANGED <<call, ran, res, late, own, met>>

await_protect_confirm ==
  /\ phase = "called" /\ job.tap
  /\ \E err \in {"BUSY", "INVALID_CMD"} : Send(job.seq, err, <<>>)
  /\ UNCHANGED <<call, job, ran, res, late, own, met>>

Run ==
  /\ phase = "called"
  /\ ran' \in Successes(job) \cup Failures(job)
  /\ Send(job.seq, IF ran'.rc = "ok" THEN "OK" ELSE job.errs[ran'.rc], ran'.data)
  /\ UNCHANGED <<call, job, res, late, own, met>>

Told(r) == IF Ask(call).out = "fw" /\ r.rc = "OK" THEN FirstChunk(call.args[1]) ELSE r

Return ==
  /\ phase \in {"reply", "closed"}
  /\ res' = Told(IF phase = "closed" THEN Result("IO", <<>>) ELSE Deliver(Ask(call), frame))
  /\ phase' = "done"
  /\ UNCHANGED <<call, frame, job, ran, late, own, met>>

\* The deadline passes with the response on its way.
GiveUp ==
  /\ phase = "reply" /\ call.name \in GivenUp
  /\ late' = frame /\ own' = FALSE
  /\ res' = Result("IO", <<>>) /\ phase' = "done"
  /\ UNCHANGED <<call, frame, job, ran, met>>

\* The next call drains it, and cannot decrypt what follows, or takes it for its
\* own: all requests have the same number.  The session is then of no more use;
\* what the device makes of the request is left out.
ReturnLate ==
  /\ phase = "asked" /\ late # <<>>
  /\ \E r \in {Result("IO", <<>>), Deliver(Ask(call), late)} : res' = Told(r)
  /\ late' = <<>> /\ own' = FALSE /\ phase' = "done"
  /\ UNCHANGED <<call, frame, job, ran, met>>

NextCall ==
  /\ phase = "done"
  /\ phase' = "open" /\ call' = NoCall /\ frame' = <<>> /\ job' = NoJob /\ ran' = NotRun
  /\ res' = NoResult /\ own' = TRUE /\ UNCHANGED <<late, met>>

Init ==
  /\ phase = "new" /\ call = NoCall /\ frame = <<>> /\ job = NoJob /\ ran = NotRun
  /\ res = NoResult /\ late = <<>> /\ own = TRUE /\ met = NotMet
Next == \/ SendMsg2 \/ SendMsg3 \/ Retry
        \/ Begin \/ Handle \/ await_protect_confirm \/ Run \/ Return \/ GiveUp \/ ReturnLate
        \/ NextCall
Spec == Init /\ [][Next]_vars
-----------------------------------------------------------------------------
Codes == {"OK", "DEVICE_LOCKED", "TIMEOUT", "AUTH", "PASSKEY_REQUIRED", "NOT_PROVISIONED",
          "ALREADY_PROVISIONED", "VOLUME_INVALID", "PROTOCOL", "NOT_SUPPORTED", "IO",
          "INVALID_ARG", "STOPPED"}

\* A frame never outgrows the buffer of the end that builds it, LARGE_REQ_BUF in
\* the library and tx_buf in the firmware, and the caller is told one of the
\* library's codes.
WireTypeOK ==
  /\ phase \in {"new", "met", "failed", "open", "asked", "called", "reply", "closed", "done"}
  /\ call.name \in Names \cup {"none"}
  /\ phase \in {"asked", "called"} => Size(frame) <= LARGE_REQ_BUF
  /\ phase = "reply" => Size(frame) <= MSG_BUF_SIZE
  /\ res.rc \in Codes \cup {"none"}
  /\ ran.rc # "none" => job.call

\* A path length below zero stands for none, which is 255 on the wire.
Meant(c) == [j \in DOMAIN c.args |-> IF c.args[j].v < 0 THEN U8(255) ELSE c.args[j]]
\* The calls the library lets through and the dispatcher does not: a client's name
\* may be empty for one and not for the other, only the device knows its slots, and
\* a build may take no revocation without its date.
OutOfRange(c) ==
  \/ c.name = "revoke_cert_at" /\ c.args[2].v = 0
  \/ c.name = "set_client_name" /\ c.args[2].w = 0
  \/ /\ c.name \in {"sign_csr_slot", "sign_key_slot", "get_crl", "sign_session_from_slot"}
     /\ c.args[1].v >= MAX_KEY_SLOTS
\* What libcantil packs is what the dispatcher unpacks: the function the call is
\* there for runs, with the arguments the caller gave, and no request the library
\* sends is refused for its layout.
CallsArriveIntact ==
  /\ phase = "called" =>
       /\ job.fn = Serves[call.name]
       /\ job.args = CASE call.name = "get_ca_chain" -> <<U32(0)>>
                        [] call.name \in {"fw_update", "list_certs", "list_keys", "list_clients"} -> <<>>
                        [] OTHER -> Meant(call)
  /\ phase \in {"reply", "closed", "done"} /\ ~job.call /\ job.err = "INVALID_ARGS" =>
       OutOfRange(call)

IsList == ran.rc # "none" /\ job.out \in {"certs", "keys", "clients"}
Stopped == IsList /\ call.args[1].v \in 1..Len(ran.entries)
\* The largest data a response has room for beside its own head.
MaxAnswer == MSG_BUF_SIZE - 19

\* The caller hears of the command what became of it: success only when the
\* function ran and succeeded, with the value it returned; a tap that was not given
\* (TIMEOUT) only when nothing ran; and success whenever there is an answer to
\* give that fits a response.  cantil_fw_update is the exception: the device
\* reboots at BEGIN, so the call fails although the command succeeded.  A call that
\* was given up, and the one that gets its answer, are not held to this.
ReportsTheOutcome ==
  LET nothing == ran.data = <<>> /\ job.out \in {"blob", "kept", "signed"}
      whole == Len(ran.entries) = ran.total /\ ~Stopped
      valued == ~IsList /\ job.out \notin {"none", "zero"}
  IN phase = "done" /\ own /\ call.name # "fw_update" =>
       /\ res.rc = "OK" => ran.rc = "ok" /\ (valued => res.val = ran.data)
       /\ res.rc = "TIMEOUT" => ran.rc \in {"none", "busy"}
       /\ (ran.rc = "ok" /\ Size(ran.data) <= MaxAnswer /\ ~nothing /\ whole) => res.rc = "OK"

\* What the callback is to see of an entry on the device: the flags say only
\* whether the certificate is revoked, and the protection of a slot is not shown.
Seen(l, f) == IF job.out = "certs" /\ l = "f" THEN U8(f.v % 2)
              ELSE IF job.out = "keys" /\ l \in {"c", "r"} THEN U8(f.v) ELSE f
Hidden == IF job.out = "keys" THEN {"p"} ELSE {}
Shown(infos, entries) ==
  /\ Len(infos) = Len(entries)
  /\ \A j \in DOMAIN entries : \A l \in DOMAIN entries[j] \ Hidden :
       infos[j][Letter[l]] = Seen(l, entries[j][l])

\* A list the caller is told is complete names everything the device counted, in
\* order; a callback that stops it has seen the entries up to there and is what
\* the caller is told.  One unreadable bond makes the call fail after the others
\* were shown.
ListsAreWhole ==
  phase = "done" /\ own /\ IsList /\ ran.rc = "ok" /\ Size(ran.data) <= MaxAnswer =>
    /\ Shown(res.val, IF Stopped THEN SubSeq(ran.entries, 1, call.args[1].v) ELSE ran.entries)
    /\ (res.rc = "STOPPED") <=> Stopped
    /\ (res.rc = "OK") <=> (~Stopped /\ Len(ran.entries) = ran.total)

\* Every response fits the buffer of the call it answers.  cantil_session_recv_to
\* decrypts into that buffer without comparing the lengths, so the agreement of the
\* two ends is all there is; it does not extend to a late response, which meets the
\* buffer of another call.
RepliesFit == phase = "reply" => Size(frame) <= Ask(call).scratch

\* Any identity this library can push is one the device can present: the payload
\* of message 2 fits its buffer, so the push does not end all handshakes, and the
\* leaf arrives whole up to 1024 bytes, followed by a prefix of the chain.  The
\* client's chain arrives as a prefix too, whole up to four certificates.
ChainsArrive ==
  /\ met.leaf # Nothing =>
       /\ met.two.ok
       /\ met.leaf.w <= SESSION_LEAF_DER_MAX => Head(met.two.certs) = met.leaf
       /\ IsPrefix(Tail(met.two.certs), met.chain)
       /\ (Len(met.chain) < SESSION_CHAIN_MAX_CERTS /\ Size(met.chain) <= SESSION_CHAIN_DER_MAX)
            => Tail(met.two.certs) = met.chain
  /\ met.three.ok =>
       met.three.certs = FirstCerts(met.client, SESSION_CHAIN_MAX_CERTS)

\* docs/ca/02-sign-csr.md gives the wire error of each way SIGN_CSR can fail, as the
\* other pages of docs/ca do for their commands: a command that fails is answered,
\* and the caller is not left with a closed session.
ErrorsAreAnswered == phase = "done" /\ own /\ ran.rc \notin {"none", "ok"} => res.rc # "IO"
=============================================================================
