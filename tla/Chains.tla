------------------------------- MODULE Chains -------------------------------
(***************************************************************************)
(* The certificates the handshake carries: how the device lays its         *)
(* identity out in message 2 and the client its own in message 3, and what *)
(* the other side makes of it (collect_local_certs, encode_chain_cbor and  *)
(* parse_client_chain in firmware/src/session/session.c, the same in       *)
(* libcantil/src/session.c).                                               *)
(***************************************************************************)
EXTENDS Cbor

SESSION_LEAF_DER_MAX == 1024
SESSION_CHAIN_DER_MAX == 1536
SESSION_CHAIN_MAX_CERTS == 4
SESSION_CHAIN_PT_MAX == 2048
SESSION_CLIENT_CHAIN_MAX == 2048
CANTIL_DEVICE_CHAIN_MAX == 4096
CANTIL_DEVICE_CHAIN_CERTS == 8
CLIENT_CBOR_MAX == 3000
SESSION_CBOR_KEY_CHAIN == 1

\* The whole certificates at the front of a blob of which cap bytes were read.
Split(certs, cap) ==
  LET whole == {n \in 0..Len(certs) : Size(SubSeq(certs, 1, n)) <= cap}
  IN SubSeq(certs, 1, CHOOSE n \in whole : \A m \in whole : m <= n)
FirstCerts(certs, max) == SubSeq(certs, 1, IF Len(certs) < max THEN Len(certs) ELSE max)

\* cert.der is read into a buffer a longer one does not fill; chain.der is cut
\* and then split.
collect_local_certs(leaf, chain) ==
  LET read == IF leaf.w > SESSION_LEAF_DER_MAX THEN Garbage(SESSION_LEAF_DER_MAX) ELSE leaf
  IN <<read>> \o FirstCerts(Split(chain, SESSION_CHAIN_DER_MAX), SESSION_CHAIN_MAX_CERTS - 1)

encode_chain_cbor(certs) ==
  emit_map(1) \o emit_uint(SESSION_CBOR_KEY_CHAIN) \o emit_array(Len(certs))
    \o FoldLeft(LAMBDA b, c : b \o emit_bstr(<<c>>), <<>>, certs)

\* Both readers keep what they read before the payload or their space ended.
ParseChain(pt, max_certs, max_bytes) ==
  LET map == read_head(pt, 1)
      key == read_uint32(pt, map.i)
      array == read_head(pt, key.i)
      One(st, j) ==
        LET cert == read_bstr(pt, st.i)
        IN IF ~st.ok THEN st
           ELSE IF \/ ~cert.ok \/ Len(st.certs) >= max_certs
                   \/ Size(st.certs) + Size(cert.b) > max_bytes
                THEN [st EXCEPT !.ok = FALSE]
           ELSE [ok |-> TRUE, i |-> cert.i, certs |-> st.certs \o cert.b]
      start == [ok |-> TRUE, i |-> array.i, certs |-> <<>>]
  IN IF \/ ~map.ok \/ map.mt # MT.MAP \/ map.v = 0 \/ ~key.ok \/ key.v # SESSION_CBOR_KEY_CHAIN
        \/ ~array.ok \/ array.mt # MT.ARRAY
     THEN <<>>
     ELSE FoldLeft(One, start, [j \in 1..array.v |-> j]).certs
parse_device_chain(pt) == ParseChain(pt, CANTIL_DEVICE_CHAIN_CERTS, CANTIL_DEVICE_CHAIN_MAX)
parse_client_chain(pt) == ParseChain(pt, SESSION_CHAIN_MAX_CERTS, SESSION_CLIENT_CHAIN_MAX)

\* What reaches the client in message 2; without a certificate the payload is
\* empty, and one that outgrows its buffer ends the handshake.
Failed == [ok |-> FALSE]
Msg2Chain(leaf, chain) ==
  LET pt == encode_chain_cbor(collect_local_certs(leaf, chain))
  IN IF Size(pt) > SESSION_CHAIN_PT_MAX THEN Failed
     ELSE [ok |-> TRUE, certs |-> parse_device_chain(pt)]

\* What reaches the device in message 3: the client without a certificate sends
\* an empty map, and there are two buffers to outgrow.
Msg3Chain(certs) ==
  LET pt == IF certs = <<>> THEN emit_map(0) ELSE encode_chain_cbor(certs)
  IN IF Size(pt) > CLIENT_CBOR_MAX \/ Size(pt) > SESSION_CHAIN_PT_MAX THEN Failed
     ELSE [ok |-> TRUE, certs |-> parse_client_chain(pt)]
=============================================================================
