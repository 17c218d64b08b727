-------------------------------- MODULE Cbor --------------------------------
(***************************************************************************)
(* common/cbor/cantil_cbor.c: the codec both ends of the wire are built    *)
(* from, and the big-endian integers written around it.                    *)
(*                                                                         *)
(* A buffer is a sequence of fields.  A field is a run of w bytes that was *)
(* written as one value v: the length of a buffer is therefore exact, and  *)
(* so is every offset, while the bytes of a key, a name or a certificate   *)
(* are one opaque number.  CBOR heads are single bytes, as in the code.  A *)
(* read that does not start and end where a field does is a read of bytes  *)
(* nobody wrote as a value, and yields Garbage.                            *)
(***************************************************************************)
EXTENDS Integers, Sequences, SequencesExt

Field(w, v) == [w |-> w, v |-> v]
Nothing == Field(0, 0)
Garbage(w) == Field(w, -1)

U8(x) == Field(1, x % 256)
U16(x) == Field(2, x % 65536)
U32(x) == Field(4, x)
U64(x) == Field(8, x)
Flag(x) == Field(1, IF x.v # 0 THEN 1 ELSE 0)

RECURSIVE Size(_)
Size(b) ==
  LET half == Len(b) \div 2
  IN CASE b = <<>> -> 0
       [] Len(b) = 1 -> b[1].w
       [] OTHER -> Size(SubSeq(b, 1, half)) + Size(SubSeq(b, half + 1, Len(b)))
Some(f) == IF f.w = 0 THEN <<>> ELSE <<f>>

\* The bytes from offset off on, and the w bytes there taken as one value.
From(b, off) ==
  LET starts == {i \in 1..Len(b) + 1 : Size(SubSeq(b, 1, i - 1)) = off}
  IN IF starts = {} THEN <<Garbage(Size(b) - off)>>
     ELSE SubSeq(b, CHOOSE i \in starts : TRUE, Len(b))
At(b, off, w) ==
  LET rest == From(b, off)
  IN IF w = 0 THEN Nothing
     ELSE IF rest # <<>> /\ rest[1].w = w THEN rest[1]
     ELSE Garbage(w)
-----------------------------------------------------------------------------
(* Writing. *)

MT == [UINT |-> 0, BSTR |-> 64, TSTR |-> 96, ARRAY |-> 128, MAP |-> 160]

Byte(x) == Field(1, x)
emit_head(major, val) ==
  IF val < 24 THEN <<Byte(major + val)>>
  ELSE IF val < 256 THEN <<Byte(major + 24), Byte(val)>>
  ELSE IF val < 65536 THEN <<Byte(major + 25), Byte(val \div 256), Byte(val % 256)>>
  ELSE <<Byte(major + 26), Byte(val \div 16777216), Byte((val \div 65536) % 256),
         Byte((val \div 256) % 256), Byte(val % 256)>>

emit_uint(v) == emit_head(MT.UINT, v)
emit_tstr(s) == emit_head(MT.TSTR, s.w) \o Some(s)
emit_bstr(b) == emit_head(MT.BSTR, Size(b)) \o b
emit_array(n) == emit_head(MT.ARRAY, n)
emit_map(n) == emit_head(MT.MAP, n)

\* The four texts of the outer map.
Key == [cmd |-> Field(3, 1), err |-> Field(3, 2), seq |-> Field(3, 3), data |-> Field(4, 4)]

\* The one-letter texts of the lists' entries.
Letter == [c |-> 99, f |-> 102, i |-> 105, k |-> 107, n |-> 110, p |-> 112, r |-> 114,
           s |-> 115, t |-> 116]
emit_letter(l) == emit_tstr(Byte(Letter[l]))

\* "data" is left out when there is none.
encode_map(k1, v1, k2, v2, data) ==
  emit_map(IF Size(data) > 0 THEN 3 ELSE 2)
    \o emit_tstr(k1) \o emit_uint(v1) \o emit_tstr(k2) \o emit_uint(v2)
    \o (IF Size(data) > 0 THEN emit_tstr(Key.data) \o emit_bstr(data) ELSE <<>>)

cantil_cbor_encode_request(cmd, seq, data) == encode_map(Key.cmd, cmd, Key.seq, seq, data)
cantil_cbor_encode_response(seq, err, data) == encode_map(Key.err, err, Key.seq, seq, data)
-----------------------------------------------------------------------------
(* Reading.  A cursor i is the index of the next field; every reader hands *)
(* back ok, what it read and the cursor behind it.                         *)

Fail == [ok |-> FALSE, mt |-> -1, v |-> -1, b |-> <<>>, i |-> 0]

\* The next w bytes, when that many are left; Reach is the last field they cover.
RECURSIVE Reach(_, _, _, _, _)
Reach(b, i, lo, hi, w) ==
  LET mid == (lo + hi + 1) \div 2
  IN IF lo = hi THEN lo
     ELSE IF Size(SubSeq(b, i, mid)) <= w THEN Reach(b, i, mid, hi, w)
     ELSE Reach(b, i, lo, mid - 1, w)
Take(b, i, w) ==
  LET n == Reach(b, i, i - 1, Len(b), w)
  IN IF i <= Len(b) + 1 /\ Size(SubSeq(b, i, n)) = w
     THEN [Fail EXCEPT !.ok = TRUE, !.b = SubSeq(b, i, n), !.i = n + 1]
     ELSE Fail

\* The eight-byte head (27) is left out: no length or number either end writes needs one.
read_head(b, i) ==
  IF i > Len(b) \/ b[i].w # 1 \/ b[i].v < 0 THEN Fail
  ELSE LET ai == b[i].v % 32
           more == IF ai < 24 THEN 0
                   ELSE IF ai = 24 THEN 1 ELSE IF ai = 25 THEN 2 ELSE IF ai = 26 THEN 4 ELSE -1
           bytes == SubSeq(b, i + 1, i + more)
       IN IF more = -1 \/ i + more > Len(b) \/ Size(bytes) # more THEN Fail
          ELSE [ok |-> TRUE, mt |-> b[i].v - ai, b |-> <<>>, i |-> i + more + 1,
                v |-> IF more = 0 THEN ai
                      ELSE FoldLeft(LAMBDA x, f : 256 * x + f.v, 0, bytes)]

\* A head of the type asked for; the string behind it.
OfType(h, mt) == IF h.ok /\ h.mt = mt THEN h ELSE Fail
StringBehind(b, h) == IF h.ok THEN Take(b, h.i, h.v) ELSE Fail

read_uint32(b, i) == OfType(read_head(b, i), MT.UINT)
ReadString(b, i, mt) == StringBehind(b, OfType(read_head(b, i), mt))
read_bstr(b, i) == ReadString(b, i, MT.BSTR)
cantil_cbor_read_tstr(b, i) == ReadString(b, i, MT.TSTR)

\* t is the text at the cursor.
match_tstr(t, s) == t.ok /\ t.b = <<s>>

\* An item of any kind, the items nested in it included.
RECURSIVE skip_item(_, _)
skip_item(b, i) ==
  LET h == read_head(b, i)
      Next(st, k) == IF st.ok THEN skip_item(b, st.i) ELSE st
  IN IF ~h.ok \/ h.mt = MT.UINT THEN h
     ELSE IF h.mt \in {MT.BSTR, MT.TSTR} THEN Take(b, h.i, h.v)
     ELSE IF h.mt = MT.MAP THEN FoldLeft(Next, h, [k \in 1..2 * h.v |-> k])
     ELSE IF h.mt = MT.ARRAY THEN FoldLeft(Next, h, [k \in 1..h.v |-> k])
     ELSE Fail

\* One entry of the outer map: the code (cmd or err, as name says), the sequence
\* number and the data, in any order, the last of a repeated name; whatever else
\* there is, key and value, is skipped.
Skipped(b, k) == IF k.ok THEN skip_item(b, k.i) ELSE k
EntryOf(b, name, st, t) ==
  LET To(x) == [st EXCEPT !.ok = x.ok, !.i = x.i]
      Code(u) == [To(u) EXCEPT !.code = u.v]
      Seq32(u) == [To(u) EXCEPT !.seq = u.v]
      Data(d) == [To(d) EXCEPT !.data = d.b]
  IN IF match_tstr(t, name) THEN Code(read_uint32(b, t.i))
     ELSE IF match_tstr(t, Key.seq) THEN Seq32(read_uint32(b, t.i))
     ELSE IF match_tstr(t, Key.data) THEN Data(read_bstr(b, t.i))
     ELSE To(Skipped(b, skip_item(b, st.i)))

\* h is the head of the map.  The code and the sequence number must be there.
Entries(b, name, h) ==
  LET One(st, k) == IF st.ok THEN EntryOf(b, name, st, ReadString(b, st.i, MT.TSTR)) ELSE st
      ok == h.ok /\ h.mt = MT.MAP /\ h.v \in 2..3
  IN FoldLeft(One, [ok |-> ok, i |-> h.i, code |-> -1, seq |-> -1, data |-> <<>>],
              IF ok THEN [k \in 1..h.v |-> k] ELSE <<>>)
Complete(m) == [m EXCEPT !.ok = m.ok /\ m.code # -1 /\ m.seq # -1]
decode_map(b, name) == Complete(Entries(b, name, read_head(b, 1)))

cantil_cbor_decode_request(b) == decode_map(b, Key.cmd)
cantil_cbor_decode_response(b) == decode_map(b, Key.err)
=============================================================================
