------------------------------- MODULE Codec -------------------------------
(***************************************************************************)
(* Values and their encodings: the variant (cali_variant.c, Variant.cpp,   *)
(* StringConverter.cpp), the variable-length integers (vlenc.h), the       *)
(* compressed snapshot record that snapshots travel in                     *)
(* (CompressedSnapshotRecord.cpp), and the two buffers that carry nodes    *)
(* and records from one MPI process to another (NodeBuffer.cpp,            *)
(* SnapshotBuffer.cpp, aggregate_over_mpi.cpp).                            *)
(*                                                                         *)
(* A byte is 0..255 and a continuation bit is worth 128, as in the code;   *)
(* the 64-bit word is scaled to VlMax groups of 7 bits, and the sizes the  *)
(* code fixes are constants.  A double is the number of halves its bit     *)
(* pattern stands for, so that a conversion to an integer truncates.       *)
(***************************************************************************)
EXTENDS Integers, Sequences, SequencesExt, FiniteSetsExt

CONSTANTS
  VlMax,       \* bytes of the longest encoded integer (10 in the code)
  IntMax,      \* INT_MAX, well below the 64-bit maximum
  BlockSize,   \* CompressedSnapshotRecord::m_blocksize (4)
  MaxEntries,  \* 128: a record holds fewer nodes, and fewer immediates
  MoveBlk,     \* the 64-byte chunk of save_memmove
  Slack,       \* 4096: what a growing buffer reserves on top
  CodecConfigs \* [lens, nodes, imms, lists, infos, values, texts, calls,
               \* again]; again: nodes are appended to a record that has some

VARIABLES
  cx,       \* the chosen configuration
  cr,       \* the CompressedSnapshotRecord being filled
  snapbuf,  \* SnapshotBuffer: [bytes, pos, count, reserved]
  nodebuf,  \* NodeBuffer
  sent,     \* what was put into the two buffers: [recs, infos]
  received, \* what for_each delivers on the other side
  conv,     \* the last values converted or compared, with the results
  calls     \* calls made so far

cvars == <<cx, cr, snapbuf, nodebuf, sent, received, conv, calls>>

Word == 128 ^ VlMax
IdInv == Word - 1            \* CALI_INV_ID
MaxType == 9                 \* CALI_MAXTYPE
TypeInv == 0
TypeUsr == 1
TypeInt == 2
TypeUint == 3
TypeString == 4
TypeAddr == 5
TypeDouble == 6
TypeBool == 7
TypeType == 8
TypePtr == 9

ByteAt(buf, i) == IF i \in DOMAIN buf THEN buf[i] ELSE 0
(* memcpy(buf + pos, bytes): the positions of the buffer start at 0 *)
Put(buf, pos, bytes) ==
  [i \in DOMAIN buf |-> IF i >= pos /\ i < pos + Len(bytes) THEN bytes[i - pos + 1] ELSE buf[i]]
Slice(buf, pos, len) == [i \in 1 .. len |-> ByteAt(buf, pos + i - 1)]

----------------------------------------------------------------------------
(* Variable-length integers: groups of 7 bits, low first. *)
vlenc_u64(val) ==
  LET n == Min({k \in 1 .. VlMax : k = VlMax \/ val < 128 ^ k})
  IN  [i \in 1 .. n |-> IF i < n THEN ((val \div 128 ^ (i - 1)) % 128) + 128 ELSE val \div 128 ^ (n - 1)]

(* The decoder stops at the first byte without the bit, or at the last one
   an integer can have. *)
vldec_u64(buf, pos) ==
  LET p == Min({k \in 0 .. VlMax - 1 : k = VlMax - 1 \/ ByteAt(buf, pos + k) < 128})
  IN  [val |-> FoldLeft(LAMBDA a, k : a + (ByteAt(buf, pos + k) % 128) * 128 ^ k, 0,
                        [k \in 1 .. p + 1 |-> k - 1]),
       pos |-> pos + p + 1]

----------------------------------------------------------------------------
(* Variants: [type, u, data], u the 64-bit word of the union and data the
   bytes a string or blob points to. *)
Variant(type, u) == [type |-> type, u |-> u % Word, data |-> <<>>]
cali_make_empty_variant == Variant(TypeInv, 0)
HasBytes(type) == type \in {TypeUsr, TypeString}
Signed(u) == IF u >= Word \div 2 THEN u - Word ELSE u
Cast(q) == IF q >= 0 THEN q \div 4 ELSE -((-q) \div 4)   \* a double (in quarters) cast to an integer
cali_variant_get_type(t) == IF t <= MaxType THEN t ELSE TypeInv

cali_variant_get_size(v) ==
  CASE HasBytes(v.type) -> Len(v.data)
    [] v.type \in {TypeInt, TypeUint, TypeAddr, TypeDouble, TypePtr} -> 8
    [] v.type = TypeBool -> 1
    [] v.type = TypeType -> 4
    [] OTHER -> 0

(* The bytes at cali_variant_get_data, as pack_node copies them: the word in
   VlMax groups stands for the 8, 4 or 1 bytes of a number. *)
cali_variant_get_data(v) ==
  IF HasBytes(v.type) THEN v.data
  ELSE [i \in 1 .. cali_variant_get_size(v) |-> IF i <= VlMax THEN (v.u \div 128 ^ (i - 1)) % 128 ELSE 0]

cali_make_variant(type, bytes) ==
  IF HasBytes(type) THEN [type |-> type, u |-> 0, data |-> bytes]
  ELSE Variant(type, FoldLeft(LAMBDA a, i : a + bytes[i] * 128 ^ (i - 1), 0,
                              [i \in 1 .. Min({VlMax, Len(bytes)}) |-> i]))

Num(v) == CASE v.type \in {TypeInt, TypeDouble} -> Signed(v.u) [] OTHER -> v.u
No == [ok |-> FALSE, ret |-> 0, ub |-> FALSE]
Yes(n) == [ok |-> TRUE, ret |-> n, ub |-> FALSE]
(* A cast of a double that does not fit is undefined: any value, and ok. *)
FromDouble(q, lo, hi) == IF Cast(q) \in lo .. hi THEN Yes(Cast(q)) ELSE [ok |-> TRUE, ret |-> 0, ub |-> TRUE]
NoNumber == {TypeInv, TypeUsr, TypeString, TypePtr}

cali_variant_to_int(v) ==
  CASE v.type \in NoNumber -> No
    [] v.type = TypeInt -> IF Num(v) >= -IntMax - 1 /\ Num(v) <= IntMax THEN Yes(Num(v)) ELSE No
    [] v.type \in {TypeAddr, TypeUint} -> IF v.u <= IntMax THEN Yes(v.u) ELSE No
    [] v.type = TypeDouble -> FromDouble(Num(v), -IntMax - 1, IntMax)
    [] OTHER -> Yes(v.u)

cali_variant_to_int64(v) ==
  CASE v.type \in NoNumber -> No
    [] v.type = TypeInt -> Yes(Num(v))
    [] v.type \in {TypeAddr, TypeUint} -> IF v.u < Word \div 2 THEN Yes(v.u) ELSE No
    [] v.type = TypeDouble -> FromDouble(Num(v), -(Word \div 2), Word \div 2 - 1)
    [] OTHER -> Yes(v.u)

cali_variant_to_uint(v) ==
  CASE v.type \in NoNumber -> No
    [] v.type = TypeInt -> IF Num(v) >= 0 THEN Yes(v.u) ELSE No
    [] v.type = TypeDouble -> FromDouble(Num(v), 0, Word - 1)
    [] OTHER -> Yes(v.u)

cali_variant_to_double(v) ==
  CASE v.type \in NoNumber -> No
    [] v.type = TypeDouble -> Yes(Num(v))
    [] OTHER -> Yes(4 * Num(v))

cali_variant_to_bool(v) ==
  IF v.type \in {TypeInt, TypeUint, TypeAddr, TypeBool} THEN Yes(IF v.u # 0 THEN 1 ELSE 0) ELSE No

cali_variant_to_type(v) == IF v.type = TypeType THEN Yes(v.u) ELSE No

cali_variant_eq(l, r) ==
  l.type = r.type /\ cali_variant_get_size(l) = cali_variant_get_size(r)
    /\ IF HasBytes(l.type) THEN l.data = r.data ELSE l.u = r.u

(* The int a 64-bit difference becomes when cali_variant_compare returns it *)
AsInt(n) == LET m == 2 * (IntMax + 1) k == n % m IN IF k > IntMax THEN k - m ELSE k
Before(a, b) ==
  \E i \in 1 .. Min({Len(a), Len(b)}) : a[i] < b[i] /\ \A j \in 1 .. i - 1 : a[j] = b[j]
CompareBytes(a, b) == IF Before(a, b) THEN -1 ELSE IF Before(b, a) THEN 1 ELSE Len(a) - Len(b)

cali_variant_compare(l, r) ==
  CASE l.type # r.type -> l.type - r.type
    [] HasBytes(l.type) -> CompareBytes(l.data, r.data)
    [] l.type \in {TypeInv, TypeInt} -> AsInt(Signed((Num(l) - Num(r)) % Word))
    [] l.type \in {TypeAddr, TypeUint} ->
         LET diff == (l.u - r.u) % Word IN IF diff = 0 THEN 0 ELSE IF diff > l.u THEN -1 ELSE 1
    [] l.type = TypeDouble -> IF Num(l) < Num(r) THEN -1 ELSE IF Num(l) > Num(r) THEN 1 ELSE 0
    [] l.type = TypePtr -> AsInt(l.u - r.u)
    [] OTHER -> l.u - r.u

(* Variant::operator += *)
Plus(a, b) ==
  CASE a.type = TypeInv -> b
    [] a.type = TypeDouble -> Variant(TypeDouble, Num(a) + cali_variant_to_double(b).ret)
    [] a.type = TypeInt -> Variant(TypeInt, Num(a) + cali_variant_to_int64(b).ret)
    [] a.type = TypeUint -> Variant(TypeUint, a.u + cali_variant_to_uint(b).ret)
    [] OTHER -> a

----------------------------------------------------------------------------
(* Texts: [kind, val, data]: a decimal or hexadecimal numeral, a number with
   the fixed count of decimals std::to_string prints (here: halves), or a
   word, with its characters. *)
Text(kind, val) == [kind |-> kind, val |-> val, data |-> <<>>]
Word_(data) == [kind |-> "word", val |-> 0, data |-> data]
TypeName(t) == <<100 + t>>          \* "inv", "usr", "int", ...: one symbol each
TrueWords == {<<120>>, <<121>>}     \* "true", "t" in any case
FalseWords == {<<122>>, <<123>>}    \* "false", "f"
cali_type2string(t) == TypeName(IF t <= MaxType THEN t ELSE TypeInv)
cali_string2type(data) ==
  IF \E t \in 0 .. MaxType : TypeName(t) = data
  THEN CHOOSE t \in 0 .. MaxType : TypeName(t) = data ELSE TypeInv
Round(q) == LET n == (q - (q % 2)) \div 2 IN IF q % 2 = 1 /\ n % 2 = 1 THEN n + 1 ELSE n

to_string(v) ==
  CASE v.type = TypeInv -> Word_(<<>>)
    [] v.type = TypeUsr -> Word_(v.data)
    [] v.type = TypeInt -> Text("dec", Num(v))
    [] v.type = TypeUint -> Text("dec", v.u)
    [] v.type = TypeString ->
         Word_(IF v.data # <<>> /\ Last(v.data) = 0 THEN Front(v.data) ELSE v.data)
    [] v.type \in {TypeAddr, TypePtr} -> Text("hex", v.u)
    [] v.type = TypeDouble -> Text("fixed", Round(Num(v)))
    [] v.type = TypeBool -> Word_(IF v.u # 0 THEN <<120>> ELSE <<122>>)
    [] v.type = TypeType -> Word_(cali_type2string(v.u))

(* std::stoll, stoull, stod: the numeral at the front; stoull takes a minus
   sign and wraps around. *)
Numeral(t) == CASE t.kind = "fixed" -> Cast(2 * t.val) [] OTHER -> t.val
to_int64(t) ==
  IF t.kind \in {"dec", "fixed"} /\ Numeral(t) >= -(Word \div 2) /\ Numeral(t) < Word \div 2
  THEN Yes(Numeral(t)) ELSE No
to_uint(t, base) ==
  IF t.kind \in {base, IF base = "dec" THEN "fixed" ELSE base} /\ Numeral(t) > -Word /\ Numeral(t) < Word THEN Yes(Numeral(t) % Word) ELSE No
to_double(t) == IF t.kind = "word" THEN No ELSE Yes(IF t.kind = "fixed" THEN 2 * t.val ELSE 4 * t.val)
to_bool(t) ==
  CASE t.data \in TrueWords -> Yes(1)
    [] t.data \in FalseWords -> Yes(0)
    [] OTHER -> LET u == to_uint(t, "dec") IN IF u.ok THEN Yes(IF u.ret # 0 THEN 1 ELSE 0) ELSE No

from_string(type, t) ==
  LET made(r) == IF r.ok THEN [ok |-> TRUE, v |-> Variant(type, r.ret)]
                 ELSE [ok |-> FALSE, v |-> cali_make_empty_variant]
  IN  CASE type \in {TypeInv, TypeUsr, TypePtr} -> made(No)
        [] type = TypeString -> [ok |-> TRUE, v |-> cali_make_variant(TypeString, t.data)]
        [] type = TypeInt -> made(to_int64(t))
        [] type = TypeAddr -> made(to_uint(t, "hex"))
        [] type = TypeUint -> made(to_uint(t, "dec"))
        [] type = TypeDouble -> made(to_double(t))
        [] type = TypeBool -> made(to_bool(t))
        [] type = TypeType -> made(IF cali_string2type(t.data) # TypeInv THEN Yes(cali_string2type(t.data)) ELSE No)

----------------------------------------------------------------------------
(* The packed form: type word, then value word. *)
cali_variant_pack(v) == vlenc_u64(v.type) \o vlenc_u64(v.u)

(* A type out of range gives an empty variant and leaves the position. *)
cali_variant_unpack(buf, pos) ==
  LET ts == vldec_u64(buf, pos)
      u  == vldec_u64(buf, ts.pos)
  IN  IF ts.val > MaxType THEN [v |-> cali_make_empty_variant, pos |-> pos]
      ELSE [v |-> Variant(ts.val, u.val), pos |-> u.pos]

(* CompressedSnapshotRecord: byte 0 counts the nodes; the immediates start
   at imm_pos with a count of their own.  gn, gi: the nodes and immediates
   of the blocks that were not skipped; tried: the entries given to it. *)
Record(len) ==
  [buf |-> [i \in 0 .. len - 1 |-> 0], len |-> len, num_nodes |-> 0, num_imm |-> 0, imm_pos |-> 1,
   imm_len |-> 1, needed_len |-> 2, skipped |-> 0, gn |-> <<>>, gi |-> <<>>, tried |-> 0]

RECURSIVE save_memmove(_, _, _, _)
(* Mutation: the chunks move front to back, over what is still to be moved. *)
RECURSIVE save_memmove_forward(_, _, _, _)
save_memmove_forward(buf, dst, src, len) ==
  IF src = dst \/ len = 0 THEN buf
  ELSE LET blk == Min({len, MoveBlk})
       IN  save_memmove_forward(Put(buf, dst, Slice(buf, src, blk)), dst + blk, src + blk, len - blk)

save_memmove(buf, dst, src, len) ==
  IF src = dst \/ len = 0 THEN buf
  ELSE LET blk == Min({len, MoveBlk})
       IN  save_memmove(Put(buf, dst + len - blk, Slice(buf, src + len - blk, blk)), dst, src, len - blk)

EncodeNodes(ids) == FlattenSeq([i \in DOMAIN ids |-> vlenc_u64(ids[i])])
EncodeImm(es) == FlattenSeq([i \in DOMAIN es |-> vlenc_u64(es[i].attr) \o cali_variant_pack(es[i].v)])

(* One block of node ids: encoded aside, and copied in if it fits.  The
   immediates make room; the block goes behind the count byte. *)
AppendNodeBlock(r, ids) ==
  LET tmp == EncodeNodes(ids)
      len == Len(tmp)
      fits == r.num_nodes + Len(ids) < MaxEntries /\ r.imm_pos + r.imm_len + len <= r.len
      moved == Put(save_memmove(r.buf, r.imm_pos + len, r.imm_pos, r.imm_len), 1, tmp)
      took == [r EXCEPT !.buf = [moved EXCEPT ![0] = @ + Len(ids)], !.imm_pos = @ + len,
                        !.num_nodes = @ + Len(ids), !.gn = @ \o ids]
      missed == [r EXCEPT !.skipped = @ + Len(ids)]
      r1 == IF fits THEN took ELSE missed
  IN  [r1 EXCEPT !.needed_len = @ + len, !.tried = @ + Len(ids)]

AppendImmBlock(r, es) ==
  LET tmp == EncodeImm(es)
      len == Len(tmp)
      fits == r.num_imm + Len(es) < MaxEntries /\ r.imm_pos + r.imm_len + len <= r.len
      bytes == Put(r.buf, r.imm_pos + r.imm_len, tmp)
      took == [r EXCEPT !.buf = [bytes EXCEPT ![r.imm_pos] = @ + Len(es)], !.imm_len = @ + len,
                        !.num_imm = @ + Len(es), !.gi = @ \o es]
      missed == [r EXCEPT !.skipped = @ + Len(es)]
      r1 == IF fits THEN took ELSE missed
  IN  [r1 EXCEPT !.needed_len = @ + len, !.tried = @ + Len(es)]

(* The blocks a vector is cut into, and the appends of all of them *)
Blocks(vec) ==
  [k \in 1 .. (Len(vec) + BlockSize - 1) \div BlockSize |->
     SubSeq(vec, (k - 1) * BlockSize + 1, Min({k * BlockSize, Len(vec)}))]
append_nodes(r, ids) == FoldLeft(AppendNodeBlock, r, Blocks(ids))
append_immediates(r, es) == FoldLeft(AppendImmBlock, r, Blocks(es))

(* append(n, entrylist): references and immediates are collected apart, and
   each is appended when BlockSize of it are there and at the end; entries
   that are neither are dropped. *)
append_entries(r, list) ==
  LET step(a, e) ==
        CASE e.kind = "node" /\ Len(a.nn) + 1 < BlockSize -> [a EXCEPT !.nn = Append(@, e.attr)]
          [] e.kind = "node" -> [a EXCEPT !.r = append_nodes(@, Append(a.nn, e.attr)), !.nn = <<>>]
          [] e.kind = "imm" /\ Len(a.ni) + 1 < BlockSize -> [a EXCEPT !.ni = Append(@, e)]
          [] e.kind = "imm" -> [a EXCEPT !.r = append_immediates(@, Append(a.ni, e)), !.ni = <<>>]
          [] OTHER -> a
      end == FoldLeft(step, [r |-> r, nn |-> <<>>, ni |-> <<>>], list)
  IN  append_immediates(append_nodes(end.r, end.nn), end.ni)

----------------------------------------------------------------------------
(* Reading a record back: n node ids from pos, n immediates from pos *)
RECURSIVE unpack_nodes(_, _, _)
unpack_nodes(buf, pos, n) ==
  IF n = 0 THEN [ids |-> <<>>, pos |-> pos]
  ELSE LET d == vldec_u64(buf, pos) rest == unpack_nodes(buf, d.pos, n - 1)
       IN  [ids |-> <<d.val>> \o rest.ids, pos |-> rest.pos]

RECURSIVE unpack_immediate(_, _, _)
unpack_immediate(buf, pos, n) ==
  IF n = 0 THEN [es |-> <<>>, pos |-> pos]
  ELSE LET d == vldec_u64(buf, pos)
           x == cali_variant_unpack(buf, d.pos)
           rest == unpack_immediate(buf, x.pos, n - 1)
       IN  [es |-> <<[attr |-> d.val, v |-> x.v]>> \o rest.es, pos |-> rest.pos]

(* The in-place view a record gives of itself *)
view(r) == [nodes |-> unpack_nodes(r.buf, 1, r.num_nodes).ids,
            imm |-> unpack_immediate(r.buf, r.imm_pos + 1, r.num_imm).es]

(* The view parsed from bytes at pos, and where it ends *)
ParsedView(buf, pos) ==
  LET ns == unpack_nodes(buf, pos + 1, ByteAt(buf, pos))
      is == unpack_immediate(buf, ns.pos + 1, ByteAt(buf, ns.pos))
  IN  [nodes |-> ns.ids, imm |-> is.es, pos |-> is.pos]

size(r) == Min({r.imm_pos + r.imm_len, r.len})
data(r) == Slice(r.buf, 0, size(r))

----------------------------------------------------------------------------
(* Buffers of packed records and nodes: bytes (positions from 0, as far as
   written), their count, and the reserved length. *)
Buffer == [bytes |-> <<>>, count |-> 0, reserved |-> 0, over |-> FALSE]
At0(bytes) == [i \in 0 .. Len(bytes) - 1 |-> bytes[i + 1]]
reserve(b, min) == IF min <= b.reserved THEN b ELSE [b EXCEPT !.reserved = Slack + 2 * min]
(* over: a write went past what was reserved *)
Write(b, bytes) == [b EXCEPT !.bytes = @ \o bytes, !.count = @ + 1,
                             !.over = @ \/ Len(b.bytes) + Len(bytes) > b.reserved]

snap_append(b, r) == Write(reserve(b, Len(b.bytes) + size(r)), data(r))

(* NodeInfo: [id, attr, parent, value], parent = IdInv at the root *)
max_packed_size(info) == 5 * VlMax + cali_variant_get_size(info.value)
pack_node(info) ==
  LET have_parent == info.parent # IdInv
  IN  vlenc_u64((2 * info.id + (IF have_parent THEN 1 ELSE 0)) % Word) \o vlenc_u64(info.attr)
        \o (IF have_parent THEN vlenc_u64(info.parent) ELSE <<>>)
        \o vlenc_u64(info.value.type) \o vlenc_u64(cali_variant_get_size(info.value))
        \o cali_variant_get_data(info.value)
unpack_node(buf, pos) ==
  LET u  == vldec_u64(buf, pos)
      at == vldec_u64(buf, u.pos)
      pa == IF u.val % 2 = 1 THEN vldec_u64(buf, at.pos) ELSE [val |-> IdInv, pos |-> at.pos]
      ty == vldec_u64(buf, pa.pos)
      sz == vldec_u64(buf, ty.pos)
  IN  [info |-> [id |-> u.val \div 2, attr |-> at.val, parent |-> pa.val,
                 value |-> cali_make_variant(cali_variant_get_type(ty.val), Slice(buf, sz.pos, sz.val))],
       pos |-> sz.pos + sz.val]

node_append(b, info) == Write(reserve(b, Len(b.bytes) + max_packed_size(info)), pack_node(info))

(* for_each on the receiving side, after import(size, count) *)
RECURSIVE nodes_for_each(_, _, _)
nodes_for_each(buf, pos, n) ==
  IF n = 0 \/ pos \notin DOMAIN buf THEN <<>>
  ELSE LET d == unpack_node(buf, pos) IN <<d.info>> \o nodes_for_each(buf, d.pos, n - 1)
RECURSIVE snaps_for_each(_, _, _)
snaps_for_each(buf, pos, n) ==
  IF n = 0 \/ pos \notin DOMAIN buf THEN <<>>
  ELSE LET d == ParsedView(buf, pos)
       IN  <<[nodes |-> d.nodes, imm |-> d.imm]>> \o snaps_for_each(buf, d.pos, n - 1)

----------------------------------------------------------------------------
NoConv == [a |-> cali_make_empty_variant, b |-> cali_make_empty_variant, cmp |-> 0, eq |-> TRUE,
           sum |-> cali_make_empty_variant, back |-> [ok |-> FALSE, v |-> cali_make_empty_variant]]

CodecInit ==
  /\ cx \in CodecConfigs
  /\ cr \in {Record(n) : n \in cx.lens}
  /\ snapbuf = Buffer /\ nodebuf = Buffer
  /\ sent = [recs |-> <<>>, infos |-> <<>>] /\ received = [recs |-> <<>>, infos |-> <<>>]
  /\ conv = NoConv /\ calls = 0

Call == calls < cx.calls /\ calls' = calls + 1

AppendNodes(ids) ==
  Call /\ cr' = append_nodes(cr, ids) /\ UNCHANGED <<cx, snapbuf, nodebuf, sent, received, conv>>
AppendImmediates(es) ==
  Call /\ cr' = append_immediates(cr, es) /\ UNCHANGED <<cx, snapbuf, nodebuf, sent, received, conv>>
AppendEntries(list) ==
  Call /\ cr' = append_entries(cr, list) /\ UNCHANGED <<cx, snapbuf, nodebuf, sent, received, conv>>

(* pack_and_send: the record goes into the snapshot buffer, a node with its
   path into the node buffer; a new record is begun. *)
PackRecord ==
  /\ Call
  /\ snapbuf' = snap_append(snapbuf, cr) /\ sent' = [sent EXCEPT !.recs = Append(@, cr)]
  /\ cr' = Record(cr.len)
  /\ UNCHANGED <<cx, nodebuf, received, conv>>
PackNode(info) ==
  /\ Call
  /\ nodebuf' = node_append(nodebuf, info) /\ sent' = [sent EXCEPT !.infos = Append(@, info)]
  /\ UNCHANGED <<cx, cr, snapbuf, received, conv>>

(* receive_and_merge: both buffers arrive, and are taken apart. *)
Receive ==
  /\ Call
  /\ received' = [recs |-> snaps_for_each(At0(snapbuf.bytes), 0, snapbuf.count),
                  infos |-> nodes_for_each(At0(nodebuf.bytes), 0, nodebuf.count)]
  /\ UNCHANGED <<cx, cr, snapbuf, nodebuf, sent, conv>>

ConvertValues(a, b) ==
  /\ Call
  /\ conv' = [a |-> a, b |-> b, cmp |-> cali_variant_compare(a, b), eq |-> cali_variant_eq(a, b),
              sum |-> Plus(a, b), back |-> from_string(a.type, to_string(a))]
  /\ UNCHANGED <<cx, cr, snapbuf, nodebuf, sent, received>>
Parse(type, t) ==
  /\ Call
  /\ LET r == from_string(type, t)
     IN  conv' = [NoConv EXCEPT !.a = r.v, !.b = r.v, !.sum = Plus(r.v, r.v),
                                !.back = from_string(type, to_string(r.v))]
  /\ UNCHANGED <<cx, cr, snapbuf, nodebuf, sent, received>>

CodecNext ==
  \/ \E ids \in cx.nodes : (cr.num_nodes = 0 \/ cx.again) /\ AppendNodes(ids)
  \/ \E es \in cx.imms : AppendImmediates(es)
  \/ \E list \in cx.lists : AppendEntries(list)
  \/ cx.infos # {} /\ (PackRecord \/ Receive)
  \/ \E info \in cx.infos : PackNode(info)
  \/ \E a, b \in cx.values : ConvertValues(a, b)
  \/ \E t \in cx.texts, type \in 0 .. MaxType : type # TypeAddr /\ Parse(type, t)

CodecSpec == CodecInit /\ [][CodecNext]_cvars

----------------------------------------------------------------------------
Entries(es) == [i \in DOMAIN es |-> [attr |-> es[i].attr, v |-> es[i].v]]

(* What was appended to a compressed snapshot record comes out of it, in
   order, through the record's own view and through a view parsed from its
   bytes, which ends where the record does; nothing is written past the
   buffer; every entry is either in the record or counted in num_skipped(),
   and nothing is skipped exactly when needed_len() bytes fit (and the counts
   stay below the limit). *)
RecordExact ==
  LET parsed == ParsedView(cr.buf, 0)
  IN  /\ view(cr) = [nodes |-> cr.gn, imm |-> Entries(cr.gi)]
      /\ parsed = [nodes |-> cr.gn, imm |-> Entries(cr.gi), pos |-> size(cr)]
      /\ cr.imm_pos + cr.imm_len <= cr.len
      /\ Len(cr.gn) + Len(cr.gi) + cr.skipped = cr.tried
      /\ cr.skipped = 0 => cr.needed_len = size(cr)
      /\ cr.needed_len > cr.len => cr.skipped > 0

(* The nodes of the blocks a record took are the nodes read from it
   ("Append node entries", CompressedSnapshotRecord.cpp:179). *)
NodesKept == view(cr).nodes = cr.gn

(* The records and nodes one process packs are those the other unpacks from
   the bytes, node values and missing parents included, and no write passes
   the reserved length of a buffer. *)
StreamExact ==
  /\ ~snapbuf.over /\ ~nodebuf.over
  /\ \A i \in DOMAIN received.recs :
       received.recs[i] = [nodes |-> sent.recs[i].gn, imm |-> Entries(sent.recs[i].gi)]
  /\ \A i \in DOMAIN received.infos : received.infos[i] = sent.infos[i]
  /\ snapbuf.count = Len(sent.recs) /\ nodebuf.count = Len(sent.infos)

(* A conversion of a variant succeeds only with the exact number (doubles
   truncated, where that is defined); compare orders numbers, strings and
   types as their values do, and says 0 exactly for equal variants, unless a
   signed difference leaves the int range; adding
   to a sum adds the converted number, or nothing; text written for a value
   reads back as the value, doubles within the printed decimals. *)
ConvertExact ==
  LET a == conv.a
      b == conv.b
      n == IF a.type = TypeDouble THEN Cast(Num(a)) ELSE Num(a)
      exact(r) == r.ok /\ ~r.ub => r.ret = n
      near == Num(a) - Num(b) \in -IntMax .. IntMax
      back == conv.back
      in == IF a.type = TypeInt THEN cali_variant_to_int64(b) ELSE cali_variant_to_uint(b)
  IN  /\ exact(cali_variant_to_int(a)) /\ exact(cali_variant_to_int64(a)) /\ exact(cali_variant_to_uint(a))
      /\ cali_variant_to_bool(a).ok => cali_variant_to_bool(a).ret = (IF n = 0 THEN 0 ELSE 1)
      /\ cali_variant_to_type(a).ok => cali_variant_to_type(a).ret = n
      /\ (a.type \in {TypeInt, TypeUint} /\ ~in.ub) =>
           conv.sum = Variant(a.type, Num(a) + (IF in.ok THEN in.ret ELSE 0))
      /\ (a.type = b.type /\ a.type \notin {TypeInv, TypeUsr, TypeString, TypePtr}
            /\ (a.type = TypeInt => near)) =>
           /\ (conv.cmp < 0) = (Num(a) < Num(b))
           /\ (conv.cmp = 0) = conv.eq
      /\ (a.type = b.type /\ HasBytes(a.type)) => (conv.cmp = 0) = conv.eq
      /\ a.type \in {TypeInt, TypeUint, TypeAddr, TypeBool, TypeType} /\ (a.type = TypeType => a.u # 0)
           => back.ok /\ cali_variant_eq(back.v, a)
      /\ a.type = TypeDouble => back.ok /\ Num(back.v) - Num(a) \in -1 .. 1
============================================================================
