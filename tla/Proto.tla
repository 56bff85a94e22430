------------------------------- MODULE Proto -------------------------------
(***************************************************************************)
(* The protobuf codec of internal/feishu/proto.go.  A byte holds Group     *)
(* bits of a varint and a continuation bit, an unsigned integer Width      *)
(* bits, an int32 half of them; in Go these are 7, 64 and 32.  An int has  *)
(* IntBits: 64 on amd64 and arm64, 32 on mips and arm, for which the agent *)
(* is built too.  Bytes are numbers below 2 * Base, strings and payloads   *)
(* are sequences of bytes.                                                 *)
(***************************************************************************)
EXTENDS Integers, Sequences, SequencesExt, FiniteSetsExt, Functions

CONSTANTS Group, Width, IntBits,
          Bad,             \* what is not decoded, with an error
          Panic            \* what is not decoded, with a run-time panic

\* As in Go, the last byte of the longest varint begins at the last bit, and
\* every tag fits.
ASSUME WidthAssumption == /\ Group \in Nat \ {0}
                          /\ Width \in Nat
                          /\ (Width - 1) % Group = 0
                          /\ Width % 2 = 0
                          /\ 2 ^ Width > 9 * 8 + 2
                          /\ IntBits \in 8 .. Width

Base == 2 ^ Group
None == [val |-> 0, next |-> -1]

Varint == 0     \* pbWireVarint
LenDelim == 2   \* pbWireLenDelim

-----------------------------------------------------------------------------
(* Encoding.                                                               *)

\* The last group has no continuation bit.
pbVarint(v) ==
  LET n == CHOOSE k \in 1 .. Width : v < Base ^ k /\ (k = 1 \/ v >= Base ^ (k - 1))
  IN [i \in 1 .. n |-> ((v \div Base ^ (i - 1)) % Base) + (IF i < n THEN Base ELSE 0)]

pbUint64(num, v) == pbVarint(num * 8 + Varint) \o pbVarint(v)

\* The conversion of a negative int32 to uint64 extends the sign.
pbInt32(num, v) == pbUint64(num, v % 2 ^ Width)

pbBytes(num, data) == pbVarint(num * 8 + LenDelim) \o pbVarint(Len(data)) \o data

\* Optional fields are left out when they are empty.
Optional(num, data) == IF data = <<>> THEN <<>> ELSE pbBytes(num, data)

marshalHeader(h) == pbBytes(1, h.key) \o pbBytes(2, h.value)

marshalFrame(f) ==
  pbUint64(1, f.seqID) \o pbUint64(2, f.logID)
  \o pbInt32(3, f.service) \o pbInt32(4, f.method)
  \o FlattenSeq([i \in DOMAIN f.headers |-> pbBytes(5, marshalHeader(f.headers[i]))])
  \o Optional(6, f.encoding) \o Optional(7, f.type)
  \o Optional(8, f.payload) \o Optional(9, f.logIDNew)

-----------------------------------------------------------------------------
(* Decoding, from a position to a value and the next position.             *)

\* The shift of the n-th byte of a varint is past the last bit.
TooLong(n) == Group * (n - 1) > Width - 1

\* The bytes up to the first without continuation bit; bits beyond are lost.
pbDecodeVarint(buf, pos) ==
  LET ends == {i \in pos .. Len(buf) : buf[i] < Base}
      n == Min(ends) - pos + 1
      bits == [i \in 1 .. n |-> (buf[pos + i - 1] % Base) * Base ^ (i - 1)]
  IN IF ends = {} \/ TooLong(n) THEN None
     ELSE [val |-> FoldFunction(+, 0, bits) % 2 ^ Width, next |-> pos + n]

\* A conversion to a signed integer of so many bits keeps the lower bits.
Signed(v, bits) == LET low == v % 2 ^ bits
                   IN IF low >= 2 ^ (bits - 1) THEN low - 2 ^ bits ELSE low
Int32(v) == Signed(v, Width \div 2)
GoInt(v) == Signed(v, IntBits)

Failures == {Bad, Panic}

\* One field of buf, with its tag and its value or length decoded.  A length may
\* be negative as an int, and its sum with the position may overflow: then the
\* end lies before the start of the slice.
FieldOf(buf, tag, arg) ==
  IF tag = None \/ arg = None THEN Bad
  ELSE LET end == GoInt(arg.next - 1 + GoInt(arg.val)) + 1
           wire == tag.val % 8
           field(data, next) == [num |-> GoInt(tag.val \div 8), wire |-> wire,
                                 val |-> arg.val, data |-> data, next |-> next]
       IN IF wire = Varint THEN field(<<>>, arg.next)
          ELSE IF wire # LenDelim \/ end > Len(buf) + 1 THEN Bad
          ELSE IF end < arg.next THEN Panic
          ELSE field(SubSeq(buf, arg.next, end - 1), end)

FieldTagged(buf, tag) == FieldOf(buf, tag, pbDecodeVarint(buf, tag.next))
Field(buf, pos) == FieldTagged(buf, pbDecodeVarint(buf, pos))

\* All fields of buf, or the first failure, where take[pos] is the field at pos.
Fields(buf, take) ==
  LET from[pos \in 1 .. Len(buf) + 1] ==
        IF pos > Len(buf) THEN <<>>
        ELSE LET f == take[pos]
             IN IF f \in Failures THEN f
                ELSE LET rest == from[f.next]
                     IN IF rest \in Failures THEN rest ELSE <<f>> \o rest
  IN from[1]

\* The last field with this number and wire type wins.
Latest(fields, num, wire, default) ==
  LET at == {i \in DOMAIN fields : fields[i].num = num /\ fields[i].wire = wire}
  IN IF at = {} THEN default
     ELSE IF wire = Varint THEN fields[Max(at)].val ELSE fields[Max(at)].data

\* A header has no varints.
HeaderField(buf, pos) ==
  LET f == Field(buf, pos)
  IN IF f \in Failures \/ f.wire = LenDelim THEN f ELSE Bad

HeaderIn(fs) ==
  IF fs \in Failures THEN fs
  ELSE [key |-> Latest(fs, 1, LenDelim, <<>>), value |-> Latest(fs, 2, LenDelim, <<>>)]

unmarshalHeader(buf) ==
  HeaderIn(Fields(buf, [pos \in DOMAIN buf |-> HeaderField(buf, pos)]))

\* A header is decoded where it is found: if it fails, so does the frame.
IsHeader(field) == field.num = 5 /\ field.wire = LenDelim
WithHeader(field, header) ==
  IF header \in Failures THEN header ELSE [field EXCEPT !.data = header]
FrameField(buf, pos) ==
  LET f == Field(buf, pos)
  IN IF f \in Failures \/ ~IsHeader(f) THEN f ELSE WithHeader(f, unmarshalHeader(f.data))

\* Fields with other numbers are skipped.
FrameIn(fs) ==
  IF fs \in Failures THEN fs
  ELSE [seqID |-> Latest(fs, 1, Varint, 0), logID |-> Latest(fs, 2, Varint, 0),
        service |-> Int32(Latest(fs, 3, Varint, 0)),
        method |-> Int32(Latest(fs, 4, Varint, 0)),
        headers |-> LET hs == SelectSeq(fs, IsHeader) IN [i \in DOMAIN hs |-> hs[i].data],
        encoding |-> Latest(fs, 6, LenDelim, <<>>), type |-> Latest(fs, 7, LenDelim, <<>>),
        payload |-> Latest(fs, 8, LenDelim, <<>>), logIDNew |-> Latest(fs, 9, LenDelim, <<>>)]

unmarshalFrame(buf) ==
  FrameIn(Fields(buf, [pos \in DOMAIN buf |-> FrameField(buf, pos)]))

\* GetHeader: the first header with this key.
GetHeader(f, key) ==
  LET at == {i \in DOMAIN f.headers : f.headers[i].key = key}
  IN IF at = {} THEN <<>> ELSE f.headers[Min(at)].value
=============================================================================
