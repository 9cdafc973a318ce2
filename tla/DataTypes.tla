------------------------------ MODULE DataTypes ------------------------------
(***************************************************************************)
(* The serialisation of Python values: the parser and constructor classes  *)
(* of pygridgain/datatypes, as two recursive operators.  FromPython(s,t,v) *)
(* is t.from_python(stream, v); Decode(t,s) is t.parse(stream) followed by *)
(* t.to_python of the ctypes object that parse laid over the buffer.       *)
(*                                                                         *)
(* A type is a tuple: <<"IntObject">> for a class, <<"Struct", fields,     *)
(* defaults>> for an instance with parameters.  A Python value is a tagged *)
(* tuple: <<"int", 5>>, <<"str", <<code points>>>>, <<"list", <<values>>>>,*)
(* <<"dict", <<<<key, value>>, ...>>>>, <<"obj", type, version, values>>.  *)
(* Floats are exact, dates are <<ms, us>>: what a conversion to or from    *)
(* binary floating point loses is not modelled.                            *)
(***************************************************************************)
EXTENDS Headers, FiniteSets, SequencesExt

CONSTANTS
  Schemas      \* type name -> sequence of <<field name, type>>: the registered complex types

TC_NULL == 101
TC_COMPLEX_OBJECT == 103

(***************************************************************************)
(* The classes: kind, the class of a value or an element, type code.       *)
(***************************************************************************)
Width == [Byte |-> 1, Short |-> 2, Int |-> 4, Long |-> 8,
          Float |-> 4, Double |-> 8, Char |-> 2, Bool |-> 1]
Primitives == DOMAIN Width

DataRows == {
  <<"ByteObject", "data", "Byte", 1>>, <<"ShortObject", "data", "Short", 2>>,
  <<"IntObject", "data", "Int", 3>>, <<"LongObject", "data", "Long", 4>>,
  <<"FloatObject", "data", "Float", 5>>, <<"DoubleObject", "data", "Double", 6>>,
  <<"CharObject", "data", "Char", 7>>, <<"BoolObject", "data", "Bool", 8>> }
PayloadRows == {
  <<"ByteArray", "payload", "Byte", 12>>, <<"ShortArray", "payload", "Short", 13>>,
  <<"IntArray", "payload", "Int", 14>>, <<"LongArray", "payload", "Long", 15>>,
  <<"FloatArray", "payload", "Float", 16>>, <<"DoubleArray", "payload", "Double", 17>>,
  <<"CharArray", "payload", "Char", 18>>, <<"BoolArray", "payload", "Bool", 19>> }
ArrayRows == {
  <<"ByteArrayObject", "array", "Byte", 12>>, <<"ShortArrayObject", "array", "Short", 13>>,
  <<"IntArrayObject", "array", "Int", 14>>, <<"LongArrayObject", "array", "Long", 15>>,
  <<"FloatArrayObject", "array", "Float", 16>>, <<"DoubleArrayObject", "array", "Double", 17>>,
  <<"CharArrayObject", "array", "Char", 18>>, <<"BoolArrayObject", "array", "Bool", 19>> }

StandardRows == {
  <<"String", "standard", "", 9>>, <<"DecimalObject", "standard", "", 30>>,
  <<"UUIDObject", "standard", "", 10>>, <<"TimestampObject", "standard", "", 33>>,
  <<"DateObject", "standard", "", 11>>, <<"TimeObject", "standard", "", 36>>,
  <<"EnumObject", "standard", "", 28>>, <<"BinaryEnumObject", "standard", "", 38>> }
StandardPayloadRows == {
  <<"StringArray", "standardPayload", "String", 0>>,
  <<"DecimalArray", "standardPayload", "DecimalObject", 0>>,
  <<"UUIDArray", "standardPayload", "UUIDObject", 0>>,
  <<"TimestampArray", "standardPayload", "TimestampObject", 0>>,
  <<"DateArray", "standardPayload", "DateObject", 0>>,
  <<"TimeArray", "standardPayload", "TimeObject", 0>>,
  <<"EnumArray", "standardPayload", "EnumObject", 0>> }
StandardArrayRows == {
  <<"StringArrayObject", "standardArray", "String", 20>>,
  <<"DecimalArrayObject", "standardArray", "DecimalObject", 31>>,
  <<"UUIDArrayObject", "standardArray", "UUIDObject", 21>>,
  <<"TimestampArrayObject", "standardArray", "TimestampObject", 34>>,
  <<"DateArrayObject", "standardArray", "DateObject", 22>>,
  <<"TimeArrayObject", "standardArray", "TimeObject", 37>>,
  <<"EnumArrayObject", "enumArray", "EnumObject", 29>>,
  <<"BinaryEnumArrayObject", "enumArray", "BinaryEnumObject", 29>>,
  <<"ObjectArray", "enumArray", "BinaryEnumObject", 29>> }

ComplexRows == {
  <<"ObjectArrayObject", "objectArray", "", 23>>, <<"CollectionObject", "collection", "", 24>>,
  <<"MapObject", "map", "", 25>>, <<"WrappedDataObject", "wrapped", "", 27>>,
  <<"BinaryObject", "binary", "", TC_COMPLEX_OBJECT>> }

AllRows == DataRows \cup PayloadRows \cup ArrayRows \cup StandardRows \cup StandardPayloadRows
             \cup StandardArrayRows \cup ComplexRows
Class == FoldSet(LAMBDA r, f : (r[1] :> [kind |-> r[2], of |-> r[3], code |-> r[4]]) @@ f, <<>>, AllRows)

\* The class that parses an object that starts with this code (KeyError: none).
TcMap == LET named == {"ByteObject", "ShortObject", "IntObject", "LongObject", "FloatObject",
             "DoubleObject", "CharObject", "BoolObject", "UUIDObject", "DateObject",
             "TimestampObject", "TimeObject", "EnumObject", "BinaryEnumObject",
             "ByteArrayObject", "ShortArrayObject", "IntArrayObject", "LongArrayObject",
             "FloatArrayObject", "DoubleArrayObject", "CharArrayObject", "BoolArrayObject",
             "UUIDArrayObject", "DateArrayObject", "TimestampArrayObject", "TimeArrayObject",
             "EnumArrayObject", "String", "StringArrayObject", "DecimalObject",
             "DecimalArrayObject", "ObjectArrayObject", "CollectionObject", "MapObject",
             "BinaryObject", "WrappedDataObject"}
         IN [k \in {Class[c].code : c \in named} |->
               <<CHOOSE c \in named : Class[c].code = k>>] @@ (TC_NULL :> <<"Null">>)

(***************************************************************************)
(* Python values.                                                          *)
(***************************************************************************)
IsInt(v) == v[1] \in {"int", "bool"}
IntOf(v) == IF v[1] = "bool" THEN (IF v[2] THEN 1 ELSE 0) ELSE v[2]
IsNumber(v) == v[1] \in {"int", "bool", "float"}
Truthy(v) == CASE IsNumber(v) -> (IF v[1] = "bool" THEN v[2] ELSE v[2] # 0)
               [] v[1] \in {"str", "bytes", "list", "tuple", "dict", "odict"} -> v[2] # <<>>
               [] OTHER -> v # None
IsIterable(v) == v[1] \in {"list", "tuple", "str", "bytes", "dict", "odict"}
\* What iterating over the value yields: a dictionary yields its keys.
Items(v) ==
  CASE v[1] \in {"list", "tuple"} -> v[2]
    [] v[1] = "str" -> [i \in DOMAIN v[2] |-> <<"str", <<v[2][i]>>>>]
    [] v[1] = "bytes" -> [i \in DOMAIN v[2] |-> <<"int", v[2][i]>>]
    [] OTHER -> [i \in DOMAIN v[2] |-> v[2][i][1]]
IsPair(v) == IsIterable(v) /\ Len(v[2]) = 2
IsHinted(v) == v[1] = "tuple" /\ Len(v[2]) = 2 /\ v[2][2][1] = "type"
RECURSIVE Hashable(_)
Hashable(v) == CASE v[1] \in {"list", "dict", "odict"} -> FALSE
                 [] v[1] = "tuple" -> \A i \in DOMAIN v[2] : Hashable(v[2][i])
                 [] OTHER -> TRUE
InstanceOf(v, type) == \/ v[1] = type
                       \/ type = "int" /\ v[1] = "bool"
                       \/ type = "date" /\ v[1] = "datetime"

\* result[k] = v for each pair in turn: an equal key keeps its place and takes the new value.
DictOf(pairs) ==
  LET add(d, p) == IF \E i \in DOMAIN d : d[i][1] = p[1]
                   THEN [i \in DOMAIN d |-> IF d[i][1] = p[1] THEN p ELSE d[i]]
                   ELSE Append(d, p)
  IN FoldLeft(add, <<>>, pairs)

\* Fields of a fixed-width integer: raw is what the bytes hold, unsigned for one or two bytes.
\* The extremes of four and eight bytes are beyond the integers of the model checker.
Limit(w) == IF w = 1 THEN 256 ELSE 65536
Raw(n, w) == IF w <= 2 THEN n % Limit(w) ELSE n
Signed(n, w) == IF w <= 2 /\ n >= Limit(w) \div 2 THEN n - Limit(w) ELSE n
Fits(n, w) == w > 2 \/ n \in -(Limit(w) \div 2) .. (Limit(w) \div 2) - 1

\* UTF-8 takes one to four bytes a character, UTF-16 one unit or two.
Utf8Len(cps) == FoldLeft(LAMBDA n, c : n + (IF c < 128 THEN 1 ELSE IF c < 2048 THEN 2
                                            ELSE IF c < 65536 THEN 3 ELSE 4), 0, cps)
\* A c_char array holds, and gives back, what comes before the first NUL.
UpToNul(cps) == LET nul == {i \in DOMAIN cps : cps[i] = 0}
                IN IF nul = {} THEN cps
                   ELSE SubSeq(cps, 1, (CHOOSE i \in nul : \A j \in nul : i <= j) - 1)
-----------------------------------------------------------------------------
(***************************************************************************)
(* Writing: from_python and from_python_not_null.                          *)
(***************************************************************************)
\* The bits of one character: a string is encoded, bytes and integers are taken as they are.
CharCode(v) == CASE v[1] = "str" /\ v[2] = <<>> -> 0
                 [] v[1] = "str" /\ Len(v[2]) = 1 -> v[2][1]
                 [] v[1] = "int" -> v[2]
                 [] OTHER -> -1                        \* two units or more: does not fit
PutChar(s, v) == IF v[1] \notin {"str", "int"} THEN Raise(s, "AttributeError")
                 ELSE IF CharCode(v) \notin 0..65535 THEN Raise(s, "OverflowError")
                 ELSE Put(s, Num(CharCode(v)), 2)

\* A payload: struct.pack, which refuses a number that does not fit.
PutPrimitive(s, p, v) ==
  LET put(n) == IF n = None THEN Raise(s, "struct.error") ELSE Put(s, n, Width[p])
  IN CASE p = "Char" -> PutChar(s, v)
       [] p = "Bool" -> put(Num(IF Truthy(v) THEN 1 ELSE 0))
       [] p \in {"Float", "Double"} -> put(IF IsNumber(v) THEN Num(IntOf(v)) ELSE None)
       [] OTHER -> put(IF IsInt(v) /\ Fits(IntOf(v), Width[p]) THEN Num(Raw(IntOf(v), Width[p])) ELSE None)

\* Fields one after the other, each with its width.
PutAll(s, puts) == FoldLeft(LAMBDA a, f : Put(a, f[1], f[2]), s, puts)

\* A data object: type code and value as a ctypes structure, which wraps a number silently.
PutDatum(s, row, n) ==
  IF n = None THEN Raise(s, IF row.of = "Char" THEN "OverflowError" ELSE "TypeError")
  ELSE PutAll(s, <<<<Num(row.code), 1>>, <<n, Width[row.of]>>>>)
PutData(s, row, v) ==
  PutDatum(s, row,
    CASE row.of = "Char" -> IF CharCode(v) \in 0..65535 /\ v[1] \in {"str", "int"} THEN Num(CharCode(v)) ELSE None
      [] row.of \in {"Float", "Double"} -> IF IsNumber(v) THEN Num(IntOf(v)) ELSE None
      [] OTHER -> IF IsInt(v) THEN Num(Raw(IntOf(v), Width[row.of])) ELSE None)

PutLen(s, v) == IF IsIterable(v) THEN Put(s, Num(Len(v[2])), 4) ELSE Raise(s, "TypeError")

\* bytearray(value), or for an array object the numbers -128..255 taken modulo 256.
PutBytes(s, v, low) ==
  LET items == Items(v)
  IN IF \E i \in DOMAIN items : ~IsInt(items[i]) THEN Raise(s, "TypeError")
     ELSE IF \E i \in DOMAIN items : IntOf(items[i]) \notin low..255 THEN Raise(s, "ValueError")
     ELSE Write(s, [i \in DOMAIN items |-> <<Num(Raw(IntOf(items[i]), 1)), 1, 1>>])

PutItems(headed, row, v) ==
  LET each(a, x) == PutPrimitive(a, row.of, x)
  IN IF Raised(headed) THEN headed
     ELSE IF row.of = "Byte" THEN PutBytes(headed, v, IF row.kind = "array" THEN -128 ELSE 0)
     ELSE FoldLeft(each, headed, Items(v))
PutPrimitives(s, row, v) ==
  PutItems(PutLen(IF row.kind = "array" THEN Put(s, Num(row.code), 1) ELSE s, v), row, v)

RECURSIVE BitLength(_), Normalize(_, _), BigEndian(_, _)
BitLength(n) == IF n = 0 THEN 0 ELSE 1 + BitLength(n \div 2)
\* decimal.normalize(): <<coefficient, exponent>> without trailing zeros.
Normalize(coef, exp) == IF coef = 0 THEN <<0, 0>>
                        ELSE IF coef % 10 = 0 THEN Normalize(coef \div 10, exp + 1)
                        ELSE <<coef, exp>>
BigEndian(n, len) == IF len = 0 THEN <<>> ELSE Append(BigEndian(n \div 256, len - 1), n % 256)

\* One byte more than the magnitude needs when its top bit is taken: the sign lives there.
DecimalLength(coef) == (BitLength(coef) + 8) \div 8

\* Magnitude in big-endian bytes, the sign in the top bit of the first, and the scale.
Magnitude(coef) == BigEndian(coef, DecimalLength(coef))
PutMagnitude(s, data, sign, scale) ==
  Write(PutAll(s, <<<<Num(scale), 4>>, <<Num(Len(data)), 4>>>>),
        [i \in DOMAIN data |-> <<Num(IF i = 1 THEN (data[i] % 128) + 128 * sign ELSE data[i]), 1, 1>>])
PutDecimal(s, v) ==
  LET normal(n) == PutMagnitude(s, Magnitude(n[1]), v[2], -n[2])
  IN IF v[1] = "decimal" THEN normal(Normalize(v[3], v[4])) ELSE Raise(s, "AttributeError")

\* java.util.UUID holds each half of the sixteen bytes in reverse.
UUID_BYTE_ORDER == <<7, 6, 5, 4, 3, 2, 1, 0, 15, 14, 13, 12, 11, 10, 9, 8>>
UuidBytes(bytes) ==   \* value[order[k]] = bytes[k]
  [i \in 1..16 |-> LET k == CHOOSE k \in 1..16 : UUID_BYTE_ORDER[k] = i - 1
                   IN <<Num(bytes[k]), 1, 1>>]

\* int(milliseconds): the part below a millisecond is cut off towards zero.
Millis(d) == IF d[2] < 0 /\ d[3] > 0 THEN d[2] + 1 ELSE d[2]
DayMs == 86400000
Epoch(v) == IF v[1] = "date" THEN v[2] * DayMs ELSE Millis(v)

TextOf(v) == IF v[1] \in {"str", "bytes"} THEN v[2] ELSE <<>>
TextLen(v) == IF v[1] = "str" THEN Utf8Len(v[2]) ELSE Len(v[2])
PutString(s, v) ==
  IF v[1] \notin {"str", "bytes"} THEN Raise(s, "TypeError")
  ELSE PutAll(s, <<<<Num(9), 1>>, <<Num(TextLen(v)), 4>>, <<<<"s", UpToNul(TextOf(v))>>, TextLen(v)>>>>)

PutUuid(s, v) == IF v[1] = "uuid" THEN Write(s, UuidBytes(v[2])) ELSE Raise(s, "AttributeError")
IsListPair(v) == IsPair(v) /\ v[1] \in {"tuple", "list"}
PutTimestamp(s, v) ==
  IF IsListPair(v) /\ v[2][1][1] = "datetime" /\ IsInt(v[2][2])
  THEN PutAll(s, <<<<Num(Millis(v[2][1])), 8>>, <<Num(IntOf(v[2][2])), 4>>>>) ELSE Raise(s, "TypeError")
PutDate(s, v) == IF v[1] \in {"date", "datetime"} THEN Put(s, Num(Epoch(v)), 8) ELSE Raise(s, "AttributeError")
PutTime(s, v) == IF v[1] = "timedelta" THEN Put(s, Num(Millis(v)), 8) ELSE Raise(s, "AttributeError")
PutEnum(s, v) ==
  IF IsListPair(v) /\ IsInt(v[2][1]) /\ IsInt(v[2][2])
  THEN PutAll(s, <<<<Num(IntOf(v[2][1])), 4>>, <<Num(IntOf(v[2][2])), 4>>>>) ELSE Raise(s, "TypeError")

PutCoded(head, c, v) ==
  CASE c = "DecimalObject" -> PutDecimal(head, v)
    [] c = "UUIDObject" -> PutUuid(head, v)
    [] c = "TimestampObject" -> PutTimestamp(head, v)
    [] c = "DateObject" -> PutDate(head, v)
    [] c = "TimeObject" -> PutTime(head, v)
    [] c \in {"EnumObject", "BinaryEnumObject"} -> PutEnum(head, v)
PutStandard(s, c, code, v) == IF c = "String" THEN PutString(s, v) ELSE PutCoded(Put(s, Num(code), 1), c, v)
-----------------------------------------------------------------------------
(***************************************************************************)
(* The guesswork on the type of an unhinted value.                         *)
(***************************************************************************)
PythonMap == [int |-> "LongObject", float |-> "DoubleObject", str |-> "String",
              bytes |-> "ByteArrayObject", bool |-> "BoolObject", none |-> "Null",
              uuid |-> "UUIDObject", datetime |-> "DateObject", date |-> "DateObject",
              timedelta |-> "TimeObject", decimal |-> "DecimalObject"]
PythonArrayMap == [int |-> "LongArrayObject", float |-> "DoubleArrayObject",
                   str |-> "StringArrayObject", bool |-> "BoolArrayObject",
                   uuid |-> "UUIDArrayObject", datetime |-> "DateArrayObject",
                   date |-> "DateArrayObject", timedelta |-> "TimeArrayObject",
                   decimal |-> "DecimalArrayObject"]

\* The type of all items, "mixed" when there are several, "empty" without a first one.
\* None is skipped up to the first item, and afterwards where an array may hold nulls.
Subtype(items) ==
  LET known == {i \in DOMAIN items : items[i] # None}
      first == CHOOSE i \in known : \A j \in known : i <= j
      type == items[first][1]
      nullable == type \in {"str", "datetime", "timedelta", "decimal", "uuid"}
      rest == {i \in DOMAIN items : i > first}
  IN IF known = {} THEN "empty"
     ELSE IF \A i \in rest : InstanceOf(items[i], type) \/ (nullable /\ items[i] = None)
          THEN type ELSE "mixed"

Unknown == <<"unknown">>
TypeOfItems(v, items, subtype) ==
  IF subtype \in DOMAIN PythonArrayMap THEN <<PythonArrayMap[subtype]>>
  ELSE IF subtype = "mixed" /\ Len(items) = 2 /\ v[1] \in {"list", "tuple"} /\ IsInt(items[1])
  THEN IF items[2][1] \in {"dict", "odict"} THEN <<"MapObject">>
       ELSE IF IsIterable(items[2]) THEN <<"CollectionObject">> ELSE Unknown
  ELSE Unknown
MapPythonType(v) ==
  LET ofItems(items) == TypeOfItems(v, items, Subtype(items))
  IN CASE v[1] \in DOMAIN PythonMap -> <<PythonMap[v[1]]>>
       [] IsIterable(v) -> ofItems(Items(v))
       [] v[1] = "obj" -> <<"BinaryObject">>
       [] OTHER -> Unknown

(***************************************************************************)
(* Complex objects: the header is left out, the fields are written, then   *)
(* the footer with the offset of every field, and the header last.         *)
(***************************************************************************)
HeaderLen == 24
OffsetWidth(flags) == IF "OFFSET_ONE_BYTE" \in flags THEN 1
                      ELSE IF "OFFSET_TWO_BYTES" \in flags THEN 2 ELSE 4
\* A full footer names each field before its offset.
SchemaElementLen(flags) == OffsetWidth(flags) + (IF "COMPACT_FOOTER" \in flags THEN 0 ELSE 4)

WriteHeader(s, at, flags, v, hash, length, offset) ==
  LET puts == <<<<Num(TC_COMPLEX_OBJECT), 1>>, <<Num(v[3]), 1>>, <<<<"flags", flags>>, 2>>, <<<<"type", v[2]>>, 4>>,
                <<hash, 4>>, <<Num(length), 4>>, <<<<"schema", v[2]>>, 4>>, <<Num(offset), 4>>>>
  IN PutAll(Seek(s, at), puts)

\* offsets: where each field starts, from the start of the object.
OffsetFlag(offsets) == IF \A i \in DOMAIN offsets : offsets[i] < 255 THEN {"OFFSET_ONE_BYTE"}
                       ELSE IF \A i \in DOMAIN offsets : offsets[i] < 65535 THEN {"OFFSET_TWO_BYTES"}
                       ELSE {}
\* One entry of the footer.
PutElement(s, v, i, offset, flags) ==
  PutAll(s, (IF "COMPACT_FOOTER" \in flags THEN <<>> ELSE <<<<<<"field", v[2], Schemas[v[2]][i][1]>>, 4>>>>)
            \o <<<<Num(offset), OffsetWidth(flags)>>>>)
\* From init to the position there are the header, to be written, and the fields.
WriteParts(s, init, v, offsets, flags, offset) ==
  FoldLeft(LAMBDA a, i : PutElement(a, v, i, offsets[i], flags),
           Seek(WriteHeader(s, init, flags, v, <<"hash", offset - HeaderLen>>,
                            offset + SchemaElementLen(flags) * Len(offsets), offset), init + offset),
           [i \in DOMAIN offsets |-> i])
WriteFooter(s, init, v, offsets) ==
  WriteParts(s, init, v, offsets,
             {"USER_TYPE", "HAS_SCHEMA"} \cup OffsetFlag(offsets) \cup (IF s.compact THEN {"COMPACT_FOOTER"} ELSE {}),
             s.pos - init)

\* A name of a structure's dictionary, or its default.
Named(v, defaults, name) == IF name \in DOMAIN v[2] THEN v[2][name] ELSE defaults[name]

RECURSIVE FromPython(_, _, _)
\* infer_from_python: a hint is obeyed, anything else is guessed.
Infer(s, v) == LET hinted == IsHinted(v)
               IN FromPython(s, IF hinted THEN v[2][2][2] ELSE <<"AnyDataObject">>, IF hinted THEN v[2][1] ELSE v)
\* An object without a length is taken for the one item of a sequence.
ItemsOrOne(v) == IF IsIterable(v) THEN Items(v) ELSE <<v>>
InferAll(s, items) == FoldLeft(Infer, s, items)

PutObjectArray(s, v) ==
  LET array(items) == InferAll(PutAll(s, <<<<Num(23), 1>>, <<Num(IntOf(Items(v)[1])), 4>>, <<Num(Len(items)), 4>>>>), items)
  IN IF ~IsPair(v) \/ ~IsInt(Items(v)[1]) THEN Raise(s, "TypeError") ELSE array(ItemsOrOne(Items(v)[2]))

PutCollectionOf(s, hint, items) ==
  IF ~Fits(hint, 1) THEN Raise(s, "OverflowError")
  ELSE InferAll(PutAll(s, <<<<Num(24), 1>>, <<Num(Len(items)), 4>>, <<Num(Raw(hint, 1)), 1>>>>), items)
PutCollection(s, v) ==
  IF ~IsPair(v) \/ ~IsInt(Items(v)[1]) THEN Raise(s, "TypeError")
  ELSE PutCollectionOf(s, IntOf(Items(v)[1]), ItemsOrOne(Items(v)[2]))

PutPairs(s, v) == FoldLeft(LAMBDA a, p : Infer(Infer(a, p[1]), p[2]), s, v[2])
PutMap(s, v) ==       \* payload only
  IF v[1] \in {"dict", "odict"} THEN PutPairs(Put(s, Num(Len(v[2])), 4), v)
  ELSE Raise(s, "AttributeError")
PutMapOf(s, hint, m) ==
  IF m = None THEN Put(s, Num(TC_NULL), 1)
  ELSE IF ~IsInt(hint) \/ m[1] \notin {"dict", "odict"} THEN Raise(s, "AttributeError")
  ELSE IF ~Fits(IntOf(hint), 1) THEN Raise(s, "OverflowError")
  ELSE PutPairs(PutAll(s, <<<<Num(25), 1>>, <<Num(Len(m[2])), 4>>, <<Num(Raw(IntOf(hint), 1)), 1>>>>), m)
PutMapObject(s, v) == IF IsPair(v) THEN PutMapOf(s, Items(v)[1], Items(v)[2]) ELSE Raise(s, "TypeError")

(* Mutant: the offsets are counted from the first field. *)
PutObject_FromData(s, v) ==
  LET field(a, i) == [s |-> FromPython(a.s, Schemas[v[2]][i][2], v[4][i]),
                      offsets |-> Append(a.offsets, a.s.pos - s.pos - HeaderLen)]
      footed(r) == IF Raised(r.s) THEN r.s ELSE WriteFooter(r.s, s.pos, v, r.offsets)
  IN IF v[1] # "obj" THEN Raise(s, "AttributeError")
     ELSE footed(FoldLeft(field, [s |-> Skip(s, HeaderLen), offsets |-> <<>>],
                          [i \in DOMAIN Schemas[v[2]] |-> i]))
PutObject(s, v) ==
  LET field(a, i) == [s |-> FromPython(a.s, Schemas[v[2]][i][2], v[4][i]),
                      offsets |-> Append(a.offsets, a.s.pos - s.pos)]
      footed(r) == IF Raised(r.s) THEN r.s ELSE WriteFooter(r.s, s.pos, v, r.offsets)
  IN IF v[1] # "obj" THEN Raise(s, "AttributeError")
     ELSE footed(FoldLeft(field, [s |-> Skip(s, HeaderLen), offsets |-> <<>>],
                          [i \in DOMAIN Schemas[v[2]] |-> i]))

\* Arrays of standard objects; an array of enumerations is a pair of a type id and a list.
PutEach(headed, class, list) ==
  LET each(a, x) == FromPython(a, <<class>>, x)
  IN IF Raised(headed) THEN headed ELSE FoldLeft(each, headed, Items(list))
PutStandards(s, row, v) ==
  LET counted(head, list) == PutEach(PutLen(head, list), row.of, list)
  IN IF row.kind # "enumArray" THEN counted(IF row.kind = "standardPayload" THEN s ELSE Put(s, Num(row.code), 1), v)
     ELSE IF ~IsPair(v) \/ ~IsInt(Items(v)[1]) THEN Raise(s, "TypeError")
     ELSE counted(PutAll(s, <<<<Num(row.code), 1>>, <<Num(IntOf(Items(v)[1])), 4>>>>), Items(v)[2])

\* <<"Struct", fields, defaults>>, <<"StructArray", following, width of the counter, defaults>>
PutStruct(s, fields, defaults, v) ==
  FoldLeft(LAMBDA a, f : FromPython(a, f[2], Named(v, defaults, f[1])), s, fields)
PutStructs(s, t, v) ==
  FoldLeft(LAMBDA a, x : PutStruct(a, t[2], t[4], x), Put(s, Num(Len(v[2])), t[3]), v[2])

\* from_python_not_null
PutNotNull(s, c, row, v) ==
  CASE row.kind = "data" -> PutData(s, row, v)
    [] row.kind = "array" -> PutPrimitives(s, row, v)
    [] row.kind = "standard" -> PutStandard(s, c, row.code, v)
    [] row.kind \in {"standardArray", "enumArray"} -> PutStandards(s, row, v)
    [] row.kind = "objectArray" -> PutObjectArray(s, v)
    [] row.kind = "collection" -> PutCollection(s, v)
    [] row.kind = "map" -> PutMapObject(s, v)
    [] row.kind = "wrapped" -> Raise(s, "ParseError")       \* 'Send unwrapped data.'
    [] row.kind = "binary" -> PutObject(s, v)
PutNullable(s, c, row, v) ==
  IF row.kind = "payload" THEN PutPrimitives(s, row, v)
  ELSE IF row.kind = "standardPayload" THEN PutStandards(s, row, v)
  ELSE IF v = None THEN Put(s, Num(TC_NULL), 1) ELSE PutNotNull(s, c, row, v)

FromPython(s, t, v) ==
  LET guessed(type) == IF type = Unknown THEN Raise(s, "TypeError") ELSE FromPython(s, type, v)
  IN IF Raised(s) THEN s
     ELSE CASE t[1] = "AnyDataObject" -> guessed(MapPythonType(v))
            [] t[1] = "AnyDataArray" -> InferAll(Put(s, Num(Len(ItemsOrOne(v))), 4), ItemsOrOne(v))
            [] t[1] = "Null" -> Put(s, Num(TC_NULL), 1)
            [] t[1] \in Primitives -> PutPrimitive(s, t[1], v)
            [] t[1] = "Map" -> PutMap(s, v)
            [] t[1] = "Struct" -> PutStruct(s, t[2], t[3], v)
            [] t[1] = "StructArray" -> PutStructs(s, t, v)
            [] t[1] = "Prop" -> FromPython(Put(s, Num(t[2]), 2), t[3], v)
            [] t[1] = "TimeoutProp" -> IF IsInt(v) /\ IntOf(v) >= 0 THEN FromPython(s, <<"Prop", t[2], <<"Long">>>>, v)
                                       ELSE Raise(s, "ValueError")
            [] t[1] = "ExpiryPolicy" -> IF v = None THEN Put(s, Num(0), 1) ELSE PutPolicy(Put(s, Num(1), 1), v)
            [] OTHER -> PutNullable(s, t[1], Class[t[1]], v)
-----------------------------------------------------------------------------
(***************************************************************************)
(* Reading.  A decoded value and the stream behind it: <<value, stream>>.  *)
(***************************************************************************)
Got(v, s, size) == <<v, Skip(s, size)>>
Bad(s, what) == <<None, Raise(s, what)>>
IsNum(f) == f[1] = "n"
Behind(s, at, w) == FieldAt(s, s.pos + at, w)

\* A fixed-size number, whose to_python may fail.
AsPrimitive(s, p, n) ==
  CASE p = "Char" -> IF n < 0 THEN Bad(s, "OverflowError") ELSE Got(<<"str", <<n>>>>, s, 2)
    [] p = "Bool" -> Got(<<"bool", n # 0>>, s, 1)
    [] p \in {"Float", "Double"} -> Got(<<"float", n>>, s, Width[p])
    [] OTHER -> Got(<<"int", n>>, s, Width[p])
GetPrimitive(s, p) ==
  LET value(f) == IF IsNum(f) THEN AsPrimitive(s, p, Signed(f[2], Width[p])) ELSE Bad(s, "Junk")
  IN value(Peek(s, Width[p]))

\* get applied n times: the values and the stream behind the last one.
Added(values, one) == <<Append(values, one[1]), one[2]>>
OneMore(get(_), r) == IF Raised(r[2]) THEN r ELSE Added(r[1], get(r[2]))
Times(get(_), n, s) ==
  LET upTo[k \in 0..n] == IF k = 0 THEN <<<<>>, s>> ELSE OneMore(get, upTo[k - 1])
  IN upTo[n]

\* The counter of w bytes skip bytes ahead, then as many items.
Counted(get(_), n, s) == IF IsNum(n) THEN Times(get, n[2], s) ELSE Bad(s, "Junk")
GetCounted(get(_), s, skip, w, after) == Counted(get, FieldAt(s, s.pos + skip, w), Skip(s, skip + w + after))
AsList(r) == <<<<"list", r[1]>>, r[2]>>
AsBytes(r) == <<<<"bytes", [i \in DOMAIN r[1] |-> Raw(r[1][i][2], 1)]>>, r[2]>>
AsPair(type, r) == <<<<"tuple", <<<<"int", type>>, r[1]>>>>, r[2]>>

\* A payload array of characters or of booleans gives back plain numbers, an object array does not.
GetPrimitives(s, row, skip) ==
  LET item == CASE row.kind = "array" -> row.of
                [] row.of = "Char" -> "Short"
                [] row.of = "Bool" -> "Byte"
                [] OTHER -> row.of
      get(a) == GetPrimitive(a, item)
      array(r) == IF row.of = "Byte" THEN AsBytes(r) ELSE AsList(r)
  IN array(GetCounted(get, s, skip, 4, 0))

GetText(s, n, text) ==
  IF ~IsNum(n) THEN Bad(s, "Junk")
  ELSE IF n[2] = 0 THEN Got(<<"str", <<>>>>, s, 5)
  ELSE IF text[1] # "s" THEN Bad(s, "Junk") ELSE Got(<<"str", text[2]>>, s, 5 + n[2])
GetString(s) == LET sized(n) == GetText(s, n, Behind(s, 5, n[2])) IN sized(Behind(s, 1, 4))

\* These fields, when they are all numbers, made into a value.
GetNumbers(s, fields, size, value(_)) ==
  IF \E i \in DOMAIN fields : ~IsNum(fields[i]) THEN Bad(s, "Junk")
  ELSE Got(value([i \in DOMAIN fields |-> fields[i][2]]), s, size)
GetUuid(s) == GetNumbers(s, [k \in 1..16 |-> Behind(s, 1 + UUID_BYTE_ORDER[k], 1)], 17, LAMBDA n : <<"uuid", n>>)
GetTimestamp(s) == GetNumbers(s, <<Behind(s, 1, 8), Behind(s, 9, 4)>>, 13,
                              LAMBDA n : <<"tuple", <<<<"datetime", n[1], 0>>, <<"int", n[2]>>>>>>)
GetDate(s) == GetNumbers(s, <<Behind(s, 1, 8)>>, 9, LAMBDA n : <<"datetime", n[1], 0>>)
GetTime(s) == GetNumbers(s, <<Behind(s, 1, 8)>>, 9, LAMBDA n : <<"timedelta", n[1], 0>>)
GetEnum(s) == GetNumbers(s, <<Behind(s, 1, 4), Behind(s, 5, 4)>>, 9,
                         LAMBDA n : <<"tuple", <<<<"int", n[1]>>, <<"int", n[2]>>>>>>)

Decimal(first, n) == <<"decimal", IF first >= 128 /\ n[1] # 0 THEN 1 ELSE 0, n[1], n[2]>>
DecimalOf(data, scale) ==
  Decimal(data[1], Normalize(FoldLeft(LAMBDA n, b : 256 * n + b, data[1] % 128, Tail(data)), -scale))
GetDecimal(s) ==
  LET read(len) == IF ~IsNum(len) THEN Bad(s, "Junk")
                   ELSE Got(DecimalOf([i \in 1..len[2] |-> Behind(s, 8 + i, 1)[2]], Behind(s, 1, 4)[2]), s, 9 + len[2])
  IN read(Behind(s, 5, 4))

GetStandard(s, c) ==
  CASE c = "String" -> GetString(s)
    [] c = "DecimalObject" -> GetDecimal(s)
    [] c = "UUIDObject" -> GetUuid(s)
    [] c = "TimestampObject" -> GetTimestamp(s)
    [] c = "DateObject" -> GetDate(s)
    [] c = "TimeObject" -> GetTime(s)
    [] OTHER -> GetEnum(s)

GetWrapped(s) ==      \* the payload is not looked into: tuple(payload, offset)
  LET read(n) == IF ~IsNum(n) THEN Bad(s, "Junk")
                 ELSE Got(<<"wrapped", Slice(s, s.pos + 5, n[2]), Behind(s, 5 + n[2], 4)[2]>>, s, 9 + n[2])
  IN read(Behind(s, 1, 4))

GetPolicy(s) ==
  IF Peek(s, 1) = Num(0) THEN Got(None, s, 1)
  ELSE GetNumbers(s, [i \in 1..3 |-> Behind(s, 1 + 8 * (i - 1), 8)], 25,
                  LAMBDA n : <<"expiry", [i \in 1..3 |-> <<"int", n[i]>>]>>)

RECURSIVE Decode(_, _)
\* The class is looked up by the code, an unknown code is a ParseError.
GetByCode(s, code, classes) ==
  IF ~IsNum(code) THEN Bad(s, "Junk")
  ELSE IF code[2] \notin DOMAIN classes THEN Bad(s, "ParseError") ELSE Decode(classes[code[2]], s)
GetAny(s) == GetByCode(s, Peek(s, 1), TcMap)

GetEntry(s) == Times(GetAny, 2, s)
AsDict(type, r) ==
  IF Raised(r[2]) THEN Bad(r[2], "")
  ELSE IF \E i \in DOMAIN r[1] : ~Hashable(r[1][i][1]) THEN Bad(r[2], "TypeError")
  ELSE <<<<type, DictOf(r[1])>>, r[2]>>
\* The type of a collection or of a map: 2 is a linked map, which keeps the order of its keys.
Hint(s) == Signed(Behind(s, 5, 1)[2], 1)
GetMapOf(s, type) == AsPair(type, AsDict(IF type = 2 THEN "odict" ELSE "dict", GetCounted(GetEntry, s, 1, 4, 1)))
GetMapObject(s) == GetMapOf(s, Hint(s))

\* The fields are read in the order of the registered schema; the footer is passed over.
GetField(r, f) == Added(r[1], Decode(f[2], r[2]))
ReadHeader(s) == [version |-> Behind(s, 1, 1), flags |-> Behind(s, 2, 2),
                  type |-> Behind(s, 4, 4), schema |-> Behind(s, 16, 4)]
FooterLen(flags, fields) == IF "HAS_SCHEMA" \in flags THEN SchemaElementLen(flags) * Len(fields) ELSE 0
GetFields(s, h, fields) ==
  LET object(r) == <<<<"obj", h.type[2], h.version[2], r[1]>>, Skip(r[2], FooterLen(h.flags[2], fields))>>
  IN object(FoldLeft(GetField, <<<<>>, Skip(s, HeaderLen)>>, fields))
GetObject(s) ==
  LET known(h) == IF h.type[1] # "type" \/ h.schema[1] # "schema" THEN Bad(s, "Junk")
                  ELSE IF h.type[2] \notin DOMAIN Schemas \/ h.schema[2] # h.type[2] THEN Bad(s, "RuntimeError")
                  ELSE GetFields(s, h, Schemas[h.type[2]])
  IN known(ReadHeader(s))

\* The fields in order, each result named.
GetNamed(r, f) == LET after(one) == <<(f[1] :> one[1]) @@ r[1], one[2]>> IN after(Decode(f[2], r[2]))
GetStruct(s, fields) ==
  LET struct(r) == <<<<"struct", r[1]>>, r[2]>>
  IN struct(FoldLeft(GetNamed, <<[x \in {} |-> None], s>>, fields))

\* parse_not_null and to_python_not_null
GetNotNull(s, c, row) ==
  LET element(a) == Decode(<<row.of>>, a)
  IN CASE row.kind = "data" -> GetPrimitive(Skip(s, 1), row.of)
       [] row.kind = "array" -> GetPrimitives(s, row, 1)
       [] row.kind = "standard" -> GetStandard(s, c)
       [] row.kind = "standardArray" -> AsList(GetCounted(element, s, 1, 4, 0))
       [] row.kind = "enumArray" -> AsPair(Behind(s, 1, 4)[2], AsList(GetCounted(element, s, 5, 4, 0)))
       [] row.kind = "objectArray" -> AsPair(Behind(s, 1, 4)[2], AsList(GetCounted(GetAny, s, 5, 4, 0)))
       [] row.kind = "collection" -> AsPair(Hint(s), AsList(GetCounted(GetAny, s, 1, 4, 1)))
       [] row.kind = "map" -> GetMapObject(s)
       [] row.kind = "wrapped" -> GetWrapped(s)
       [] row.kind = "binary" -> GetObject(s)
\* A payload class has no code of its own; a code of null comes instead of any other value.
GetNullable(s, c, row) ==
  LET element(a) == Decode(<<row.of>>, a)
  IN IF row.kind = "payload" THEN GetPrimitives(s, row, 0)
     ELSE IF row.kind = "standardPayload" THEN AsList(GetCounted(element, s, 0, 4, 0))
     ELSE IF Peek(s, 1) = Num(TC_NULL) THEN Got(None, s, 1) ELSE GetNotNull(s, c, row)

Decode(t, s) ==
  LET struct(a) == GetStruct(a, t[2])
  IN IF Raised(s) THEN <<None, s>>
     ELSE CASE t[1] = "AnyDataObject" -> GetAny(s)
            [] t[1] = "AnyDataArray" -> AsList(GetCounted(GetAny, s, 0, 4, 0))
            [] t[1] = "Null" -> Got(None, s, 1)
            [] t[1] \in Primitives -> GetPrimitive(s, t[1])
            [] t[1] = "Map" -> AsDict("dict", GetCounted(GetEntry, s, 0, 4, 0))
            [] t[1] = "Struct" -> struct(s)
            [] t[1] = "StructArray" -> AsList(GetCounted(struct, s, 0, t[3], 0))
            [] t[1] = "ExpiryPolicy" -> GetPolicy(s)
            [] OTHER -> GetNullable(s, t[1], Class[t[1]])
=============================================================================
