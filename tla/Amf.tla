---------------------------------- MODULE Amf ----------------------------------
(* The AMF0 values in the body of a command (libcpputil_amf.cpp): what the  *)
(* library and its peers write, and what the decoder makes of it.           *)
(*                                                                          *)
(* A value is [type, val].  The val of a number is its eight bytes as they  *)
(* lie in memory, of a string its bytes, of an object or array the sequence *)
(* of its fields [name, value]; the elements of a strict array have empty   *)
(* names.  A body is a sequence of bytes, and a decoder returns the number  *)
(* of bytes it used, or -1.                                                 *)
EXTENDS Integers, Sequences, SequencesExt

CONSTANTS
    LongString,   \* 65536: the length from which a string is a long one
    Commands      \* bound: the bodies that are sent, sequences of values

VARIABLES
    command,      \* the values of the command that was sent last
    fields        \* the fields that OnInvoke was given for it

AmfValue(type, val) == [type |-> type, val |-> val]
Field(name, value) == [name |-> name, value |-> value]
ObjectEnd == <<0, 0, 9>>

-----------------------------------------------------------------------------
(* Writing.                                                                 *)

EncodeInt16(n) == <<(n \div 256) % 256, n % 256>>
EncodeInt32(n) == <<n \div 16777216, (n \div 65536) % 256>> \o EncodeInt16(n)
EncodeNumber(d) == <<0>> \o Reverse(d)
EncodeString(s) ==
    IF Len(s) < LongString THEN <<2>> \o EncodeInt16(Len(s)) \o s
                           ELSE <<12>> \o EncodeInt32(Len(s)) \o s
EncodeNamed(name, bytes) == EncodeInt16(Len(name)) \o name \o bytes

\* The variable-length integers of AMF3, written by a peer: 7 bits in each of up to
\* three bytes, and 8 in a fourth.
Low7(n) == n % 128
U29(n) ==
    IF n < 128 THEN <<n>>
    ELSE IF n < 16384 THEN <<128 + (n \div 128), Low7(n)>>
    ELSE IF n < 2097152 THEN <<128 + (n \div 16384), 128 + Low7(n \div 128), Low7(n)>>
    ELSE <<128 + (n \div 4194304), 128 + Low7(n \div 32768), 128 + Low7(n \div 256), n % 256>>

\* What a sender writes for a value.  The library's encoders write the first five; the
\* others, and the names of nulls among the fields of any object, come from peers.
RECURSIVE Encode(_)
EncodeFields(fs) == FlattenSeq([i \in DOMAIN fs |-> EncodeNamed(fs[i].name, Encode(fs[i].value))])
Encode(v) ==
    CASE v.type = "number" -> EncodeNumber(v.val)
      [] v.type = "boolean" -> <<1, IF v.val THEN 1 ELSE 0>>
      [] v.type = "string" -> EncodeString(v.val)
      [] v.type = "null" -> <<5>>
      [] v.type = "object" -> <<3>> \o EncodeFields(v.val) \o ObjectEnd
      [] v.type = "mixed array" -> <<8>> \o EncodeInt32(Len(v.val)) \o EncodeFields(v.val) \o ObjectEnd
      [] v.type = "array" -> <<10>> \o EncodeInt32(Len(v.val))
                             \o FlattenSeq([i \in DOMAIN v.val |-> Encode(v.val[i].value)])
      [] v.type = "date" -> <<11>> \o Reverse(v.val) \o EncodeInt16(0)
      [] v.type = "undefined" -> <<6>>
      [] v.type = "integer" -> <<17, 4>> \o U29(v.val % 536870912)
      [] v.type = "unsupported" -> <<13>>

\* CAMFObjectProperty::Encode, for a field of an object the library has built: a null,
\* and a field without a name, get no name.
RECURSIVE EncodeProperty(_)
EncodeProperty(f) ==
    (IF f.value.type # "null" /\ f.name # <<>> THEN EncodeInt16(Len(f.name)) \o f.name ELSE <<>>)
    \o IF f.value.type = "object"
       THEN <<3>> \o FlattenSeq([i \in DOMAIN f.value.val |-> EncodeProperty(f.value.val[i])]) \o ObjectEnd
       ELSE Encode(f.value)

-----------------------------------------------------------------------------
(* Reading.                                                                 *)

Past(b, n) == SubSeq(b, n + 1, Len(b))
DecodeInt16(b) == b[1] * 256 + b[2]
DecodeInt32(b) == DecodeInt16(b) * 65536 + DecodeInt16(Past(b, 2))

AmfNull == AmfValue("null", <<>>)
Got(used, value) == [used |-> used, value |-> value]
Failed == Got(-1, AmfNull)

\* CObjVar::SetString drops one final zero byte.
SetString(s) == IF s # <<>> /\ Last(s) = 0 THEN Front(s) ELSE s
DecodeShortString(b) == SetString(SubSeq(b, 3, DecodeInt16(b) + 2))
\* A long string is read from the third byte of its length on.
DecodeLongString(b) == SetString(SubSeq(b, 3, DecodeInt32(b) + 2))
DecodeNumber(b) == Reverse(SubSeq(b, 1, 8))

\* AMF3ReadInteger: the bytes used and a value of 29 bits with a sign.
AMF3ReadInteger(b) ==
    LET n == CHOOSE k \in 1..4 : (k = 4 \/ b[k] < 128) /\ \A j \in 1..(k - 1) : b[j] >= 128
        high == FoldLeft(LAMBDA x, y : x * 128 + Low7(y), 0, SubSeq(b, 1, IF n < 4 THEN n ELSE 3))
        all == IF n < 4 THEN high ELSE high * 256 + b[4]
    IN Got(n, AmfValue("integer", IF all > 268435455 THEN all - 536870912 ELSE all))

\* After an error AMF_Decode looks for the end mark of the object, byte by byte.
EndsAt(b, n) == n + 3 <= Len(b) /\ SubSeq(b, n + 1, n + 3) = ObjectEnd
\* Mutant of AfterError: the object is given up as a whole.
AfterErrorNothing(b) == -1
AfterError(b) ==
    IF \E n \in 0..Len(b) : EndsAt(b, n)
    THEN 3 + CHOOSE n \in 0..Len(b) : EndsAt(b, n) /\ \A k \in 0..(n - 1) : ~EndsAt(b, k)
    ELSE -1

\* AMF3Prop_Decode of a simple value, behind the byte that announces AMF3; what begins
\* like an array or an object goes to AMF3_Decode, which refuses AMF3_TRUE.  (No body
\* here holds the strings, dates, arrays and objects of AMF3, which are not modelled.)
DecodeAMF3(r) ==
    IF r = <<>> THEN Failed
    ELSE CASE r[1] \in {0, 1} -> Got(1, AmfNull)
           [] r[1] = 2 -> Got(1, AmfValue("boolean", FALSE))
           [] r[1] = 4 -> LET i == AMF3ReadInteger(Tail(r)) IN Got(1 + i.used, i.value)
           [] r[1] = 5 -> IF Len(r) < 9 THEN Failed
                          ELSE Got(9, AmfValue("number", DecodeNumber(Tail(r))))
           [] OTHER -> Failed

RECURSIVE DecodeProp(_, _), AMF_Decode(_, _), DecodeArray(_, _)

\* The value behind its type byte.
DecodeValue(type, r) ==
    LET object(skip, o) == IF o.used = -1 THEN Failed ELSE Got(skip + o.used, AmfValue("object", o.fields))
    IN CASE type = 2 -> IF Len(r) < 2 \/ Len(r) < DecodeInt16(r) + 2 THEN Failed
                        ELSE Got(2 + DecodeInt16(r), AmfValue("string", DecodeShortString(r)))
         [] type = 0 -> IF Len(r) < 8 THEN Failed ELSE Got(8, AmfValue("number", DecodeNumber(r)))
         [] type = 3 -> object(0, AMF_Decode(r, TRUE))
         [] type = 1 -> IF r = <<>> THEN Failed ELSE Got(1, AmfValue("boolean", r[1] # 0))
         [] type \in {5, 6} -> Got(0, AmfNull)
         [] type = 8 -> object(4, AMF_Decode(Past(r, 4), TRUE))
         [] type = 11 -> IF Len(r) < 10 THEN Failed ELSE Got(10, AmfValue("date", DecodeNumber(r)))
         [] type = 12 -> IF Len(r) < 4 \/ Len(r) < DecodeInt32(r) + 4 THEN Failed
                         ELSE Got(4 + DecodeInt32(r), AmfValue("string", DecodeLongString(r)))
         [] type = 10 -> object(4, DecodeArray(Past(r, 4), DecodeInt32(r)))
         [] type = 17 -> DecodeAMF3(r)
         [] OTHER -> Failed

\* AMFProp_Decode: a name if the value has one, the type, the value.
DecodeProp(b, named) ==
    LET n == IF named THEN 2 + DecodeInt16(b) ELSE 0
        v == DecodeValue(b[n + 1], Past(b, n + 1))
    IN IF b = <<>> \/ (named /\ Len(b) < 4) \/ n >= Len(b) \/ v.used = -1
       THEN [used |-> -1, field |-> Field(<<>>, AmfNull)]
       ELSE [used |-> n + 1 + v.used,
             field |-> Field(IF named THEN DecodeShortString(b) ELSE <<>>, v.value)]

\* The fields up to the end mark, or to the end of the body.
AMF_Decode(b, named) ==
    IF b = <<>> THEN [used |-> 0, fields |-> <<>>]
    ELSE IF EndsAt(b, 0) THEN [used |-> 3, fields |-> <<>>]
    ELSE LET p == DecodeProp(b, named)
             rest == AMF_Decode(Past(b, p.used), named)
         IN IF p.used = -1 THEN [used |-> AfterError(b), fields |-> <<>>]
            ELSE [used |-> IF rest.used = -1 THEN -1 ELSE p.used + rest.used,
                  fields |-> <<p.field>> \o rest.fields]

\* AMF_DecodeArray: so many elements; one that fails is tried again in the same place.
DecodeArray(b, count) ==
    IF count = 0 THEN [used |-> 0, fields |-> <<>>]
    ELSE LET p == DecodeProp(b, FALSE)
             rest == DecodeArray(Past(b, p.used), count - 1)
         IN IF p.used = -1 \/ rest.used = -1 THEN [used |-> -1, fields |-> <<>>]
            ELSE [used |-> p.used + rest.used, fields |-> <<p.field>> \o rest.fields]

\* The fields of the command object; the result of AMF_Decode is not looked at.
CreateFromAMFBuffer(b) == AMF_Decode(b, FALSE).fields

-----------------------------------------------------------------------------
(* What a reader should be given for a value that was sent.                 *)

\* A value of a type the decoder does not know, or an array that holds one, cannot be
\* passed over.
RECURSIVE Unreadable(_)
Unreadable(v) ==
    \/ v.type = "unsupported"
    \/ v.type = "array" /\ \E i \in DOMAIN v.val : Unreadable(v.val[i].value)

\* Undefined is read as null and both kinds of array as objects; a string loses a final
\* zero and a long one is moved by two bytes; what holds an unreadable value ends there.
RECURSIVE Meant(_)
MeantFields(fs) ==
    LET bad == {i \in DOMAIN fs : Unreadable(fs[i].value)}
    IN [i \in {i \in DOMAIN fs : \A j \in bad : i < j} |-> Field(fs[i].name, Meant(fs[i].value))]
Meant(v) ==
    CASE v.type = "undefined" -> AmfNull
      [] v.type \in {"object", "mixed array", "array"} -> AmfValue("object", MeantFields(v.val))
      [] v.type = "string" /\ Len(v.val) < LongString -> AmfValue("string", SetString(v.val))
      [] v.type = "string" /\ Len(v.val) >= LongString ->
           AmfValue("string", Past(EncodeInt32(Len(v.val)), 2) \o SubSeq(v.val, 1, Len(v.val) - 2))
      [] OTHER -> v

Unnamed(vs) == [i \in DOMAIN vs |-> Field(<<>>, vs[i])]
Plain(v) == v.type = "object" /\ \A i \in DOMAIN v.val :
                v.val[i].name # <<>> /\ v.val[i].value.type \in {"number", "boolean", "string"}

-----------------------------------------------------------------------------
(* A command: its body is decoded by CreateFromAMFBuffer as a whole, and    *)
(* nothing is kept for the next one.                                        *)

AmfInit == command = <<>> /\ fields = <<>>
ReadCommand ==
    \E vs \in Commands :
        /\ command' = vs
        /\ fields' = CreateFromAMFBuffer(FlattenSeq([i \in DOMAIN vs |-> Encode(vs[i])]))

\* A command is read as its sender meant it, whatever the nesting of its objects: no
\* value, not even one that is read wrongly, moves the place where the next one is read,
\* and a value of an unknown type costs the fields behind it in its own object and nothing
\* else, as long as no 00 00 09 lies between it and that object's end.  What the library's
\* object encoder writes is what its encoders of single values write, unless a field is a
\* null or has no name (AMF_Decode, AMFProp_Decode, CAMFObjectProperty::Encode).
CommandReadAsMeant ==
    /\ fields = MeantFields(Unnamed(command))
    /\ \A v \in ToSet(command) : Plain(v) => EncodeProperty(Field(<<>>, v)) = Encode(v)
================================================================================
