------------------------------ MODULE Framing ------------------------------
(***************************************************************************)
(* What a stream of AMF3 messages is, as the format says it and whoever    *)
(* writes or reads it: the vocabulary of the properties that relate a      *)
(* stream to what the serializer and the deserializer do with it.          *)
(*                                                                         *)
(* A stream is read token by token.  What is still wanted of the message   *)
(* is a sequence of items; a token that suits the first of them replaces   *)
(* it by the items it announces, and a message is over when nothing is     *)
(* wanted any more.  How many strings, objects and traits the message has  *)
(* sent inline says which references mean something.  The externalizable   *)
(* classes, XML and vectors of the format are not among its values here.   *)
(***************************************************************************)
EXTENDS AMF3

Want(op)      == [op |-> op]
WantOf(op, n) == [op |-> op, length |-> n]
Wants(op, n)  == [i \in 1 .. n |-> Want(op)]

AtRest  == [want |-> << >>, strings |-> 0, objects |-> 0, traits |-> << >>]
Refused == [AtRest EXCEPT !.want = <<Want("nothing")>>]

(* A header is a reference, or a size and the data behind it.              *)
Number(t)   == Signed(t.word)
IsShared(t) == Number(t) % 2 = 0
Size(t)     == Number(t) \div 2

BodyItems  == {"content", "octets"}        \* of strings and of byte arrays
TextItems   == {"string", "keys"}           \* keys: pairs up to an empty key
ObjectItems == {"date", "bytes", "array", "dict", "object"}
Markers == UNDEFINED_MARKER .. STRING_MARKER
           \cup {DATE_MARKER, ARRAY_MARKER, OBJECT_MARKER, BYTE_ARRAY_MARKER, DICT_MARKER}

Kind(item) == IF item.op \in BodyItems THEN "raw"
              ELSE IF item.op = "double" THEN "double" ELSE "word"

(* The object behind a header has traits that were sent before, or its own *)
(* which the header counts.                                                *)
SharesTraits(t) == Size(t) % 2 = 0
OwnTraits(t)     == [count |-> Number(t) \div 16, dynamic |-> (Number(t) \div 8) % 2 = 1]
IsExternal(t)   == (Number(t) \div 4) % 2 = 1

SuitsHeader(st, op, t) ==
    /\ Number(t) >= 0
    /\ IsShared(t) => Size(t) < (IF op \in TextItems THEN st.strings ELSE st.objects)
    /\ op = "object" /\ ~IsShared(t) =>
         IF SharesTraits(t) THEN Size(t) \div 2 < Len(st.traits) ELSE ~IsExternal(t)

Suits(st, t) ==
    LET item == Head(st.want)
    IN  /\ Is(Kind(item), t)
        /\ item.op = "value" => t.word \in Markers
        /\ item.op = "weak" => t.word < 128
        /\ item.op \in BodyItems => ByteSize[t.raw] = item.length
        /\ item.op \in TextItems \cup ObjectItems => SuitsHeader(st, item.op, t)

(* The items a token announces.                                            *)
Opening(marker) ==
    IF marker <= TRUE_MARKER THEN << >>
    ELSE <<Want(IF marker = INTEGER_MARKER THEN "integer"
                ELSE IF marker = DOUBLE_MARKER THEN "double"
                ELSE IF marker = STRING_MARKER THEN "string"
                ELSE IF marker = DATE_MARKER THEN "date"
                ELSE IF marker = ARRAY_MARKER THEN "array"
                ELSE IF marker = OBJECT_MARKER THEN "object"
                ELSE IF marker = BYTE_ARRAY_MARKER THEN "bytes" ELSE "dict")>>

Members(traits) == Wants("value", traits.count)
                   \o (IF traits.dynamic THEN <<Want("keys")>> ELSE << >>)

TextWants(op, t) ==
    (IF IsShared(t) \/ Size(t) = 0 THEN << >> ELSE <<WantOf("content", Size(t))>>)
    \o (IF op = "keys" /\ Number(t) # EMPTY_STRING THEN <<Want("value"), Want("keys")>>
        ELSE << >>)

ObjectWants(st, op, t) ==
    IF op = "date" THEN <<Want("double")>>
    ELSE IF op = "bytes" THEN IF Size(t) = 0 THEN << >> ELSE <<WantOf("octets", Size(t))>>
    ELSE IF op = "array" THEN <<Want("keys")>> \o Wants("value", Size(t))
    ELSE IF op = "dict" THEN <<Want("weak")>> \o Wants("value", 2 * Size(t))
    ELSE IF SharesTraits(t) THEN Members(st.traits[(Size(t) \div 2) + 1])
    ELSE Wants("string", OwnTraits(t).count + 1) \o Members(OwnTraits(t))

Announced(st, op, t) ==
    IF op = "value" THEN Opening(t.word)
    ELSE IF op \in TextItems THEN TextWants(op, t)
    ELSE IF op \in ObjectItems /\ ~IsShared(t) THEN ObjectWants(st, op, t)
    ELSE << >>

Advanced(st, t) ==
    LET op     == Head(st.want).op
        inline == op \in ObjectItems /\ ~IsShared(t)
    IN  [want    |-> Announced(st, op, t) \o Tail(st.want),
         strings |-> IF op = "content" THEN st.strings + 1 ELSE st.strings,
         objects |-> IF inline THEN st.objects + 1 ELSE st.objects,
         traits  |-> IF inline /\ op = "object" /\ ~SharesTraits(t)
                     THEN Append(st.traits, OwnTraits(t)) ELSE st.traits]

(* A message begins with nothing sent before.                              *)
Begun(st) == IF st.want = << >> THEN [AtRest EXCEPT !.want = <<Want("value")>>] ELSE st

After(st, t) == IF st = Refused \/ ~Suits(Begun(st), t) THEN Refused
                ELSE Advanced(Begun(st), t)

----------------------------------------------------------------------------
(* Where a stream is after each of its tokens, and where messages end.     *)
Frames(src) ==
    LET f[n \in 0 .. Len(src)] == IF n = 0 THEN AtRest ELSE After(f[n - 1], src[n])
    IN  f

(* Whole messages, and perhaps the beginning of another.                   *)
WellFramed(src) == Frames(src)[Len(src)] # Refused

Ends(src) == {n \in 1 .. Len(src) : Frames(src)[n].want = << >>}
============================================================================
