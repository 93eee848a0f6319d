-------------------------------- MODULE AMF3 --------------------------------
(***************************************************************************)
(* What the serializer and the deserializer share: the Ruby values they    *)
(* exchange and the tokens of the stream (lib/amf/pure/helpers).           *)
(*                                                                         *)
(* A stream is a sequence of tokens: a marker byte or an integer packed by *)
(* pack_integer (a word; a packed integer below 128 is one byte, so a      *)
(* marker, an empty string and a close marker are the same token when they *)
(* are the same byte), the bytes of a string or byte array, or a double.   *)
(* U29 shows what a word is, byte by byte.                                 *)
(***************************************************************************)
EXTENDS Integers, Sequences

CONSTANTS
    Strings,        \* byte contents: strings, keys and class names
    EmptyString,    \* ''
    ByteSize        \* the length of each string in bytes

ASSUME StringsAssumption ==
    /\ EmptyString \in Strings
    /\ ByteSize \in [Strings -> Nat]
    /\ \A s \in Strings : ByteSize[s] = 0 <=> s = EmptyString

----------------------------------------------------------------------------
(* Ruby values.  Integers and floats are numbers; what is mutable lives in *)
(* a heap and is referred to by its identity.                              *)
Nil      == [const |-> "nil"]
True     == [const |-> "true"]
False    == [const |-> "false"]
Num(n)   == [num |-> n]         \* an Integer
Float(f) == [float |-> f]       \* a Float that is no integer
Str(s)   == [str |-> s]
Sym(s)   == [sym |-> s]         \* the Symbol whose to_s is s
Ref(o)   == [ref |-> o]

Is(tag, v) == tag \in DOMAIN v

(* key.to_s                                                                *)
Text(key) == IF Is("sym", key) THEN key.sym ELSE key.str

(* Insertion-ordered Hash entries: a new key goes last, a known one keeps  *)
(* its place.                                                              *)
PutPair(pairs, key, value) ==
    IF \E i \in DOMAIN pairs : pairs[i][1] = key
    THEN [i \in DOMAIN pairs |-> IF pairs[i][1] = key THEN <<key, value>>
                                                      ELSE pairs[i]]
    ELSE Append(pairs, <<key, value>>)

----------------------------------------------------------------------------
(* AMF3 markers (constants.rb)                                             *)
UNDEFINED_MARKER  == 0
NULL_MARKER       == 1
FALSE_MARKER      == 2
TRUE_MARKER       == 3
INTEGER_MARKER    == 4
DOUBLE_MARKER     == 5
STRING_MARKER     == 6
XML_DOC_MARKER    == 7
DATE_MARKER       == 8
ARRAY_MARKER      == 9
OBJECT_MARKER     == 10
XML_MARKER        == 11
BYTE_ARRAY_MARKER == 12
VECTOR_MARKERS    == 13 .. 16
DICT_MARKER       == 17
EMPTY_STRING      == 1      \* also the close of an object or an array

MAX_INTEGER == 268435455
MIN_INTEGER == -268435456

(* Tokens.  A packed integer keeps 29 bits and is read back signed.        *)
Word(n)   == [word |-> n % 536870912]
Raw(s)    == [raw |-> s]
Double(v) == [double |-> v]

Signed(w) == IF w > MAX_INTEGER THEN w - 536870912 ELSE w
============================================================================
