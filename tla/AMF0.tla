-------------------------------- MODULE AMF0 --------------------------------
(***************************************************************************)
(* What the serializer and the deserializer of the C extension share       *)
(* beyond AMF3: the markers of AMF0 (ext/rocketamf_ext/constants.h), the   *)
(* tokens for its 16 and 32 bit integers, and C strings.                   *)
(***************************************************************************)
EXTENDS AMF3

CONSTANTS
    CString,        \* each string up to its first NUL, as C sees it
    CollectionName, \* 'flex.messaging.io.ArrayCollection'
    MaxUint16       \* 65535

ASSUME AMF0Assumption ==
    /\ CString \in [Strings -> Strings]
    /\ \A s \in Strings : CString[CString[s]] = CString[s]
    /\ CollectionName \in Strings
    /\ MaxUint16 \in Nat

AMF0_NUMBER_MARKER       == 0
AMF0_BOOLEAN_MARKER      == 1
AMF0_STRING_MARKER       == 2
AMF0_OBJECT_MARKER       == 3
AMF0_NULL_MARKER         == 5
AMF0_UNDEFINED_MARKER    == 6
AMF0_REFERENCE_MARKER    == 7
AMF0_HASH_MARKER         == 8
AMF0_OBJECT_END_MARKER   == 9
AMF0_STRICT_ARRAY_MARKER == 10
AMF0_DATE_MARKER         == 11
AMF0_LONG_STRING_MARKER  == 12
AMF0_UNSUPPORTED_MARKER  == 13
AMF0_XML_MARKER          == 15
AMF0_TYPED_OBJECT_MARKER == 16
AMF0_AMF3_MARKER         == 17

U16(n) == [u16 |-> n]
U32(n) == [u32 |-> n]

(* The bytes of a string, none of them if it is empty.                     *)
Content(s) == IF s = EmptyString THEN << >> ELSE <<Raw(s)>>
============================================================================
