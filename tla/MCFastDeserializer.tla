------------------------- MODULE MCFastDeserializer -------------------------
(***************************************************************************)
(* Sources of two messages in AMF3 and in AMF0, as another writer produces *)
(* them, cut anywhere: each construct the reader knows is in one of them.  *)
(* Mapped has a Ruby class, Tab one derived from Hash, Gone one that is    *)
(* not defined, and ExtKlass reads an object, some bytes, an object and    *)
(* more bytes from the source.                                             *)
(***************************************************************************)
EXTENDS FastDeserializer

CONSTANTS empty, foo, bar, asdf, raw, coll, ASClass, Ext, Mapped, Tab, Gone,  \* strings
          Klass, ExtKlass, HashKlass, Missing, Hash,                    \* Ruby classes
          NaN

MCStrings  == {empty, foo, bar, asdf, raw, coll, ASClass, Ext, Mapped, Tab, Gone}
MCByteSize == [s \in MCStrings |-> IF s = empty THEN 0 ELSE IF s = asdf THEN 4 ELSE 3]
MCCString  == [s \in MCStrings |-> s]
MCRubyClasses == Store(Store(Store(Store(NoEntries, Mapped, Klass), Ext, ExtKlass),
                       Tab, HashKlass), Gone, Missing)
MCExternals == [c \in {ExtKlass} |-> <<"read", "skip", "read", "skip">>]

W(n)   == <<Word(n)>>
In(s)  == <<Word((2 * ByteSize[s]) + 1), Raw(s)>>       \* an AMF3 string
In0(s) == <<U16(ByteSize[s])>> \o Content(s)             \* an AMF0 string
StrM   == W(STRING_MARKER)
End0   == <<U16(0)>> \o W(AMF0_OBJECT_END_MARKER)

----------------------------------------------------------------------------
Dictionary ==   \* {"bar" => "asdf", ASClass{bar: nil, foo: "bar"} => "asdf"}
    W(DICT_MARKER) \o W(5) \o W(0)
    \o StrM \o In(bar) \o StrM \o In(asdf)
    \o W(OBJECT_MARKER) \o W(35) \o In(ASClass) \o W(0) \o In(foo)
    \o W(NULL_MARKER) \o StrM \o W(0) \o StrM \o W(2)

Associative ==  \* {"asdf" => self, 0 => "", 1 => -1}
    W(ARRAY_MARKER) \o W(5) \o In(asdf) \o W(ARRAY_MARKER) \o W(0) \o W(EMPTY_STRING)
    \o StrM \o W(1) \o W(INTEGER_MARKER) \o W(-1)

SharedTraits == \* [a, b, a, date, date] with a, b of one class, b.foo = a
    W(ARRAY_MARKER) \o W(11) \o W(EMPTY_STRING)
    \o W(OBJECT_MARKER) \o W(27) \o In(foo) \o In(bar) \o W(TRUE_MARKER)
                       \o In(asdf) \o W(FALSE_MARKER) \o W(EMPTY_STRING)
    \o W(OBJECT_MARKER) \o W(1) \o W(OBJECT_MARKER) \o W(2) \o W(EMPTY_STRING)
    \o W(OBJECT_MARKER) \o W(2)
    \o W(DATE_MARKER) \o W(1) \o <<Double(Num(9))>> \o W(DATE_MARKER) \o W(6)

Vectors ==      \* [int, uint, double, objects and XML, shared]
    W(ARRAY_MARKER) \o W(13) \o W(EMPTY_STRING)
    \o W(13) \o W(5) \o W(0) \o <<U32(1), U32(2)>> \o W(14) \o W(3) \o W(1) \o <<U32(3)>>
    \o W(15) \o W(3) \o W(1) \o <<Double(Num(4))>>
    \o W(16) \o W(3) \o W(0) \o In(foo) \o W(XML_MARKER) \o In(bar)
    \o W(XML_DOC_MARKER) \o W(10) \o W(13) \o W(2)

Collection ==   \* [ArrayCollection of ["foo"], its array, an empty byte array]
    W(ARRAY_MARKER) \o W(7) \o W(EMPTY_STRING)
    \o W(OBJECT_MARKER) \o W(7) \o In(coll) \o W(ARRAY_MARKER) \o W(3) \o W(1) \o StrM \o In(foo)
    \o W(ARRAY_MARKER) \o W(4) \o W(BYTE_ARRAY_MARKER) \o W(1)

External_ ==    \* [Ext reading "foo", bytes, "foo", bytes; an empty Mapped, a Tab, a double]
    W(ARRAY_MARKER) \o W(9) \o W(EMPTY_STRING)
    \o W(OBJECT_MARKER) \o W(7) \o In(Ext)
    \o StrM \o In(foo) \o <<Raw(raw)>> \o StrM \o W(2) \o <<Raw(raw)>>
    \o W(OBJECT_MARKER) \o W(3) \o In(Mapped)
    \o W(OBJECT_MARKER) \o W(19) \o In(Tab) \o W(2) \o W(TRUE_MARKER) \o W(DOUBLE_MARKER) \o <<Double(Float(foo))>>

Bytes == W(BYTE_ARRAY_MARKER) \o W(7) \o <<Raw(raw)>>

Messages3 == {Dictionary, Associative, SharedTraits, Vectors, Collection, Bytes}

----------------------------------------------------------------------------
Array0 ==       \* ["foo", long "bar", "", XML, true, false, nil, nil, nil, 5, date]
    W(AMF0_STRICT_ARRAY_MARKER) \o <<U32(11)>> \o W(AMF0_STRING_MARKER) \o In0(foo)
    \o W(AMF0_LONG_STRING_MARKER) \o <<U32(3), Raw(bar)>> \o W(AMF0_STRING_MARKER) \o In0(empty)
    \o W(AMF0_XML_MARKER) \o <<U32(4), Raw(asdf)>> \o W(AMF0_BOOLEAN_MARKER) \o W(1)
    \o W(AMF0_BOOLEAN_MARKER) \o W(0) \o W(AMF0_NULL_MARKER) \o W(AMF0_UNDEFINED_MARKER)
    \o W(AMF0_UNSUPPORTED_MARKER) \o W(AMF0_NUMBER_MARKER) \o <<Double(Num(5))>>
    \o W(AMF0_DATE_MARKER) \o <<Double(Num(9)), U16(0)>>

Objects0 ==     \* {"foo" => ASClass{"" => nil, "bar" => self}, "asdf" => hash}
    W(AMF0_OBJECT_MARKER)
    \o In0(foo) \o W(AMF0_TYPED_OBJECT_MARKER) \o In0(ASClass)
        \o In0(empty) \o W(AMF0_NULL_MARKER) \o In0(bar) \o W(AMF0_REFERENCE_MARKER) \o <<U16(0)>> \o End0
    \o In0(asdf) \o W(AMF0_HASH_MARKER) \o <<U32(1)>>
        \o In0(foo) \o W(AMF0_REFERENCE_MARKER) \o <<U16(1)>> \o End0
    \o End0

Switched ==     \* an AMF3 value in an AMF0 message
    W(AMF0_AMF3_MARKER) \o Associative

Messages0 == {Array0, Objects0, Switched}

----------------------------------------------------------------------------
(* What another writer may write, and this reader cannot read: an object   *)
(* with a property whose class is no Hash, a class the program does not    *)
(* have, an external object of a class without read_external, and a date   *)
(* that is no number.                                                      *)
Mapped3 == W(OBJECT_MARKER) \o W(19) \o In(Mapped) \o In(foo) \o W(TRUE_MARKER)
Mapped0 == W(AMF0_TYPED_OBJECT_MARKER) \o In0(Mapped) \o In0(foo) \o W(AMF0_NULL_MARKER) \o End0

NoReader    == W(OBJECT_MARKER) \o W(7) \o In(Mapped)
Unreadable3 == {Mapped3, W(OBJECT_MARKER) \o W(3) \o In(Gone),
                W(DATE_MARKER) \o W(1) \o <<Double(Float(NaN))>>}
Unreadable0 == {Mapped0, W(AMF0_DATE_MARKER) \o <<Double(Float(NaN)), U16(0)>>}

(* What no writer writes.                                                  *)
Bad3 == {W(ARRAY_MARKER) \o W(5) \o W(EMPTY_STRING) \o W(TRUE_MARKER) \o W(18),
         W(OBJECT_MARKER) \o W(5), W(OBJECT_MARKER) \o W(-3),
         W(ARRAY_MARKER) \o W(-5) \o W(EMPTY_STRING), W(13) \o W(-1), W(DICT_MARKER) \o W(-2),
         W(BYTE_ARRAY_MARKER) \o W(-5), StrM \o W(6), StrM \o W(-2), StrM \o W(7) \o W(1),
         W(OBJECT_MARKER) \o W(-5) \o In(foo)}
Bad0 == {W(AMF0_REFERENCE_MARKER) \o <<U16(0)>>, W(AMF0_OBJECT_END_MARKER)}

Src(ver, tokens, ends, valid, external) ==
    [ver |-> ver, tokens |-> tokens, at |-> 0, ends |-> ends, valid |-> valid,
     external |-> external]

Cut(src, n) == [src EXCEPT !.tokens = SubSeq(@, 1, n), !.ends = @ \cap 0 .. n]

Two(ver, m, n) ==
    LET src == Src(ver, m \o n, {0, Len(m), Len(m \o n)}, TRUE, FALSE)
    IN  {Cut(src, k) : k \in 0 .. Len(src.tokens)}

FromTheSecond == [Src(3, Bytes \o Bytes, {0, 3, 6}, TRUE, FALSE) EXCEPT !.at = 3]

MCSources ==
    UNION {Two(3, m, Associative) : m \in Messages3}
    \cup UNION {Two(0, m, Objects0) : m \in Messages0}
    \cup UNION {Two(3, Bytes, m) : m \in Unreadable3}
    \cup UNION {Two(0, m, Objects0) : m \in Unreadable0}
    \cup {[src EXCEPT !.external = TRUE] :
             src \in Two(3, External_, Bytes) \cup Two(3, Bytes, NoReader)}
    \cup {Src(3, Bytes \o m, {0, 3}, FALSE, FALSE) : m \in Bad3}
    \cup {Src(0, m, {0}, FALSE, FALSE) : m \in Bad0}
    \cup {FromTheSecond}

MCLater == {FromTheSecond, Src(0, Objects0, {0, Len(Objects0)}, TRUE, FALSE)}
============================================================================
