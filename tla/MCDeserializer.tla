--------------------------- MODULE MCDeserializer ---------------------------
(***************************************************************************)
(* Streams as another AMF3 writer produces them, with the constructs this  *)
(* serializer never writes: dictionaries, associative arrays, sealed and   *)
(* shared traits.  The first ones are shortened from spec/fixtures.  A     *)
(* source is a stream of two messages cut anywhere.                        *)
(***************************************************************************)
EXTENDS Deserializer

CONSTANTS infinity,
          empty, bar, foo, asdf, raw, proc, ASClass, Gone,  \* strings
          Klass, Missing, Hash                        \* Ruby classes

MCStrings  == {empty, bar, foo, asdf, raw, proc, ASClass, Gone}
MCByteSize == [s \in MCStrings |-> CASE s = empty -> 0 [] s = asdf -> 4 [] s = proc -> 12
                                     [] s = ASClass -> 15 [] OTHER -> 3]
MCMappings == WithAlias(WithAlias(NoMappings, Klass, ASClass), Missing, Gone)
MCSetters  == [c \in {Klass, Missing, Hash} |->
                 CASE c = Klass -> {bar, foo} [] c = Hash -> {proc} [] OTHER -> {}]

(* bar= of Klass takes no true, default_proc= of Hash only nil.            *)
MCRefuses(class, key, value) == \/ class = Klass /\ key = bar /\ value = True
                                \/ class = Hash /\ key = proc /\ value # Nil

W(n) == <<Word(n)>>
In(s) == <<Word((2 * ByteSize[s]) + 1), Raw(s)>>     \* a string, inline
StrM == W(STRING_MARKER)

Dictionary ==   \* {"bar" => "asdf", ASClass{bar: nil, foo: "bar"} => "asdf"}
    W(DICT_MARKER) \o W(5) \o W(0)
    \o StrM \o In(bar) \o StrM \o In(asdf)
    \o W(OBJECT_MARKER) \o W(35) \o In(ASClass) \o W(0) \o In(foo)
    \o W(NULL_MARKER) \o StrM \o W(0)
    \o StrM \o W(2)

Associative ==  \* {"asdf" => "foo", "foo" => self, 0 => "bar", 1 => "bar"}
    W(ARRAY_MARKER) \o W(5) \o In(asdf) \o StrM \o In(foo)
    \o W(2) \o W(ARRAY_MARKER) \o W(0) \o W(EMPTY_STRING)
    \o StrM \o In(bar) \o StrM \o W(4)

SharedTraits == \* [a, b, a, date, date] with a, b of one class, b.foo = a
    W(ARRAY_MARKER) \o W(11) \o W(EMPTY_STRING)
    \o W(OBJECT_MARKER) \o W(19) \o In(foo) \o In(bar) \o W(INTEGER_MARKER) \o W(7)
    \o W(OBJECT_MARKER) \o W(1) \o W(OBJECT_MARKER) \o W(2)
    \o W(OBJECT_MARKER) \o W(2)
    \o W(DATE_MARKER) \o W(1) \o <<Double(Num(9))>> \o W(DATE_MARKER) \o W(6)

Bytes == W(BYTE_ARRAY_MARKER) \o W(7) \o <<Raw(raw)>>

Cyclic ==       \* h = {"foo" => h, "bar" => {}, "asdf" => ""}
    W(OBJECT_MARKER) \o W(11) \o W(EMPTY_STRING)
    \o In(foo) \o W(OBJECT_MARKER) \o W(0)
    \o In(bar) \o W(OBJECT_MARKER) \o W(1) \o W(EMPTY_STRING)
    \o In(asdf) \o W(BYTE_ARRAY_MARKER) \o W(EMPTY_STRING) \o W(EMPTY_STRING)

SameKeys ==     \* {[1] => true, [1] => false}: one key
    W(DICT_MARKER) \o W(5) \o W(0)
    \o W(ARRAY_MARKER) \o W(3) \o W(EMPTY_STRING) \o W(INTEGER_MARKER) \o W(1)
    \o W(TRUE_MARKER)
    \o W(ARRAY_MARKER) \o W(3) \o W(EMPTY_STRING) \o W(INTEGER_MARKER) \o W(1)
    \o W(FALSE_MARKER)

Double_ == W(DOUBLE_MARKER) \o <<Double(Float(NaN))>>

Messages == {Dictionary, Associative, SharedTraits, Bytes, Cyclic, SameKeys, Double_}

(* Messages that are well formed and fail all the same: a class that does  *)
(* not exist, times that are none, and values a setter refuses.            *)
Unwanted == {W(OBJECT_MARKER) \o W(3) \o In(Gone),
             W(ARRAY_MARKER) \o W(3) \o W(EMPTY_STRING)
             \o W(DATE_MARKER) \o W(1) \o <<Double(Float(NaN))>>,
             W(DATE_MARKER) \o W(1) \o <<Double(Float(infinity))>>,
             \* [{bar: false}, ASClass{foo: 7, bar: true}]
             W(ARRAY_MARKER) \o W(5) \o W(EMPTY_STRING)
             \o W(OBJECT_MARKER) \o W(11) \o W(EMPTY_STRING)
             \o In(bar) \o W(FALSE_MARKER) \o W(EMPTY_STRING)
             \o W(OBJECT_MARKER) \o W(35) \o In(ASClass) \o In(foo) \o W(0)
             \o W(INTEGER_MARKER) \o W(7) \o W(TRUE_MARKER),
             \* {default_proc: nil}, then {default_proc: 1}
             W(OBJECT_MARKER) \o W(11) \o W(EMPTY_STRING)
             \o In(proc) \o W(NULL_MARKER) \o W(EMPTY_STRING)
             \o W(OBJECT_MARKER) \o W(11) \o W(EMPTY_STRING)
             \o In(proc) \o W(INTEGER_MARKER) \o W(1) \o W(EMPTY_STRING)}

(* Messages that are not: an unsupported type, traits nobody sent, a       *)
(* negative length before a word that is no marker, a reference beyond the *)
(* table, which is taken for a length, and more than a byte for weak keys. *)
Failing == {W(ARRAY_MARKER) \o W(5) \o W(EMPTY_STRING) \o W(TRUE_MARKER) \o W(XML_MARKER),
            W(OBJECT_MARKER) \o W(5),
            W(BYTE_ARRAY_MARKER) \o W(-5) \o W(XML_MARKER) \o W(300),
            W(STRING_MARKER) \o W(6) \o W(NULL_MARKER),
            W(DICT_MARKER) \o W(3) \o W(300)}

Cuts(stream) == {SubSeq(stream, 1, n) : n \in 0 .. Len(stream)}

MCSources == UNION ({Cuts(m \o n) : m, n \in Messages}
                    \cup {Cuts(m \o f \o W(TRUE_MARKER)) : m \in {Bytes, Cyclic},
                                                           f \in Failing \cup Unwanted})
============================================================================
