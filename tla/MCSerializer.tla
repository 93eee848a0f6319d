---------------------------- MODULE MCSerializer ----------------------------
(***************************************************************************)
(* Heaps of three objects: top, whose shape varies over everything         *)
(* amf3_serialize distinguishes, p, which top shares and which may point   *)
(* back, and q, a hash top may pass to write_object.                       *)
(***************************************************************************)
EXTENDS Serializer

CONSTANTS top, p, q,                                  \* objects
          empty, dflt, foo, bar, bad, raw,       \* strings
          Klass, Plain, Thing,                      \* Ruby classes, remote name
          Hash                                      \* the class of a Hash

MCObjects == {top, p, q}
MCStrings == {empty, dflt, foo, bar, bad, raw, Thing}
MCByteSize == [s \in MCStrings |-> IF s = empty THEN 0 ELSE IF s = foo THEN 1 ELSE 3]

MCMappings == WithAlias(NoMappings, Klass, Thing)
MCSetters  == [c \in {Klass, Plain, Hash} |-> {}]
MCRefuses(class, key, value) == FALSE

Arr(elems)     == [kind |-> "array", elems |-> elems]
HashOf(pairs)  == [kind |-> "hash", class |-> Hash, pairs |-> pairs]
Typed(c, ps)   == [kind |-> "typed", class |-> c, pairs |-> ps]
Object_(c, ps) == [kind |-> "object", class |-> c, pairs |-> ps]
Encoder(calls) == [kind |-> "object", class |-> Klass,
                   pairs |-> << <<Str(foo), Ref(p)>> >>, calls |-> calls]

SerializeCall(v) == [name |-> "serialize", arg |-> v]
ArrayCall(a)     == [name |-> "write_array", arg |-> Ref(a)]
ObjectCall(a, props, traits) ==
    [name |-> "write_object", arg |-> Ref(a), props |-> props, traits |-> traits]
RaiseCall        == [name |-> "raise"]
TraitsOf(name, members, dynamic) ==
    [class_name |-> name, members |-> members, dynamic |-> dynamic]

Shapes ==
  { Arr(<< >>), Arr(<<Ref(p), Ref(p), Str(foo), Sym(foo)>>), Arr(<<Ref(top), Ref(p)>>),
    Arr(<<Num(MAX_INTEGER), Num(MAX_INTEGER + 1), Num(MIN_INTEGER - 1), Float(NaN)>>),
    Arr(<<Nil, True, False, Str(empty), Ref(p)>>),
    HashOf(<< <<Str(foo), Ref(p)>>, <<Sym(bar), Ref(top)>>, <<Sym(foo), Str(bar)>> >>),
    Typed(Thing, << <<Str(foo), Ref(p)>>, <<Str(Thing), Ref(p)>> >>),
    Object_(Klass, << <<Str(foo), Ref(p)>>, <<Str(bar), Ref(top)>> >>),
    Object_(Plain, << <<Str(bad), Ref(p)>> >>),
    Encoder(<<SerializeCall(Ref(p))>>),
    Encoder(<<ObjectCall(top, Nil, Nil)>>),
    Encoder(<<ObjectCall(top, Ref(q), TraitsOf(Thing, <<foo, bar>>, TRUE))>>),
    Encoder(<<ObjectCall(top, Nil, TraitsOf(NoName, <<bar, foo>>, FALSE))>>),
    Encoder(<<ObjectCall(p, Ref(q), TraitsOf(Thing, << >>, TRUE)), RaiseCall>>) }

Parts ==
  { [kind |-> "time", at |-> 5], [kind |-> "date", at |-> 6],
    [kind |-> "bytes", text |-> raw], [kind |-> "bytes", text |-> empty],
    HashOf(<< <<Str(bar), Ref(q)>>, <<Str(bad), Nil>> >>),
    HashOf(<< <<Str(foo), Ref(top)>> >>),
    Object_(Klass, << <<Str(foo), Str(bad)>> >>) }

Passed == HashOf(<< <<Str(foo), Ref(p)>>, <<Sym(bar), Str(foo)>> >>)

MCHeaps == {[x \in MCObjects |-> CASE x = top -> a [] x = p -> b [] x = q -> Passed] :
              a \in Shapes, b \in Parts}
           \cup {[x \in MCObjects |->
                    CASE x = top -> Encoder(<<ArrayCall(p)>>)
                      [] x = p -> Arr(<<Ref(p), Ref(q)>>) [] x = q -> Passed]}

MCRoots == {Ref(top), Ref(q)}
============================================================================
