-------------------------- MODULE MCFastSerializer --------------------------
(***************************************************************************)
(* Heaps of three objects: top, whose shape varies over what the writers   *)
(* distinguish, p, which top shares and which may point back, and q, which *)
(* is an array and props for write_object.  MaxUint16 is 1, so that there  *)
(* are strings and indices beyond it; 'nul' has a NUL after 'foo'.         *)
(***************************************************************************)
EXTENDS FastSerializer

CONSTANTS top, p, q,                                    \* objects
          empty, dflt, foo, bar, bad, nul, coll, Klass, Plain, Thing,
          Hash

MCObjects == {top, p, q}
MCStrings == {empty, dflt, foo, bar, bad, nul, coll, Klass, Plain, Thing}
MCByteSize == [s \in MCStrings |-> IF s = empty THEN 0 ELSE IF s = foo THEN 1 ELSE 3]
MCCString == [s \in MCStrings |-> IF s = nul THEN foo ELSE s]
MCAsClassNames == Store(Store(NoEntries, Klass, Thing), Plain, coll)

Arr(elems, c)  == [kind |-> "array", elems |-> elems, collection |-> c]
HashOf(pairs)  == [kind |-> "hash", class |-> Hash, pairs |-> pairs]
Typed(c, ps)   == [kind |-> "typed", class |-> c, pairs |-> ps]
Object_(c, ps) == [kind |-> "object", class |-> c, pairs |-> ps]
Encoder(calls) == [kind |-> "object", class |-> Klass,
                   pairs |-> << <<Sym(foo), Ref(p)>> >>, calls |-> calls]

SerializeCall(ver, v) == [name |-> "serialize", ver |-> ver, arg |-> v]
ArrayCall(a)          == [name |-> "write_array", arg |-> Ref(a)]
ObjectCall(a, props, traits) ==
    [name |-> "write_object", arg |-> Ref(a), props |-> props, traits |-> traits]
RaiseCall             == [name |-> "raise"]
TraitsOf(name, members, dynamic, external) ==
    [class_name |-> name, members |-> members, dynamic |-> dynamic,
     externalizable |-> external]

WithExternal(o, calls) == [external |-> calls, kind |-> o.kind, class |-> o.class,
                           pairs |-> o.pairs, calls |-> o.calls]

Shapes ==
  { Arr(<< >>, "true"), Arr(<<Ref(p), Ref(p), Str(foo), Sym(nul)>>, "unset"),
    Arr(<<Ref(top), Ref(p), Ref(q), Ref(q), Ref(p)>>, "true"),
    Arr(<<Ref(p), Ref(p), Ref(q)>>, "false"), Arr(<<Ref(p), Ref(q)>>, "nil"),
    Arr(<<Num(MAX_INTEGER), Num(MAX_INTEGER + 1), Num(MIN_INTEGER - 1), Float(foo)>>, "false"),
    Arr(<<Nil, True, False, Str(empty), Ref(p)>>, "false"),
    HashOf(<< <<Str(foo), Ref(p)>>, <<Sym(bar), Ref(top)>>, <<Nil, Str(nul)>> >>),
    HashOf(<< <<Num(7), Ref(p)>> >>),
    Typed(Thing, << <<Str(foo), Ref(p)>>, <<Str(Thing), Ref(q)>> >>),
    Object_(Klass, << <<Sym(foo), Ref(p)>>, <<Sym(bar), Ref(top)>> >>),
    Object_(Plain, << <<Sym(bad), Ref(p)>>, <<Sym(foo), Ref(q)>> >>),
    Encoder(<<SerializeCall(3, Ref(p))>>),
    Encoder(<<SerializeCall(0, Ref(p)), ObjectCall(top, Nil, Nil)>>),
    Encoder(<<SerializeCall(3, Str(foo)), SerializeCall(0, Str(bad))>>),
    Encoder(<<SerializeCall(3, Nil), ObjectCall(top, Nil, Nil), ArrayCall(q)>>),
    Encoder(<<ObjectCall(top, Nil, Nil), ObjectCall(top, Nil, Nil), SerializeCall(0, Ref(p))>>),
    Encoder(<<ArrayCall(q), ObjectCall(top, [pairs |-> << <<Str(bar), Ref(p)>> >>], Nil), ArrayCall(q)>>),
    Encoder(<<ObjectCall(top, Nil, TraitsOf(Thing, <<Sym(foo), Sym(bar)>>, TRUE, FALSE))>>),
    Encoder(<<ObjectCall(top, Nil, TraitsOf(NoName, <<Str(foo)>>, FALSE, FALSE))>>),
    Encoder(<<ObjectCall(top, Nil, TraitsOf(Thing, << >>, FALSE, TRUE))>>),
    WithExternal(Encoder(<<ObjectCall(top, Nil, TraitsOf(Thing, << >>, FALSE, TRUE))>>),
                 <<SerializeCall(3, Ref(q)), SerializeCall(3, Ref(top))>>),
    Encoder(<<ObjectCall(top, Nil, Nil), RaiseCall>>) }

Parts ==
  { [kind |-> "time", at |-> 5], [kind |-> "date", at |-> 6], [kind |-> "opaque"],
    [kind |-> "bytes", text |-> bar], [kind |-> "bytes", text |-> empty],
    HashOf(<< <<Str(bar), Ref(q)>>, <<Str(bad), Nil>> >>),
    HashOf(<< <<Str(foo), Ref(top)>> >>),
    Object_(Klass, << <<Sym(foo), Str(bad)>> >>) }

Inner == {Arr(<<Ref(p), Str(nul)>>, "unset"), Arr(<<Ref(q)>>, "false")}

(* encode_amf writes an array that holds the object, or one whose element   *)
(* holds it.                                                               *)
WritesItself == [x \in MCObjects |-> CASE x = top -> Encoder(<<ArrayCall(q)>>)
                                      [] x = p -> Arr(<<Ref(top)>>, "false")
                                      [] x = q -> Arr(<<Ref(top)>>, "false")]
WritesAround == [WritesItself EXCEPT ![q] = Arr(<<Ref(p), Ref(p)>>, "false")]

MCHeaps == {[x \in MCObjects |-> CASE x = top -> a [] x = p -> b [] x = q -> c] :
              a \in Shapes, b \in Parts, c \in Inner} \cup {WritesItself, WritesAround}

MCCalls == {<<0, Ref(top)>>, <<3, Ref(top)>>, <<3, Ref(p)>>}
MCOutsideCalls == {ArrayCall(q), ObjectCall(p, Nil, Nil),
                   ObjectCall(p, Nil, TraitsOf(Thing, <<Sym(foo)>>, FALSE, FALSE))}
============================================================================
