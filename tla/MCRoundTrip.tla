---------------------------- MODULE MCRoundTrip -----------------------------
(***************************************************************************)
(* Two messages from heaps of three objects: top, the root of the first,   *)
(* over the shapes a reader can get wrong; p, which top shares; q, which p *)
(* may point to.  Both sides map Klass to Thing.                           *)
(***************************************************************************)
EXTENDS RoundTrip

CONSTANTS top, p, q,                              \* objects
          empty, dflt, preset, foo, bar, raw, Thing, Unmapped,   \* strings
          Klass, Plain, Hash                    \* Ruby classes

MCObjects == {top, p, q}
MCStrings == {empty, dflt, preset, foo, bar, raw, Thing, Unmapped}
MCByteSize == [s \in MCStrings |-> IF s = empty THEN 0 ELSE 3]
MCMappings == WithAlias(NoMappings, Klass, Thing)
MCSetters == [c \in {Klass, Plain, Hash} |->
                 CASE c = Klass -> {foo, bar} [] c = Hash -> {preset} [] OTHER -> {}]
MCRefuses(class, key, value) == FALSE

Arr(elems)     == [kind |-> "array", elems |-> elems]
HashOf(pairs)  == [kind |-> "hash", class |-> Hash, pairs |-> pairs]
Object(c, ps)  == [kind |-> "object", class |-> c, pairs |-> ps]

(* A HashWithType, as a reader made it of an object no class is mapped to. *)
Typed(c, ps)   == [kind |-> "typed", class |-> c, pairs |-> ps]

(* An object whose encode_amf passes traits: one sealed member.            *)
SealedObject(self, v) ==
    [kind |-> "object", class |-> Klass, pairs |-> << <<Str(foo), v>> >>,
     calls |-> << [name |-> "write_object", arg |-> Ref(self), props |-> Nil,
                   traits |-> [class_name |-> Thing, members |-> <<foo>>,
                               dynamic |-> FALSE]] >>]

Mixed == Arr(<<Ref(p), Str(foo), Ref(q), Ref(p), Ref(top), Sym(foo)>>)

Shapes ==
  { Mixed,
    Arr(<<Float(NaN), Num(MAX_INTEGER + 1), Str(empty), Ref(p), Str(raw)>>),
    HashOf(<< <<Sym(foo), Ref(p)>>, <<Str(bar), Ref(q)>> >>),
    Object(Klass, << <<Str(foo), Ref(p)>>, <<Str(bar), Ref(top)>> >>),
    Object(Plain, << <<Str(Thing), Ref(p)>> >>) }

Middles ==
  { [kind |-> "time", at |-> 5], [kind |-> "date", at |-> 6],
    [kind |-> "bytes", text |-> raw], [kind |-> "bytes", text |-> empty],
    Arr(<<Ref(top), Ref(q)>>),
    HashOf(<< <<Str(foo), Ref(q)>> >>),
    Object(Klass, << <<Str(foo), Str(bar)>>, <<Str(bar), Ref(q)>> >>) }

Last == Object(Klass, << <<Str(foo), Num(-7)>> >>)

HeapOf(a, b, c) == [x \in MCObjects |-> CASE x = top -> a [] x = p -> b [] x = q -> c]

Pairs ==
  {<<Mixed, b>> : b \in Middles}
  \cup {<<a, Arr(<<Ref(top), Ref(q)>>)>> : a \in Shapes}

MCHeaps == {HeapOf(ab[1], ab[2], Last) : ab \in Pairs}
           \cup {HeapOf(Arr(<<Ref(p), Ref(q), Ref(p)>>),
                        SealedObject(p, Ref(q)), SealedObject(q, True)),
                 HeapOf(HashOf(<< <<Sym(preset), Ref(p)>>, <<Str(foo), Ref(q)>>,
                                  <<Str(bar), Ref(q)>> >>), Arr(<<Str(preset)>>), Last),
                 HeapOf(Typed(Unmapped, << <<Str(foo), Ref(p)>> >>), Arr(<<Ref(q), Ref(q)>>), Last)}

(* Two instances of one class, one of which is written with traits of its  *)
(* own.                                                                    *)
MCTraitHeaps == {HeapOf(Arr(<<Ref(p), Ref(q)>>), SealedObject(p, True), Last)}

MCRoots == {Ref(top), Ref(p)}
=============================================================================
