----------------------------- MODULE MCEnvelope -----------------------------
(***************************************************************************)
(* Envelopes of both versions over heaps of three objects: top, whose      *)
(* shape varies, and p and q, which it shares.  The writer maps Klass to   *)
(* Thing and Msg to Flex, the reader only Flex, to Msg, which is an        *)
(* AbstractMessage.  'nul' has a NUL after 'foo'.                          *)
(***************************************************************************)
EXTENDS Envelope

CONSTANTS top, p, q,                                    \* objects
          empty, dflt, foo, bar, bad, nul, long, coll, Thing, Flex, \* strings
          Klass, Msg, Hash                              \* Ruby classes

MCObjects == {top, p, q}
MCStrings == {empty, dflt, foo, bar, bad, nul, long, coll, Thing, Flex}
MCByteSize == [s \in MCStrings |-> CASE s = empty -> 0 [] s = long -> 65536 [] OTHER -> 3]
MCCString == [s \in MCStrings |-> IF s = nul THEN foo ELSE s]
MCAsClassNames == Store(Store(NoEntries, Klass, Thing), Msg, Flex)
MCRubyClasses  == Store(NoEntries, Flex, Msg)
MCExternals    == [c \in {} |-> << >>]

Arr(elems)     == [kind |-> "array", elems |-> elems, collection |-> "unset"]
Coll(elems)    == [kind |-> "array", elems |-> elems, collection |-> "true"]
HashOf(pairs)  == [kind |-> "hash", class |-> Hash, pairs |-> pairs]
Object(c, ps)  == [kind |-> "object", class |-> c, pairs |-> ps]
Time           == [kind |-> "time", at |-> 5]

HeapOf(a, b, c) == [x \in MCObjects |-> CASE x = top -> a [] x = p -> b [] x = q -> c]

Flexible == Object(Msg, << >>)

MCHeaps ==
  { HeapOf(Arr(<<Ref(q)>>), Time, Flexible), HeapOf(Coll(<<Ref(q)>>), Time, Flexible),
    HeapOf(Arr(<<Ref(p)>>), Object(Klass, << <<Sym(foo), Ref(p)>> >>), Flexible),
    HeapOf(Arr(<<Ref(p), Ref(q), Ref(p), Str(long), Sym(nul)>>), Time, Flexible),
    HeapOf(Arr(<<Ref(top), Ref(p), Ref(q), Ref(p)>>),
           HashOf(<< <<Str(foo), Ref(top)>>, <<Nil, True>> >>), Flexible),
    HeapOf(Coll(<<Ref(p), Str(bar), Ref(top)>>), Coll(<<Ref(q)>>), Flexible),
    HeapOf(Arr(<<Ref(p), Ref(q), Ref(p), Ref(q)>>), Coll(<<Nil, Num(MAX_INTEGER + 1)>>),
           [kind |-> "bytes", text |-> bar]),
    HeapOf(Arr(<<Ref(p), Str(foo), Str(nul)>>), Coll(<<Ref(q), Ref(q)>>), Time),
    HeapOf(Object(Klass, << <<Sym(foo), Ref(p)>>, <<Sym(bar), Ref(q)>> >>),
           Object(Klass, << <<Sym(foo), Ref(top)>>, <<Str(bar), Sym(foo)>> >>),
           Object(Msg, << <<Sym(bar), False>> >>)),
    HeapOf(Object(Klass, << >>),
           [kind |-> "object", class |-> Klass, pairs |-> << >>,
            calls |-> <<[name |-> "raise"]>>], Flexible) }

Header(name, must, v) == [name |-> name, must_understand |-> must, data |-> v]
Message(to, reply, v) == [target_uri |-> to, response_uri |-> reply, data |-> v]
Envelope_(v, hs, ms)  == [version |-> v, headers |-> hs, messages |-> ms]

MCEnvelopes ==
  { Envelope_(3, << >>, <<Message(Str(foo), Str(empty), Ref(top)),
                          Message(Nil, Sym(bar), Ref(p))>>),
    Envelope_(0, <<Header(Str(foo), True, Ref(top)), Header(Str(bar), Nil, Num(7)),
                   Header(Sym(foo), False, Ref(q))>>,
                 <<Message(Str(foo), Str(nul), Ref(top))>>),
    Envelope_(3, <<Header(Str(nul), True, Str(foo))>>, <<Message(Str(foo), Str(bar), Ref(q))>>),
    Envelope_(3, <<Header(Str(bad), True, Nil)>>, << >>),
    Envelope_(0, << >>, <<Message(Str(long), Str(bar), Ref(q))>>) }
=============================================================================
