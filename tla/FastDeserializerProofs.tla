----------------------- MODULE FastDeserializerProofs -----------------------
(***************************************************************************)
(* Proofs about FastDeserializer, for every source of either version and   *)
(* every user code.                                                        *)
(*                                                                         *)
(* What is left to do is a sequence of calls that ends with a return, so a *)
(* value is always taken by a call below it; a byte is read ahead only for *)
(* the properties of an AMF0 object.  Each value held by a call or by a    *)
(* table refers to an object that has been made.                           *)
(***************************************************************************)
EXTENDS FastDeserializer, StackLemmas

Ids == 1 .. Len(out)

IsVal(ids, v) == Is("ref", v) => v.ref \in ids

IsTraits(t) == IsSeq(t.members)

(* What is left to do.                                                     *)
IsCall(ids, c) ==
    /\ c.op # "ahead"
    /\ c.op = "got" => IsVal(ids, c.value)
    /\ c.op = "populate" => c.id \in ids
    /\ c.op = "external" => /\ c = [op |-> c.op, id |-> c.id, calls |-> c.calls]
                            /\ c.id \in ids
    /\ c.op \in {"props", "prop"} => c = [op |-> c.op, id |-> c.id, field |-> c.field]
    /\ c.op = "content" /\ c.into = "strings" => c.length # 0
    /\ c.op = "arrayStart" => c.length \in Int
    /\ c.op = "traits" =>
         /\ IsSeq(c.names)
         /\ c = [op |-> c.op, external |-> c.external, dynamic |-> c.dynamic,
                 count |-> c.count, names |-> c.names]
    /\ c.op = "create" => IsTraits(c.traits)

IsTodo(ids, s) == IsSeq(s) /\ \A i \in 1 .. Len(s) : IsCall(ids, s[i])

EndsAtReturn(s) == s # << >> /\ s[Len(s)].op = "return"

IsStack(ids, s) == IsTodo(ids, s) /\ EndsAtReturn(s)

(* A byte read ahead.                                                      *)
IsAhead(ids, s) == /\ IsSeq(s) /\ s # << >> /\ Head(s).op = "ahead"
                   /\ IsStack(ids, Tail(s)) /\ Head(Tail(s)).op = "props"

Errors == {"none", "RangeError", "RuntimeError", "ArgumentError",
           "NameError", "raised", "refused", "garbled", "undefined"}

InSource(at) == at \in 0 .. Len(source.tokens)

SourceInv ==
    /\ source # NoSource \/ stack # << >> =>
         IsSource(source) /\ InSource(srcPos) /\ InSource(pos)
    /\ failure \in Errors
    /\ calls \in 0 .. MaxCalls

StackInv == stack # << >> => IsStack(Ids, stack) \/ IsAhead(Ids, stack)

TableInv ==
    /\ version \in {0, 3}
    /\ IsSeq(out)
    /\ IsSeq(objTable) /\ \A i \in 1 .. Len(objTable) : IsVal(Ids, objTable[i])
    /\ IsSeq(strTable)
    /\ \A i \in 1 .. Len(strTable) : strTable[i] \in {Str(s) : s \in Strings \ {EmptyString}}
    /\ IsSeq(traitTable) /\ \A i \in 1 .. Len(traitTable) : IsTraits(traitTable[i])
    /\ ~made => strTable = << >> /\ traitTable = << >>

IInv == SourceInv /\ StackInv /\ TableInv

----------------------------------------------------------------------------
(* Values and calls.                                                       *)
LEMMA PlainVals ==
    ASSUME NEW ids
    PROVE  /\ IsVal(ids, Nil) /\ IsVal(ids, True) /\ IsVal(ids, False)
           /\ \A n : IsVal(ids, Num(n))
           /\ \A s : IsVal(ids, Str(s))
           /\ \A id \in ids : IsVal(ids, Ref(id))
<1>1. IsVal(ids, Nil) /\ IsVal(ids, True) /\ IsVal(ids, False)
  BY DEF IsVal, Is, Nil, True, False
<1>2. \A n : IsVal(ids, Num(n))
  BY DEF IsVal, Is, Num
<1>3. \A s : IsVal(ids, Str(s))
  BY DEF IsVal, Is, Str
<1>4. \A id \in ids : IsVal(ids, Ref(id))
  BY DEF IsVal, Is, Ref
<1> QED
  BY <1>1, <1>2, <1>3, <1>4

(* Reads that hold nothing.                                                *)
PlainReads == {"return", "typed", "collection", "ignore", "string", "xml", "array", "object",
               "time", "bytes", "dict", "integer", "boolean", "byte", "u16", "size16",
               "reference0", "size32", "array0", "hash0", "u32", "double", "stamp0", "stamp"}

LEMMA CallKinds ==
    ASSUME NEW ids
    PROVE  /\ \A op \in PlainReads : IsCall(ids, Read(op))
           /\ \A ver : IsCall(ids, Value(ver))
           /\ \A n, into : into # "strings" \/ n # 0 => IsCall(ids, Octets(n, into))
           /\ \A v : IsVal(ids, v) => IsCall(ids, Got(v))
           /\ \A id, field, key : IsCall(ids, Assign(id, field, key))
           /\ \A id, field : IsCall(ids, Props(id, field))
           /\ \A id : IsCall(ids, KeyOf(id)) /\ IsCall(ids, [KeyOf(id) EXCEPT !.op = "pair"])
           /\ \A m : IsCall(ids, [op |-> "vector", of |-> m])
           /\ \A n : IsCall(ids, [op |-> "zone", at |-> n])
           /\ \A id : IsCall(ids, [op |-> "entry", id |-> id])
           /\ \A id \in ids : IsCall(ids, [op |-> "populate", id |-> id])
           /\ \A id \in ids : \A c : IsCall(ids, [op |-> "external", id |-> id, calls |-> c])
           /\ \A n \in Int : IsCall(ids, [op |-> "arrayStart", length |-> n])
           /\ \A ver, t : IsTraits(t) => IsCall(ids, [op |-> "create", ver |-> ver, traits |-> t])
<1>1. \A op \in PlainReads : IsCall(ids, Read(op))
  BY DEF Read, IsCall, PlainReads
<1>2. \A ver : IsCall(ids, Value(ver))
  BY DEF Value, IsCall
<1>3. \A n, into : into # "strings" \/ n # 0 => IsCall(ids, Octets(n, into))
  BY DEF Octets, IsCall
<1>4. \A v : IsVal(ids, v) => IsCall(ids, Got(v))
  BY DEF Got, IsCall
<1>5. \A id, field, key : IsCall(ids, Assign(id, field, key))
  BY DEF Assign, IsCall
<1>6. \A id, field : IsCall(ids, Props(id, field))
  BY DEF Props, IsCall
<1>7. \A id : IsCall(ids, KeyOf(id)) /\ IsCall(ids, [KeyOf(id) EXCEPT !.op = "pair"])
  BY DEF KeyOf, IsCall
<1>8. /\ \A m : IsCall(ids, [op |-> "vector", of |-> m])
      /\ \A n : IsCall(ids, [op |-> "zone", at |-> n])
      /\ \A id : IsCall(ids, [op |-> "entry", id |-> id])
  BY DEF IsCall
<1>9. /\ \A id \in ids : IsCall(ids, [op |-> "populate", id |-> id])
      /\ \A id \in ids : \A c : IsCall(ids, [op |-> "external", id |-> id, calls |-> c])
  BY DEF IsCall
<1>10. /\ \A n \in Int : IsCall(ids, [op |-> "arrayStart", length |-> n])
       /\ \A ver, t : IsTraits(t) => IsCall(ids, [op |-> "create", ver |-> ver, traits |-> t])
  BY DEF IsCall
<1> QED
  BY <1>1, <1>2, <1>3, <1>4, <1>5, <1>6, <1>7, <1>8, <1>9, <1>10

(* More objects leave a call one.                                          *)
LEMMA ExtendedTodo ==
    ASSUME NEW ids, NEW more, ids \subseteq more
    PROVE  /\ \A v : IsVal(ids, v) => IsVal(more, v)
           /\ \A c : IsCall(ids, c) => IsCall(more, c)
           /\ \A s : IsTodo(ids, s) => IsTodo(more, s)
           /\ \A s : IsStack(ids, s) => IsStack(more, s)
           /\ \A s : IsAhead(ids, s) => IsAhead(more, s)
<1>1. \A v : IsVal(ids, v) => IsVal(more, v)
  BY DEF IsVal
<1>2. ASSUME NEW c, IsCall(ids, c) PROVE IsCall(more, c)
  BY <1>1, <1>2 DEF IsCall
<1>3. \A s : IsTodo(ids, s) => IsTodo(more, s)
  BY <1>2 DEF IsTodo
<1>4. \A s : IsStack(ids, s) => IsStack(more, s)
  BY <1>3 DEF IsStack
<1>5. \A s : IsAhead(ids, s) => IsAhead(more, s)
  BY <1>4 DEF IsAhead
<1> QED
  BY <1>1, <1>2, <1>3, <1>4, <1>5

LEMMA ConcatTodo ==
    ASSUME NEW ids, NEW s, IsTodo(ids, s), NEW t, IsTodo(ids, t)
    PROVE  IsTodo(ids, s \o t)
<1>1. IsSeq(s \o t)
  BY ConcatFacts DEF IsTodo
<1>2. ASSUME NEW i \in 1 .. Len(s \o t) PROVE IsCall(ids, (s \o t)[i])
  BY ConcatEntries DEF IsTodo
<1> QED
  BY <1>1, <1>2 DEF IsTodo

LEMMA ShortTodos ==
    ASSUME NEW ids
    PROVE  /\ IsTodo(ids, << >>)
           /\ \A c : IsCall(ids, c) => IsTodo(ids, <<c>>)
           /\ \A c, d : IsCall(ids, c) /\ IsCall(ids, d) => IsTodo(ids, <<c, d>>)
           /\ \A c, d, e : IsCall(ids, c) /\ IsCall(ids, d) /\ IsCall(ids, e)
                             => IsTodo(ids, <<c, d, e>>)
           /\ \A c, d, e, f : IsCall(ids, c) /\ IsCall(ids, d) /\ IsCall(ids, e)
                                /\ IsCall(ids, f) => IsTodo(ids, <<c, d, e, f>>)
<1>1. IsTodo(ids, << >>)
  BY ShortSeqs, SeqFacts DEF IsTodo
<1>2. ASSUME NEW c, IsCall(ids, c) PROVE IsTodo(ids, <<c>>)
  BY <1>2, ShortSeqs DEF IsTodo
<1>3. ASSUME NEW c, NEW d, IsCall(ids, c), IsCall(ids, d) PROVE IsTodo(ids, <<c, d>>)
  <2> DEFINE s == <<c, d>>
  <2>1. IsSeq(s) /\ Len(s) = 2 /\ s[1] = c /\ s[2] = d
    BY ShortSeqs
  <2>2. \A i \in 1 .. 2 : i = 1 \/ i = 2
    OBVIOUS
  <2> HIDE DEF s
  <2>3. IsTodo(ids, s)
    BY <1>3, <2>1, <2>2 DEF IsTodo
  <2> QED
    BY <2>3 DEF s
<1>4. ASSUME NEW c, NEW d, NEW e, IsCall(ids, c), IsCall(ids, d), IsCall(ids, e)
      PROVE  IsTodo(ids, <<c, d, e>>)
  <2> DEFINE s == <<c, d, e>>
  <2>1. s \in Seq({c, d, e}) /\ Len(s) = 3 /\ s[1] = c /\ s[2] = d /\ s[3] = e
    OBVIOUS
  <2>2. \A i \in 1 .. 3 : i = 1 \/ i = 2 \/ i = 3
    OBVIOUS
  <2> HIDE DEF s
  <2>3. IsTodo(ids, s)
    BY <1>4, <2>1, <2>2 DEF IsTodo, IsSeq
  <2> QED
    BY <2>3 DEF s
<1>5. ASSUME NEW c, NEW d, NEW e, NEW f,
             IsCall(ids, c), IsCall(ids, d), IsCall(ids, e), IsCall(ids, f)
      PROVE  IsTodo(ids, <<c, d, e, f>>)
  <2> DEFINE s == <<c, d, e, f>>
  <2>1. /\ s \in Seq({c, d, e, f}) /\ Len(s) = 4
        /\ s[1] = c /\ s[2] = d /\ s[3] = e /\ s[4] = f
    OBVIOUS
  <2>2. \A i \in 1 .. 4 : i = 1 \/ i = 2 \/ i = 3 \/ i = 4
    OBVIOUS
  <2> HIDE DEF s
  <2>3. IsTodo(ids, s)
    BY <1>5, <2>1, <2>2 DEF IsTodo, IsSeq
  <2> QED
    BY <2>3 DEF s
<1> QED
  BY <1>1, <1>2, <1>3, <1>4, <1>5

LEMMA EachTodo ==
    ASSUME NEW ids, NEW n \in Nat, NEW s, s = [i \in 1 .. n |-> s[i]],
           \A i \in 1 .. n : IsCall(ids, s[i]), NEW read, IsCall(ids, read)
    PROVE  IsTodo(ids, Each(read, s))
<1> DEFINE Item(i) == IF i % 2 = 1 THEN read ELSE s[i \div 2]
           t == [i \in 1 .. 2 * n |-> Item(i)]
<1>1. DOMAIN s = 1 .. n
  OBVIOUS
<1>2. IsSeq(s) /\ Len(s) = n
  BY <1>1, FunctionIsSeq
<1>3. Each(read, s) = t
  BY <1>2 DEF Each
<1>4. ASSUME NEW i \in 1 .. 2 * n PROVE IsCall(ids, Item(i))
  <2>1. CASE i % 2 = 1
    BY <2>1
  <2>2. CASE i % 2 # 1
    <3>1. i \div 2 \in 1 .. n
      BY <2>2
    <3> QED
      BY <2>2, <3>1
  <2> QED
    BY <2>1, <2>2
<1>5. 2 * n \in Nat /\ DOMAIN t = 1 .. 2 * n /\ t = [i \in 1 .. 2 * n |-> t[i]]
      /\ \A i \in 1 .. 2 * n : t[i] = Item(i)
  OBVIOUS
<1> HIDE DEF t, Item
<1>6. IsSeq(t) /\ Len(t) = 2 * n
  BY <1>5, FunctionIsSeq
<1> QED
  BY <1>3, <1>4, <1>5, <1>6 DEF IsTodo

(* A count that is negative stands for none.                               *)
LEMMA CountedTodo ==
    ASSUME NEW ids, NEW n \in Int, NEW s, s = [i \in 1 .. n |-> s[i]],
           \A i \in 1 .. n : IsCall(ids, s[i]), NEW read, IsCall(ids, read)
    PROVE  IsTodo(ids, Each(read, s))
<1>1. CASE n \in Nat
  BY <1>1, EachTodo
<1>2. CASE n < 0
  <2>1. 1 .. n = 1 .. 0
    BY <1>2
  <2>2. s = [i \in 1 .. 0 |-> s[i]] /\ \A i \in 1 .. 0 : IsCall(ids, s[i])
    BY <2>1
  <2> QED
    BY <2>2, EachTodo
<1> QED
  BY <1>1, <1>2

LEMMA ValuesTodo ==
    ASSUME NEW ids, NEW n \in Int, NEW id, NEW field, NEW read, IsCall(ids, read)
    PROVE  IsTodo(ids, Values(read, id, field, n))
<1> DEFINE s == [i \in 1 .. n |-> Assign(id, field, Num(i - 1))]
<1>1. s = [i \in 1 .. n |-> s[i]] /\ \A i \in 1 .. n : s[i] = Assign(id, field, Num(i - 1))
  OBVIOUS
<1>2. Values(read, id, field, n) = Each(read, s)
  BY DEF Values
<1> HIDE DEF s
<1>3. ASSUME NEW i \in 1 .. n PROVE IsCall(ids, s[i])
  BY <1>1, CallKinds
<1> QED
  BY <1>1, <1>2, <1>3, CountedTodo

(* Calls on top of a stack, and what is left of it without its head.       *)
LEMMA TodoOnStack ==
    ASSUME NEW ids, NEW rest, IsStack(ids, rest), NEW todo, IsTodo(ids, todo)
    PROVE  IsStack(ids, todo \o rest)
<1>1. IsTodo(ids, todo \o rest)
  BY ConcatTodo DEF IsStack
<1>2. EndsAtReturn(todo \o rest)
  BY ConcatLast DEF IsStack, IsTodo, EndsAtReturn
<1> QED
  BY <1>1, <1>2 DEF IsStack

LEMMA TailStack ==
    ASSUME NEW ids, NEW s, IsStack(ids, s)
    PROVE  /\ IsCall(ids, Head(s)) /\ IsTodo(ids, Tail(s)) /\ IsSeq(s) /\ s # << >>
           /\ Head(s).op # "return" \/ Tail(s) # << >>
                => IsStack(ids, Tail(s)) /\ s[2] = Head(Tail(s))
<1>1. /\ IsSeq(s) /\ s # << >> /\ Len(s) \in Nat /\ Len(s) > 0
      /\ Head(s) = s[1] /\ IsSeq(Tail(s)) /\ Len(Tail(s)) = Len(s) - 1
      /\ \A i \in 1 .. Len(s) - 1 : Tail(s)[i] = s[i + 1]
  BY SeqFacts DEF IsStack, IsTodo, EndsAtReturn
<1>2. \A i \in 1 .. Len(s) - 1 : i + 1 \in 1 .. Len(s)
  BY <1>1
<1>3. IsTodo(ids, Tail(s))
  BY <1>1, <1>2 DEF IsStack, IsTodo
<1>4. IsCall(ids, Head(s))
  <2>1. 1 \in 1 .. Len(s)
    BY <1>1
  <2> QED
    BY <1>1, <2>1 DEF IsStack, IsTodo
<1>5. ASSUME Head(s).op # "return" \/ Tail(s) # << >>
      PROVE  IsStack(ids, Tail(s)) /\ s[2] = Head(Tail(s))
  <2>1. Tail(s) # << >>
    BY <1>1, <1>5, TailLast DEF IsStack, EndsAtReturn
  <2>2. Len(s) > 1 /\ EndsAtReturn(Tail(s))
    BY <1>1, <2>1, TailLast DEF IsStack, EndsAtReturn
  <2>3. Head(Tail(s)) = Tail(s)[1]
    BY <1>1, <2>1, SeqFacts
  <2>4. 1 \in 1 .. Len(s) - 1 /\ 1 + 1 = 2
    BY <1>1, <2>2
  <2>5. Tail(s)[1] = s[1 + 1]
    BY <1>1, <2>4
  <2> QED
    BY <1>3, <2>2, <2>3, <2>4, <2>5 DEF IsStack
<1> QED
  BY <1>1, <1>3, <1>4, <1>5

(* The head, with another call above it.                                   *)
LEMMA AboveStack ==
    ASSUME NEW s, IsSeq(s), s # << >>, NEW c
    PROVE  LET t == <<c, Head(s)>> \o Tail(s)
           IN  IsSeq(t) /\ t # << >> /\ Head(t) = c /\ Tail(t) = s
<1>1. PICK S : s \in Seq(S)
  BY DEF IsSeq
<1> DEFINE T == S \cup {c}
           h == Head(s)
           r == Tail(s)
<1>2. h \in T /\ r \in Seq(T) /\ c \in T /\ s \in Seq(T)
  BY <1>1
<1>3. s = <<h>> \o r
  BY <1>1
<1> HIDE DEF T, h, r
<1>4. <<c, h>> \o r \in Seq(T) /\ <<c, h>> \o r = <<c>> \o (<<h>> \o r)
  BY <1>2
<1>5. <<c>> \o s \in Seq(T) /\ <<c>> \o s # << >> /\ Head(<<c>> \o s) = c /\ Tail(<<c>> \o s) = s
  BY <1>2
<1> QED
  BY <1>3, <1>4, <1>5 DEF h, r, IsSeq

----------------------------------------------------------------------------
(* Steps of a running call.                                                *)
Above == {"ahead", "return"}

LEMMA RunningFacts ==
    ASSUME SourceInv, stack # << >>
    PROVE  /\ IsSource(source) /\ InSource(srcPos) /\ InSource(pos)
           /\ Len(source.tokens) \in Nat
           /\ \A i \in 1 .. Len(source.tokens) : IsToken(source.tokens[i])
<1>1. IsSource(source) /\ InSource(srcPos) /\ InSource(pos)
  BY DEF SourceInv
<1>2. IsSeq(source.tokens)
  BY <1>1, RangeSeq DEF IsSource
<1>3. Len(source.tokens) \in Nat /\ DOMAIN source.tokens = 1 .. Len(source.tokens)
  BY <1>2, SeqFacts
<1> QED
  BY <1>1, <1>3 DEF IsSource

LEMMA ReadingFacts ==
    ASSUME StackInv, NEW op, Reading(op), op # "ahead"
    PROVE  /\ stack # << >> /\ Head(stack).op = op /\ IsStack(Ids, stack)
           /\ IsCall(Ids, Head(stack)) /\ IsTodo(Ids, Tail(stack))
           /\ op # "return" => IsStack(Ids, Tail(stack)) /\ stack[2] = Head(Tail(stack))
<1>1. stack # << >> /\ Head(stack).op = op
  BY DEF Reading
<1>2. IsStack(Ids, stack)
  BY <1>1 DEF StackInv, IsAhead
<1> QED
  BY <1>1, <1>2, TailStack

LEMMA TakingFacts ==
    ASSUME StackInv, NEW op, Taking(op)
    PROVE  /\ stack # << >> /\ IsVal(Ids, Taken) /\ IsCall(Ids, Head(stack))
           /\ IsCall(Ids, Caller) /\ Caller.op = op
           /\ IsTodo(Ids, Tail(Tail(stack)))
           /\ op # "return" \/ Tail(Tail(stack)) # << >> => IsStack(Ids, Tail(Tail(stack)))
<1>1. /\ stack # << >> /\ Head(stack).op = "got" /\ IsCall(Ids, Head(stack))
      /\ IsStack(Ids, Tail(stack)) /\ stack[2] = Head(Tail(stack)) /\ stack[2].op = op
  <2>1. Reading("got") /\ stack[2].op = op
    BY DEF Taking
  <2>2. "got" # "ahead" /\ "got" # "return"
    OBVIOUS
  <2> DEFINE got == "got"
  <2> HIDE DEF got
  <2>3. Reading(got) /\ got # "ahead" /\ got # "return"
    BY <2>1, <2>2 DEF got
  <2>4. /\ stack # << >> /\ Head(stack).op = got /\ IsCall(Ids, Head(stack))
        /\ IsStack(Ids, Tail(stack)) /\ stack[2] = Head(Tail(stack))
    BY <2>3, ReadingFacts
  <2> QED
    BY <2>1, <2>4 DEF got
<1>2. IsVal(Ids, Taken)
  BY <1>1 DEF IsCall, Taken
<1> QED
  BY <1>1, <1>2, TailStack DEF Caller

LEMMA TopKeeps ==
    ASSUME StackInv, NEW op, Reading(op), op \notin Above, Ids \subseteq Ids',
           NEW todo, IsTodo(Ids', todo), stack' = todo \o Tail(stack)
    PROVE  StackInv'
<1>1. IsStack(Ids', Tail(stack))
  BY ReadingFacts, ExtendedTodo DEF Above
<1>2. IsStack(Ids', stack')
  BY <1>1, TodoOnStack
<1> QED
  BY <1>2 DEF StackInv

LEMMA SameSource ==
    ASSUME SourceInv, stack # << >>, UNCHANGED <<source, outcome>>,
           InSource(srcPos'), InSource(pos')
    PROVE  SourceInv'
<1>1. IsSource(source)
  BY RunningFacts
<1> QED
  BY <1>1 DEF SourceInv, InSource, outcome

LEMMA BecomeKeeps ==
    ASSUME SourceInv, StackInv, NEW op, Reading(op), op \notin Above, Ids \subseteq Ids',
           InSource(pos'), NEW todo, IsTodo(Ids', todo), Become(todo)
    PROVE  SourceInv' /\ StackInv'
<1>1. StackInv'
  BY TopKeeps DEF Become
<1>2. stack # << >> /\ InSource(srcPos')
  BY RunningFacts DEF Become, Reading
<1> QED
  BY <1>1, <1>2, SameSource DEF Become

LEMMA TakeKeeps ==
    ASSUME IInv, NEW op, Taking(op), op # "return", Ids \subseteq Ids',
           NEW todo, IsTodo(Ids', todo), Take(todo)
    PROVE  SourceInv' /\ StackInv'
<1>1. IsStack(Ids', Tail(Tail(stack)))
  BY TakingFacts, ExtendedTodo DEF IInv
<1>2. IsStack(Ids', stack')
  BY <1>1, TodoOnStack DEF Take
<1>3. stack # << >> /\ InSource(srcPos') /\ InSource(pos')
  BY TakingFacts, RunningFacts DEF IInv, Take
<1> QED
  BY <1>2, <1>3, SameSource DEF Take, IInv, StackInv

LEMMA RaiseKeeps ==
    ASSUME IInv, stack # << >>, NEW error \in Errors, Raise(error), InSource(pos')
    PROVE  IInv'
<1>1. IsSource(source) /\ InSource(srcPos)
  BY RunningFacts DEF IInv
<1>2. SourceInv'
  BY <1>1 DEF IInv, SourceInv, InSource, Raise
<1>3. StackInv'
  BY DEF StackInv, Raise
<1>4. TableInv'
  BY DEF IInv, TableInv, Raise, tables, Ids
<1> QED
  BY <1>2, <1>3, <1>4 DEF IInv

LEMMA SameTables ==
    ASSUME TableInv, UNCHANGED <<tables, out>>, version' \in {0, 3}
    PROVE  TableInv' /\ Ids' = Ids
  BY DEF TableInv, tables, Ids

LEMMA NoTablesKeeps ==
    ASSUME TableInv, NoTables PROVE TableInv' /\ Ids' = Ids
  BY DEF TableInv, NoTables, tables, Ids

(* A new value of a table of objects.                                      *)
LEMMA AppendVals ==
    ASSUME NEW ids, NEW s, IsSeq(s), \A i \in 1 .. Len(s) : IsVal(ids, s[i]),
           NEW v, IsVal(ids, v)
    PROVE  IsSeq(Append(s, v)) /\ \A i \in 1 .. Len(Append(s, v)) : IsVal(ids, Append(s, v)[i])
<1>1. Len(s) \in Nat
  BY SeqFacts
<1>2. ASSUME NEW i \in 1 .. Len(Append(s, v)) PROVE IsVal(ids, Append(s, v)[i])
  <2>1. i = Len(s) + 1 \/ i \in 1 .. Len(s)
    BY <1>1, AppendFacts
  <2> QED
    BY <2>1, AppendFacts
<1> QED
  BY <1>2, AppendFacts

LEMMA MakeKeeps ==
    ASSUME TableInv, NEW object, Make(object)
    PROVE  TableInv' /\ Ids \subseteq Ids' /\ Fresh \in Ids'
<1>1. IsSeq(out') /\ Len(out') = Len(out) + 1 /\ Len(out) \in Nat
  BY AppendFacts, SeqFacts DEF TableInv, Make
<1>2. Ids \subseteq Ids' /\ Fresh \in Ids'
  BY <1>1 DEF Ids, Fresh
<1>3. \A i \in 1 .. Len(objTable) : IsVal(Ids', objTable[i])
  BY <1>2, ExtendedTodo DEF TableInv
<1>4. IsSeq(objTable') /\ \A i \in 1 .. Len(objTable') : IsVal(Ids', objTable'[i])
  <2> DEFINE v == Ref(Fresh)
             ids == Ids'
  <2>1. IsVal(ids, v) /\ objTable' = Append(objTable, v)
    BY <1>2, PlainVals DEF Make
  <2> HIDE DEF v
  <2> QED
    BY <1>3, <2>1, AppendVals DEF TableInv
<1>5. TableInv'
  BY <1>1, <1>4 DEF TableInv, Make
<1> QED
  BY <1>2, <1>5

(* What is on the source where a read finds what it needs.                 *)
Reads == Words \cup U16s \cup U32s \cup Doubles \cup {"content"}

LEMMA TokenFacts ==
    ASSUME SourceInv, NEW op \in Reads, Ready(op)
    PROVE  /\ InSource(pos + 1) /\ InSource(pos) /\ Reading(op)
           /\ op # "ahead" =>
                /\ op \in Words => Token.word \in Nat /\ Type \in Int /\ Length \in Int
                /\ op \in U16s => Token.u16 \in Nat
                /\ op \in U32s => Token.u32 \in Nat
                /\ op \in Doubles => \A ids : IsVal(ids, Token.double)
                /\ op = "content" => /\ Token.raw \in Strings
                                     /\ ByteSize[Token.raw] = Head(stack).length
<1>1. Reading(op) /\ pos < Len(source.tokens) /\ (op # "ahead" => Fits)
      /\ stack # << >> /\ Head(stack).op = op
  BY DEF Ready, Reading
<1>2. InSource(pos + 1) /\ InSource(pos) /\ IsToken(Token)
  <2>1. /\ InSource(pos) /\ Len(source.tokens) \in Nat
        /\ \A i \in 1 .. Len(source.tokens) : IsToken(source.tokens[i])
    BY <1>1, RunningFacts
  <2>2. pos + 1 \in 0 .. Len(source.tokens) /\ pos + 1 \in 1 .. Len(source.tokens)
    BY <1>1, <2>1 DEF InSource
  <2> QED
    BY <2>1, <2>2 DEF Token, InSource
<1>3. ASSUME op # "ahead", NEW kind, kind \in DOMAIN Token PROVE Needs(op, kind)
  BY <1>1, <1>3 DEF Fits
<1>4. ASSUME op # "ahead", op \in Words PROVE Token.word \in Nat
  <2>1. \A kind \in DOMAIN Token : kind = "word"
    BY <1>3, <1>4 DEF Needs, Words, Headers, U16s, U32s, Doubles
  <2> QED
    BY <1>2, <2>1 DEF IsToken
<1>5. ASSUME Token.word \in Nat PROVE Type \in Int /\ Length \in Int
  <2>1. Type \in Int
    BY <1>5 DEF Type, Signed
  <2> QED
    BY <2>1 DEF Length
<1>6. ASSUME op # "ahead", op \in U16s PROVE Token.u16 \in Nat
  <2>1. \A kind \in DOMAIN Token : kind = "u16"
    BY <1>3, <1>6 DEF Needs, Words, Headers, U16s, U32s, Doubles
  <2> QED
    BY <1>2, <2>1 DEF IsToken
<1>7. ASSUME op # "ahead", op \in U32s PROVE Token.u32 \in Nat
  <2>1. \A kind \in DOMAIN Token : kind = "u32"
    BY <1>3, <1>7 DEF Needs, Words, Headers, U16s, U32s, Doubles
  <2> QED
    BY <1>2, <2>1 DEF IsToken
<1>8. ASSUME op # "ahead", op \in Doubles PROVE \A ids : IsVal(ids, Token.double)
  <2>1. \A kind \in DOMAIN Token : kind = "double"
    BY <1>3, <1>8 DEF Needs, Words, Headers, U16s, U32s, Doubles
  <2>2. DOMAIN Token.double \in {{"num"}, {"float"}}
    BY <1>2, <2>1 DEF IsToken
  <2> QED
    BY <2>2 DEF IsVal, Is
<1>9. ASSUME op = "content"
      PROVE  Token.raw \in Strings /\ ByteSize[Token.raw] = Head(stack).length
  <2>1. \A kind \in DOMAIN Token : kind = "raw"
    BY <1>3, <1>9 DEF Needs, Words, Headers, U16s, U32s, Doubles
  <2>2. DOMAIN Token = {"raw"} /\ Token.raw \in Strings
    BY <1>2, <2>1 DEF IsToken
  <2> QED
    BY <1>1, <1>9, <2>2 DEF Fits, Is
<1> QED
  BY <1>1, <1>2, <1>4, <1>5, <1>6, <1>7, <1>8, <1>9

LEMMA ConsumeKeeps ==
    ASSUME IInv, NEW op \in Reads, op # "ahead", Consume(op), Ids' = Ids, TableInv',
           NEW todo, IsTodo(Ids, todo), Become(todo)
    PROVE  IInv'
<1>1. Reading(op) /\ InSource(pos') /\ op \notin Above
  BY TokenFacts DEF IInv, Consume, Reads, Above, Words, Headers, U16s, U32s, Doubles
<1> QED
  BY <1>1, BecomeKeeps DEF IInv

LEMMA ConsumeMakes ==
    ASSUME IInv, NEW op \in Reads, op # "ahead", Consume(op), NEW object, Make(object),
           NEW todo, Fresh \in Ids' => IsTodo(Ids', todo), Become(todo)
    PROVE  IInv'
<1>1. Reading(op) /\ InSource(pos') /\ op \notin Above
  BY TokenFacts DEF IInv, Consume, Reads, Above, Words, Headers, U16s, U32s, Doubles
<1>2. TableInv' /\ Ids \subseteq Ids' /\ Fresh \in Ids'
  BY MakeKeeps DEF IInv
<1> QED
  BY <1>1, <1>2, BecomeKeeps DEF IInv

LEMMA ConsumeRaises ==
    ASSUME IInv, NEW op \in Reads, Ready(op), InSource(pos') \/ pos' = pos + 1,
           NEW error \in Errors, Raise(error)
    PROVE  IInv'
<1>1. InSource(pos') /\ stack # << >>
  BY TokenFacts DEF IInv, Reading
<1> QED
  BY <1>1, RaiseKeeps

----------------------------------------------------------------------------
(* Reads of a value that is no object.                                     *)
LEMMA MarkerTodos ==
    ASSUME NEW ids, NEW after \in AfterMarker0 \cup AfterMarker3 PROVE IsTodo(ids, after[2])
<1>1. \/ after[2] \in {<<Got(v)>> : v \in {Nil, True, False}}
      \/ after[2] \in {<<Read(op)>> : op \in PlainReads}
      \/ after[2] = <<Got(Str(EmptyString)), Read("typed")>>
      \/ after[2] = <<Read("size16"), Read("typed")>>
      \/ after[2] \in {<<[op |-> "vector", of |-> m]>> : m \in VECTOR_MARKERS}
  BY DEF AfterMarker0, AfterMarker3, PlainReads
<1>2. CASE after[2] \in {<<Got(v)>> : v \in {Nil, True, False}}
  <2>1. \A v \in {Nil, True, False} : IsCall(ids, Got(v))
    BY CallKinds, PlainVals
  <2> QED
    BY <1>2, <2>1, ShortTodos
<1>3. CASE after[2] \in {<<Read(op)>> : op \in PlainReads}
  BY <1>3, CallKinds, ShortTodos
<1>4. CASE after[2] = <<Got(Str(EmptyString)), Read("typed")>>
  <2>1. IsCall(ids, Got(Str(EmptyString))) /\ IsCall(ids, Read("typed"))
    BY CallKinds, PlainVals DEF PlainReads
  <2> QED
    BY <1>4, <2>1, ShortTodos
<1>5. CASE after[2] = <<Read("size16"), Read("typed")>>
  <2>1. IsCall(ids, Read("size16")) /\ IsCall(ids, Read("typed"))
    BY CallKinds DEF PlainReads
  <2> QED
    BY <1>5, <2>1, ShortTodos
<1>6. CASE after[2] \in {<<[op |-> "vector", of |-> m]>> : m \in VECTOR_MARKERS}
  <2>1. \A m : IsCall(ids, [op |-> "vector", of |-> m])
    BY CallKinds
  <2> QED
    BY <1>6, <2>1, ShortTodos
<1> QED
  BY <1>1, <1>2, <1>3, <1>4, <1>5, <1>6

(* A read that becomes one value, or one call.                             *)
LEMMA OneCallKeeps ==
    ASSUME IInv, NEW op \in Reads, op # "ahead", Consume(op), NoTables,
           NEW c, IsCall(Ids, c), Become(<<c>>)
    PROVE  IInv'
<1>1. IsTodo(Ids, <<c>>)
  BY ShortTodos
<1>2. TableInv' /\ Ids' = Ids
  BY NoTablesKeeps DEF IInv
<1> QED
  BY <1>1, <1>2, ConsumeKeeps

LEMMA GotKeeps ==
    ASSUME IInv, NEW op \in Reads, op # "ahead", Consume(op), NoTables,
           NEW v, IsVal(Ids, v), Become(<<Got(v)>>)
    PROVE  IInv'
  BY OneCallKeeps, CallKinds

LEMMA MarkerKeeps == ASSUME IInv, ReadValue0 \/ ReadValue3 PROVE IInv'
<1>1. PICK after \in AfterMarker0 \cup AfterMarker3 : Become(after[2])
  BY DEF ReadValue0, ReadValue3, ReadMarker
<1>2. Consume("value") /\ NoTables
  BY DEF ReadValue0, ReadValue3, ReadMarker
<1>3. "value" \in Reads /\ "value" # "ahead"
  BY DEF Reads, Words
<1>4. TableInv' /\ Ids' = Ids
  BY <1>2, NoTablesKeeps DEF IInv
<1> QED
  BY <1>1, <1>2, <1>3, <1>4, MarkerTodos, ConsumeKeeps

LEMMA ScalarKeeps ==
    ASSUME IInv,
           ReadBoolean \/ ReadDouble \/ ReadU32 \/ ReadInteger \/ ReadStamp0 \/ ReadTime
    PROVE  IInv'
<1>1. {"boolean", "double", "u32", "integer", "stamp0", "time"} \subseteq Reads \ {"ahead"}
  BY DEF Reads, Words, Headers, U32s, Doubles
<1>2. CASE ReadBoolean
  <2> DEFINE v == IF Token.word = 0 THEN False ELSE True
  <2>1. IsVal(Ids, v) /\ Consume("boolean") /\ NoTables /\ Become(<<Got(v)>>)
    BY <1>2, PlainVals DEF ReadBoolean
  <2> HIDE DEF v
  <2> QED
    BY <1>1, <2>1, GotKeeps
<1>3. CASE ReadDouble
  <2>1. Consume("double") /\ NoTables /\ Become(<<Got(Token.double)>>)
    BY <1>3 DEF ReadDouble
  <2>2. "double" \in Doubles
    BY DEF Doubles
  <2>3. IsVal(Ids, Token.double)
    BY <1>1, <2>1, <2>2, TokenFacts DEF IInv, Consume
  <2> QED
    BY <1>1, <2>1, <2>3, GotKeeps
<1>4. CASE ReadU32
  <2>1. /\ Consume("u32") /\ NoTables /\ Become(<<Got(Num(Token.u32))>>)
        /\ IsVal(Ids, Num(Token.u32))
    BY <1>4, PlainVals DEF ReadU32
  <2> QED
    BY <1>1, <2>1, GotKeeps
<1>5. CASE ReadInteger
  <2>1. /\ Consume("integer") /\ NoTables /\ Become(<<Got(Num(Signed(Token.word)))>>)
        /\ IsVal(Ids, Num(Signed(Token.word)))
    BY <1>5, PlainVals DEF ReadInteger
  <2> QED
    BY <1>1, <2>1, GotKeeps
<1>6. CASE ReadStamp0
  <2> DEFINE c == [op |-> "zone", at |-> Token.double]
  <2>1. Consume("stamp0") /\ NoTables /\ Become(<<c>>)
    BY <1>6 DEF ReadStamp0
  <2>2. IsCall(Ids, c)
    BY CallKinds
  <2> HIDE DEF c
  <2> QED
    BY <1>1, <2>1, <2>2, OneCallKeeps
<1>7. CASE ReadTime
  <2>1. /\ Consume("time") /\ NoTables /\ Become(<<Read("stamp")>>)
        /\ IsCall(Ids, Read("stamp"))
    BY <1>7, CallKinds DEF ReadTime, Inline, PlainReads
  <2> QED
    BY <1>1, <2>1, OneCallKeeps
<1> QED
  BY <1>2, <1>3, <1>4, <1>5, <1>6, <1>7

LEMMA SizeKeeps ==
    ASSUME IInv, NEW op \in {"size16", "size32"}, NEW n, ReadSize(op, n) PROVE IInv'
<1> DEFINE c == IF n = 0 THEN Got(Str(EmptyString)) ELSE Octets(n, "none")
<1>1. Consume(op) /\ NoTables /\ Become(<<c>>)
  BY DEF ReadSize
<1>2. IsCall(Ids, c)
  BY CallKinds, PlainVals
<1>3. op \in Reads /\ op # "ahead"
  BY DEF Reads, U16s, U32s
<1> HIDE DEF c
<1> QED
  BY <1>1, <1>2, <1>3, OneCallKeeps

LEMMA ByteKeeps == ASSUME IInv, ReadByte PROVE IInv'
<1>1. Consume("byte") /\ NoTables /\ Become(<< >>) /\ "byte" \in Reads
  BY DEF ReadByte, Reads, Words
<1>2. TableInv' /\ Ids' = Ids
  BY <1>1, NoTablesKeeps DEF IInv
<1> QED
  BY <1>1, <1>2, ShortTodos, ConsumeKeeps

LEMMA ReferenceKeeps ==
    ASSUME IInv, ReadReference0 \/ \E op \in Headers : ReadReference(op) PROVE IInv'
<1>1. /\ \A i \in 1 .. Len(objTable) : IsVal(Ids, objTable[i])
      /\ \A i \in 1 .. Len(strTable) : IsVal(Ids, strTable[i])
      /\ Len(objTable) \in Nat /\ Len(strTable) \in Nat
  <2>1. IsSeq(objTable) /\ IsSeq(strTable) /\ \A i \in 1 .. Len(objTable) : IsVal(Ids, objTable[i])
    BY DEF IInv, TableInv
  <2>2. ASSUME NEW i \in 1 .. Len(strTable) PROVE IsVal(Ids, strTable[i])
    <3>1. PICK s : strTable[i] = Str(s)
      BY DEF IInv, TableInv
    <3> QED
      BY <3>1, PlainVals
  <2>3. Len(objTable) \in Nat /\ Len(strTable) \in Nat
    BY <2>1, SeqFacts
  <2> QED
    BY <2>1, <2>2, <2>3
<1>2. "RangeError" \in Errors
  BY DEF Errors
<1>3. CASE ReadReference0
  <2>1. "reference0" \in Reads /\ "reference0" \in U16s
    BY DEF Reads, U16s
  <2>2. Token.u16 \in Nat /\ Ready("reference0") /\ pos' = pos + 1
    BY <1>3, <2>1, TokenFacts DEF IInv, ReadReference0, Consume
  <2>3. CASE Token.u16 < Len(objTable)
    <3> DEFINE v == objTable[Token.u16 + 1]
    <3>1. Token.u16 + 1 \in 1 .. Len(objTable)
      BY <1>1, <2>2, <2>3
    <3>2. Consume("reference0") /\ Become(<<Got(v)>>) /\ NoTables /\ IsVal(Ids, v)
      BY <1>1, <1>3, <2>3, <3>1 DEF ReadReference0
    <3> HIDE DEF v
    <3> QED
      BY <2>1, <3>2, GotKeeps
  <2>4. CASE ~(Token.u16 < Len(objTable))
    <3>1. Raise("RangeError")
      BY <1>3, <2>4 DEF ReadReference0
    <3> QED
      BY <1>2, <2>1, <2>2, <3>1, ConsumeRaises
  <2> QED
    BY <2>3, <2>4
<1>4. ASSUME NEW op \in Headers, ReadReference(op) PROVE IInv'
  <2>1. op \in Reads /\ op \in Words /\ op # "ahead"
    BY DEF Reads, Words, Headers
  <2>2. Length \in Int /\ Ready(op) /\ pos' = pos + 1
    BY <1>4, <2>1, TokenFacts DEF IInv, ReadReference, Consume
  <2>3. CASE Length >= Len(Table(op))
    <3>1. Raise("RangeError")
      BY <1>4, <2>3 DEF ReadReference
    <3> QED
      BY <1>2, <2>1, <2>2, <3>1, ConsumeRaises
  <2>4. CASE ~(Length >= Len(Table(op)))
    <3> DEFINE v == Table(op)[Length + 1]
    <3>1. Length >= 0 /\ Consume(op) /\ Become(<<Got(v)>>) /\ NoTables
      BY <1>4, <2>4 DEF ReadReference
    <3>2. IsVal(Ids, v)
      <4>1. /\ Len(Table(op)) \in Nat
            /\ \A i \in 1 .. Len(Table(op)) : IsVal(Ids, Table(op)[i])
        BY <1>1 DEF Table
      <4>2. Length + 1 \in 1 .. Len(Table(op))
        BY <2>2, <2>4, <3>1, <4>1
      <4> QED
        BY <4>1, <4>2
    <3> HIDE DEF v
    <3> QED
      BY <2>1, <3>1, <3>2, GotKeeps
  <2> QED
    BY <2>3, <2>4
<1> QED
  BY <1>3, <1>4

----------------------------------------------------------------------------
(* AMF0: the properties of an object, and a byte read ahead.               *)
LEMMA PropsKeeps == ASSUME IInv, ReadProps PROVE IInv'
<1>1. /\ Consume("props") /\ NoTables /\ "props" \in Reads /\ "props" # "ahead"
      /\ "props" \notin Above
  BY DEF ReadProps, Reads, U16s, Above
<1>2. Reading("props") /\ InSource(pos') /\ TableInv' /\ Ids' = Ids
  BY <1>1, TokenFacts, NoTablesKeeps DEF IInv, Consume
<1>3. IsCall(Ids, Head(stack)) /\ Head(stack).op = "props" /\ IsStack(Ids, stack) /\ stack # << >>
  BY <1>1, <1>2, ReadingFacts DEF IInv
<1>4. CASE Token.u16 = 0
  <2>1. Become(<<Read("ahead"), Head(stack)>>)
    BY <1>4 DEF ReadProps
  <2>2. stack' = <<Read("ahead"), Head(stack)>> \o Tail(stack)
    BY <2>1 DEF Become
  <2> DEFINE c == Read("ahead")
  <2>3. c.op = "ahead" /\ IsSeq(stack) /\ stack # << >>
    BY <1>3 DEF Read, IsStack, IsTodo
  <2>4. stack' = <<c, Head(stack)>> \o Tail(stack)
    BY <2>2
  <2> HIDE DEF c
  <2>5. IsSeq(stack') /\ stack' # << >> /\ Head(stack') = c /\ Tail(stack') = stack
    BY <2>3, <2>4, AboveStack
  <2>6. StackInv'
    BY <1>2, <1>3, <2>3, <2>5 DEF StackInv, IsAhead
  <2>7. SourceInv'
    <3>1. InSource(srcPos')
      BY <1>3, <2>1, RunningFacts DEF IInv, Become
    <3> QED
      BY <1>2, <1>3, <2>1, <3>1, SameSource DEF IInv, Become
  <2> QED
    BY <1>2, <2>6, <2>7 DEF IInv
<1>5. CASE Token.u16 # 0
  <2> DEFINE c == Octets(Token.u16, "none")
             d == [Head(stack) EXCEPT !.op = "prop"]
  <2>1. Become(<<c, d>>)
    BY <1>5 DEF ReadProps
  <2>2. IsCall(Ids, c)
    BY CallKinds
  <2>3. IsCall(Ids, d)
    <3> DEFINE h == Head(stack)
    <3>1. h = [op |-> h.op, id |-> h.id, field |-> h.field]
      BY <1>3 DEF IsCall
    <3>2. d = [op |-> "prop", id |-> h.id, field |-> h.field]
      BY <3>1
    <3> HIDE DEF h, d
    <3> QED
      BY <3>2 DEF IsCall
  <2> HIDE DEF c, d
  <2>4. IsTodo(Ids, <<c, d>>)
    BY <2>2, <2>3, ShortTodos
  <2> QED
    BY <1>1, <1>2, <2>1, <2>4, ConsumeKeeps
<1> QED
  BY <1>4, <1>5

LEMMA AheadKeeps == ASSUME IInv, ReadAhead PROVE IInv'
<1>1. /\ Ready("ahead") /\ Reading("ahead") /\ NoTables /\ UNCHANGED <<source, srcPos, outcome>>
      /\ pos' = pos + 1 \/ pos' = pos
  BY DEF ReadAhead, AheadOr, Ready
<1>2. "ahead" \in Reads
  BY DEF Reads, Words
<1>3. stack # << >> /\ Head(stack).op = "ahead"
  BY <1>1 DEF Reading
<1>4. InSource(pos') /\ InSource(srcPos')
  BY <1>1, <1>2, <1>3, TokenFacts, RunningFacts DEF IInv
<1>5. SourceInv'
  BY <1>1, <1>3, <1>4, SameSource DEF IInv
<1>6. TableInv' /\ Ids' = Ids
  BY <1>1, NoTablesKeeps DEF IInv
<1>7. IsSeq(stack) /\ IsStack(Ids, Tail(stack)) /\ Head(Tail(stack)).op = "props"
  <2>1. ~IsStack(Ids, stack)
    BY <1>3, TailStack DEF IsCall
  <2> QED
    BY <1>3, <2>1 DEF IInv, StackInv, IsAhead
<1> DEFINE s == Tail(stack)
<1>8. /\ IsCall(Ids, Head(s)) /\ Head(s).op = "props" /\ IsStack(Ids, Tail(s))
      /\ s # << >>
  BY <1>7, TailStack
<1>9. Caller = Head(s)
  <2>1. /\ Len(stack) \in Nat /\ Len(s) = Len(stack) - 1 /\ IsSeq(s)
        /\ \A i \in 1 .. Len(stack) - 1 : s[i] = stack[i + 1]
    BY <1>3, <1>7, SeqFacts
  <2>2. Len(s) > 0 /\ Head(s) = s[1]
    BY <1>8, <2>1, SeqFacts
  <2>3. 1 \in 1 .. Len(stack) - 1 /\ 1 + 1 = 2
    BY <2>1, <2>2
  <2>4. s[1] = stack[1 + 1]
    BY <2>1, <2>3
  <2> QED
    BY <2>2, <2>3, <2>4 DEF Caller
<1>10. CASE Token = Word(AMF0_OBJECT_END_MARKER)
  <2>1. stack' = Tail(s)
    BY <1>10 DEF ReadAhead, AheadOr
  <2>2. StackInv'
    BY <1>6, <1>8, <2>1 DEF StackInv
  <2> QED
    BY <1>5, <1>6, <2>2 DEF IInv
<1>11. CASE Token # Word(AMF0_OBJECT_END_MARKER)
  <2> DEFINE c == Got(Str(EmptyString))
             d == [Caller EXCEPT !.op = "prop"]
  <2>1. stack' = <<c, d>> \o Tail(s)
    BY <1>11 DEF ReadAhead, AheadOr
  <2>2. IsCall(Ids, c)
    BY CallKinds, PlainVals
  <2>3. IsCall(Ids, d)
    <3> DEFINE h == Caller
    <3>1. h = [op |-> h.op, id |-> h.id, field |-> h.field]
      BY <1>8, <1>9 DEF IsCall
    <3>2. d = [op |-> "prop", id |-> h.id, field |-> h.field]
      BY <3>1
    <3> HIDE DEF h, d
    <3> QED
      BY <3>2 DEF IsCall
  <2> HIDE DEF c, d
  <2>4. IsTodo(Ids, <<c, d>>)
    BY <2>2, <2>3, ShortTodos
  <2>5. IsStack(Ids, stack')
    BY <1>8, <2>1, <2>4, TodoOnStack
  <2>6. StackInv'
    BY <1>6, <2>5 DEF StackInv
  <2> QED
    BY <1>5, <1>6, <2>6 DEF IInv
<1> QED
  BY <1>10, <1>11

(* A call that takes a value.                                              *)
LEMMA TakeKeepsInv ==
    ASSUME IInv, NEW op, Taking(op), op # "return", Ids \subseteq Ids', TableInv',
           NEW todo, IsTodo(Ids', todo), Take(todo)
    PROVE  IInv'
  BY TakeKeeps DEF IInv

LEMMA PropKeeps == ASSUME IInv, TakeProp PROVE IInv'
<1> DEFINE c == Caller
           d == Assign(c.id, c.field, Taken)
           e == [c EXCEPT !.op = "props"]
<1>1. Taking("prop") /\ Take(<<Value(0), d, e>>) /\ UNCHANGED <<tables, out>>
  BY DEF TakeProp
<1>2. IsCall(Ids, c) /\ c.op = "prop"
  BY <1>1, TakingFacts DEF IInv
<1>3. IsCall(Ids, e)
  <2>1. c = [op |-> c.op, id |-> c.id, field |-> c.field]
    BY <1>2 DEF IsCall
  <2>2. e = [op |-> "props", id |-> c.id, field |-> c.field]
    BY <2>1
  <2> HIDE DEF e
  <2> QED
    BY <2>2 DEF IsCall
<1>4. IsCall(Ids, Value(0)) /\ IsCall(Ids, d)
  BY CallKinds
<1>5. TableInv' /\ Ids' = Ids
  BY <1>1, SameTables DEF IInv, Take, TableInv
<1> HIDE DEF d, e
<1>6. IsTodo(Ids, <<Value(0), d, e>>)
  BY <1>3, <1>4, ShortTodos
<1> QED
  BY <1>1, <1>5, <1>6, TakeKeepsInv

(* Objects that are given another content, or made without an index.       *)
LEMMA OutKeeps ==
    ASSUME TableInv, UNCHANGED tables, version' \in {0, 3}, IsSeq(out'), Len(out) <= Len(out')
    PROVE  TableInv' /\ Ids \subseteq Ids'
<1>1. Len(out) \in Nat /\ Len(out') \in Nat
  BY SeqFacts DEF TableInv
<1>2. Ids \subseteq Ids'
  BY <1>1 DEF Ids
<1>3. \A i \in 1 .. Len(objTable) : IsVal(Ids', objTable[i])
  BY <1>2, ExtendedTodo DEF TableInv
<1> QED
  BY <1>2, <1>3 DEF TableInv, tables

LEMMA AssignKeeps == ASSUME IInv, TakeAssign PROVE IInv'
<1>1. Taking("assign") /\ Take(<< >>) /\ UNCHANGED tables
  BY DEF TakeAssign
<1>2. DOMAIN out' = DOMAIN out /\ out' = [i \in DOMAIN out |-> out'[i]]
  BY DEF TakeAssign
<1>3. Len(out) \in Nat /\ DOMAIN out = 1 .. Len(out)
  BY SeqFacts DEF IInv, TableInv
<1>4. IsSeq(out') /\ Len(out') = Len(out)
  BY <1>2, <1>3, FunctionIsSeq
<1>5. TableInv' /\ Ids \subseteq Ids'
  BY <1>1, <1>3, <1>4, OutKeeps DEF IInv, Take, TableInv
<1> QED
  BY <1>1, <1>5, ShortTodos, TakeKeepsInv

LEMMA KeyKeeps == ASSUME IInv, TakeKey PROVE IInv'
<1> DEFINE c == Caller
           field == IF c.op = "key" THEN "props" ELSE "pairs"
           d == Assign(c.id, field, Taken)
           todo == IF Taken.str = EmptyString THEN << >> ELSE <<Value(3), d, Read("string"), c>>
<1>1. PICK op \in {"key", "pair"} : Taking(op)
  BY DEF TakeKey
<1>2. Take(todo) /\ UNCHANGED <<tables, out>>
  BY DEF TakeKey
<1>3. IsCall(Ids, c) /\ IsCall(Ids, Value(3)) /\ IsCall(Ids, d) /\ IsCall(Ids, Read("string"))
  BY <1>1, TakingFacts, CallKinds DEF IInv, PlainReads
<1>4. TableInv' /\ Ids' = Ids
  BY <1>2, SameTables DEF IInv, Take, TableInv
<1> HIDE DEF c, d
<1>5. IsTodo(Ids, todo)
  BY <1>3, ShortTodos
<1> HIDE DEF todo
<1> QED
  BY <1>1, <1>2, <1>4, <1>5, TakeKeepsInv

LEMMA EntryKeeps == ASSUME IInv, TakeEntryKey PROVE IInv'
<1> DEFINE d == Assign(Caller.id, "pairs", Taken)
<1>1. Taking("entry") /\ Take(<<Value(3), d>>) /\ UNCHANGED <<tables, out>>
  BY DEF TakeEntryKey
<1>2. IsCall(Ids, Value(3)) /\ IsCall(Ids, d)
  BY CallKinds
<1>3. TableInv' /\ Ids' = Ids
  BY <1>1, SameTables DEF IInv, Take, TableInv
<1> HIDE DEF d
<1>4. IsTodo(Ids, <<Value(3), d>>)
  BY <1>2, ShortTodos
<1> QED
  BY <1>1, <1>3, <1>4, TakeKeepsInv

LEMMA IgnoredKeeps == ASSUME IInv, TakeIgnored PROVE IInv'
<1>1. Taking("ignore") /\ Take(<< >>) /\ UNCHANGED <<tables, out>>
  BY DEF TakeIgnored
<1>2. TableInv' /\ Ids' = Ids
  BY <1>1, SameTables DEF IInv, Take, TableInv
<1> QED
  BY <1>1, <1>2, ShortTodos, TakeKeepsInv

LEMMA TypedKeeps == ASSUME IInv, TakeTyped PROVE IInv'
<1> DEFINE t == [class_name |-> Taken.str, members |-> << >>,
                 dynamic |-> TRUE, external |-> FALSE]
           c == [op |-> "create", ver |-> 0, traits |-> t]
<1>1. Taking("typed") /\ Take(<<c>>) /\ UNCHANGED <<tables, out>>
  BY DEF TakeTyped
<1>2. IsTraits(t)
  BY ShortSeqs DEF IsTraits
<1> HIDE DEF t
<1>3. IsCall(Ids, c)
  BY <1>2, CallKinds
<1> HIDE DEF c
<1>4. TableInv' /\ Ids' = Ids
  BY <1>1, SameTables DEF IInv, Take, TableInv
<1>5. IsTodo(Ids, <<c>>)
  BY <1>3, ShortTodos
<1> QED
  BY <1>1, <1>4, <1>5, TakeKeepsInv

LEMMA CollectionKeeps == ASSUME IInv, TakeCollection PROVE IInv'
<1>1. Taking("collection") /\ Take(<<Head(stack)>>)
      /\ objTable' = Append(objTable, Taken)
      /\ UNCHANGED <<strTable, traitTable, made, out>>
  BY DEF TakeCollection
<1>2. IsVal(Ids, Taken) /\ IsCall(Ids, Head(stack))
  BY <1>1, TakingFacts DEF IInv
<1>3. IsSeq(objTable') /\ \A i \in 1 .. Len(objTable') : IsVal(Ids, objTable'[i])
  BY <1>1, <1>2, AppendVals DEF IInv, TableInv
<1>4. TableInv' /\ Ids' = Ids
  BY <1>1, <1>3 DEF IInv, TableInv, Take, Ids
<1>5. IsTodo(Ids, <<Head(stack)>>)
  BY <1>2, ShortTodos
<1> QED
  BY <1>1, <1>4, <1>5, TakeKeepsInv

LEMMA AppendTraits ==
    ASSUME NEW s, IsSeq(s), \A i \in 1 .. Len(s) : IsTraits(s[i]), NEW t, IsTraits(t)
    PROVE  IsSeq(Append(s, t)) /\ \A i \in 1 .. Len(Append(s, t)) : IsTraits(Append(s, t)[i])
<1>1. Len(s) \in Nat
  BY SeqFacts
<1>2. ASSUME NEW i \in 1 .. Len(Append(s, t)) PROVE IsTraits(Append(s, t)[i])
  <2>1. i = Len(s) + 1 \/ i \in 1 .. Len(s)
    BY <1>1, AppendFacts
  <2> QED
    BY <2>1, AppendFacts
<1> QED
  BY <1>2, AppendFacts

LEMMA TraitsKeeps == ASSUME IInv, TakeTraits PROVE IInv'
<1> DEFINE h == Caller
           names == Append(h.names, Taken.str)
           traits == [class_name |-> names[1], members |-> Tail(names),
                      dynamic |-> h.dynamic, external |-> h.external]
           more == [h EXCEPT !.names = names]
           create == [op |-> "create", ver |-> 3, traits |-> traits]
<1>1. /\ Taking("traits")
      /\ \/ UNCHANGED pos /\ Raise("ArgumentError")
         \/ Take(<<Read("string"), more>>) /\ UNCHANGED <<tables, out>>
         \/ /\ Take(<<create>>) /\ made
            /\ traitTable' = Append(traitTable, traits)
            /\ UNCHANGED <<objTable, strTable, made, out>>
  BY DEF TakeTraits, TakeTraitsCaching
<1>2. IsCall(Ids, h) /\ h.op = "traits" /\ stack # << >>
  BY <1>1, TakingFacts DEF IInv
<1>3. /\ IsSeq(h.names)
      /\ h = [op |-> h.op, external |-> h.external, dynamic |-> h.dynamic,
              count |-> h.count, names |-> h.names]
  BY <1>2 DEF IsCall
<1>4. IsSeq(names) /\ names # << >>
  BY <1>3, AppendFacts
<1>5. CASE UNCHANGED pos /\ Raise("ArgumentError")
  <2>1. InSource(pos') /\ "ArgumentError" \in Errors
    BY <1>2, <1>5, RunningFacts DEF IInv, Errors
  <2> QED
    BY <1>2, <1>5, <2>1, RaiseKeeps
<1>6. CASE Take(<<Read("string"), more>>) /\ UNCHANGED <<tables, out>>
  <2>1. IsCall(Ids, more)
    <3>1. more = [op |-> "traits", external |-> h.external, dynamic |-> h.dynamic,
                  count |-> h.count, names |-> names]
      BY <1>2, <1>3
    <3> HIDE DEF more, names, h
    <3> QED
      BY <1>4, <3>1 DEF IsCall
  <2>2. IsCall(Ids, Read("string"))
    BY CallKinds DEF PlainReads
  <2>3. TableInv' /\ Ids' = Ids
    BY <1>6, SameTables DEF IInv, Take, TableInv
  <2> HIDE DEF more
  <2>4. IsTodo(Ids, <<Read("string"), more>>)
    BY <2>1, <2>2, ShortTodos
  <2> QED
    BY <1>1, <1>6, <2>3, <2>4, TakeKeepsInv
<1>7. CASE /\ Take(<<create>>) /\ made
           /\ traitTable' = Append(traitTable, traits)
           /\ UNCHANGED <<objTable, strTable, made, out>>
  <2>1. IsTraits(traits)
    BY <1>4, SeqFacts DEF IsTraits
  <2> HIDE DEF traits
  <2>2. IsCall(Ids, create)
    BY <2>1, CallKinds
  <2>3. IsSeq(traitTable') /\ \A i \in 1 .. Len(traitTable') : IsTraits(traitTable'[i])
    BY <1>7, <2>1, AppendTraits DEF IInv, TableInv
  <2>4. TableInv' /\ Ids' = Ids
    BY <1>7, <2>3 DEF IInv, TableInv, Take, Ids
  <2> HIDE DEF create
  <2>5. IsTodo(Ids, <<create>>)
    BY <2>2, ShortTodos
  <2> QED
    BY <1>1, <1>7, <2>4, <2>5, TakeKeepsInv
<1> QED
  BY <1>1, <1>5, <1>6, <1>7

LEMMA FreshTodo ==
    Fresh \in Ids' => IsCall(Ids', Got(Ref(Fresh))) /\ IsTodo(Ids', <<Got(Ref(Fresh))>>)
<1> DEFINE ids == Ids'
           id == Fresh
<1> HIDE DEF ids, id
<1>1. ASSUME id \in ids PROVE IsCall(ids, Got(Ref(id))) /\ IsTodo(ids, <<Got(Ref(id))>>)
  BY <1>1, PlainVals, CallKinds, ShortTodos
<1> QED
  BY <1>1 DEF ids, id

(* n values into the new object, which is then the value itself.           *)
LEMMA FreshValues ==
    ASSUME NEW n \in Int, NEW field, NEW read, \A ids : IsCall(ids, read), Fresh \in Ids'
    PROVE  IsTodo(Ids', Values(read, Fresh, field, n) \o <<Got(Ref(Fresh))>>)
<1> DEFINE ids == Ids'
           id == Fresh
<1>1. IsTodo(ids, <<Got(Ref(id))>>)
  BY FreshTodo
<1> HIDE DEF ids, id
<1>2. IsTodo(ids, Values(read, id, field, n))
  BY ValuesTodo
<1>3. IsTodo(ids, Values(read, id, field, n) \o <<Got(Ref(id))>>)
  BY <1>1, <1>2, ConcatTodo
<1> QED
  BY <1>3 DEF ids, id

LEMMA ArrayStartKeeps == ASSUME IInv, TakeArrayStart PROVE IInv'
<1> DEFINE n == Caller.length
           key == [KeyOf(Fresh) EXCEPT !.op = "pair"]
           hash == <<Head(stack), key>> \o Values(Value(3), Fresh, "pairs", n)
                     \o <<Got(Ref(Fresh))>>
           array == Values(Value(3), Fresh, "elems", n) \o <<Got(Ref(Fresh))>>
<1>1. /\ Taking("arrayStart")
      /\ \/ Make(PlainHash) /\ Take(hash)
         \/ UNCHANGED pos /\ Raise("ArgumentError")
         \/ Make(Array) /\ Take(array)
  BY DEF TakeArrayStart
<1>2. n \in Int /\ stack # << >> /\ IsCall(Ids, Head(stack))
  <2>1. IsCall(Ids, Caller) /\ Caller.op = "arrayStart" /\ stack # << >> /\ IsCall(Ids, Head(stack))
    BY <1>1, TakingFacts DEF IInv
  <2> QED
    BY <2>1 DEF IsCall
<1>3. \A ids : IsCall(ids, Value(3)) /\ IsCall(ids, key)
  BY CallKinds
<1>4. ASSUME NEW object, Make(object)
      PROVE  TableInv' /\ Ids \subseteq Ids' /\ IsTodo(Ids', array) /\ IsTodo(Ids', hash)
  <2>1. TableInv' /\ Ids \subseteq Ids' /\ Fresh \in Ids'
    BY <1>4, MakeKeeps DEF IInv
  <2>2. IsTodo(Ids', array) /\ IsTodo(Ids', Values(Value(3), Fresh, "pairs", n) \o <<Got(Ref(Fresh))>>)
    <3> HIDE DEF n
    <3> QED
      BY <1>2, <1>3, <2>1, FreshValues
  <2>3. IsCall(Ids', Head(stack))
    BY <1>2, <2>1, ExtendedTodo
  <2>4. IsTodo(Ids', <<Head(stack), key>>)
    <3> DEFINE ids == Ids'
    <3>1. IsCall(ids, Head(stack)) /\ IsCall(ids, key)
      BY <1>3, <2>3
    <3> HIDE DEF ids, key
    <3>2. IsTodo(ids, <<Head(stack), key>>)
      BY <3>1, ShortTodos
    <3> QED
      BY <3>2 DEF ids
  <2>5. IsTodo(Ids', hash)
    <3> DEFINE ids == Ids'
               s == <<Head(stack), key>>
               t == Values(Value(3), Fresh, "pairs", n)
               u == <<Got(Ref(Fresh))>>
    <3>1. IsTodo(ids, s) /\ IsTodo(ids, t \o u) /\ IsTodo(ids, t) /\ IsTodo(ids, u)
      <4>1. IsTodo(ids, u)
        BY <2>1, FreshTodo
      <4>2. IsTodo(ids, t)
        <5> HIDE DEF ids, n
        <5> QED
          BY <1>2, <1>3, ValuesTodo
      <4> QED
        BY <2>2, <2>4, <4>1, <4>2
    <3> HIDE DEF ids, s, t, u
    <3>2. IsTodo(ids, (s \o t) \o u)
      BY <3>1, ConcatTodo
    <3> QED
      BY <3>2 DEF ids, s, t, u
  <2> QED
    BY <2>1, <2>2, <2>5
<1> HIDE DEF array, hash
<1>5. CASE UNCHANGED pos /\ Raise("ArgumentError")
  <2>1. InSource(pos') /\ "ArgumentError" \in Errors
    BY <1>2, <1>5, RunningFacts DEF IInv, Errors
  <2> QED
    BY <1>2, <1>5, <2>1, RaiseKeeps
<1> QED
  BY <1>1, <1>4, <1>5, TakeKeepsInv

----------------------------------------------------------------------------
(* Reads that make an object.                                              *)
LEMMA MakingKeeps ==
    ASSUME IInv, ReadHash0 \/ ReadArray0 \/ ReadStamp \/ ReadDict \/ ReadVector PROVE IInv'
<1>1. /\ {"hash0", "array0", "stamp", "dict", "vector"} \subseteq Reads \ {"ahead"}
      /\ "array0" \in U32s /\ "dict" \in Words /\ "vector" \in Words
  BY DEF Reads, Words, Headers, U32s, Doubles
<1>2. \A ids : /\ IsCall(ids, Value(0)) /\ IsCall(ids, Value(3)) /\ IsCall(ids, Read("byte"))
               /\ IsCall(ids, Read("string")) /\ IsCall(ids, Read("ignore"))
  BY CallKinds DEF PlainReads
<1>3. CASE ReadHash0
  <2> DEFINE c == Props(Fresh, "pairs")
             g == Got(Ref(Fresh))
  <2>1. Consume("hash0") /\ Become(<<c, g>>) /\ Make(PlainHash)
    BY <1>3 DEF ReadHash0
  <2>2. ASSUME Fresh \in Ids' PROVE IsTodo(Ids', <<c, g>>)
    <3> DEFINE ids == Ids'
    <3>1. IsCall(ids, g)
      BY <2>2, FreshTodo
    <3>2. IsCall(ids, c)
      <4> HIDE DEF ids
      <4> QED
        BY CallKinds
    <3> HIDE DEF ids, c, g
    <3>3. IsTodo(ids, <<c, g>>)
      BY <3>1, <3>2, ShortTodos
    <3> QED
      BY <3>3 DEF ids
  <2> HIDE DEF c, g
  <2> QED
    BY <1>1, <2>1, <2>2, ConsumeMakes
<1>4. CASE ReadArray0
  <2> DEFINE n == Token.u32
             todo == Values(Value(0), Fresh, "elems", n) \o <<Got(Ref(Fresh))>>
  <2>1. Consume("array0") /\ Become(todo) /\ Make(Array)
    BY <1>4 DEF ReadArray0
  <2>2. n \in Int
    BY <1>1, <2>1, TokenFacts DEF IInv, Consume
  <2>3. ASSUME Fresh \in Ids' PROVE IsTodo(Ids', todo)
    <3> HIDE DEF n
    <3> QED
      BY <1>2, <2>2, <2>3, FreshValues
  <2> HIDE DEF todo
  <2> QED
    BY <1>1, <2>1, <2>3, ConsumeMakes
<1>5. CASE ReadStamp
  <2> DEFINE object == TimeOf(Token.double)
  <2>1. Consume("stamp") /\ Become(<<Got(Ref(Fresh))>>) /\ Make(object)
    BY <1>5 DEF ReadStamp
  <2> HIDE DEF object
  <2> QED
    BY <1>1, <2>1, FreshTodo, ConsumeMakes
<1>6. CASE ReadDict
  <2> DEFINE n == Length
             entry == [op |-> "entry", id |-> Fresh]
             takers == [i \in 1 .. n |-> entry]
             first == <<Read("byte")>>
             last == <<Got(Ref(Fresh))>>
             todo == first \o Each(Value(3), takers) \o last
  <2>1. Consume("dict") /\ Become(todo) /\ Make(PlainHash)
    BY <1>6 DEF ReadDict, Inline
  <2>2. n \in Int
    BY <1>1, <2>1, TokenFacts DEF IInv, Consume
  <2>3. \A ids : IsCall(ids, entry)
    BY CallKinds
  <2>4. ASSUME Fresh \in Ids' PROVE IsTodo(Ids', todo)
    <3> DEFINE ids == Ids'
    <3>1. IsTodo(ids, last)
      BY <2>4, FreshTodo
    <3> HIDE DEF ids, n, entry
    <3>2. takers = [i \in 1 .. n |-> takers[i]] /\ \A i \in 1 .. n : takers[i] = entry
      OBVIOUS
    <3> HIDE DEF takers
    <3>3. IsTodo(ids, Each(Value(3), takers))
      BY <1>2, <2>2, <2>3, <3>2, CountedTodo
    <3>4. IsTodo(ids, first)
      BY <1>2, ShortTodos
    <3> HIDE DEF first, last
    <3>5. IsTodo(ids, todo)
      BY <3>1, <3>3, <3>4, ConcatTodo
    <3> QED
      BY <3>5 DEF ids
  <2> HIDE DEF todo
  <2> QED
    BY <1>1, <2>1, <2>4, ConsumeMakes
<1>7. CASE ReadVector
  <2> DEFINE n == Length
             read == Element(Head(stack).of)
             first == <<Read("byte")>>
             second == IF Head(stack).of = 16 THEN <<Read("string"), Read("ignore")>> ELSE << >>
             values == Values(read, Fresh, "elems", n)
             last == <<Got(Ref(Fresh))>>
             todo == first \o second \o values \o last
  <2>1. Consume("vector") /\ Become(todo) /\ Make(Array)
    BY <1>7 DEF ReadVector, Inline
  <2>2. n \in Int
    BY <1>1, <2>1, TokenFacts DEF IInv, Consume
  <2>3. \A ids : IsCall(ids, read)
    BY CallKinds DEF Element, PlainReads
  <2>4. ASSUME Fresh \in Ids' PROVE IsTodo(Ids', todo)
    <3> DEFINE ids == Ids'
    <3>1. IsTodo(ids, last)
      BY <2>4, FreshTodo
    <3> HIDE DEF ids, n, read
    <3>2. IsTodo(ids, values)
      BY <2>2, <2>3, ValuesTodo
    <3>3. IsTodo(ids, first) /\ IsTodo(ids, second)
      BY <1>2, ShortTodos
    <3> HIDE DEF first, second, values, last
    <3>4. IsTodo(ids, first \o second)
      BY <3>3, ConcatTodo
    <3>5. IsTodo(ids, (first \o second) \o values)
      BY <3>2, <3>4, ConcatTodo
    <3>6. IsTodo(ids, ((first \o second) \o values) \o last)
      BY <3>1, <3>5, ConcatTodo
    <3> QED
      BY <3>6 DEF ids
  <2> HIDE DEF todo
  <2> QED
    BY <1>1, <2>1, <2>4, ConsumeMakes
<1> QED
  BY <1>3, <1>4, <1>5, <1>6, <1>7

LEMMA ZoneKeeps == ASSUME IInv, ReadZone PROVE IInv'
<1> DEFINE object == TimeOf(Head(stack).at)
<1>1. /\ Consume("zone") /\ out' = Append(out, object) /\ Become(<<Got(Ref(Fresh))>>)
      /\ UNCHANGED <<tables, version>> /\ "zone" \in Reads
  BY DEF ReadZone, Reads, U16s
<1> HIDE DEF object
<1>2. IsSeq(out') /\ Len(out') = Len(out) + 1 /\ Len(out) \in Nat
  BY <1>1, AppendFacts, SeqFacts DEF IInv, TableInv
<1>3. TableInv' /\ Ids \subseteq Ids'
  BY <1>1, <1>2, OutKeeps DEF IInv, TableInv
<1>4. Fresh \in Ids'
  BY <1>2 DEF Fresh, Ids
<1>5. Reading("zone") /\ InSource(pos') /\ "zone" \notin Above
  BY <1>1, TokenFacts DEF IInv, Consume, Above
<1> QED
  BY <1>1, <1>3, <1>4, <1>5, FreshTodo, BecomeKeeps DEF IInv

LEMMA ArrayKeeps == ASSUME IInv, ReadArray PROVE IInv'
<1> DEFINE c == [op |-> "arrayStart", length |-> Length]
<1>1. Consume("array") /\ Become(<<Read("string"), c>>) /\ NoTables
  BY DEF ReadArray, Inline
<1>2. "array" \in Reads /\ "array" \in Words
  BY DEF Reads, Words, Headers
<1>3. Length \in Int
  BY <1>1, <1>2, TokenFacts DEF IInv, Consume
<1>4. IsCall(Ids, c) /\ IsCall(Ids, Read("string"))
  BY <1>3, CallKinds DEF PlainReads
<1>5. TableInv' /\ Ids' = Ids
  BY <1>1, NoTablesKeeps DEF IInv
<1> HIDE DEF c
<1>6. IsTodo(Ids, <<Read("string"), c>>)
  BY <1>4, ShortTodos
<1> QED
  BY <1>1, <1>2, <1>5, <1>6, ConsumeKeeps

----------------------------------------------------------------------------
(* Strings, XML and byte arrays.                                           *)
LEMMA TextKeeps ==
    ASSUME IInv, ReadText("string", "strings") \/ ReadText("xml", "objects") \/ ReadBytes
    PROVE  IInv'
<1>1. /\ {"string", "xml", "bytes"} \subseteq Reads \ {"ahead"}
      /\ {"string", "xml", "bytes"} \subseteq Words
  BY DEF Reads, Words, Headers
<1>2. ASSUME NEW op \in {"string", "xml"}, NEW into, ReadText(op, into) PROVE IInv'
  <2> DEFINE c == IF Length = 0 THEN Got(Str(EmptyString)) ELSE Octets(Length, into)
  <2>1. Consume(op) /\ Become(<<c>>)
    BY <1>2 DEF ReadText, TextHeader, Inline
  <2>2. UNCHANGED <<tables, version, out>>
    BY <1>2 DEF ReadText, TextHeader, tables
  <2>3. IsCall(Ids, c)
    BY CallKinds, PlainVals
  <2> HIDE DEF c
  <2>4. NoTables
    BY <2>2 DEF NoTables
  <2> QED
    BY <1>1, <2>1, <2>3, <2>4, OneCallKeeps
<1>3. CASE ReadBytes
  <2>1. CASE Length = 0
    <3> DEFINE object == [kind |-> "bytes", text |-> EmptyString]
    <3>1. Consume("bytes") /\ Become(<<Got(Ref(Fresh))>>) /\ Make(object)
      BY <1>3, <2>1 DEF ReadBytes, Inline
    <3> HIDE DEF object
    <3> QED
      BY <1>1, <3>1, FreshTodo, ConsumeMakes
  <2>2. CASE Length # 0
    <3>1. Consume("bytes") /\ Become(<<Octets(Length, "bytes")>>) /\ NoTables
      BY <1>3, <2>2 DEF ReadBytes, Inline
    <3>2. IsCall(Ids, Octets(Length, "bytes"))
      BY CallKinds
    <3> QED
      BY <1>1, <3>1, <3>2, OneCallKeeps
  <2> QED
    BY <2>1, <2>2
<1> QED
  BY <1>2, <1>3

LEMMA ContentKeeps == ASSUME IInv, ReadContent PROVE IInv'
<1> DEFINE x == Token.raw
           into == Head(stack).into
<1>1. Consume("content") /\ "content" \in Reads /\ "content" # "ahead" /\ Reading("content")
  BY DEF ReadContent, Consume, Ready, Reads
<1>2. x \in Strings /\ ByteSize[x] = Head(stack).length
  BY <1>1, TokenFacts DEF IInv, Consume
<1>3. IsCall(Ids, Head(stack)) /\ Head(stack).op = "content"
  BY <1>1, ReadingFacts DEF IInv
<1>4. into = "strings" => x \in Strings \ {EmptyString}
  BY <1>2, <1>3, StringsAssumption DEF IsCall
<1>5. /\ IsVal(Ids, Str(x)) /\ IsCall(Ids, Got(Str(x))) /\ IsTodo(Ids, <<Got(Str(x))>>)
  BY PlainVals, CallKinds, ShortTodos
<1>6. \/ Become(<<Got(Str(x))>>) /\ NoTables
      \/ /\ into = "strings" /\ made /\ strTable' = Append(strTable, Str(x))
         /\ Become(<<Got(Str(x))>>) /\ UNCHANGED <<objTable, traitTable, made, version, out>>
      \/ /\ objTable' = Append(objTable, Str(x))
         /\ Become(<<Got(Str(x))>>) /\ UNCHANGED <<strTable, traitTable, made, version, out>>
      \/ Make([kind |-> "bytes", text |-> x]) /\ Become(<<Got(Ref(Fresh))>>)
  BY DEF ReadContent
<1> HIDE DEF x, into
<1>7. CASE Become(<<Got(Str(x))>>) /\ NoTables
  <2>1. TableInv' /\ Ids' = Ids
    BY <1>7, NoTablesKeeps DEF IInv
  <2> QED
    BY <1>1, <1>5, <1>7, <2>1, ConsumeKeeps
<1>8. CASE /\ into = "strings" /\ made /\ strTable' = Append(strTable, Str(x))
           /\ Become(<<Got(Str(x))>>) /\ UNCHANGED <<objTable, traitTable, made, version, out>>
  <2> DEFINE T == {Str(s) : s \in Strings \ {EmptyString}}
             v == Str(x)
  <2>1. v \in T
    BY <1>4, <1>8
  <2>2. IsSeq(strTable) /\ \A i \in 1 .. Len(strTable) : strTable[i] \in T
    BY DEF IInv, TableInv
  <2>3. strTable' = Append(strTable, v)
    BY <1>8
  <2> HIDE DEF T, v
  <2>4. /\ IsSeq(strTable') /\ Len(strTable') = Len(strTable) + 1 /\ Len(strTable) \in Nat
        /\ \A i \in 1 .. Len(strTable) : strTable'[i] = strTable[i]
        /\ strTable'[Len(strTable) + 1] = v
    BY <2>2, <2>3, AppendFacts, SeqFacts
  <2>5. ASSUME NEW i \in 1 .. Len(strTable') PROVE strTable'[i] \in T
    <3>1. i = Len(strTable) + 1 \/ i \in 1 .. Len(strTable)
      BY <2>4
    <3> QED
      BY <2>1, <2>2, <2>4, <3>1
  <2>6. TableInv' /\ Ids' = Ids
    BY <1>8, <2>4, <2>5 DEF IInv, TableInv, Ids, T
  <2> QED
    BY <1>1, <1>5, <1>8, <2>6, ConsumeKeeps
<1>9. CASE /\ objTable' = Append(objTable, Str(x))
           /\ Become(<<Got(Str(x))>>) /\ UNCHANGED <<strTable, traitTable, made, version, out>>
  <2>1. IsSeq(objTable') /\ \A i \in 1 .. Len(objTable') : IsVal(Ids, objTable'[i])
    BY <1>5, <1>9, AppendVals DEF IInv, TableInv
  <2>2. TableInv' /\ Ids' = Ids
    BY <1>9, <2>1 DEF IInv, TableInv, Ids
  <2> QED
    BY <1>1, <1>5, <1>9, <2>2, ConsumeKeeps
<1>10. CASE Make([kind |-> "bytes", text |-> x]) /\ Become(<<Got(Ref(Fresh))>>)
  <2> DEFINE object == [kind |-> "bytes", text |-> x]
  <2>1. Make(object) /\ Become(<<Got(Ref(Fresh))>>)
    BY <1>10
  <2> HIDE DEF object
  <2> QED
    BY <1>1, <2>1, FreshTodo, ConsumeMakes
<1> QED
  BY <1>6, <1>7, <1>8, <1>9, <1>10

----------------------------------------------------------------------------
(* Exceptions.                                                             *)
LEMMA RaisesInPlace ==
    ASSUME IInv, stack # << >>, UNCHANGED pos, NEW error \in Errors, Raise(error) PROVE IInv'
<1>1. InSource(pos')
  BY RunningFacts DEF IInv
<1> QED
  BY <1>1, RaiseKeeps

LEMMA RaisingKeeps ==
    ASSUME IInv,
           \/ SourceEnds \/ Garbled \/ BadMarker \/ NegativeLength
           \/ CreateFails \/ ExternalRaises \/ Undefined \/ StampFails
    PROVE  IInv'
<1>1. {"RangeError", "RuntimeError", "ArgumentError", "NameError", "raised",
       "garbled", "undefined"} \subseteq Errors
  BY DEF Errors
<1>2. CASE SourceEnds
  <2>1. UNCHANGED pos /\ Raise("RangeError") /\ stack # << >>
    BY <1>2 DEF SourceEnds, Waiting
  <2> QED
    BY <1>1, <2>1, RaisesInPlace
<1>3. CASE Garbled
  <2>1. UNCHANGED pos /\ Raise("garbled") /\ stack # << >>
    BY <1>3 DEF Garbled, Waiting
  <2> QED
    BY <1>1, <2>1, RaisesInPlace
<1>4. CASE BadMarker
  <2>1. Ready("value") /\ pos' = pos + 1 /\ Raise("RuntimeError") /\ "value" \in Reads
    BY <1>4 DEF BadMarker, Consume, Reads, Words
  <2> QED
    BY <1>1, <2>1, ConsumeRaises
<1>5. CASE NegativeLength
  <2>1. /\ {"string", "xml", "bytes", "vector"} \subseteq Reads
        /\ \E op \in {"string", "xml", "bytes", "vector"} : Ready(op) /\ pos' = pos + 1
        /\ \E error \in {"RangeError", "ArgumentError"} : Raise(error)
    BY <1>5 DEF NegativeLength, Consume, Reads, Words, Headers
  <2> QED
    BY <1>1, <2>1, ConsumeRaises
<1>6. CASE CreateFails
  <2>1. UNCHANGED pos /\ Raise("NameError") /\ stack # << >>
    BY <1>6 DEF CreateFails, Reading
  <2> QED
    BY <1>1, <2>1, RaisesInPlace
<1>7. CASE ExternalRaises
  <2>1. UNCHANGED pos /\ Raise("raised") /\ stack # << >>
    BY <1>7 DEF ExternalRaises, External, Reading
  <2> QED
    BY <1>1, <2>1, RaisesInPlace
<1>8. CASE Undefined
  <2>1. UNCHANGED pos /\ Raise("undefined") /\ stack # << >>
    BY <1>8 DEF Undefined, Ready, Reading, Taking
  <2> QED
    BY <1>1, <2>1, RaisesInPlace
<1>9. CASE StampFails
  <2>1. /\ {"stamp", "zone"} \subseteq Reads
        /\ \E op \in {"stamp", "zone"} : Ready(op) /\ pos' = pos + 1
        /\ Raise("RangeError")
    BY <1>9 DEF StampFails, Consume, Reads, U16s, Doubles
  <2> QED
    BY <1>1, <2>1, ConsumeRaises
<1> QED
  BY <1>2, <1>3, <1>4, <1>5, <1>6, <1>7, <1>8, <1>9

----------------------------------------------------------------------------
(* Objects.                                                                *)
LEMMA SwitchKeeps == ASSUME IInv, SwitchToAMF3 PROVE IInv'
<1>1. /\ Consume("value") /\ "value" \in Reads /\ "value" # "ahead"
      /\ Become(<<Value(3)>>)
  BY DEF SwitchToAMF3, Reads, Words
<1>2. /\ version' = 3 /\ strTable' = << >> /\ traitTable' = << >>
      /\ UNCHANGED <<objTable, out>>
  BY DEF SwitchToAMF3
<1>3. Ids' = Ids
  BY <1>2 DEF Ids
<1>4. IsSeq(<< >>) /\ Len(<< >>) = 0
  BY ShortSeqs
<1>5. TableInv'
  BY <1>2, <1>3, <1>4 DEF IInv, TableInv
<1>6. IsTodo(Ids, <<Value(3)>>)
  BY CallKinds, ShortTodos
<1> QED
  BY <1>1, <1>3, <1>5, <1>6, ConsumeKeeps

LEMMA HeaderKeeps == ASSUME IInv, ReadObjectHeader PROVE IInv'
<1> DEFINE c == [op |-> "traits", external |-> (Length \div 2) % 2 = 1,
                 dynamic |-> (Length \div 4) % 2 = 1,
                 count |-> Length \div 8, names |-> << >>]
           d == [op |-> "create", ver |-> 3, traits |-> traitTable[(Length \div 2) + 1]]
<1>1. Consume("object") /\ "object" \in Reads /\ "object" \in Words /\ "object" # "ahead"
  BY DEF ReadObjectHeader, Reads, Words, Headers
<1>2. \/ Become(<<Read("string"), c>>) /\ NoTables
      \/ Raise("RangeError")
      \/ /\ Length \div 2 < Len(traitTable) /\ Length >= 0
         /\ Become(<<d>>) /\ NoTables
  <2>1. Length \in Int /\ Len(traitTable) \in Nat
    BY <1>1, TokenFacts, SeqFacts DEF IInv, Consume, TableInv
  <2>2. Length \div 2 >= Len(traitTable) \/ Length \div 2 < Len(traitTable)
    BY <2>1
  <2> QED
    BY <2>2 DEF ReadObjectHeader
<1>3. CASE Become(<<Read("string"), c>>) /\ NoTables
  <2>1. IsCall(Ids, Read("string"))
    BY CallKinds DEF PlainReads
  <2>2. IsCall(Ids, c)
    BY ShortSeqs DEF IsCall
  <2>3. TableInv' /\ Ids' = Ids
    BY <1>3, NoTablesKeeps DEF IInv
  <2> HIDE DEF c
  <2>4. IsTodo(Ids, <<Read("string"), c>>)
    BY <2>1, <2>2, ShortTodos
  <2> QED
    BY <1>1, <1>3, <2>3, <2>4, ConsumeKeeps
<1>4. CASE Raise("RangeError")
  <2>1. Ready("object") /\ pos' = pos + 1 /\ "RangeError" \in Errors
    BY <1>1 DEF Consume, Errors
  <2> QED
    BY <1>1, <1>4, <2>1, ConsumeRaises
<1>5. CASE /\ Length \div 2 < Len(traitTable) /\ Length >= 0
           /\ Become(<<d>>) /\ NoTables
  <2>1. Length \in Int /\ Len(traitTable) \in Nat
    BY <1>1, TokenFacts, SeqFacts DEF IInv, Consume, TableInv
  <2>2. (Length \div 2) + 1 \in 1 .. Len(traitTable)
    <3> HIDE DEF c, d
    <3> DEFINE n == Length
               m == Len(traitTable)
    <3>1. n \in Int /\ m \in Nat /\ n >= 0 /\ n \div 2 < m
      BY <1>5, <2>1
    <3> HIDE DEF n, m
    <3>2. (n \div 2) + 1 \in 1 .. m
      BY <3>1
    <3> QED
      BY <3>2 DEF n, m
  <2>3. IsTraits(traitTable[(Length \div 2) + 1])
    BY <2>2 DEF IInv, TableInv
  <2>4. IsCall(Ids, d)
    BY <2>3, CallKinds
  <2> HIDE DEF d
  <2> QED
    BY <1>1, <1>5, <2>4, OneCallKeeps
<1> QED
  BY <1>2, <1>3, <1>4, <1>5

(* A step of the program's own code, or of the mapper, at the same place.  *)
LEMMA StaysKeeps ==
    ASSUME IInv, NEW op, Reading(op), op \notin Above, pos' \in {pos, srcPos},
           Ids \subseteq Ids', TableInv', NEW todo, IsTodo(Ids', todo), Become(todo)
    PROVE  IInv'
<1>1. InSource(pos')
  BY RunningFacts DEF IInv, Reading
<1> QED
  BY <1>1, BecomeKeeps DEF IInv

LEMMA ReadCollectionKeeps == ASSUME IInv, ReadCollection PROVE IInv'
<1>1. /\ Reading("create") /\ "create" \notin Above /\ pos' = pos
      /\ Become(<<Value(3), Read("collection")>>) /\ NoTables
  BY DEF ReadCollection, Above
<1>2. TableInv' /\ Ids' = Ids
  BY <1>1, NoTablesKeeps DEF IInv
<1>3. IsTodo(Ids, <<Value(3), Read("collection")>>)
  BY CallKinds, ShortTodos DEF PlainReads
<1> QED
  BY <1>1, <1>2, <1>3, StaysKeeps

LEMMA PropertiesTodo ==
    ASSUME NEW ids, NEW id, NEW t, IsTraits(t)
    PROVE  IsTodo(ids, Each(Value(3), [i \in DOMAIN t.members |->
                                         Assign(id, "props", Str(t.members[i]))])
                       \o (IF t.dynamic THEN <<Read("string"), KeyOf(id)>> ELSE << >>))
<1> DEFINE n == Len(t.members)
           s == [i \in DOMAIN t.members |-> Assign(id, "props", Str(t.members[i]))]
           u == IF t.dynamic THEN <<Read("string"), KeyOf(id)>> ELSE << >>
<1>1. n \in Nat /\ DOMAIN t.members = 1 .. n
  BY SeqFacts DEF IsTraits
<1>2. s = [i \in 1 .. n |-> s[i]] /\ \A i \in 1 .. n : s[i] = Assign(id, "props", Str(t.members[i]))
  <2> HIDE DEF n
  <2> QED
    BY <1>1
<1>3. IsTodo(ids, u)
  <2>1. IsTodo(ids, <<Read("string"), KeyOf(id)>>) /\ IsTodo(ids, << >>)
    BY CallKinds, ShortTodos DEF PlainReads
  <2> QED
    BY <2>1
<1>4. IsCall(ids, Value(3))
  BY CallKinds
<1>5. \A i \in 1 .. n : IsCall(ids, s[i])
  BY <1>2, CallKinds
<1> HIDE DEF n, s, u
<1>6. IsTodo(ids, Each(Value(3), s))
  BY <1>1, <1>2, <1>4, <1>5, CountedTodo
<1>7. IsTodo(ids, Each(Value(3), s) \o u)
  BY <1>3, <1>6, ConcatTodo
<1> QED
  BY <1>7 DEF s, u

LEMMA CreateKeeps == ASSUME IInv, CreateInstance PROVE IInv'
<1> DEFINE t == Head(stack).traits
           id == Fresh
           properties ==
             IF Head(stack).ver = 0 THEN <<Props(Fresh, "props")>>
             ELSE Each(Value(3), [i \in DOMAIN t.members |->
                                    Assign(Fresh, "props", Str(t.members[i]))])
                  \o (IF t.dynamic THEN <<Read("string"), KeyOf(Fresh)>> ELSE << >>)
           last == [op |-> "populate", id |-> Fresh]
           code == IF RubyClass \in DOMAIN Externals THEN Externals[RubyClass] ELSE <<"raise">>
           external == [op |-> "external", id |-> Fresh, calls |-> code]
<1>1. /\ Reading("create") /\ "create" \notin Above /\ "create" # "ahead"
      /\ UNCHANGED pos /\ Make(Created)
      /\ \/ /\ srcPos' = pos /\ stack' = <<external>> \o Tail(stack)
            /\ UNCHANGED <<source, outcome>>
         \/ Become(properties \o <<last>>)
  BY DEF CreateInstance, Above
<1>2. TableInv' /\ Ids \subseteq Ids' /\ Fresh \in Ids'
  BY <1>1, MakeKeeps DEF IInv
<1>3. IsTraits(t) /\ stack # << >>
  <2>1. IsCall(Ids, Head(stack)) /\ Head(stack).op = "create" /\ stack # << >>
    <3> DEFINE create == "create"
    <3>1. Reading(create) /\ create # "ahead"
      BY <1>1
    <3> HIDE DEF create
    <3>2. IsCall(Ids, Head(stack)) /\ Head(stack).op = create /\ stack # << >>
      BY <3>1, ReadingFacts DEF IInv
    <3> QED
      BY <3>2 DEF create
  <2> QED
    BY <2>1 DEF IsCall
<1>4. InSource(pos)
  BY <1>3, RunningFacts DEF IInv
<1>5. IsTodo(Ids', properties \o <<last>>) /\ IsTodo(Ids', <<external>>)
  <2> DEFINE ids == Ids'
             code1 == code
  <2>1. id \in ids
    BY <1>2
  <2>2. IsTodo(ids, properties)
    <3>1. IsTodo(ids, <<Props(Fresh, "props")>>)
      <4> HIDE DEF ids, id
      <4> QED
        BY CallKinds, ShortTodos
    <3>2. IsTodo(ids, Each(Value(3), [i \in DOMAIN t.members |->
                                        Assign(id, "props", Str(t.members[i]))])
                      \o (IF t.dynamic THEN <<Read("string"), KeyOf(id)>> ELSE << >>))
      <4> HIDE DEF ids, id, t
      <4> QED
        BY <1>3, PropertiesTodo
    <3> QED
      BY <3>1, <3>2
  <2>3. IsTodo(ids, <<last>>) /\ IsTodo(ids, <<external>>)
    <3>1. IsCall(ids, [op |-> "populate", id |-> id])
          /\ IsCall(ids, [op |-> "external", id |-> id, calls |-> code1])
      <4> HIDE DEF ids, id, code1
      <4> QED
        BY <2>1, CallKinds
    <3>2. IsCall(ids, last) /\ IsCall(ids, external)
      BY <3>1
    <3> HIDE DEF ids, last, external
    <3> QED
      BY <3>2, ShortTodos
  <2> HIDE DEF ids, properties, last, external
  <2>4. IsTodo(ids, properties \o <<last>>)
    BY <2>2, <2>3, ConcatTodo
  <2> QED
    BY <2>3, <2>4 DEF ids
<1> HIDE DEF properties, last, external
<1>6. CASE Become(properties \o <<last>>)
  BY <1>1, <1>2, <1>5, <1>6, StaysKeeps
<1>7. CASE /\ srcPos' = pos /\ stack' = <<external>> \o Tail(stack)
           /\ UNCHANGED <<source, outcome>>
  <2>1. StackInv'
    BY <1>1, <1>2, <1>5, <1>7, TopKeeps DEF IInv
  <2>2. SourceInv'
    BY <1>1, <1>3, <1>4, <1>7, SameSource DEF IInv
  <2> QED
    BY <1>2, <2>1, <2>2 DEF IInv
<1> QED
  BY <1>1, <1>6, <1>7

LEMMA PopulateKeeps == ASSUME IInv, Populate PROVE IInv'
<1> DEFINE id == Head(stack).id
<1>1. /\ Reading("populate") /\ "populate" \notin Above /\ "populate" # "ahead"
      /\ UNCHANGED pos
      /\ \/ Raise("ArgumentError")
         \/ /\ out' = [out EXCEPT ![id].pairs = out[id].props, ![id].props = << >>]
            /\ Become(<<Got(Ref(id))>>)
            /\ UNCHANGED <<tables, version>>
  BY DEF Populate, Above
<1>2. id \in Ids /\ stack # << >>
  <2>1. IsCall(Ids, Head(stack)) /\ Head(stack).op = "populate" /\ stack # << >>
    <3> DEFINE populate == "populate"
    <3>1. Reading(populate) /\ populate # "ahead"
      BY <1>1
    <3> HIDE DEF populate
    <3>2. IsCall(Ids, Head(stack)) /\ Head(stack).op = populate /\ stack # << >>
      BY <3>1, ReadingFacts DEF IInv
    <3> QED
      BY <3>2 DEF populate
  <2> QED
    BY <2>1 DEF IsCall
<1>3. CASE Raise("ArgumentError")
  <2>1. "ArgumentError" \in Errors
    BY DEF Errors
  <2> QED
    BY <1>1, <1>2, <1>3, <2>1, RaisesInPlace
<1>4. CASE /\ out' = [out EXCEPT ![id].pairs = out[id].props, ![id].props = << >>]
           /\ Become(<<Got(Ref(id))>>)
           /\ UNCHANGED <<tables, version>>
  <2>1. DOMAIN out' = DOMAIN out /\ out' = [i \in DOMAIN out |-> out'[i]]
    BY <1>4
  <2>2. Len(out) \in Nat /\ DOMAIN out = 1 .. Len(out)
    BY SeqFacts DEF IInv, TableInv
  <2>3. IsSeq(out') /\ Len(out') = Len(out)
    BY <2>1, <2>2, FunctionIsSeq
  <2>4. TableInv' /\ Ids' = Ids
    BY <1>4, <2>2, <2>3, OutKeeps DEF IInv, TableInv, Ids
  <2> HIDE DEF id
  <2>5. IsTodo(Ids, <<Got(Ref(id))>>)
    BY <1>2, PlainVals, CallKinds, ShortTodos
  <2> QED
    BY <1>1, <1>4, <2>4, <2>5, StaysKeeps
<1> QED
  BY <1>1, <1>3, <1>4

----------------------------------------------------------------------------
(* read_external.                                                          *)
LEMMA ExternalFacts ==
    ASSUME IInv, Reading("external")
    PROVE  /\ "external" \notin Above /\ stack # << >>
           /\ Head(stack).id \in Ids /\ IsCall(Ids, Rest)
<1> DEFINE external == "external"
<1>1. Reading(external) /\ external # "ahead" /\ external \notin Above
  BY DEF Above
<1> HIDE DEF external
<1>2. IsCall(Ids, Head(stack)) /\ Head(stack).op = external /\ stack # << >>
  BY <1>1, ReadingFacts DEF IInv
<1> USE DEF external
<1>3. /\ Head(stack).id \in Ids
      /\ Head(stack) = [op |-> "external", id |-> Head(stack).id, calls |-> Head(stack).calls]
  BY <1>2 DEF IsCall
<1> DEFINE h == Head(stack)
<1>4. h = [op |-> "external", id |-> h.id, calls |-> h.calls] /\ h.id \in Ids
  BY <1>3
<1> DEFINE t == Tail(h.calls)
<1>5. Rest = [h EXCEPT !.calls = t]
  BY DEF Rest
<1> HIDE DEF h, t
<1>6. Rest = [op |-> "external", id |-> h.id, calls |-> t]
  BY <1>4, <1>5
<1>7. IsCall(Ids, [op |-> "external", id |-> h.id, calls |-> t])
  BY <1>4, CallKinds
<1>8. IsCall(Ids, Rest)
  BY <1>6, <1>7
<1> QED
  BY <1>1, <1>2, <1>3, <1>8

LEMMA ExternalKeeps ==
    ASSUME IInv, ExternalReads \/ ExternalSkips \/ ExternalReturns PROVE IInv'
<1>1. Reading("external") /\ NoTables
  BY DEF ExternalReads, ExternalSkips, ExternalReturns, External
<1>2. /\ "external" \notin Above /\ stack # << >>
      /\ Head(stack).id \in Ids /\ IsCall(Ids, Rest)
  BY <1>1, ExternalFacts
<1>3. TableInv' /\ Ids' = Ids
  BY <1>1, NoTablesKeeps DEF IInv
<1>4. CASE ExternalReads
  <2> DEFINE todo == <<Value(version), Read("return"), Rest>>
  <2>1. Become(todo) /\ pos' = srcPos
    BY <1>4 DEF ExternalReads
  <2>2. IsCall(Ids, Value(version)) /\ IsCall(Ids, Read("return"))
    BY CallKinds DEF PlainReads
  <2>3. IsTodo(Ids, todo)
    BY <1>2, <2>2, ShortTodos
  <2> HIDE DEF todo
  <2> QED
    BY <1>1, <1>2, <1>3, <2>1, <2>3, StaysKeeps
<1>5. CASE ExternalSkips
  <2>1. /\ stack' = <<Rest>> \o Tail(stack) /\ UNCHANGED <<source, pos, outcome>>
        /\ srcPos' = IF srcPos < Len(source.tokens) THEN srcPos + 1 ELSE srcPos
    BY <1>5 DEF ExternalSkips
  <2>2. IsTodo(Ids, <<Rest>>)
    BY <1>2, ShortTodos
  <2>3. StackInv'
    BY <1>1, <1>2, <1>3, <2>1, <2>2, TopKeeps DEF IInv
  <2>4. InSource(srcPos) /\ InSource(pos) /\ Len(source.tokens) \in Nat
    BY <1>2, RunningFacts DEF IInv
  <2>5. InSource(srcPos') /\ InSource(pos')
    BY <2>1, <2>4 DEF InSource
  <2>6. SourceInv'
    BY <1>2, <2>1, <2>5, SameSource DEF IInv
  <2> QED
    BY <1>3, <2>3, <2>6 DEF IInv
<1>6. CASE ExternalReturns
  <2> DEFINE id == Head(stack).id
  <2>1. Become(<<Got(Ref(id))>>) /\ pos' = srcPos
    BY <1>6 DEF ExternalReturns
  <2>2. id \in Ids
    BY <1>2
  <2> HIDE DEF id
  <2>3. IsTodo(Ids, <<Got(Ref(id))>>)
    BY <2>2, PlainVals, CallKinds, ShortTodos
  <2> QED
    BY <1>1, <1>2, <1>3, <2>1, <2>3, StaysKeeps
<1> QED
  BY <1>4, <1>5, <1>6

----------------------------------------------------------------------------
(* The calls of the program, and their end.                                *)
LEMMA ReturnKeeps == ASSUME IInv, Return PROVE IInv'
<1>1. /\ Taking("return") /\ srcPos' = pos /\ stack' = Tail(Tail(stack))
      /\ UNCHANGED <<source, pos, version, tables, out, failure, calls>>
  BY DEF Return, ReturnAt
<1>2. TableInv' /\ Ids' = Ids
  BY <1>1, SameTables DEF IInv, TableInv
<1>3. stack # << >> /\ (Tail(Tail(stack)) # << >> => IsStack(Ids, Tail(Tail(stack))))
  BY <1>1, TakingFacts DEF IInv
<1>4. StackInv'
  BY <1>1, <1>2, <1>3 DEF StackInv
<1>5. IsSource(source) /\ InSource(pos)
  BY <1>3, RunningFacts DEF IInv
<1>6. SourceInv'
  BY <1>1, <1>5 DEF IInv, SourceInv, InSource
<1> QED
  BY <1>2, <1>4, <1>6 DEF IInv

LEMMA FirstStack == ASSUME NEW ids, NEW ver PROVE IsStack(ids, <<Value(ver), Read("return")>>)
<1> DEFINE c == Value(ver)
           d == Read("return")
<1>1. IsCall(ids, c) /\ IsCall(ids, d) /\ d.op = "return"
  BY CallKinds DEF PlainReads, Read
<1> HIDE DEF c, d
<1>2. IsTodo(ids, <<c, d>>)
  BY <1>1, ShortTodos
<1>3. EndsAtReturn(<<c, d>>)
  BY <1>1, ShortSeqs DEF EndsAtReturn
<1> QED
  BY <1>2, <1>3 DEF c, d, IsStack

LEMMA BeginKeeps ==
    ASSUME TableInv, NEW ver \in {0, 3}, Begin(ver), version' = ver
    PROVE  TableInv' /\ StackInv' /\ failure' \in Errors /\ stack' # << >>
<1>1. IsSeq(<< >>) /\ Len(<< >>) = 0
  BY ShortSeqs
<1>2. TableInv'
  BY <1>1 DEF TableInv, Begin
<1>3. IsStack(Ids', stack') /\ stack' # << >>
  BY FirstStack DEF Begin
<1> QED
  BY <1>2, <1>3 DEF StackInv, Begin, Errors

LEMMA DeserializeKeeps ==
    ASSUME IInv, calls' \in 0 .. MaxCalls, NEW src \in Sources \cup LaterSources, Deserialize(src)
    PROVE  IInv'
<1>1. IsSource(src)
  BY FastDeserializerAssumption
<1>2. /\ version' = src.ver /\ source' = src /\ srcPos' = src.at /\ pos' = src.at /\ stack = << >>
      /\ \/ Begin(src.ver)
         \/ failure' = "RangeError" /\ UNCHANGED <<tables, out, stack>>
  BY DEF Deserialize, CallOfProgram
<1>3. src.ver \in {0, 3} /\ src.at \in 0 .. Len(src.tokens)
  BY <1>1 DEF IsSource
<1>4. failure' \in Errors => SourceInv'
  BY <1>1, <1>2, <1>3 DEF SourceInv, InSource
<1>5. CASE Begin(src.ver)
  BY <1>2, <1>3, <1>4, <1>5, BeginKeeps DEF IInv
<1>6. CASE failure' = "RangeError" /\ UNCHANGED <<tables, out, stack>>
  <2>1. TableInv'
    BY <1>2, <1>3, <1>6, SameTables DEF IInv
  <2>2. StackInv' /\ failure' \in Errors
    BY <1>2, <1>6 DEF StackInv, Errors
  <2> QED
    BY <1>4, <2>1, <2>2 DEF IInv
<1> QED
  BY <1>2, <1>5, <1>6

LEMMA CallKeeps == ASSUME IInv, Call PROVE IInv'
<1>1. calls' \in 0 .. MaxCalls
  BY FastDeserializerAssumption DEF Call, IInv, SourceInv
<1>2. CASE \E src \in Sources \cup LaterSources : Deserialize(src)
  BY <1>1, <1>2, DeserializeKeeps
<1>3. CASE \E ver \in {0, 3} : DeserializeMore(ver)
  <2> PICK ver \in {0, 3} : DeserializeMore(ver)
    BY <1>3
  <2>1. /\ source # NoSource /\ version' = ver /\ Begin(ver)
        /\ UNCHANGED <<source, srcPos, pos>>
    BY DEF DeserializeMore
  <2>2. IsSource(source) /\ InSource(srcPos) /\ InSource(pos)
    BY <2>1 DEF IInv, SourceInv
  <2>3. TableInv' /\ StackInv' /\ failure' \in Errors
    BY <2>1, <2>2, BeginKeeps DEF IInv
  <2>4. SourceInv'
    BY <1>1, <2>1, <2>2, <2>3 DEF SourceInv, InSource
  <2> QED
    BY <2>3, <2>4 DEF IInv
<1>4. CASE ReadObject
  <2>1. /\ source # NoSource /\ pos' = srcPos /\ stack' = <<Value(version), Read("return")>>
        /\ failure' = "none" /\ UNCHANGED <<source, srcPos, version, tables, out>>
    BY <1>4 DEF ReadObject
  <2>2. TableInv' /\ Ids' = Ids
    BY <2>1, SameTables DEF IInv, TableInv
  <2>3. StackInv'
    BY <2>1, FirstStack DEF StackInv
  <2>4. SourceInv'
    BY <1>1, <2>1 DEF IInv, SourceInv, InSource, Errors
  <2> QED
    BY <2>2, <2>3, <2>4 DEF IInv
<1>5. CASE \E ver \in {0, 3} : DeserializeRejected(ver)
  <2>1. /\ version' \in {0, 3} /\ failure' = "refused" /\ stack = << >>
        /\ UNCHANGED <<source, srcPos, pos, tables, out, stack>>
    BY <1>5 DEF DeserializeRejected, CallOfProgram
  <2>2. TableInv'
    BY <2>1, SameTables DEF IInv
  <2>3. StackInv' /\ SourceInv'
    BY <1>1, <2>1 DEF IInv, StackInv, SourceInv, InSource, Errors
  <2> QED
    BY <2>2, <2>3 DEF IInv
<1> QED
  BY <1>2, <1>3, <1>4, <1>5 DEF Call

----------------------------------------------------------------------------
LEMMA InitIInv == ASSUME Init PROVE IInv
<1>1. IsSeq(<< >>) /\ Len(<< >>) = 0
  BY ShortSeqs
<1> QED
  BY <1>1, FastDeserializerAssumption
  DEF Init, IInv, SourceInv, StackInv, TableInv, Errors

LEMMA StepKeeps == ASSUME IInv, Step PROVE IInv'
<1>1. CASE Return \/ SourceEnds \/ Garbled \/ Undefined \/ BadMarker \/ NegativeLength
        \/ CreateFails \/ ExternalRaises \/ StampFails
  BY <1>1, ReturnKeeps, RaisingKeeps
<1>2. CASE ReadValue0 \/ ReadValue3 \/ SwitchToAMF3
  BY <1>2, MarkerKeeps, SwitchKeeps
<1>3. CASE ReadSize("size16", Token.u16) \/ ReadSize("size32", Token.u32)
  BY <1>3, SizeKeeps
<1>4. CASE ReadBoolean \/ ReadDouble \/ ReadU32 \/ ReadInteger \/ ReadStamp0 \/ ReadTime \/ ReadByte
  BY <1>4, ScalarKeeps, ByteKeeps
<1>5. CASE ReadReference0 \/ (\E op \in Headers : ReadReference(op))
  BY <1>5, ReferenceKeeps
<1>6. CASE ReadProps \/ ReadAhead \/ TakeProp \/ TakeAssign \/ TakeKey \/ TakeEntryKey
             \/ TakeIgnored \/ TakeTyped \/ TakeCollection \/ TakeTraits \/ TakeArrayStart
  BY <1>6, PropsKeeps, AheadKeeps, PropKeeps, AssignKeeps, KeyKeeps, EntryKeeps, IgnoredKeeps,
     TypedKeeps, CollectionKeeps, TraitsKeeps, ArrayStartKeeps
<1>7. CASE ReadHash0 \/ ReadArray0 \/ ReadStamp \/ ReadDict \/ ReadVector
  BY <1>7, MakingKeeps
<1>8. CASE ReadZone \/ ReadArray \/ ReadText("string", "strings") \/ ReadText("xml", "objects")
             \/ ReadBytes \/ ReadContent
  BY <1>8, ZoneKeeps, ArrayKeeps, TextKeeps, ContentKeeps
<1>9. CASE ReadObjectHeader \/ ReadCollection \/ CreateInstance \/ Populate
             \/ ExternalReads \/ ExternalSkips \/ ExternalReturns
  BY <1>9, HeaderKeeps, ReadCollectionKeeps, CreateKeeps, PopulateKeeps, ExternalKeeps
<1> QED
  BY <1>1, <1>2, <1>3, <1>4, <1>5, <1>6, <1>7, <1>8, <1>9 DEF Step

LEMMA IInvAlways == Spec => []IInv
<1>1. Init => IInv
  BY InitIInv
<1>2. IInv /\ [Next]_vars => IInv'
  <2> SUFFICES ASSUME IInv, [Next]_vars PROVE IInv'
    OBVIOUS
  <2>1. CASE Call
    BY <2>1, CallKeeps
  <2>2. CASE Step
    BY <2>2, StepKeeps
  <2>3. CASE UNCHANGED vars
    BY <2>3 DEF vars, tables, outcome, IInv, SourceInv, StackInv, TableInv, Ids, InSource
  <2> QED
    BY <2>1, <2>2, <2>3 DEF Next
<1> QED
  BY <1>1, <1>2, PTL DEF Spec

(* Whatever the source holds, and whatever user code does in between: no   *)
(* read goes beyond the source, the table of strings holds strings that    *)
(* are not empty, the table of objects refers to objects that were made,   *)
(* and tables that were not made are empty.                                *)
THEOREM TypeOKAlways == Spec => []TypeOK
<1>1. IInv => TypeOK
  <2> SUFFICES ASSUME IInv PROVE TypeOK
    OBVIOUS
  <2>1. /\ DOMAIN strTable = 1 .. Len(strTable) /\ DOMAIN objTable = 1 .. Len(objTable)
        /\ DOMAIN out = 1 .. Len(out)
    BY SeqFacts DEF IInv, TableInv
  <2>2. \A i \in DOMAIN objTable : Is("ref", objTable[i]) => objTable[i].ref \in DOMAIN out
    BY <2>1 DEF IInv, TableInv, IsVal, Ids
  <2>3. \A i \in DOMAIN strTable : strTable[i] \in {Str(s) : s \in Strings \ {EmptyString}}
    <3> DEFINE T == {Str(s) : s \in Strings \ {EmptyString}}
    <3>1. \A i \in 1 .. Len(strTable) : strTable[i] \in T
      BY DEF IInv, TableInv
    <3> HIDE DEF T
    <3>2. \A i \in DOMAIN strTable : strTable[i] \in T
      BY <2>1, <3>1
    <3> QED
      BY <3>2 DEF T
  <2> QED
    BY <2>2, <2>3 DEF IInv, SourceInv, TableInv, InSource, Errors, TypeOK
<1> QED
  BY <1>1, IInvAlways, PTL
=============================================================================
