------------------------- MODULE DeserializerProofs -------------------------
(***************************************************************************)
(* Proofs about Deserializer, for every source and every MappingSet.       *)
(*                                                                         *)
(* What is left to do belongs to the message being read: each value it     *)
(* holds, and each value stored in an object the message has made, is      *)
(* either no reference or one to an object of the same message, since the  *)
(* only references are those to the newest object and those of the table,  *)
(* and the table has the objects of the message, in the order in which     *)
(* they were made.                                                         *)
(*                                                                         *)
(* What a stream of messages makes of the reader needs a second argument.  *)
(* Framing says what such a stream wants at each of its tokens.  The stack *)
(* says what the reader wants: each call on it wants some items, and its   *)
(* tables say how much the message has sent.  While a message is read the  *)
(* two agree (ReadInv), so no token is one the reader does not expect, a   *)
(* message is over for the stream exactly when its object reaches the      *)
(* bottom of the stack, and no error of the reader's own but the end of    *)
(* the source can stop it.                                                 *)
(****************************************************************************)
EXTENDS Deserializer, StackLemmas

Ids == before + 1 .. Len(out)

IsVal(ids, v) == Is("ref", v) => v.ref \in ids

(* Entries of a Hash, or properties read so far.                           *)
IsEntries(ids, pairs) ==
    IsSeq(pairs) /\ \A i \in 1 .. Len(pairs) : IsVal(ids, pairs[i][1]) /\ IsVal(ids, pairs[i][2])

IsElems(ids, elems) == IsSeq(elems) /\ \A i \in 1 .. Len(elems) : IsVal(ids, elems[i])

Hashes == {"hash", "typed", "object"}

IsMade(ids, x) ==
    /\ Is("kind", x) /\ x.kind \in Kinds
    /\ x.kind = "array" => Is("elems", x) /\ IsElems(ids, x.elems)
    /\ x.kind \in Hashes => Is("pairs", x) /\ IsEntries(ids, x.pairs)
    /\ Is("props", x) => IsEntries(ids, x.props)

(* What is left to do.                                                     *)
IsCall(ids, objs, c) ==
    \/ c.op \in Words \cup Doubles \cup {"octets", "message", "caller"}
    \/ c.op = "content" /\ c.length # 0
    \/ c.op = "got" /\ IsVal(ids, c.value)
    \/ /\ c.op = "assign" /\ c.id \in ids
       /\ c.field \in {"elems", "pairs", "props"} /\ IsVal(ids, c.key)
    \/ c.op = "key" /\ c.id \in ids /\ c.field \in {"pairs", "props"}
    \/ c.op = "entry" /\ c.id \in ids
    \/ c.op = "populate" /\ c.id \in ids /\ Is("props", objs[c.id])
    \/ /\ c.op = "traits" /\ IsSeq(c.names)
       /\ c = [op |-> c.op, dynamic |-> c.dynamic, count |-> c.count, names |-> c.names]
    \/ c.op = "create" /\ IsSeq(c.traits.members)
    \/ c.op = "arrayStart" /\ c.length \in Int

Bottom == {"message", "caller"}
Errors == {"AMFError", "AMFErrorIncomplete", "NoMethodError", "ArgumentError",
           "FloatDomainError", "mapper"}

IsStack(ids, objs, s) == IsSeq(s) /\ \A i \in 1 .. Len(s) : IsCall(ids, objs, s[i])
EndsAtCaller(s)       == s # << >> /\ s[Len(s)].op \in Bottom

SourceInv ==
    /\ source = NoSource \/ IsSource(source)
    /\ pc = "reading" => IsSource(source)
    /\ pos \in 0 .. Len(source) /\ start \in 0 .. Len(source)
    /\ calls \in 0 .. MaxCalls
    /\ failure \in {"none"} \cup Errors
    /\ pc \in {"idle", "reading", "returned", "read", "raised", "garbled"}
    /\ pc # "reading" => stack = << >>

StackInv == stack # << >> => IsStack(Ids, out, stack) /\ EndsAtCaller(stack)

HeapInv ==
    /\ IsSeq(out) /\ before \in 0 .. Len(out)
    /\ \A i \in 1 .. Len(out) : out[i].kind \in Kinds
    /\ \A i \in Ids : IsMade(Ids, out[i])
    /\ tableObjects = [i \in 1 .. Len(out) - before |-> before + i]

TextInv ==
    /\ IsSeq(tableStrings)
    /\ \A i \in 1 .. Len(tableStrings) : tableStrings[i] \in Strings \ {EmptyString}
    /\ IsSeq(tableTraits)
    /\ \A i \in 1 .. Len(tableTraits) : IsSeq(tableTraits[i].members)

IInv == SourceInv /\ StackInv /\ HeapInv /\ TextInv

----------------------------------------------------------------------------
(* Sequences.                                                              *)
LEMMA SubSeqFacts ==
    ASSUME NEW s, IsSeq(s), NEW n \in 0 .. Len(s)
    PROVE  /\ IsSeq(SubSeq(s, 1, n)) /\ Len(SubSeq(s, 1, n)) = n
           /\ \A i \in 1 .. n : SubSeq(s, 1, n)[i] = s[i]
<1>1. PICK S : s \in Seq(S)
  BY DEF IsSeq
<1>2. Len(s) \in Nat /\ n \in Nat /\ n <= Len(s) /\ \A i \in 1 .. Len(s) : s[i] \in S
  BY <1>1
<1>3. SubSeq(s, 1, n) = [i \in 1 .. n |-> s[i]]
  BY <1>1, <1>2
<1> DEFINE t == [i \in 1 .. n |-> s[i]]
<1>4. DOMAIN t = 1 .. n /\ t = [i \in 1 .. n |-> t[i]] /\ \A i \in 1 .. n : t[i] = s[i]
  OBVIOUS
<1> HIDE DEF t
<1>5. IsSeq(t) /\ Len(t) = n
  BY <1>2, <1>4, FunctionIsSeq
<1> QED
  BY <1>3, <1>4, <1>5 DEF t

LEMMA SourceFacts ==
    ASSUME NEW src, IsSource(src)
    PROVE  /\ IsSeq(src) /\ Len(src) \in Nat /\ DOMAIN src = 1 .. Len(src)
           /\ \A i \in 1 .. Len(src) : IsToken(src[i])
  BY RangeSeq, SeqFacts DEF IsSource

LEMMA ConcatStack ==
    ASSUME NEW ids, NEW objs, NEW s, IsStack(ids, objs, s), NEW t, IsStack(ids, objs, t)
    PROVE  IsStack(ids, objs, s \o t)
<1>1. IsSeq(s \o t)
  BY ConcatFacts DEF IsStack
<1>2. ASSUME NEW i \in 1 .. Len(s \o t) PROVE IsCall(ids, objs, (s \o t)[i])
  BY ConcatEntries DEF IsStack
<1> QED
  BY <1>1, <1>2 DEF IsStack

LEMMA ShortStacks ==
    ASSUME NEW ids, NEW objs
    PROVE  /\ IsStack(ids, objs, << >>)
           /\ \A c : IsCall(ids, objs, c) => IsStack(ids, objs, <<c>>)
           /\ \A c, d : IsCall(ids, objs, c) /\ IsCall(ids, objs, d)
                          => IsStack(ids, objs, <<c, d>>)
<1>1. IsStack(ids, objs, << >>)
  BY ShortSeqs, SeqFacts DEF IsStack
<1>2. ASSUME NEW c, IsCall(ids, objs, c) PROVE IsStack(ids, objs, <<c>>)
  BY <1>2, ShortSeqs DEF IsStack
<1>3. ASSUME NEW c, NEW d, IsCall(ids, objs, c), IsCall(ids, objs, d)
      PROVE  IsStack(ids, objs, <<c, d>>)
  <2> DEFINE s == <<c, d>>
  <2>1. IsSeq(s) /\ Len(s) = 2 /\ s[1] = c /\ s[2] = d
    BY ShortSeqs
  <2>2. \A i \in 1 .. 2 : i = 1 \/ i = 2
    OBVIOUS
  <2> HIDE DEF s
  <2>3. IsStack(ids, objs, s)
    BY <1>3, <2>1, <2>2 DEF IsStack
  <2> QED
    BY <2>3 DEF s
<1> QED
  BY <1>1, <1>2, <1>3

LEMMA TailStack ==
    ASSUME NEW ids, NEW objs, NEW s, IsStack(ids, objs, s), EndsAtCaller(s),
           Head(s).op \notin Bottom
    PROVE  /\ IsStack(ids, objs, Tail(s)) /\ EndsAtCaller(Tail(s))
           /\ IsCall(ids, objs, Head(s))
           /\ Len(s) > 1 /\ Head(Tail(s)) = s[2]
<1>1. /\ IsSeq(s) /\ s # << >> /\ Len(s) \in Nat /\ Len(s) > 0
      /\ Head(s) = s[1] /\ IsSeq(Tail(s)) /\ Len(Tail(s)) = Len(s) - 1
      /\ \A i \in 1 .. Len(s) - 1 : Tail(s)[i] = s[i + 1]
  BY SeqFacts DEF IsStack, EndsAtCaller
<1>2. \A i \in 1 .. Len(s) - 1 : i + 1 \in 1 .. Len(s)
  BY <1>1
<1>3. IsStack(ids, objs, Tail(s))
  BY <1>1, <1>2 DEF IsStack
<1>4. Tail(s) # << >>
  BY <1>1, TailLast DEF EndsAtCaller
<1>5. Len(s) > 1 /\ EndsAtCaller(Tail(s))
  BY <1>1, <1>4, TailLast DEF EndsAtCaller
<1>6. IsCall(ids, objs, Head(s))
  <2>1. 1 \in 1 .. Len(s)
    BY <1>1
  <2> QED
    BY <1>1, <2>1 DEF IsStack
<1>7. Head(Tail(s)) = s[2]
  <2>1. Head(Tail(s)) = Tail(s)[1]
    BY <1>1, <1>4, SeqFacts
  <2>2. 1 \in 1 .. Len(s) - 1 /\ 1 + 1 = 2
    BY <1>1, <1>5
  <2>3. Tail(s)[1] = s[1 + 1]
    BY <1>1, <2>2
  <2> QED
    BY <2>1, <2>2, <2>3
<1> QED
  BY <1>3, <1>5, <1>6, <1>7

(* More objects, and properties of those there are, leave a call one.      *)
Extends(ids, objs, more, later) ==
    /\ ids \subseteq more
    /\ \A id \in ids : Is("props", objs[id]) => Is("props", later[id])

LEMMA ExtendedCall ==
    ASSUME NEW ids, NEW objs, NEW more, NEW later, Extends(ids, objs, more, later),
           NEW c, IsCall(ids, objs, c)
    PROVE  IsCall(more, later, c)
<1>1. \A v : IsVal(ids, v) => IsVal(more, v)
  BY DEF Extends, IsVal
<1>2. CASE c.op = "populate" /\ c.id \in ids /\ Is("props", objs[c.id])
  BY <1>2 DEF IsCall, Extends
<1>3. CASE c.op = "traits" /\ IsSeq(c.names)
           /\ c = [op |-> c.op, dynamic |-> c.dynamic, count |-> c.count, names |-> c.names]
  BY <1>3 DEF IsCall
<1>4. CASE c.op \notin {"populate", "traits"}
  BY <1>1, <1>4 DEF IsCall, Extends
<1> QED
  BY <1>2, <1>3, <1>4 DEF IsCall

LEMMA ExtendedStack ==
    ASSUME NEW ids, NEW objs, NEW more, NEW later, Extends(ids, objs, more, later),
           NEW s, IsStack(ids, objs, s)
    PROVE  IsStack(more, later, s)
  BY ExtendedCall DEF IsStack

LEMMA CallKinds ==
    ASSUME NEW ids, NEW objs
    PROVE  /\ \A op \in Words \cup Doubles \cup Bottom : IsCall(ids, objs, Read(op))
           /\ \A n : n # 0 => IsCall(ids, objs, Sized("content", n))
           /\ \A n : IsCall(ids, objs, Sized("octets", n))
           /\ \A n \in Int : IsCall(ids, objs, Sized("arrayStart", n))
           /\ \A v : IsVal(ids, v) => IsCall(ids, objs, Got(v))
           /\ \A id \in ids, field \in {"elems", "pairs", "props"} : \A key :
                IsVal(ids, key) => IsCall(ids, objs, Assign(id, field, key))
           /\ \A id \in ids, field \in {"pairs", "props"} :
                IsCall(ids, objs, KeyOf(id, field))
<1>1. ASSUME NEW op \in Words \cup Doubles \cup Bottom PROVE IsCall(ids, objs, Read(op))
  BY DEF Read, IsCall, Bottom
<1>2. ASSUME NEW n PROVE /\ n # 0 => IsCall(ids, objs, Sized("content", n))
                         /\ IsCall(ids, objs, Sized("octets", n))
                         /\ n \in Int => IsCall(ids, objs, Sized("arrayStart", n))
  BY DEF Sized, IsCall
<1>3. ASSUME NEW v, IsVal(ids, v) PROVE IsCall(ids, objs, Got(v))
  BY <1>3 DEF Got, IsCall
<1>4. ASSUME NEW id \in ids, NEW field \in {"elems", "pairs", "props"}, NEW key, IsVal(ids, key)
      PROVE  IsCall(ids, objs, Assign(id, field, key))
  BY <1>4 DEF Assign, IsCall
<1>5. ASSUME NEW id \in ids, NEW field \in {"pairs", "props"}
      PROVE  IsCall(ids, objs, KeyOf(id, field))
  BY DEF KeyOf, IsCall
<1> QED
  BY <1>1, <1>2, <1>3, <1>4, <1>5

LEMMA PlainVals ==
    ASSUME NEW ids
    PROVE  /\ IsVal(ids, Nil) /\ IsVal(ids, True) /\ IsVal(ids, False)
           /\ \A n : IsVal(ids, Num(n))
           /\ \A s : IsVal(ids, Str(s))
           /\ \A id \in ids : IsVal(ids, Ref(id))
<1>1. IsVal(ids, Nil) /\ IsVal(ids, True) /\ IsVal(ids, False)
  BY DEF IsVal, Is, Nil, True, False
<1>2. \A n : IsVal(ids, Num(n))
  BY DEF IsVal, Is, Num
<1>3. \A s : IsVal(ids, Str(s))
  BY DEF IsVal, Is, Str
<1>4. \A id \in ids : IsVal(ids, Ref(id))
  BY DEF IsVal, Is, Ref
<1> QED
  BY <1>1, <1>2, <1>3, <1>4

LEMMA EachStack ==
    ASSUME NEW ids, NEW objs, NEW n \in Nat, NEW s, s = [i \in 1 .. n |-> s[i]],
           \A i \in 1 .. n : IsCall(ids, objs, s[i])
    PROVE  IsStack(ids, objs, Each(s))
<1> DEFINE Item(i) == IF i % 2 = 1 THEN Read("value") ELSE s[i \div 2]
           t == [i \in 1 .. 2 * n |-> Item(i)]
<1>1. DOMAIN s = 1 .. n
  OBVIOUS
<1>2. IsSeq(s) /\ Len(s) = n
  BY <1>1, FunctionIsSeq
<1>3. Each(s) = t
  BY <1>2 DEF Each
<1>4. ASSUME NEW i \in 1 .. 2 * n PROVE IsCall(ids, objs, Item(i))
  <2>1. CASE i % 2 = 1
    <3>1. Item(i) = Read("value")
      BY <2>1
    <3> HIDE DEF Item
    <3> QED
      BY <3>1, CallKinds DEF Words
  <2>2. CASE i % 2 # 1
    <3>1. i \div 2 \in 1 .. n
      BY <2>2
    <3> QED
      BY <2>2, <3>1
  <2> QED
    BY <2>1, <2>2
<1>5. 2 * n \in Nat /\ DOMAIN t = 1 .. 2 * n /\ t = [i \in 1 .. 2 * n |-> t[i]]
      /\ \A i \in 1 .. 2 * n : t[i] = Item(i)
  OBVIOUS
<1> HIDE DEF t, Item
<1>6. IsSeq(t) /\ Len(t) = 2 * n
  BY <1>5, FunctionIsSeq
<1> QED
  BY <1>3, <1>4, <1>5, <1>6 DEF IsStack

(* A count that is negative stands for none.                               *)
LEMMA CountedStack ==
    ASSUME NEW ids, NEW objs, NEW n \in Int, NEW s, s = [i \in 1 .. n |-> s[i]],
           \A i \in 1 .. n : IsCall(ids, objs, s[i])
    PROVE  IsStack(ids, objs, Each(s))
<1>1. CASE n \in Nat
  BY <1>1, EachStack
<1>2. CASE n < 0
  <2>1. 1 .. n = 1 .. 0
    BY <1>2
  <2>2. s = [i \in 1 .. 0 |-> s[i]] /\ \A i \in 1 .. 0 : IsCall(ids, objs, s[i])
    BY <2>1
  <2> QED
    BY <2>2, EachStack
<1> QED
  BY <1>1, <1>2

LEMMA ValuesStack ==
    ASSUME NEW ids, NEW objs, NEW n \in Int, NEW id \in ids,
           NEW field \in {"elems", "pairs", "props"}
    PROVE  IsStack(ids, objs, Values(id, field, n))
<1> DEFINE s == [i \in 1 .. n |-> Assign(id, field, Num(i - 1))]
<1>1. s = [i \in 1 .. n |-> s[i]] /\ \A i \in 1 .. n : s[i] = Assign(id, field, Num(i - 1))
  OBVIOUS
<1>2. Values(id, field, n) = Each(s)
  BY DEF Values
<1> HIDE DEF s
<1>3. ASSUME NEW i \in 1 .. n PROVE IsCall(ids, objs, s[i])
  <2>1. s[i] = Assign(id, field, Num(i - 1)) /\ IsVal(ids, Num(i - 1))
    BY <1>1, PlainVals
  <2> QED
    BY <2>1, CallKinds
<1> QED
  BY <1>1, <1>2, <1>3, CountedStack

----------------------------------------------------------------------------
(* Steps of a message being read.                                          *)
LEMMA StackKeeps ==
    ASSUME NEW ids, NEW objs, NEW more, NEW later, Extends(ids, objs, more, later),
           NEW rest, IsStack(ids, objs, rest), EndsAtCaller(rest),
           NEW todo, IsStack(more, later, todo)
    PROVE  IsStack(more, later, todo \o rest) /\ EndsAtCaller(todo \o rest)
<1>1. IsStack(more, later, rest)
  BY ExtendedStack
<1>2. IsStack(more, later, todo \o rest)
  BY <1>1, ConcatStack
<1>3. EndsAtCaller(todo \o rest)
  BY <1>1, ConcatLast DEF IsStack, EndsAtCaller
<1> QED
  BY <1>2, <1>3

LEMMA RestFacts ==
    ASSUME StackInv, NEW op, Reading(op), op \notin Bottom
    PROVE  /\ IsStack(Ids, out, Tail(stack)) /\ EndsAtCaller(Tail(stack))
           /\ IsCall(Ids, out, Head(stack)) /\ Head(stack).op = op
           /\ stack[2] = Head(Tail(stack))
<1>1. IsStack(Ids, out, stack) /\ EndsAtCaller(stack) /\ Head(stack).op = op
  BY DEF StackInv, Reading
<1> QED
  BY <1>1, TailStack

LEMMA TakeFacts ==
    ASSUME StackInv, NEW op, Taking(op), op \notin Bottom
    PROVE  /\ IsStack(Ids, out, Tail(Tail(stack))) /\ EndsAtCaller(Tail(Tail(stack)))
           /\ IsCall(Ids, out, Caller) /\ Caller.op = op
           /\ IsVal(Ids, Taken) /\ IsCall(Ids, out, Head(stack))
<1>1. /\ IsStack(Ids, out, Tail(stack)) /\ EndsAtCaller(Tail(stack))
      /\ IsCall(Ids, out, Head(stack)) /\ Head(stack).op = "got"
      /\ stack[2] = Head(Tail(stack)) /\ stack[2].op = op
  BY RestFacts DEF Taking, Bottom
<1>2. IsVal(Ids, Taken)
  BY <1>1 DEF IsCall, Taken, Words, Doubles
<1> QED
  BY <1>1, <1>2, TailStack DEF Caller

LEMMA BecomeKeeps ==
    ASSUME SourceInv, StackInv, NEW op, Reading(op), op \notin Bottom,
           Extends(Ids, out, Ids', out'), pos' \in 0 .. Len(source),
           NEW todo, IsStack(Ids', out', todo), Become(todo)
    PROVE  SourceInv' /\ StackInv'
<1>1. IsStack(Ids', out', stack') /\ EndsAtCaller(stack')
  BY RestFacts, StackKeeps DEF Become
<1>2. StackInv'
  BY <1>1 DEF StackInv, EndsAtCaller
<1>3. SourceInv'
  BY DEF SourceInv, Become, result, Reading
<1> QED
  BY <1>2, <1>3

LEMMA TakeKeeps ==
    ASSUME SourceInv, StackInv, NEW op, Taking(op), op \notin Bottom,
           Extends(Ids, out, Ids', out'),
           NEW todo, IsStack(Ids', out', todo), Take(todo)
    PROVE  SourceInv' /\ StackInv'
<1>1. IsStack(Ids', out', stack') /\ EndsAtCaller(stack')
  BY TakeFacts, StackKeeps DEF Take
<1>2. StackInv'
  BY <1>1 DEF StackInv, EndsAtCaller
<1>3. SourceInv'
  BY DEF SourceInv, Take, result, Taking, Reading
<1> QED
  BY <1>2, <1>3

(* The objects of the message.                                             *)
LEMMA IdsFacts ==
    ASSUME HeapInv
    PROVE  /\ Len(out) \in Nat /\ before \in Nat /\ before <= Len(out)
           /\ Ids \subseteq 1 .. Len(out) /\ DOMAIN out = 1 .. Len(out)
           /\ DOMAIN tableObjects = 1 .. Len(out) - before
           /\ \A i \in DOMAIN tableObjects : tableObjects[i] \in Ids
<1>1. Len(out) \in Nat /\ DOMAIN out = 1 .. Len(out)
  BY SeqFacts DEF HeapInv
<1>2. before \in 0 .. Len(out) /\ tableObjects = [i \in 1 .. Len(out) - before |-> before + i]
  BY DEF HeapInv
<1>3. \A i \in 1 .. Len(out) - before : before + i \in Ids
  BY <1>1, <1>2 DEF Ids
<1>4. Ids \subseteq 1 .. Len(out)
  BY <1>1, <1>2 DEF Ids
<1> QED
  BY <1>1, <1>2, <1>3, <1>4

LEMMA SameHeap ==
    ASSUME HeapInv, UNCHANGED <<out, before, tableObjects>>
    PROVE  HeapInv' /\ Ids' = Ids /\ Extends(Ids, out, Ids', out')
<1>1. Ids' = Ids
  BY DEF Ids
<1> QED
  BY <1>1 DEF HeapInv, Extends

LEMMA IsMadeExtended ==
    ASSUME NEW ids, NEW more, ids \subseteq more, NEW x, IsMade(ids, x)
    PROVE  IsMade(more, x)
<1>1. \A v : IsVal(ids, v) => IsVal(more, v)
  BY DEF IsVal
<1>2. \A s : IsEntries(ids, s) => IsEntries(more, s)
  BY <1>1 DEF IsEntries
<1>3. \A s : IsElems(ids, s) => IsElems(more, s)
  BY <1>1 DEF IsElems
<1> QED
  BY <1>2, <1>3 DEF IsMade

(* A new object is the newest of the message and the last of the table.    *)
LEMMA MakeKeeps ==
    ASSUME HeapInv, UNCHANGED before, NEW object, Make(object), IsMade(Ids', object)
    PROVE  /\ HeapInv' /\ Extends(Ids, out, Ids', out')
           /\ Fresh \in Ids' /\ out'[Fresh] = object
<1>1. /\ IsSeq(out') /\ Len(out') = Len(out) + 1 /\ out'[Len(out) + 1] = object
      /\ \A i \in 1 .. Len(out) : out'[i] = out[i]
  BY AppendFacts DEF HeapInv, Make
<1>2. /\ Len(out) \in Nat /\ before \in Nat /\ before <= Len(out)
      /\ Ids \subseteq 1 .. Len(out) /\ DOMAIN tableObjects = 1 .. Len(out) - before
  BY IdsFacts
<1>3. Ids' = Ids \cup {Fresh}
  BY <1>1, <1>2 DEF Ids, Fresh
<1>4. before' \in 0 .. Len(out')
  BY <1>1, <1>2
<1>5. ASSUME NEW i \in 1 .. Len(out') PROVE out'[i].kind \in Kinds
  <2>1. i = Len(out) + 1 \/ i \in 1 .. Len(out)
    BY <1>1, <1>2
  <2> QED
    BY <1>1, <2>1 DEF HeapInv, IsMade
<1>6. ASSUME NEW i \in Ids' PROVE IsMade(Ids', out'[i])
  <2>1. CASE i = Fresh
    BY <1>1, <2>1 DEF Fresh
  <2>2. CASE i \in Ids
    <3>1. IsMade(Ids, out[i]) /\ out'[i] = out[i] /\ Ids \subseteq Ids'
      BY <1>1, <1>2, <1>3, <2>2 DEF HeapInv
    <3> QED
      BY <3>1, IsMadeExtended
  <2> QED
    BY <1>3, <2>1, <2>2
<1>7. tableObjects' = [i \in 1 .. Len(out') - before' |-> before' + i]
  <2> DEFINE n == Len(out) - before
             t == tableObjects
  <2>1. n \in Nat /\ Len(out') - before' = n + 1 /\ Fresh = before + (n + 1)
    BY <1>1, <1>2 DEF Fresh
  <2>2. t = [i \in 1 .. n |-> before + i]
    BY DEF HeapInv
  <2>3. t' = Append(t, Fresh)
    BY DEF Make
  <2> HIDE DEF n, t
  <2>4. t \in Seq(Nat) /\ Len(t) = n
    <3>1. t \in [1 .. n -> Nat]
      BY <1>2, <2>1, <2>2
    <3> QED
      BY <2>1, <3>1
  <2>5. Fresh \in Nat
    BY <1>2 DEF Fresh
  <2>6. t' \in Seq(Nat) /\ Len(t') = n + 1 /\ t'[n + 1] = Fresh
        /\ \A i \in 1 .. n : t'[i] = t[i]
    BY <2>1, <2>3, <2>4, <2>5
  <2>7. t' = [i \in 1 .. n + 1 |-> t'[i]]
    BY <2>6
  <2>8. ASSUME NEW i \in 1 .. n + 1 PROVE t'[i] = before + i
    <3>1. i = n + 1 \/ i \in 1 .. n
      BY <2>1
    <3> QED
      BY <2>1, <2>2, <2>6, <3>1
  <2>9. t' = [i \in 1 .. n + 1 |-> before + i]
    BY <2>7, <2>8
  <2> QED
    BY <2>1, <2>9 DEF t
<1>8. HeapInv'
  BY <1>1, <1>4, <1>5, <1>6, <1>7 DEF HeapInv
<1>9. Extends(Ids, out, Ids', out')
  BY <1>1, <1>2, <1>3 DEF Extends
<1> QED
  BY <1>1, <1>3, <1>8, <1>9 DEF Fresh

(* One object of the message is given another content.                     *)
LEMMA UpdateKeeps ==
    ASSUME HeapInv, UNCHANGED <<before, tableObjects>>,
           NEW id \in Ids, NEW x, out' = [out EXCEPT ![id] = x],
           IsMade(Ids, x), Is("props", out[id]) => Is("props", x)
    PROVE  HeapInv' /\ Ids' = Ids /\ Extends(Ids, out, Ids', out')
<1>1. /\ Len(out) \in Nat /\ before \in Nat /\ before <= Len(out)
      /\ Ids \subseteq 1 .. Len(out) /\ DOMAIN out = 1 .. Len(out)
  BY IdsFacts
<1>2. /\ DOMAIN out' = 1 .. Len(out) /\ out' = [i \in 1 .. Len(out) |-> out'[i]]
      /\ out'[id] = x /\ \A i \in 1 .. Len(out) : i # id => out'[i] = out[i]
  BY <1>1
<1>3. IsSeq(out') /\ Len(out') = Len(out)
  BY <1>1, <1>2, FunctionIsSeq
<1>4. Ids' = Ids
  BY <1>3 DEF Ids
<1>5. \A i \in 1 .. Len(out) : out'[i].kind \in Kinds
  BY <1>2 DEF HeapInv, IsMade
<1>6. \A i \in Ids : IsMade(Ids, out'[i])
  BY <1>1, <1>2 DEF HeapInv
<1>7. \A i \in Ids : Is("props", out[i]) => Is("props", out'[i])
  BY <1>1, <1>2
<1>8. HeapInv'
  BY <1>3, <1>4, <1>5, <1>6 DEF HeapInv
<1>9. Extends(Ids, out, Ids', out')
  BY <1>4, <1>7 DEF Extends
<1> QED
  BY <1>4, <1>8, <1>9

----------------------------------------------------------------------------
(* Entries.                                                                *)
LEMMA AppendEntries ==
    ASSUME NEW ids
    PROVE  /\ \A elems, v : IsElems(ids, elems) /\ IsVal(ids, v)
                              => IsElems(ids, Append(elems, v))
           /\ \A pairs, p : IsEntries(ids, pairs) /\ IsVal(ids, p[1]) /\ IsVal(ids, p[2])
                              => IsEntries(ids, Append(pairs, p))
<1>1. ASSUME NEW s, IsSeq(s), NEW x, NEW i \in 1 .. Len(Append(s, x))
      PROVE  Append(s, x)[i] = x \/ (i \in 1 .. Len(s) /\ Append(s, x)[i] = s[i])
  <2>1. Len(s) \in Nat
    BY <1>1, SeqFacts
  <2>2. i = Len(s) + 1 \/ i \in 1 .. Len(s)
    BY <1>1, <2>1, AppendFacts
  <2> QED
    BY <1>1, <2>2, AppendFacts
<1>2. ASSUME NEW elems, NEW v, IsElems(ids, elems), IsVal(ids, v)
      PROVE  IsElems(ids, Append(elems, v))
  BY <1>1, <1>2, AppendFacts DEF IsElems
<1>3. ASSUME NEW pairs, NEW p, IsEntries(ids, pairs), IsVal(ids, p[1]), IsVal(ids, p[2])
      PROVE  IsEntries(ids, Append(pairs, p))
  BY <1>1, <1>3, AppendFacts DEF IsEntries
<1> QED
  BY <1>2, <1>3

LEMMA StoredEntries ==
    ASSUME NEW ids, NEW h, NEW pairs, IsEntries(ids, pairs),
           NEW key, IsVal(ids, key), NEW value, IsVal(ids, value)
    PROVE  IsEntries(ids, StoredIn(h, pairs, key, value))
<1> DEFINE same == {i \in DOMAIN pairs : SameKey(h, pairs[i][1], key)}
           Entry_(i) == IF i \in same THEN <<pairs[i][1], value>> ELSE pairs[i]
           t == [i \in DOMAIN pairs |-> Entry_(i)]
<1>1. StoredIn(h, pairs, key, value) = IF same = {} THEN Append(pairs, <<key, value>>) ELSE t
  BY DEF StoredIn
<1> HIDE DEF same
<1>2. IsEntries(ids, Append(pairs, <<key, value>>))
  BY AppendEntries
<1>3. Len(pairs) \in Nat /\ DOMAIN pairs = 1 .. Len(pairs)
  BY SeqFacts DEF IsEntries
<1>4. ASSUME NEW i \in 1 .. Len(pairs)
      PROVE  IsVal(ids, Entry_(i)[1]) /\ IsVal(ids, Entry_(i)[2])
  <2>1. IsVal(ids, pairs[i][1]) /\ IsVal(ids, pairs[i][2])
    BY DEF IsEntries
  <2> QED
    BY <2>1
<1>5. /\ DOMAIN t = 1 .. Len(pairs) /\ t = [i \in 1 .. Len(pairs) |-> t[i]]
      /\ \A i \in 1 .. Len(pairs) : t[i] = Entry_(i)
  BY <1>3
<1> HIDE DEF t, Entry_
<1>6. IsSeq(t) /\ Len(t) = Len(pairs)
  BY <1>3, <1>5, FunctionIsSeq
<1>7. IsEntries(ids, t)
  BY <1>4, <1>5, <1>6 DEF IsEntries
<1> QED
  BY <1>1, <1>2, <1>7

(* What object_deserialize takes of the properties.                        *)
LEMMA TakenEntries ==
    ASSUME NEW ids, NEW object, NEW props, IsEntries(ids, props)
    PROVE  \E pairs : /\ IsEntries(ids, pairs)
                      /\ ObjectDeserialize(object, props) = [object EXCEPT !.pairs = pairs]
<1> DEFINE Stored_(p) ==
             \/ object.kind = "typed"
             \/ IF p[1].str \in Setters[object.class]
                THEN object.kind = "object"
                ELSE object.class \in HashLike
           n == Len(props)
           T == {s \in Seq({props[i] : i \in DOMAIN props}) : IsEntries(ids, s)}
           F == [x \in T \X (1 .. n) |->
                   IF Stored_(props[x[2]]) THEN Append(x[1], props[x[2]]) ELSE x[1]]
           Rec(h) == h = [m \in 0 .. n |->
                            IF m = 0 THEN << >>
                            ELSE IF Stored_(props[m]) THEN Append(h[m - 1], props[m]) ELSE h[m - 1]]
           taken == CHOOSE h : Rec(h)
<1>1. ObjectDeserialize(object, props) = [object EXCEPT !.pairs = taken[n]]
  BY DEF ObjectDeserialize
<1>2. n \in Nat /\ DOMAIN props = 1 .. n
  BY SeqFacts DEF IsEntries
<1>3. << >> \in T
  <2>1. IsEntries(ids, << >>)
    BY ShortSeqs, SeqFacts DEF IsEntries
  <2> QED
    BY <2>1
<1>4. ASSUME NEW s \in T, NEW m \in 1 .. n PROVE Append(s, props[m]) \in T
  <2>1. props[m] \in {props[i] : i \in DOMAIN props}
    BY <1>2
  <2>2. IsVal(ids, props[m][1]) /\ IsVal(ids, props[m][2])
    BY DEF IsEntries
  <2>3. IsEntries(ids, Append(s, props[m]))
    BY <2>2, AppendEntries
  <2> QED
    BY <2>1, <2>3
<1> HIDE DEF T, n, Stored_
<1>5. F \in StepOver(n, T)
  <2>1. ASSUME NEW x \in T \X (1 .. n)
        PROVE  (IF Stored_(props[x[2]]) THEN Append(x[1], props[x[2]]) ELSE x[1]) \in T
    BY <1>4
  <2> QED
    BY <2>1 DEF StepOver
<1>6. PICK h \in [0 .. n -> T] : Solves(h, n, << >>, F)
  BY <1>2, <1>3, <1>5, RecursionSolved
<1>7. \A s \in T, m \in 1 .. n :
        F[<<s, m>>] = IF Stored_(props[m]) THEN Append(s, props[m]) ELSE s
  OBVIOUS
<1> HIDE DEF F
<1>8. ASSUME NEW m \in 0 .. n
      PROVE  h[m] = IF m = 0 THEN << >>
                    ELSE IF Stored_(props[m]) THEN Append(h[m - 1], props[m]) ELSE h[m - 1]
  <2>1. CASE m = 0
    BY <1>6, <2>1 DEF Solves
  <2>2. CASE m # 0
    <3>1. m \in 1 .. n /\ m - 1 \in 0 .. n
      BY <1>2, <2>2
    <3>2. h[m] = F[<<h[m - 1], m>>]
      BY <1>6, <3>1 DEF Solves
    <3> QED
      BY <1>6, <1>7, <2>2, <3>1, <3>2
  <2> QED
    BY <2>1, <2>2
<1>9. Rec(h)
  <2>1. h = [m \in 0 .. n |-> h[m]]
    BY <1>6
  <2> QED
    BY <1>8, <2>1
<1>10. Rec(taken)
  BY <1>9
<1> HIDE DEF taken
<1>11. /\ taken[0] = << >>
       /\ \A m \in 1 .. n : taken[m] = IF Stored_(props[m]) THEN Append(taken[m - 1], props[m])
                                                            ELSE taken[m - 1]
  <2>1. 0 \in 0 .. n /\ \A m \in 1 .. n : m \in 0 .. n /\ m # 0
    BY <1>2
  <2>2. \A m \in 0 .. n :
          taken[m] = IF m = 0 THEN << >>
                     ELSE IF Stored_(props[m]) THEN Append(taken[m - 1], props[m])
                                               ELSE taken[m - 1]
    BY <1>10
  <2> HIDE DEF Rec
  <2> QED
    BY <2>1, <2>2
<1> HIDE DEF Rec
<1>12. taken[n] \in T
  <2> DEFINE S == {m \in Nat : m <= n => taken[m] \in T}
  <2>1. 0 \in S
    BY <1>3, <1>11
  <2>2. ASSUME NEW m \in Nat, m \in S PROVE m + 1 \in S
    <3>1. CASE m + 1 <= n
      <4>1. taken[m] \in T /\ m + 1 \in 1 .. n /\ (m + 1) - 1 = m
        BY <1>2, <2>2, <3>1
      <4> QED
        BY <1>4, <1>11, <4>1
    <3>2. CASE ~(m + 1 <= n)
      BY <3>2
    <3> QED
      BY <3>1, <3>2
  <2>3. n \in S
    <3> HIDE DEF S
    <3> QED
      BY <1>2, <2>1, <2>2, SetInduction
  <2> QED
    BY <1>2, <2>3
<1> QED
  BY <1>1, <1>12 DEF T

(* An object stays one when its elements, entries or properties change.    *)
LEMMA UpdateMade ==
    ASSUME NEW ids, NEW x, IsMade(ids, x)
    PROVE  /\ \A s : IsElems(ids, s) => IsMade(ids, [x EXCEPT !.elems = s])
           /\ \A s : IsEntries(ids, s) => IsMade(ids, [x EXCEPT !.pairs = s])
           /\ \A s : IsEntries(ids, s) => IsMade(ids, [x EXCEPT !.props = s])
           /\ \A s, f : Is(f, [x EXCEPT !.pairs = s]) <=> Is(f, x)
           /\ \A s, f : Is(f, [x EXCEPT !.props = s]) <=> Is(f, x)
           /\ \A s, f : Is(f, [x EXCEPT !.elems = s]) <=> Is(f, x)
<1>1. ASSUME NEW s, NEW f
      PROVE  /\ Is(f, [x EXCEPT !.elems = s]) <=> Is(f, x)
             /\ Is(f, [x EXCEPT !.pairs = s]) <=> Is(f, x)
             /\ Is(f, [x EXCEPT !.props = s]) <=> Is(f, x)
  BY DEF Is
<1>2. ASSUME NEW s, IsElems(ids, s) PROVE IsMade(ids, [x EXCEPT !.elems = s])
  <2> DEFINE y == [x EXCEPT !.elems = s]
  <2>1. /\ y.kind = x.kind
        /\ Is("elems", x) => y.elems = s
        /\ Is("pairs", x) => y.pairs = x.pairs
        /\ Is("props", x) => y.props = x.props
    BY DEF IsMade, Is
  <2>2. \A f : Is(f, y) <=> Is(f, x)
    BY <1>1
  <2> HIDE DEF y
  <2>3. IsMade(ids, y)
    BY <1>2, <2>1, <2>2 DEF IsMade, Hashes
  <2> QED
    BY <2>3 DEF y
<1>3. ASSUME NEW s, IsEntries(ids, s) PROVE IsMade(ids, [x EXCEPT !.pairs = s])
  <2> DEFINE y == [x EXCEPT !.pairs = s]
  <2>1. /\ y.kind = x.kind
        /\ Is("pairs", x) => y.pairs = s
        /\ Is("elems", x) => y.elems = x.elems
        /\ Is("props", x) => y.props = x.props
    BY DEF IsMade, Is
  <2>2. \A f : Is(f, y) <=> Is(f, x)
    BY <1>1
  <2> HIDE DEF y
  <2>3. IsMade(ids, y)
    BY <1>3, <2>1, <2>2 DEF IsMade, Hashes
  <2> QED
    BY <2>3 DEF y
<1>4. ASSUME NEW s, IsEntries(ids, s) PROVE IsMade(ids, [x EXCEPT !.props = s])
  <2> DEFINE y == [x EXCEPT !.props = s]
  <2>1. /\ y.kind = x.kind
        /\ Is("props", x) => y.props = s
        /\ Is("elems", x) => y.elems = x.elems
        /\ Is("pairs", x) => y.pairs = x.pairs
    BY DEF IsMade, Is
  <2>2. \A f : Is(f, y) <=> Is(f, x)
    BY <1>1
  <2> HIDE DEF y
  <2>3. IsMade(ids, y)
    BY <1>4, <2>1, <2>2 DEF IsMade, Hashes
  <2> QED
    BY <2>3 DEF y
<1> QED
  BY <1>1, <1>2, <1>3, <1>4

----------------------------------------------------------------------------
(* Reads.                                                                  *)
Reads == Words \cup Octets \cup Doubles

LEMMA TokenFacts ==
    ASSUME SourceInv, NEW op \in Reads, Ready(op)
    PROVE  /\ pos + 1 \in 0 .. Len(source) /\ Reading(op) /\ op \notin Bottom
           /\ op \in Words => Token.word \in Nat /\ Length \in Int
           /\ op \in Octets => /\ Token.raw \in Strings
                               /\ ByteSize[Token.raw] = Head(stack).length
           /\ op \in Doubles => \A ids : IsVal(ids, Token.double)
<1>1. pc = "reading" /\ Head(stack).op = op /\ pos < Len(source) /\ Fits /\ Reading(op)
  BY DEF Ready, Reading
<1>2. Len(source) \in Nat /\ \A i \in 1 .. Len(source) : IsToken(source[i])
  BY <1>1, SourceFacts DEF SourceInv
<1>3. pos \in Nat /\ pos + 1 \in 1 .. Len(source) /\ pos + 1 \in 0 .. Len(source)
  BY <1>1, <1>2 DEF SourceInv
<1>4. IsToken(Token)
  BY <1>2, <1>3 DEF Token
<1>5. op \notin Bottom
  BY DEF Reads, Words, Octets, Doubles, Bottom
<1>6. /\ op \in Words => Needs[op] = "word"
      /\ op \in Octets => Needs[op] = "raw"
      /\ op \in Doubles => Needs[op] = "double"
  BY DEF Reads, Needs, Words, Octets, Doubles
<1>7. Is(Needs[op], Token) /\ (Is("raw", Token) => ByteSize[Token.raw] = Head(stack).length)
  BY <1>1 DEF Fits
<1>8. op \in Octets => Token.raw \in Strings /\ ByteSize[Token.raw] = Head(stack).length
  BY <1>4, <1>6, <1>7 DEF IsToken, Is
<1>9. op \in Doubles => \A ids : IsVal(ids, Token.double)
  <2>1. op \in Doubles => DOMAIN Token.double \in {{"num"}, {"float"}}
    BY <1>4, <1>6, <1>7 DEF IsToken, Is
  <2> QED
    BY <2>1 DEF IsVal, Is
<1>10. ASSUME op \in Words PROVE Token.word \in Nat /\ Length \in Int
  <2>1. Token.word \in Nat
    BY <1>4, <1>6, <1>7, <1>10 DEF IsToken, Is
  <2>2. Type \in Int
    BY <2>1 DEF Type, Signed
  <2> QED
    BY <2>1, <2>2 DEF Length
<1> QED
  BY <1>1, <1>3, <1>5, <1>8, <1>9, <1>10

LEMMA ConsumeKeeps ==
    ASSUME IInv, NEW op \in Reads, Consume(op),
           NEW todo, IsStack(Ids, out, todo), Become(todo),
           UNCHANGED <<out, tableObjects>>, TextInv'
    PROVE  IInv'
<1>1. Reading(op) /\ op \notin Bottom /\ pos' \in 0 .. Len(source)
  BY TokenFacts DEF IInv, Consume
<1>2. HeapInv' /\ Extends(Ids, out, Ids', out') /\ IsStack(Ids', out', todo)
  BY SameHeap DEF IInv, Become
<1> QED
  BY <1>1, <1>2, BecomeKeeps DEF IInv

LEMMA ConsumeMakes ==
    ASSUME IInv, NEW op \in Reads, Consume(op),
           NEW object, Make(object), IsMade(Ids', object),
           NEW todo, Fresh \in Ids' => IsStack(Ids', out', todo), Become(todo)
    PROVE  IInv'
<1>1. Reading(op) /\ op \notin Bottom /\ pos' \in 0 .. Len(source)
  BY TokenFacts DEF IInv, Consume
<1>2. HeapInv' /\ Extends(Ids, out, Ids', out') /\ Fresh \in Ids'
  BY MakeKeeps DEF IInv, Become
<1>3. TextInv'
  BY DEF IInv, TextInv, Make
<1> QED
  BY <1>1, <1>2, <1>3, BecomeKeeps DEF IInv

LEMMA SameTexts ==
    ASSUME TextInv, UNCHANGED <<tableStrings, tableTraits>> PROVE TextInv'
  BY DEF TextInv

LEMMA ReferenceIsVal ==
    ASSUME HeapInv, IsReference(tableObjects)
    PROVE  IsVal(Ids, Ref(tableObjects[Entry(tableObjects, Length)]))
<1>1. tableObjects[Entry(tableObjects, Length)] \in Ids
  BY IdsFacts DEF IsReference
<1> QED
  BY <1>1, PlainVals

LEMMA ReferenceKeeps ==
    ASSUME IInv, NEW op \in Words, ReadReference(op) PROVE IInv'
<1> DEFINE v == Ref(tableObjects[Entry(tableObjects, Length)])
<1>1. IsVal(Ids, v) /\ Become(<<Got(v)>>) /\ Consume(op) /\ op \in Reads
  BY ReferenceIsVal DEF IInv, ReadReference, Reads
<1> HIDE DEF v
<1>2. IsStack(Ids, out, <<Got(v)>>)
  BY <1>1, CallKinds, ShortStacks
<1>3. TextInv' /\ UNCHANGED <<out, tableObjects>>
  BY SameTexts DEF IInv, ReadReference, tables
<1> QED
  BY <1>1, <1>2, <1>3, ConsumeKeeps

(* Reads of a value that is no object.                                     *)
LEMMA ScalarKeeps ==
    ASSUME IInv, ReadMarker \/ ReadInteger \/ ReadNumber \/ ReadWeak PROVE IInv'
<1>1. UNCHANGED <<out, tableObjects>> /\ TextInv'
  BY SameTexts DEF IInv, ReadMarker, ReadInteger, ReadNumber, ReadWeak, tables
<1>2. CASE ReadMarker
  <2>1. PICK after \in AfterMarker : Become(<<after[2]>>)
    BY <1>2 DEF ReadMarker
  <2>2. after[2] \in {Got(Nil), Got(True), Got(False)} \cup {Read(op) : op \in Words \cup Doubles}
    BY DEF AfterMarker, Words, Doubles
  <2>3. IsCall(Ids, out, after[2])
    BY <2>2, CallKinds, PlainVals
  <2>4. Consume("value") /\ "value" \in Reads
    BY <1>2 DEF ReadMarker, Reads, Words
  <2> QED
    BY <1>1, <2>1, <2>3, <2>4, ShortStacks, ConsumeKeeps
<1>3. CASE ReadInteger
  <2> DEFINE v == Num(Signed(Token.word))
  <2>1. IsVal(Ids, v) /\ Become(<<Got(v)>>) /\ Consume("integer") /\ "integer" \in Reads
    BY <1>3, PlainVals DEF ReadInteger, Reads, Words
  <2> HIDE DEF v
  <2> QED
    BY <1>1, <2>1, CallKinds, ShortStacks, ConsumeKeeps
<1>4. CASE ReadNumber
  <2> DEFINE v == IF Token.double = Float(NaN) THEN Nil ELSE Token.double
  <2>1. Consume("double") /\ "double" \in Reads /\ "double" \in Doubles
    BY <1>4 DEF ReadNumber, Reads, Doubles
  <2>2. IsVal(Ids, Token.double)
    BY <2>1, TokenFacts DEF IInv, Consume
  <2>3. IsVal(Ids, v) /\ Become(<<Got(v)>>)
    BY <1>4, <2>2, PlainVals DEF ReadNumber
  <2> HIDE DEF v
  <2> QED
    BY <1>1, <2>1, <2>3, CallKinds, ShortStacks, ConsumeKeeps
<1>5. CASE ReadWeak
  <2>1. Become(<< >>) /\ Consume("weak") /\ "weak" \in Reads
    BY <1>5 DEF ReadWeak, Reads, Words
  <2> QED
    BY <1>1, <2>1, ShortStacks, ConsumeKeeps
<1> QED
  BY <1>2, <1>3, <1>4, <1>5

LEMMA StringKeeps == ASSUME IInv, ReadString \/ ReadContent PROVE IInv'
<1>1. CASE ReadString
  <2> DEFINE s == tableStrings[Entry(tableStrings, Length)]
             call == IF IsReference(tableStrings) THEN Got(Str(s))
                     ELSE IF Length > 0 THEN Sized("content", Length)
                     ELSE Got(Str(EmptyString))
  <2>1. Become(<<call>>) /\ Consume("string") /\ "string" \in Reads /\ "string" \in Words
    BY <1>1 DEF ReadString, StringHeader, Reads, Words
  <2>2. Length > 0 => Length # 0
    BY <2>1, TokenFacts DEF IInv, Consume
  <2>3. IsCall(Ids, out, call)
    <3>1. IsVal(Ids, Str(s)) /\ IsVal(Ids, Str(EmptyString))
      BY PlainVals
    <3> HIDE DEF s
    <3> QED
      BY <2>2, <3>1, CallKinds
  <2>4. UNCHANGED <<out, tableObjects>> /\ TextInv'
    BY <1>1, SameTexts DEF IInv, ReadString, StringHeader
  <2> HIDE DEF call
  <2> QED
    BY <2>1, <2>3, <2>4, ShortStacks, ConsumeKeeps
<1>2. CASE ReadContent
  <2>1. /\ Become(<<Got(Str(Token.raw))>>) /\ Consume("content")
        /\ "content" \in Reads /\ "content" \in Octets /\ Reading("content")
    BY <1>2 DEF ReadContent, Consume, Ready, Reads, Octets
  <2>2. Head(stack).length # 0
    <3>1. IsCall(Ids, out, Head(stack)) /\ Head(stack).op = "content"
      BY <2>1, RestFacts DEF IInv, Bottom
    <3> QED
      BY <3>1 DEF IsCall, Words, Doubles
  <2>3. Token.raw \in Strings \ {EmptyString}
    <3>1. Token.raw \in Strings /\ ByteSize[Token.raw] = Head(stack).length
      BY <2>1, TokenFacts DEF IInv, Consume
    <3> QED
      BY <2>2, <3>1, StringsAssumption
  <2>4. TextInv'
    <3> DEFINE x == Token.raw
    <3>1. tableStrings' = Append(tableStrings, x) /\ UNCHANGED tableTraits
      BY <1>2 DEF ReadContent
    <3>2. x \in Strings \ {EmptyString}
      BY <2>3
    <3> HIDE DEF x
    <3>3. /\ IsSeq(tableStrings') /\ Len(tableStrings') = Len(tableStrings) + 1
          /\ \A i \in 1 .. Len(tableStrings) : tableStrings'[i] = tableStrings[i]
          /\ tableStrings'[Len(tableStrings) + 1] = x /\ Len(tableStrings) \in Nat
      BY <3>1, AppendFacts, SeqFacts DEF IInv, TextInv
    <3>4. ASSUME NEW i \in 1 .. Len(tableStrings')
          PROVE  tableStrings'[i] \in Strings \ {EmptyString}
      <4>1. i = Len(tableStrings) + 1 \/ i \in 1 .. Len(tableStrings)
        BY <3>3
      <4> QED
        BY <3>2, <3>3, <4>1 DEF IInv, TextInv
    <3> QED
      BY <3>1, <3>3, <3>4 DEF IInv, TextInv
  <2>5. UNCHANGED <<out, tableObjects>> /\ IsStack(Ids, out, <<Got(Str(Token.raw))>>)
    BY <1>2, CallKinds, PlainVals, ShortStacks DEF ReadContent
  <2> QED
    BY <2>1, <2>4, <2>5, ConsumeKeeps
<1> QED
  BY <1>1, <1>2

----------------------------------------------------------------------------
(* Objects.                                                                *)
LEMMA PlainMade ==
    ASSUME NEW ids
    PROVE  /\ \A t : IsMade(ids, [kind |-> "time", at |-> t])
           /\ \A s : IsMade(ids, [kind |-> "bytes", text |-> s])
           /\ IsMade(ids, [kind |-> "array", elems |-> << >>])
           /\ IsMade(ids, PlainHash)
           /\ \A k \in Hashes : \A c :
                IsMade(ids, [kind |-> k, class |-> c, pairs |-> << >>, props |-> << >>])
<1>1. IsElems(ids, << >>) /\ IsEntries(ids, << >>)
  BY ShortSeqs, SeqFacts DEF IsElems, IsEntries
<1>2. \A t : IsMade(ids, [kind |-> "time", at |-> t])
  BY DEF IsMade, Is, Kinds, Hashes
<1>3. \A s : IsMade(ids, [kind |-> "bytes", text |-> s])
  BY DEF IsMade, Is, Kinds, Hashes
<1>4. IsMade(ids, [kind |-> "array", elems |-> << >>])
  BY <1>1 DEF IsMade, Is, Kinds, Hashes
<1>5. IsMade(ids, PlainHash)
  BY <1>1 DEF PlainHash, IsMade, Is, Kinds, Hashes
<1>6. \A k \in Hashes : \A c :
        IsMade(ids, [kind |-> k, class |-> c, pairs |-> << >>, props |-> << >>])
  BY <1>1 DEF IsMade, Is, Kinds, Hashes
<1> QED
  BY <1>2, <1>3, <1>4, <1>5, <1>6

LEMMA FreshStack == Fresh \in Ids' => IsStack(Ids', out', <<Got(Ref(Fresh))>>)
<1> DEFINE ids == Ids'
           objs == out'
           id == Fresh
<1> HIDE DEF ids, objs, id
<1>1. ASSUME id \in ids PROVE IsStack(ids, objs, <<Got(Ref(id))>>)
  <2>1. IsVal(ids, Ref(id))
    BY <1>1, PlainVals
  <2> QED
    BY <2>1, CallKinds, ShortStacks
<1> QED
  BY <1>1 DEF ids, objs, id

LEMMA TimeKeeps == ASSUME IInv, ReadDate \/ ReadStamp PROVE IInv'
<1>1. CASE ReadReference("date")
  BY <1>1, ReferenceKeeps DEF Words
<1>2. CASE ReadInline("date", <<Read("stamp")>>) /\ UNCHANGED <<tables, out>>
  <2>1. Consume("date") /\ "date" \in Reads /\ Become(<<Read("stamp")>>)
    BY <1>2 DEF ReadInline, Reads, Words
  <2>2. IsStack(Ids, out, <<Read("stamp")>>)
    BY CallKinds, ShortStacks DEF Doubles
  <2>3. TextInv' /\ UNCHANGED <<out, tableObjects>>
    BY <1>2, SameTexts DEF IInv, tables
  <2> QED
    BY <2>1, <2>2, <2>3, ConsumeKeeps
<1>3. CASE ReadStamp
  <2> DEFINE object == TimeOf(Token.double)
  <2>1. Consume("stamp") /\ "stamp" \in Reads /\ Make(object) /\ Become(<<Got(Ref(Fresh))>>)
    BY <1>3 DEF ReadStamp, Reads, Doubles
  <2>2. IsMade(Ids', object)
    BY PlainMade DEF TimeOf
  <2> HIDE DEF object
  <2> QED
    BY <2>1, <2>2, FreshStack, ConsumeMakes
<1> QED
  BY <1>1, <1>2, <1>3 DEF ReadDate

LEMMA BytesKeeps == ASSUME IInv, ReadByteArray \/ ReadOctets PROVE IInv'
<1>1. CASE ReadReference("bytes")
  BY <1>1, ReferenceKeeps DEF Words
<1>2. ASSUME NEW op \in Reads, Consume(op), NEW s, MakeBytes(s), Become(<<Got(Ref(Fresh))>>)
      PROVE  IInv'
  <2> DEFINE object == [kind |-> "bytes", text |-> s]
  <2>1. Make(object) /\ IsMade(Ids', object)
    BY <1>2, PlainMade DEF MakeBytes
  <2> HIDE DEF object
  <2> QED
    BY <1>2, <2>1, FreshStack, ConsumeMakes
<1>3. CASE ReadByteArray /\ ~ReadReference("bytes")
  <2>1. /\ Consume("bytes") /\ "bytes" \in Reads
        /\ Become(IF Length = 0 THEN <<Got(Ref(Fresh))>> ELSE <<Sized("octets", Length)>>)
        /\ IF Length = 0 THEN MakeBytes(EmptyString) ELSE UNCHANGED <<tables, out>>
    BY <1>3 DEF ReadByteArray, ReadInline, Reads, Words
  <2>2. CASE Length = 0
    BY <1>2, <2>1, <2>2
  <2>3. CASE Length # 0
    <3>1. IsStack(Ids, out, <<Sized("octets", Length)>>)
      BY CallKinds, ShortStacks
    <3>2. TextInv' /\ UNCHANGED <<out, tableObjects>>
      BY <2>1, <2>3, SameTexts DEF IInv, tables
    <3> QED
      BY <2>1, <2>3, <3>1, <3>2, ConsumeKeeps
  <2> QED
    BY <2>2, <2>3
<1>4. CASE ReadOctets
  BY <1>2, <1>4 DEF ReadOctets, Reads, Octets
<1> QED
  BY <1>1, <1>3, <1>4

LEMMA ArrayKeeps == ASSUME IInv, ReadArray PROVE IInv'
<1>1. CASE ReadReference("array")
  BY <1>1, ReferenceKeeps DEF Words
<1>2. CASE ~ReadReference("array")
  <2>1. /\ Consume("array") /\ "array" \in Reads /\ "array" \in Words
        /\ Become(<<Read("string"), Sized("arrayStart", Length)>>)
        /\ UNCHANGED <<tables, out>>
    BY <1>2 DEF ReadArray, ReadInline, Reads, Words
  <2>2. Length \in Int
    BY <2>1, TokenFacts DEF IInv, Consume
  <2>3. IsStack(Ids, out, <<Read("string"), Sized("arrayStart", Length)>>)
    BY <2>2, CallKinds, ShortStacks DEF Words
  <2>4. TextInv' /\ UNCHANGED <<out, tableObjects>>
    BY <2>1, SameTexts DEF IInv, tables
  <2> QED
    BY <2>1, <2>3, <2>4, ConsumeKeeps
<1> QED
  BY <1>1, <1>2

(* What a call does with the value it takes.                               *)
LEMMA TakeArrayStartKeeps == ASSUME IInv, TakeArrayStart PROVE IInv'
<1>1. /\ IsVal(Ids, Taken) /\ IsCall(Ids, out, Caller) /\ Caller.op = "arrayStart"
      /\ IsCall(Ids, out, Head(stack)) /\ Taking("arrayStart") /\ "arrayStart" \notin Bottom
  BY TakeFacts DEF IInv, TakeArrayStart, Bottom
<1> DEFINE n == Caller.length
<1>2. n \in Int
  BY <1>1 DEF IsCall, Words, Doubles
<1> HIDE DEF n
<1>3. UNCHANGED before
  BY DEF TakeArrayStart, Take
<1>4. CASE Taken.str = EmptyString
  <2> DEFINE object == [kind |-> "array", elems |-> << >>]
             todo == Values(Fresh, "elems", n) \o <<Got(Ref(Fresh))>>
  <2>1. Make(object) /\ Take(todo) /\ IsMade(Ids', object)
    BY <1>4, PlainMade DEF TakeArrayStart, n
  <2> HIDE DEF object
  <2>2. HeapInv' /\ Extends(Ids, out, Ids', out') /\ Fresh \in Ids'
    BY <1>3, <2>1, MakeKeeps DEF IInv
  <2>3. IsStack(Ids', out', todo)
    <3> DEFINE ids == Ids'
               objs == out'
               id == Fresh
    <3>1. id \in ids /\ IsStack(ids, objs, <<Got(Ref(id))>>)
      BY <2>2, FreshStack
    <3> HIDE DEF ids, objs, id
    <3>2. IsStack(ids, objs, Values(id, "elems", n) \o <<Got(Ref(id))>>)
      BY <1>2, <3>1, ValuesStack, ConcatStack
    <3> QED
      BY <3>2 DEF ids, objs, id
  <2>4. TextInv'
    BY <2>1, SameTexts DEF IInv, Make
  <2> HIDE DEF todo
  <2> QED
    BY <1>1, <2>1, <2>2, <2>3, <2>4, TakeKeeps DEF IInv
<1>5. CASE Taken.str # EmptyString
  <2> DEFINE object == PlainHash
             todo == <<Head(stack), KeyOf(Fresh, "pairs")>> \o
                        Values(Fresh, "pairs", n) \o <<Got(Ref(Fresh))>>
  <2>1. Make(object) /\ Take(todo) /\ IsMade(Ids', object)
    BY <1>5, PlainMade DEF TakeArrayStart, n
  <2> HIDE DEF object
  <2>2. HeapInv' /\ Extends(Ids, out, Ids', out') /\ Fresh \in Ids'
    BY <1>3, <2>1, MakeKeeps DEF IInv
  <2>3. IsStack(Ids', out', todo)
    <3> DEFINE ids == Ids'
               objs == out'
               id == Fresh
               call == Head(stack)
    <3>1. id \in ids /\ IsStack(ids, objs, <<Got(Ref(id))>>)
      BY <2>2, FreshStack
    <3>2. IsCall(ids, objs, call)
      BY <1>1, <2>2, ExtendedCall
    <3> HIDE DEF ids, objs, id, call
    <3>3. IsStack(ids, objs, <<call, KeyOf(id, "pairs")>>)
      BY <3>1, <3>2, CallKinds, ShortStacks
    <3>4. IsStack(ids, objs, Values(id, "pairs", n))
      BY <1>2, <3>1, ValuesStack
    <3>5. IsStack(ids, objs, <<call, KeyOf(id, "pairs")>> \o Values(id, "pairs", n)
                             \o <<Got(Ref(id))>>)
      BY <3>1, <3>3, <3>4, ConcatStack
    <3> QED
      BY <3>5 DEF ids, objs, id, call
  <2>4. TextInv'
    BY <2>1, SameTexts DEF IInv, Make
  <2> HIDE DEF todo
  <2> QED
    BY <1>1, <2>1, <2>2, <2>3, <2>4, TakeKeeps DEF IInv
<1> QED
  BY <1>4, <1>5

LEMMA TakeSame ==
    ASSUME IInv, NEW op, Taking(op), op \notin Bottom, UNCHANGED <<out, tableObjects>>,
           NEW todo, IsStack(Ids, out, todo), Take(todo), TextInv'
    PROVE  IInv'
<1>1. HeapInv' /\ Extends(Ids, out, Ids', out') /\ IsStack(Ids', out', todo)
  BY SameHeap DEF IInv, Take
<1> QED
  BY <1>1, TakeKeeps DEF IInv

LEMMA TakeKeyKeeps == ASSUME IInv, TakeKey PROVE IInv'
<1> DEFINE c == Caller
           v == Taken
<1>1. /\ IsVal(Ids, v) /\ IsCall(Ids, out, c) /\ c.op = "key"
      /\ Taking("key") /\ "key" \notin Bottom
  BY TakeFacts DEF IInv, TakeKey, Bottom
<1>2. /\ Take(IF v.str = EmptyString THEN << >>
              ELSE <<Read("value"), Assign(c.id, c.field, v), Read("string"), c>>)
      /\ UNCHANGED <<tables, out>>
  BY DEF TakeKey
<1> HIDE DEF c, v
<1>3. c.id \in Ids /\ c.field \in {"pairs", "props"}
  BY <1>1 DEF IsCall, Words, Doubles
<1>4. IsStack(Ids, out, <<Read("value"), Assign(c.id, c.field, v)>>)
  BY <1>1, <1>3, CallKinds, ShortStacks DEF Words
<1>5. IsStack(Ids, out, <<Read("string"), c>>)
  BY <1>1, CallKinds, ShortStacks DEF Words
<1>6. <<Read("value"), Assign(c.id, c.field, v), Read("string"), c>>
      = <<Read("value"), Assign(c.id, c.field, v)>> \o <<Read("string"), c>>
  <2>1. \A w, x, y, z : <<w, x, y, z>> = <<w, x>> \o <<y, z>>
    OBVIOUS
  <2> QED
    BY <2>1
<1>7. IsStack(Ids, out, <<Read("value"), Assign(c.id, c.field, v), Read("string"), c>>)
  BY <1>4, <1>5, <1>6, ConcatStack
<1>8. TextInv' /\ UNCHANGED <<out, tableObjects>>
  BY <1>2, SameTexts DEF IInv, tables
<1> QED
  BY <1>1, <1>2, <1>7, <1>8, ShortStacks, TakeSame

LEMMA TakeEntryKeyKeeps == ASSUME IInv, TakeEntryKey PROVE IInv'
<1> DEFINE c == Caller
           v == Taken
<1>1. /\ IsVal(Ids, v) /\ IsCall(Ids, out, c) /\ c.op = "entry"
      /\ Taking("entry") /\ "entry" \notin Bottom
  BY TakeFacts DEF IInv, TakeEntryKey, Bottom
<1>2. Take(<<Read("value"), Assign(c.id, "pairs", v)>>) /\ UNCHANGED <<tables, out>>
  BY DEF TakeEntryKey
<1> HIDE DEF c, v
<1>3. c.id \in Ids
  BY <1>1 DEF IsCall, Words, Doubles
<1>4. IsStack(Ids, out, <<Read("value"), Assign(c.id, "pairs", v)>>)
  BY <1>1, <1>3, CallKinds, ShortStacks DEF Words
<1>5. TextInv' /\ UNCHANGED <<out, tableObjects>>
  BY <1>2, SameTexts DEF IInv, tables
<1> QED
  BY <1>1, <1>2, <1>4, <1>5, TakeSame

LEMMA UpdateTakes ==
    ASSUME IInv, NEW op, Taking(op), op \notin Bottom, UNCHANGED tables,
           NEW id \in Ids, NEW x, out' = [out EXCEPT ![id] = x], IsMade(Ids, x),
           Is("props", out[id]) => Is("props", x), Take(<< >>)
    PROVE  IInv'
<1>1. UNCHANGED <<before, tableObjects>> /\ TextInv'
  BY SameTexts DEF IInv, Take, tables
<1>2. HeapInv' /\ Ids' = Ids /\ Extends(Ids, out, Ids', out')
  BY <1>1, UpdateKeeps DEF IInv
<1>3. IsStack(Ids', out', << >>)
  BY ShortStacks
<1> QED
  BY <1>1, <1>2, <1>3, TakeKeeps DEF IInv

LEMMA TakeAssignKeeps == ASSUME IInv, TakeAssign PROVE IInv'
<1> DEFINE c == Caller
           v == Taken
           x == out[c.id]
<1>1. /\ IsVal(Ids, v) /\ IsCall(Ids, out, c) /\ c.op = "assign"
      /\ Taking("assign") /\ "assign" \notin Bottom
  BY TakeFacts DEF IInv, TakeAssign, Bottom
<1>2. /\ out' = [out EXCEPT ![c.id][c.field] = IF c.field = "elems" THEN Append(@, v)
                                               ELSE StoredIn(out, @, c.key, v)]
      /\ Take(<< >>) /\ UNCHANGED tables
  BY DEF TakeAssign, Stored
<1> HIDE DEF c, v
<1>3. c.id \in Ids /\ c.field \in {"elems", "pairs", "props"} /\ IsVal(Ids, c.key)
  BY <1>1 DEF IsCall, Words, Doubles
<1>4. IsMade(Ids, x)
  BY <1>3 DEF IInv, HeapInv
<1>5. CASE c.field = "elems"
  <2> DEFINE y == [x EXCEPT !.elems = Append(x.elems, v)]
  <2>1. out' = [out EXCEPT ![c.id] = y]
    BY <1>2, <1>5
  <2>2. IsMade(Ids, y)
    <3>1. CASE x.kind = "array"
      <4>1. IsElems(Ids, Append(x.elems, v))
        BY <1>1, <1>4, <3>1, AppendEntries DEF IsMade
      <4> QED
        BY <1>4, <4>1, UpdateMade
    <3>2. CASE x.kind # "array"
      <4>1. /\ y.kind = x.kind
            /\ Is("pairs", x) => y.pairs = x.pairs
            /\ Is("props", x) => y.props = x.props
        BY <1>4 DEF IsMade, Is
      <4>2. \A f : Is(f, y) <=> Is(f, x)
        BY DEF Is
      <4> HIDE DEF x, y
      <4> QED
        BY <1>4, <3>2, <4>1, <4>2 DEF IsMade, Hashes
    <3> QED
      BY <3>1, <3>2
  <2>3. Is("props", x) => Is("props", y)
    BY DEF Is
  <2> HIDE DEF y
  <2> QED
    BY <1>1, <1>2, <1>3, <2>1, <2>2, <2>3, UpdateTakes
<1>6. CASE c.field = "pairs"
  <2> DEFINE y == [x EXCEPT !.pairs = StoredIn(out, x.pairs, c.key, v)]
  <2>1. out' = [out EXCEPT ![c.id] = y]
    BY <1>2, <1>6
  <2>2. IsMade(Ids, y)
    <3>1. CASE x.kind \in Hashes
      <4>1. IsEntries(Ids, StoredIn(out, x.pairs, c.key, v))
        BY <1>1, <1>3, <1>4, <3>1, StoredEntries DEF IsMade
      <4> QED
        BY <1>4, <4>1, UpdateMade
    <3>2. CASE x.kind \notin Hashes
      <4>1. /\ y.kind = x.kind
            /\ Is("elems", x) => y.elems = x.elems
            /\ Is("props", x) => y.props = x.props
        BY <1>4 DEF IsMade, Is
      <4>2. \A f : Is(f, y) <=> Is(f, x)
        BY DEF Is
      <4> HIDE DEF x, y
      <4> QED
        BY <1>4, <3>2, <4>1, <4>2 DEF IsMade
    <3> QED
      BY <3>1, <3>2
  <2>3. Is("props", x) => Is("props", y)
    BY DEF Is
  <2> HIDE DEF y
  <2> QED
    BY <1>1, <1>2, <1>3, <2>1, <2>2, <2>3, UpdateTakes
<1>7. CASE c.field = "props"
  <2> DEFINE y == [x EXCEPT !.props = StoredIn(out, x.props, c.key, v)]
  <2>1. out' = [out EXCEPT ![c.id] = y]
    BY <1>2, <1>7
  <2>2. IsMade(Ids, y)
    <3>1. CASE Is("props", x)
      <4>1. IsEntries(Ids, StoredIn(out, x.props, c.key, v))
        BY <1>1, <1>3, <1>4, <3>1, StoredEntries DEF IsMade
      <4> QED
        BY <1>4, <4>1, UpdateMade
    <3>2. CASE ~Is("props", x)
      <4>1. /\ y.kind = x.kind
            /\ Is("elems", x) => y.elems = x.elems
            /\ Is("pairs", x) => y.pairs = x.pairs
        BY <1>4 DEF IsMade, Is
      <4>2. \A f : Is(f, y) <=> Is(f, x)
        BY DEF Is
      <4> HIDE DEF x, y
      <4> QED
        BY <1>4, <3>2, <4>1, <4>2 DEF IsMade, Hashes
    <3> QED
      BY <3>1, <3>2
  <2>3. Is("props", x) => Is("props", y)
    BY DEF Is
  <2> HIDE DEF y
  <2> QED
    BY <1>1, <1>2, <1>3, <2>1, <2>2, <2>3, UpdateTakes
<1> QED
  BY <1>3, <1>5, <1>6, <1>7

LEMMA DictionaryKeeps == ASSUME IInv, ReadDictionary PROVE IInv'
<1>1. CASE ReadReference("dict")
  BY <1>1, ReferenceKeeps DEF Words
<1>2. CASE ~ReadReference("dict")
  <2> DEFINE object == PlainHash
             entries == [i \in 1 .. Length |-> [op |-> "entry", id |-> Fresh]]
             todo == <<Read("weak")>> \o Each(entries) \o <<Got(Ref(Fresh))>>
  <2>1. /\ Consume("dict") /\ "dict" \in Reads /\ "dict" \in Words
        /\ Become(todo) /\ Make(object) /\ IsMade(Ids', object)
    BY <1>2, PlainMade DEF ReadDictionary, ReadInline, Reads, Words
  <2>2. Length \in Int
    BY <2>1, TokenFacts DEF IInv, Consume
  <2>3. ASSUME Fresh \in Ids' PROVE IsStack(Ids', out', todo)
    <3> DEFINE ids == Ids'
               objs == out'
               id == Fresh
               n == Length
               s == [i \in 1 .. n |-> [op |-> "entry", id |-> id]]
    <3>1. id \in ids /\ n \in Int /\ IsStack(ids, objs, <<Got(Ref(id))>>)
      BY <2>2, <2>3, FreshStack
    <3> HIDE DEF ids, objs, id, n
    <3>2. /\ s = [i \in 1 .. n |-> s[i]]
          /\ \A i \in 1 .. n : IsCall(ids, objs, s[i])
      BY <3>1 DEF IsCall
    <3> HIDE DEF s
    <3>3. IsStack(ids, objs, Each(s))
      BY <3>1, <3>2, CountedStack
    <3>4. IsStack(ids, objs, <<Read("weak")>>)
      BY CallKinds, ShortStacks DEF Words
    <3>5. IsStack(ids, objs, <<Read("weak")>> \o Each(s) \o <<Got(Ref(id))>>)
      BY <3>1, <3>3, <3>4, ConcatStack
    <3> QED
      BY <3>5 DEF ids, objs, id, n, s
  <2> HIDE DEF object, todo
  <2> QED
    BY <2>1, <2>3, ConsumeMakes
<1> QED
  BY <1>1, <1>2

LEMMA ObjectKeeps == ASSUME IInv, ReadObject PROVE IInv'
<1>1. CASE ReadReference("object")
  BY <1>1, ReferenceKeeps DEF Words
<1>2. CASE ~ReadReference("object")
  <2> DEFINE known == tableTraits[KnownTraits]
             create == [op |-> "create", traits |-> known]
             traits == [op |-> "traits", dynamic |-> (Length \div 4) % 2 = 1,
                        count |-> Length \div 8, names |-> << >>]
             todo == IF Length % 2 = 0 THEN <<create>> ELSE <<Read("string"), traits>>
  <2>1. /\ Consume("object") /\ "object" \in Reads /\ "object" \in Words
        /\ Become(todo) /\ UNCHANGED <<tables, out>>
        /\ Length % 2 = 1 \/ KnownTraits \in DOMAIN tableTraits
    BY <1>2 DEF ReadObject, ReadInline, Reads, Words
  <2>2. Length \in Int
    BY <2>1, TokenFacts DEF IInv, Consume
  <2>3. Length % 2 = 0 => IsCall(Ids, out, create)
    <3>1. ASSUME Length % 2 = 0 PROVE IsSeq(known.members)
      <4>1. KnownTraits \in DOMAIN tableTraits
        BY <2>1, <3>1
      <4> QED
        BY <4>1, SeqFacts DEF IInv, TextInv
    <3> HIDE DEF known
    <3> QED
      BY <3>1 DEF IsCall
  <2>4. IsCall(Ids, out, traits)
    <3>1. traits = [op |-> traits.op, dynamic |-> traits.dynamic,
                    count |-> traits.count, names |-> traits.names]
          /\ traits.op = "traits" /\ IsSeq(traits.names)
      BY ShortSeqs
    <3> HIDE DEF traits
    <3> QED
      BY <3>1 DEF IsCall
  <2> HIDE DEF create, traits
  <2>5. IsStack(Ids, out, todo)
    BY <2>3, <2>4, CallKinds, ShortStacks DEF Words
  <2>6. TextInv' /\ UNCHANGED <<out, tableObjects>>
    BY <2>1, SameTexts DEF IInv, tables
  <2> HIDE DEF todo
  <2> QED
    BY <2>1, <2>5, <2>6, ConsumeKeeps
<1> QED
  BY <1>1, <1>2

LEMMA TraitsKeep == ASSUME IInv, TakeTraits PROVE IInv'
<1> DEFINE c == Caller
           names == Append(c.names, Taken.str)
           traits == [class_name |-> names[1], members |-> Tail(names), dynamic |-> c.dynamic]
<1>1. /\ IsCall(Ids, out, c) /\ c.op = "traits" /\ Taking("traits") /\ "traits" \notin Bottom
  BY TakeFacts DEF IInv, TakeTraits, TakeTraitsCaching, Bottom
<1>2. /\ UNCHANGED <<tableStrings, tableObjects, out>>
      /\ IF Len(names) <= c.count
         THEN /\ Take(<<Read("string"), [c EXCEPT !.names = names]>>)
              /\ UNCHANGED tableTraits
         ELSE /\ Take(<<[op |-> "create", traits |-> traits]>>)
              /\ tableTraits' = Append(tableTraits, traits)
  BY DEF TakeTraits, TakeTraitsCaching
<1> HIDE DEF c
<1>3. /\ IsSeq(c.names)
      /\ c = [op |-> c.op, dynamic |-> c.dynamic, count |-> c.count, names |-> c.names]
  BY <1>1 DEF IsCall, Words, Doubles
<1>4. IsSeq(names) /\ names # << >>
  BY <1>3, AppendFacts
<1>5. IsSeq(traits.members)
  BY <1>4, SeqFacts
<1>6. traits = [class_name |-> traits.class_name, members |-> traits.members,
                dynamic |-> traits.dynamic]
  OBVIOUS
<1> HIDE DEF names, traits
<1>7. CASE Len(names) <= c.count
  <2> DEFINE d == [c EXCEPT !.names = names]
  <2>1. /\ d = [op |-> d.op, dynamic |-> d.dynamic, count |-> d.count, names |-> d.names]
        /\ d.op = "traits" /\ d.names = names
    BY <1>1, <1>3
  <2> HIDE DEF d
  <2>2. IsCall(Ids, out, d)
    BY <1>4, <2>1 DEF IsCall
  <2>3. IsStack(Ids, out, <<Read("string"), d>>) /\ Take(<<Read("string"), d>>)
    BY <1>2, <1>7, <2>2, CallKinds, ShortStacks DEF Words, d
  <2>4. TextInv'
    BY <1>2, <1>7, SameTexts DEF IInv
  <2> QED
    BY <1>1, <1>2, <2>3, <2>4, TakeSame
<1>8. CASE ~(Len(names) <= c.count)
  <2> DEFINE call == [op |-> "create", traits |-> traits]
  <2>1. IsCall(Ids, out, call)
    BY <1>5 DEF IsCall
  <2> HIDE DEF call
  <2>2. IsStack(Ids, out, <<call>>) /\ Take(<<call>>)
    BY <1>2, <1>8, <2>1, ShortStacks DEF call
  <2>3. TextInv'
    <3>1. tableTraits' = Append(tableTraits, traits) /\ UNCHANGED tableStrings
      BY <1>2, <1>8
    <3>2. /\ IsSeq(tableTraits') /\ Len(tableTraits') = Len(tableTraits) + 1
          /\ \A i \in 1 .. Len(tableTraits) : tableTraits'[i] = tableTraits[i]
          /\ tableTraits'[Len(tableTraits) + 1] = traits /\ Len(tableTraits) \in Nat
      BY <3>1, AppendFacts, SeqFacts DEF IInv, TextInv
    <3>3. ASSUME NEW i \in 1 .. Len(tableTraits') PROVE IsSeq(tableTraits'[i].members)
      <4>1. i = Len(tableTraits) + 1 \/ i \in 1 .. Len(tableTraits)
        BY <3>2
      <4> QED
        BY <1>5, <3>2, <4>1 DEF IInv, TextInv
    <3> QED
      BY <3>1, <3>2, <3>3 DEF IInv, TextInv
  <2> QED
    BY <1>1, <1>2, <2>2, <2>3, TakeSame
<1> QED
  BY <1>7, <1>8

LEMMA CreateKeeps == ASSUME IInv, CreateInstance PROVE IInv'
<1> DEFINE traits == Head(stack).traits
           made   == CreateObject(Mappings, traits.class_name)
           object == [kind |-> made.kind, class |-> made.class,
                      pairs |-> << >>, props |-> << >>]
           sealed == Each([i \in DOMAIN traits.members |->
                             Assign(Fresh, "props", Str(traits.members[i]))])
           dynamic == IF traits.dynamic THEN <<Read("string"), KeyOf(Fresh, "props")>>
                                        ELSE << >>
           populate == [op |-> "populate", id |-> Fresh]
           todo == sealed \o dynamic \o <<populate>>
<1>1. /\ Reading("create") /\ "create" \notin Bottom /\ UNCHANGED pos
      /\ Make(object) /\ Become(todo)
  BY DEF CreateInstance, Bottom
<1>2. IsSeq(traits.members)
  <2>1. IsCall(Ids, out, Head(stack)) /\ Head(stack).op = "create"
    BY <1>1, RestFacts DEF IInv
  <2> QED
    BY <2>1 DEF IsCall, Words, Doubles
<1>3. made.kind \in Hashes
  BY DEF CreateObject, Hashes
<1> HIDE DEF made
<1>4. IsMade(Ids', object) /\ Is("props", object)
  BY <1>3, PlainMade DEF Is
<1> HIDE DEF object
<1>5. HeapInv' /\ Extends(Ids, out, Ids', out') /\ Fresh \in Ids' /\ out'[Fresh] = object
  BY <1>1, <1>4, MakeKeeps DEF IInv, Become
<1>6. IsStack(Ids', out', todo)
  <2> DEFINE ids == Ids'
             objs == out'
             id == Fresh
             members == traits.members
             isDynamic == traits.dynamic
             s == [i \in DOMAIN members |-> Assign(id, "props", Str(members[i]))]
             t == IF isDynamic THEN <<Read("string"), KeyOf(id, "props")>> ELSE << >>
  <2>1. id \in ids /\ IsSeq(members) /\ Is("props", objs[id])
    BY <1>2, <1>4, <1>5
  <2> HIDE DEF ids, objs, id, members, isDynamic
  <2>2. DOMAIN members = 1 .. Len(members) /\ Len(members) \in Nat
    BY <2>1, SeqFacts
  <2>3. ASSUME NEW i \in 1 .. Len(members) PROVE IsCall(ids, objs, s[i])
    <3>1. s[i] = Assign(id, "props", Str(members[i])) /\ IsVal(ids, Str(members[i]))
      BY <2>2, PlainVals
    <3> QED
      BY <2>1, <3>1, CallKinds
  <2>4. s = [i \in 1 .. Len(members) |-> s[i]]
    BY <2>2
  <2> HIDE DEF s
  <2>5. IsStack(ids, objs, Each(s))
    BY <2>2, <2>3, <2>4, EachStack
  <2>6. IsStack(ids, objs, t)
    BY <2>1, CallKinds, ShortStacks DEF Words
  <2>7. IsStack(ids, objs, <<[op |-> "populate", id |-> id]>>)
    <3>1. IsCall(ids, objs, [op |-> "populate", id |-> id])
      BY <2>1 DEF IsCall
    <3> QED
      BY <3>1, ShortStacks
  <2> HIDE DEF t
  <2>8. IsStack(ids, objs, Each(s) \o t \o <<[op |-> "populate", id |-> id]>>)
    BY <2>5, <2>6, <2>7, ConcatStack
  <2> QED
    BY <2>8 DEF ids, objs, id, members, isDynamic, s, t
<1>7. TextInv'
  BY <1>1, SameTexts DEF IInv, Make
<1>8. pos' \in 0 .. Len(source)
  BY <1>1 DEF IInv, SourceInv
<1> HIDE DEF todo
<1> QED
  BY <1>1, <1>5, <1>6, <1>7, <1>8, BecomeKeeps DEF IInv

LEMMA PopulatedHeap ==
    ASSUME IInv, Reading("populate"), NEW id, id = Head(stack).id,
           NEW n \in 0 .. Len(out[id].props), UNCHANGED <<before, tables>>,
           out' = [out EXCEPT ![id] = [ObjectDeserialize(@, SubSeq(@.props, 1, n))
                                         EXCEPT !.props = << >>]]
    PROVE  /\ HeapInv' /\ TextInv' /\ Ids' = Ids /\ id \in Ids
           /\ Extends(Ids, out, Ids', out')
<1> DEFINE x == out[id]
<1>1. IsCall(Ids, out, Head(stack)) /\ Head(stack).op = "populate"
  BY RestFacts DEF IInv, Bottom
<1>2. id \in Ids /\ Is("props", x)
  BY <1>1 DEF IsCall, Words, Doubles
<1>3. IsMade(Ids, x)
  BY <1>2 DEF IInv, HeapInv
<1>4. IsEntries(Ids, x.props)
  BY <1>2, <1>3 DEF IsMade
<1> DEFINE props == x.props
           some == SubSeq(props, 1, n)
<1>5. IsEntries(Ids, some)
  <2> HIDE DEF props
  <2>1. IsSeq(props) /\ n \in 0 .. Len(props)
    BY <1>4 DEF IsEntries, props
  <2>2. /\ IsSeq(some) /\ Len(some) = n
        /\ \A i \in 1 .. n : some[i] = props[i] /\ i \in 1 .. Len(props)
    BY <2>1, SubSeqFacts, SeqFacts
  <2> HIDE DEF some
  <2> QED
    BY <1>4, <2>2 DEF IsEntries, props
<1>6. PICK pairs : /\ IsEntries(Ids, pairs)
                   /\ ObjectDeserialize(x, some) = [x EXCEPT !.pairs = pairs]
  <2> HIDE DEF some
  <2> QED
    BY <1>5, TakenEntries
<1> DEFINE y == [x EXCEPT !.pairs = pairs]
           z == [y EXCEPT !.props = << >>]
<1>7. IsMade(Ids, y) /\ Is("props", y)
  BY <1>2, <1>3, <1>6, UpdateMade
<1>8. out' = [out EXCEPT ![id] = z]
  BY <1>6
<1> HIDE DEF y
<1>9. IsMade(Ids, z) /\ Is("props", z)
  <2>1. IsEntries(Ids, << >>)
    BY ShortSeqs, SeqFacts DEF IsEntries
  <2> QED
    BY <1>7, <2>1, UpdateMade
<1> HIDE DEF z
<1>10. UNCHANGED tableObjects /\ TextInv'
  BY SameTexts DEF IInv, tables
<1> HIDE DEF x, some, props
<1>11. HeapInv' /\ Ids' = Ids /\ Extends(Ids, out, Ids', out')
  BY <1>2, <1>8, <1>9, <1>10, UpdateKeeps DEF IInv, x
<1> QED
  BY <1>2, <1>10, <1>11

LEMMA PopulateKeeps == ASSUME IInv, Populate PROVE IInv'
<1> DEFINE id == Head(stack).id
           props == out[id].props
<1>1. /\ Reading("populate") /\ "populate" \notin Bottom
      /\ out' = [out EXCEPT ![id] = [ObjectDeserialize(@, @.props) EXCEPT !.props = << >>]]
      /\ Become(<<Got(Ref(id))>>) /\ UNCHANGED <<pos, tables, before>>
  BY DEF Populate, Become, Bottom
<1>2. IsCall(Ids, out, Head(stack)) /\ Head(stack).op = "populate"
  BY <1>1, RestFacts DEF IInv
<1>3. id \in Ids /\ Is("props", out[id])
  BY <1>2 DEF IsCall, Words, Doubles
<1>4. IsSeq(props)
  BY <1>3 DEF IInv, HeapInv, IsMade, IsEntries
<1>5. SubSeq(props, 1, Len(props)) = props /\ Len(props) \in 0 .. Len(props)
  <2>1. PICK S : props \in Seq(S)
    BY <1>4 DEF IsSeq
  <2> HIDE DEF props
  <2> QED
    BY <2>1
<1>6. /\ HeapInv' /\ TextInv' /\ Ids' = Ids /\ id \in Ids
      /\ Extends(Ids, out, Ids', out')
  BY <1>1, <1>5, PopulatedHeap
<1> HIDE DEF id, props
<1>7. IsStack(Ids', out', <<Got(Ref(id))>>)
  <2>1. IsVal(Ids', Ref(id))
    BY <1>6, PlainVals
  <2> QED
    BY <2>1, CallKinds, ShortStacks
<1>8. pos' \in 0 .. Len(source)
  BY <1>1 DEF IInv, SourceInv
<1> QED
  BY <1>1, <1>6, <1>7, <1>8, BecomeKeeps DEF IInv

----------------------------------------------------------------------------
(* Calls, messages and the ends of both.                                   *)
LEMMA EmptyStack == ASSUME stack' = << >> PROVE StackInv'
  BY DEF StackInv

LEMMA LenSource == ASSUME SourceInv PROVE Len(source) \in Nat
<1>1. Len(NoSource) \in Nat
  BY DEF NoSource
<1> QED
  BY <1>1, SourceFacts DEF SourceInv

LEMMA ExitKeeps ==
    ASSUME IInv, UNCHANGED <<source, start, calls>>, stack' = << >>, failure' \in Errors,
           pc' \in {"raised", "returned", "garbled"},
           pos' \in {pos, Len(source)} \/ (pos < Len(source) /\ pos' = pos + 1),
           HeapInv', TextInv'
    PROVE  IInv'
<1>1. Len(source) \in Nat
  BY LenSource DEF IInv
<1>2. SourceInv'
  BY <1>1 DEF IInv, SourceInv
<1> QED
  BY <1>2, EmptyStack DEF IInv

LEMMA EscapeKeeps ==
    ASSUME IInv, NEW error \in Errors,
           \/ Escape(error) \/ Rescue(error) \/ (pos < Len(source) /\ EscapeRead(error))
           \/ (Raise(error, "garbled") /\ UNCHANGED <<pos, out>>)
    PROVE  IInv'
<1>1. UNCHANGED <<source, start, tables, out, calls, before>> /\ stack' = << >>
      /\ failure' = error /\ pc' \in {"raised", "returned", "garbled"}
      /\ (pos' \in {pos, Len(source)} \/ (pos < Len(source) /\ pos' = pos + 1))
  BY DEF Escape, EscapeRead, Raise, Rescue, LeaveRest
<1>2. HeapInv' /\ TextInv'
  BY <1>1, SameHeap, SameTexts DEF IInv, tables
<1> QED
  BY <1>1, <1>2, ExitKeeps

LEMMA FailKeeps ==
    ASSUME IInv, \/ SourceEnds \/ BadMarker \/ NegativeLength
                 \/ UnknownTraits \/ CreateFails \/ StampFails
    PROVE  IInv'
<1> USE DEF Errors, Ready
<1>1. CASE SourceEnds
  BY <1>1, EscapeKeeps DEF SourceEnds
<1>2. CASE BadMarker
  BY <1>2, EscapeKeeps DEF BadMarker
<1>3. CASE NegativeLength
  BY <1>3, EscapeKeeps DEF NegativeLength
<1>4. CASE UnknownTraits
  BY <1>4, EscapeKeeps DEF UnknownTraits
<1>5. CASE CreateFails
  BY <1>5, EscapeKeeps DEF CreateFails
<1>6. CASE StampFails
  BY <1>6, EscapeKeeps DEF StampFails
<1> QED
  BY <1>1, <1>2, <1>3, <1>4, <1>5, <1>6

(* An exception in a setter: what was set before it stays.                 *)
LEMMA PopulateFailsKeeps == ASSUME IInv, PopulateFails PROVE IInv'
<1> DEFINE id == Head(stack).id
           props == out[id].props
<1>1. PICK i \in Refusals(out[id], props) :
        out' = [out EXCEPT ![id] = [ObjectDeserialize(@, SubSeq(@.props, 1, i - 1))
                                      EXCEPT !.props = << >>]]
  BY DEF PopulateFails
<1>2. /\ Reading("populate") /\ "populate" \notin Bottom
      /\ Raise("mapper", "raised") /\ UNCHANGED pos
  BY DEF PopulateFails, Bottom
<1>3. IsCall(Ids, out, Head(stack)) /\ Head(stack).op = "populate"
  BY <1>2, RestFacts DEF IInv
<1>4. id \in Ids /\ Is("props", out[id])
  BY <1>3 DEF IsCall, Words, Doubles
<1>5. IsSeq(props)
  BY <1>4 DEF IInv, HeapInv, IsMade, IsEntries
<1>6. i - 1 \in 0 .. Len(props)
  <2>1. i \in DOMAIN props
    BY <1>1 DEF Refusals
  <2> QED
    BY <1>5, <2>1, SeqFacts
<1>7. UNCHANGED <<source, start, calls, before, tables, pos>> /\ stack' = << >>
      /\ failure' = "mapper" /\ pc' = "raised"
  BY <1>2 DEF Raise
<1>8. HeapInv' /\ TextInv'
  BY <1>1, <1>2, <1>6, <1>7, PopulatedHeap
<1> QED
  BY <1>7, <1>8, ExitKeeps DEF Errors

LEMMA EndKeeps ==
    ASSUME IInv, TakeMessage \/ EndOfSource \/ ReturnObject \/ Garbled
    PROVE  IInv'
<1>1. UNCHANGED <<source, pos, start, tables, out, failure, calls, before>>
      /\ stack' = << >> /\ pc' \in {pc, "returned", "read", "garbled"}
  BY DEF TakeMessage, EndOfSource, ReturnObject, Garbled
<1>2. SourceInv'
  BY <1>1 DEF IInv, SourceInv
<1>3. HeapInv' /\ TextInv'
  BY <1>1, SameHeap, SameTexts DEF IInv, tables
<1> QED
  BY <1>1, <1>2, <1>3, EmptyStack DEF IInv

LEMMA NoObjects ==
    ASSUME NEW objs, IsSeq(objs),
           \A i \in 1 .. Len(objs) : objs[i].kind \in Kinds,
           out' = objs, before' = Len(objs), tableObjects' = << >>
    PROVE  HeapInv'
<1>1. Len(objs) \in Nat
  BY SeqFacts
<1>2. before' \in 0 .. Len(out') /\ Len(out') - before' = 0
  BY <1>1
<1>3. Ids' = {}
  BY <1>1 DEF Ids
<1>4. << >> = [i \in 1 .. 0 |-> before' + i]
  OBVIOUS
<1> QED
  BY <1>2, <1>3, <1>4 DEF HeapInv

LEMMA NoTexts ==
    ASSUME tableStrings' = << >>, tableTraits' = << >> PROVE TextInv'
<1>1. IsSeq(<< >>) /\ 1 .. Len(<< >>) = {}
  BY ShortSeqs
<1> QED
  BY <1>1 DEF TextInv

LEMMA NextMessageKeeps == ASSUME IInv, NextMessage PROVE IInv'
<1>1. /\ pc = "reading" /\ tableStrings' = << >> /\ tableObjects' = << >>
      /\ tableTraits' = << >> /\ start' = pos /\ before' = Len(out)
      /\ stack' = <<Read("value"), Read("message")>>
      /\ UNCHANGED <<source, pos, out, result>>
  BY DEF NextMessage, BeginMessage
<1>2. HeapInv' /\ TextInv'
  BY <1>1, NoObjects, NoTexts DEF IInv, HeapInv
<1>3. StackInv'
  <2> DEFINE ids == Ids'
             objs == out'
  <2>1. IsStack(ids, objs, <<Read("value"), Read("message")>>)
    BY CallKinds, ShortStacks DEF Words, Bottom
  <2>2. EndsAtCaller(<<Read("value"), Read("message")>>)
    <3>1. \A x, y : <<x, y>> # << >> /\ <<x, y>>[Len(<<x, y>>)] = y
      OBVIOUS
    <3>2. Read("message").op \in Bottom
      BY DEF Read, Bottom
    <3> QED
      BY <3>1, <3>2 DEF EndsAtCaller
  <2> QED
    BY <1>1, <2>1, <2>2 DEF StackInv, EndsAtCaller
<1>4. SourceInv'
  BY <1>1 DEF IInv, SourceInv, result
<1> QED
  BY <1>2, <1>3, <1>4 DEF IInv

LEMMA CallReadObjectKeeps == ASSUME IInv, CallReadObject PROVE IInv'
<1>1. CASE source = NoSource
  BY <1>1, EscapeKeeps DEF CallReadObject, Errors
<1>2. CASE source # NoSource
  <2>1. /\ stack' = <<Read("value"), Read("caller")>>
        /\ failure' = "none" /\ pc' = "reading"
        /\ UNCHANGED <<source, pos, start, tables, out, calls, before>>
    BY <1>2 DEF CallReadObject
  <2>2. HeapInv' /\ TextInv'
    BY <2>1, SameHeap, SameTexts DEF IInv, tables
  <2>3. StackInv'
    <3> DEFINE ids == Ids'
               objs == out'
    <3>1. IsStack(ids, objs, <<Read("value"), Read("caller")>>)
      BY CallKinds, ShortStacks DEF Words, Bottom
    <3>2. EndsAtCaller(<<Read("value"), Read("caller")>>)
      <4>1. \A x, y : <<x, y>> # << >> /\ <<x, y>>[Len(<<x, y>>)] = y
        OBVIOUS
      <4>2. Read("caller").op \in Bottom
        BY DEF Read, Bottom
      <4> QED
        BY <4>1, <4>2 DEF EndsAtCaller
    <3> QED
      BY <2>1, <3>1, <3>2 DEF StackInv, EndsAtCaller
  <2>4. SourceInv'
    BY <1>2, <2>1 DEF IInv, SourceInv
  <2> QED
    BY <2>2, <2>3, <2>4 DEF IInv
<1> QED
  BY <1>1, <1>2

(* A source is what the program passes; a message that failed is garbage.  *)
LEMMA DeserializeKeeps ==
    ASSUME IInv, calls < MaxCalls, calls' = calls + 1, NEW src \in Sources, Deserialize(src)
    PROVE  IInv'
<1>1. calls' \in 0 .. MaxCalls
  BY DeserializerAssumption DEF IInv, SourceInv
<1>2. /\ source' = src /\ pos' = 0 /\ failure' = "none" /\ stack' = << >>
      /\ tableStrings' = << >> /\ tableObjects' = << >> /\ tableTraits' = << >>
      /\ out' = IF failure = "none" THEN out ELSE SubSeq(out, 1, before)
      /\ before' = Len(out') /\ pc' = "reading" /\ start' = 0
  BY DEF Deserialize
<1>3. IsSource(src) /\ Len(src) \in Nat
  BY SourceFacts, DeserializerAssumption
<1>4. SourceInv'
  BY <1>1, <1>2, <1>3 DEF SourceInv
<1>5. HeapInv'
  <2> DEFINE objs == IF failure = "none" THEN out ELSE SubSeq(out, 1, before)
  <2>1. IsSeq(objs) /\ \A i \in 1 .. Len(objs) : objs[i].kind \in Kinds
    <3>1. IsSeq(out) /\ before \in 0 .. Len(out) /\ Len(out) \in Nat
          /\ \A i \in 1 .. Len(out) : out[i].kind \in Kinds
      BY SeqFacts DEF IInv, HeapInv
    <3>2. \A i \in 1 .. before : i \in 1 .. Len(out)
      BY <3>1
    <3> QED
      BY <3>1, <3>2, SubSeqFacts
  <2>2. out' = objs
    BY <1>2
  <2> HIDE DEF objs
  <2> QED
    BY <1>2, <2>1, <2>2, NoObjects
<1>6. TextInv'
  BY <1>2, NoTexts
<1> QED
  BY <1>2, <1>4, <1>5, <1>6, EmptyStack DEF IInv

LEMMA DeserializeNilKeeps ==
    ASSUME IInv, calls < MaxCalls, calls' = calls + 1, DeserializeNil
    PROVE  IInv'
<1>1. UNCHANGED <<source, pos, start, stack, tables, out, before>>
      /\ pc # "reading" /\ pc' = "raised" /\ failure' = "AMFError"
  BY DEF DeserializeNil
<1>2. calls' \in 0 .. MaxCalls
  BY DeserializerAssumption DEF IInv, SourceInv
<1>3. SourceInv' /\ StackInv'
  BY <1>1, <1>2, EmptyStack DEF IInv, SourceInv, Errors
<1>4. HeapInv' /\ TextInv'
  BY <1>1, SameHeap, SameTexts DEF IInv, tables
<1> QED
  BY <1>3, <1>4 DEF IInv

----------------------------------------------------------------------------
LEMMA InitIInv == Init => IInv
<1> SUFFICES ASSUME Init PROVE IInv
  OBVIOUS
<1>1. SourceInv
  <2>1. Len(NoSource) \in Nat
    BY DEF NoSource
  <2> QED
    BY <2>1, DeserializerAssumption DEF Init, SourceInv
<1>2. StackInv
  BY DEF Init, StackInv
<1>3. HeapInv
  <2>1. IsSeq(<< >>) /\ Len(<< >>) = 0 /\ << >> = [i \in 1 .. 0 |-> 0 + i]
    BY ShortSeqs
  <2>2. out = << >> /\ before = 0 /\ tableObjects = << >>
    BY DEF Init
  <2>3. Ids = {}
    BY <2>1, <2>2 DEF Ids
  <2> QED
    BY <2>1, <2>2, <2>3 DEF HeapInv
<1>4. TextInv
  <2>1. IsSeq(<< >>) /\ 1 .. Len(<< >>) = {}
    BY ShortSeqs
  <2> QED
    BY <2>1 DEF Init, TextInv
<1> QED
  BY <1>1, <1>2, <1>3, <1>4 DEF IInv

LEMMA NextIInv == IInv /\ [Next]_vars => IInv'
<1> SUFFICES ASSUME IInv, [Next]_vars PROVE IInv'
  OBVIOUS
<1>1. CASE Call
  BY <1>1, DeserializeKeeps, DeserializeNilKeeps DEF Call
<1>2. CASE CallReadObject
  BY <1>2, CallReadObjectKeeps
<1>3. CASE Step
  <2>1. CASE NextMessage \/ TakeMessage \/ EndOfSource \/ ReturnObject \/ Garbled
    BY <2>1, NextMessageKeeps, EndKeeps
  <2>2. CASE SourceEnds \/ BadMarker \/ NegativeLength \/ UnknownTraits \/ CreateFails
             \/ StampFails \/ PopulateFails
    BY <2>2, FailKeeps, PopulateFailsKeeps
  <2>3. CASE \/ ReadMarker \/ ReadInteger \/ ReadNumber \/ ReadWeak
             \/ ReadString \/ ReadContent
    BY <2>3, ScalarKeeps, StringKeeps
  <2>4. CASE ReadDate \/ ReadStamp \/ ReadByteArray \/ ReadOctets
    BY <2>4, TimeKeeps, BytesKeeps
  <2>5. CASE ReadArray \/ TakeArrayStart \/ TakeKey \/ TakeAssign
    BY <2>5, ArrayKeeps, TakeArrayStartKeeps, TakeKeyKeeps, TakeAssignKeeps
  <2>6. CASE ReadDictionary \/ TakeEntryKey
    BY <2>6, DictionaryKeeps, TakeEntryKeyKeeps
  <2>7. CASE ReadObject \/ TakeTraits \/ CreateInstance \/ Populate
    BY <2>7, ObjectKeeps, TraitsKeep, CreateKeeps, PopulateKeeps
  <2> QED
    BY <1>3, <2>1, <2>2, <2>3, <2>4, <2>5, <2>6, <2>7 DEF Step
<1>4. CASE UNCHANGED vars
  <2>1. UNCHANGED <<source, pos, start, stack, tables, out, calls, failure, pc, before>>
    BY <1>4 DEF vars, result
  <2>2. HeapInv' /\ TextInv' /\ Ids' = Ids
    BY <2>1, SameHeap, SameTexts DEF IInv, tables
  <2> QED
    BY <2>1, <2>2 DEF IInv, SourceInv, StackInv
<1> QED
  BY <1>1, <1>2, <1>3, <1>4 DEF Next

(* What the invariant says holds in every state the reader reaches.        *)
THEOREM IInvAlways == Spec => []IInv
  BY InitIInv, NextIInv, PTL DEF Spec

----------------------------------------------------------------------------
(* The reader keeps its types: no table refers beyond the objects made,    *)
(* the string table never holds '', no read goes beyond the source.        *)
THEOREM TypeOKAlways == Spec => []TypeOK
<1>1. IInv => TypeOK
  <2> SUFFICES ASSUME IInv PROVE TypeOK
    OBVIOUS
  <2>1. DOMAIN tableStrings = 1 .. Len(tableStrings) /\ DOMAIN out = 1 .. Len(out)
    BY SeqFacts DEF IInv, TextInv, HeapInv
  <2>2. \A i \in DOMAIN tableObjects : tableObjects[i] \in DOMAIN out
    BY IdsFacts DEF IInv
  <2> QED
    BY <2>1, <2>2 DEF IInv, SourceInv, HeapInv, TextInv, TypeOK, Errors
<1> QED
  BY <1>1, IInvAlways, PTL

(* amf3_read_* put an object into @cache_objects when they make it, before *)
(* they read what it holds: the table has the objects of the message in    *)
(* the order of their headers, at every moment and after every error.      *)
THEOREM TableInReadingOrderAlways == Spec => []TableInReadingOrder
<1>1. IInv => TableInReadingOrder
  BY DEF IInv, HeapInv, TableInReadingOrder
<1> QED
  BY <1>1, IInvAlways, PTL

(* Tables made anew for each message keep messages apart: no object holds  *)
(* a reference to one of another message, whatever the stream says.        *)
THEOREM MessagesAreClosedAlways == Spec => []MessagesAreClosed
<1>1. ASSUME NEW ids, NEW x, IsMade(ids, x) PROVE Refers(x) \subseteq ids
  <2>1. ASSUME NEW v \in Contents(x), Is("ref", v) PROVE v.ref \in ids
    <3>1. CASE x.kind = "array"
      <4>1. /\ Contents(x) = {x.elems[i] : i \in DOMAIN x.elems}
            /\ IsElems(ids, x.elems)
        BY <1>1, <3>1 DEF Contents, Range, IsMade
      <4> QED
        BY <2>1, <4>1, SeqFacts DEF IsElems, IsVal
    <3>2. CASE x.kind \in {"hash", "typed", "object"}
      <4>1. IsEntries(ids, x.pairs)
        BY <1>1, <3>2 DEF IsMade, Hashes
      <4>2. PICK i \in DOMAIN x.pairs : v = x.pairs[i][1] \/ v = x.pairs[i][2]
        BY <2>1, <3>2 DEF Contents, Range
      <4>3. i \in 1 .. Len(x.pairs)
        BY <4>1, <4>2, SeqFacts DEF IsEntries
      <4> QED
        BY <2>1, <4>1, <4>2, <4>3 DEF IsEntries, IsVal
    <3> QED
      BY <2>1, <3>1, <3>2 DEF Contents
  <2> QED
    BY <2>1 DEF Refers
<1>2. IInv => MessagesAreClosed
  <2> SUFFICES ASSUME IInv PROVE MessagesAreClosed
    OBVIOUS
  <2>1. \A i \in Ids : IsMade(Ids, out[i])
    BY DEF IInv, HeapInv
  <2> QED
    BY <1>1, <2>1 DEF MessagesAreClosed, Ids
<1> QED
  BY <1>2, IInvAlways, PTL

----------------------------------------------------------------------------
(* The states of a stream, and how one follows another.                    *)
Ops == {"value", "integer", "weak", "double", "nothing"} \cup TextItems \cup ObjectItems

Items == {Want(op) : op \in Ops} \cup {WantOf(op, n) : op \in BodyItems, n \in Nat}

Layouts == [count : Nat, dynamic : BOOLEAN]

FrameStates == [want : Seq(Items), strings : Nat, objects : Nat, traits : Seq(Layouts)]

IsWorded(t) == Is("word", t) => t.word \in Nat

LEMMA WantsFacts ==
    ASSUME NEW op, NEW n \in Nat
    PROVE  /\ Wants(op, n) \in Seq({Want(op)}) /\ Len(Wants(op, n)) = n
           /\ \A i \in 1 .. n : Wants(op, n)[i] = Want(op)
           /\ \A S : Want(op) \in S => Wants(op, n) \in Seq(S)
           /\ n = 0 => Wants(op, n) = << >>
           /\ n > 0 => Wants(op, n) = <<Want(op)>> \o Wants(op, n - 1)
<1> DEFINE x == Want(op)
<1> HIDE DEF x
<1>1. \A m : Wants(op, m) = [i \in 1 .. m |-> x]
  BY DEF Wants, x
<1>2. /\ Wants(op, n) \in Seq({x}) /\ Len(Wants(op, n)) = n
      /\ \A i \in 1 .. n : Wants(op, n)[i] = x
  BY <1>1
<1>3. /\ n = 0 => Wants(op, n) = << >>
      /\ \A S : x \in S => Wants(op, n) \in Seq(S)
  BY <1>1
<1>4. n > 0 => Wants(op, n) = <<x>> \o Wants(op, n - 1)
  <2> SUFFICES ASSUME n > 0 PROVE Wants(op, n) = <<x>> \o Wants(op, n - 1)
    OBVIOUS
  <2>1. n - 1 \in Nat /\ Wants(op, n - 1) = [i \in 1 .. n - 1 |-> x]
    BY <1>1
  <2>2. Wants(op, n - 1) \in Seq({x}) /\ Len(Wants(op, n - 1)) = n - 1
        /\ \A i \in 1 .. n - 1 : Wants(op, n - 1)[i] = x
    BY <2>1
  <2> QED
    BY <1>2, <2>1, <2>2
<1> QED
  BY <1>2, <1>3, <1>4 DEF x

LEMMA HeaderFacts ==
    ASSUME NEW t, t.word \in Nat
    PROVE  /\ Number(t) \in Int /\ Size(t) \in Int
           /\ Number(t) >= 0 => /\ Size(t) \in Nat /\ OwnTraits(t) \in Layouts
                                /\ Size(t) \div 2 \in Nat
<1>1. Number(t) \in Int
  BY DEF Number, Signed
<1>2. ASSUME Number(t) >= 0 PROVE Size(t) \in Nat /\ Number(t) \div 16 \in Nat /\ Size(t) \div 2 \in Nat
  BY <1>1, <1>2 DEF Size
<1>3. ((Number(t) \div 8) % 2 = 1) \in BOOLEAN
  OBVIOUS
<1> QED
  BY <1>1, <1>2, <1>3 DEF Size, OwnTraits, Layouts

LEMMA MembersFacts ==
    ASSUME NEW traits \in Layouts PROVE Members(traits) \in Seq(Items)
<1>1. {Want("value")} \subseteq Items /\ Want("keys") \in Items
  BY DEF Items, Ops, TextItems
<1>2. Wants("value", traits.count) \in Seq(Items)
  <2> HIDE DEF Items
  <2>1. traits.count \in Nat
    BY DEF Layouts
  <2> QED
    BY <1>1, <2>1, WantsFacts
<1>3. (IF traits.dynamic THEN <<Want("keys")>> ELSE << >>) \in Seq(Items)
  BY <1>1
<1> HIDE DEF Items
<1> QED
  BY <1>2, <1>3 DEF Members

LEMMA AtRestFacts == AtRest \in FrameStates /\ Refused \in FrameStates /\ Refused # AtRest
                     /\ Refused.want = <<Want("nothing")>>
<1>1. Want("nothing") \in Items
  BY DEF Items, Ops
<1>2. Refused = [want |-> <<Want("nothing")>>, strings |-> 0, objects |-> 0, traits |-> << >>]
  BY DEF Refused, AtRest
<1> HIDE DEF Items
<1> QED
  BY <1>1, <1>2 DEF AtRest, FrameStates

LEMMA BegunFacts ==
    ASSUME NEW st \in FrameStates
    PROVE  /\ Begun(st) \in FrameStates /\ Begun(st).want # << >>
           /\ st.want # << >> => Begun(st) = st
           /\ st.want = << >> => Begun(st) = [want |-> <<Want("value")>>, strings |-> 0,
                                              objects |-> 0, traits |-> << >>]
<1>1. Want("value") \in Items
  BY DEF Items, Ops
<1>2. st.want # << >> => Begun(st) = st
  BY DEF Begun
<1>3. st.want = << >> => Begun(st) = [want |-> <<Want("value")>>, strings |-> 0,
                                      objects |-> 0, traits |-> << >>]
  BY DEF Begun, AtRest
<1> HIDE DEF Items
<1>4. CASE st.want = << >>
  <2> DEFINE w == <<Want("value")>>
  <2>1. w # << >> /\ w \in Seq(Items) /\ << >> \in Seq(Layouts) /\ 0 \in Nat
    BY <1>1
  <2>2. Begun(st) = [want |-> w, strings |-> 0, objects |-> 0, traits |-> << >>]
    BY <1>3, <1>4
  <2> HIDE DEF w
  <2>3. Begun(st) \in FrameStates /\ Begun(st).want = w
    BY <2>1, <2>2 DEF FrameStates
  <2> QED
    BY <1>3, <1>4, <2>1, <2>3
<1>5. CASE st.want # << >>
  BY <1>2, <1>5
<1> QED
  BY <1>2, <1>3, <1>4, <1>5

LEMMA AnnouncedType ==
    ASSUME NEW st \in FrameStates, st.want # << >>, NEW t, IsWorded(t), Suits(st, t)
    PROVE  Announced(st, Head(st.want).op, t) \in Seq(Items)
<1> DEFINE op == Head(st.want).op
           item == Head(st.want)
<1>1. item \in Items
  BY DEF FrameStates
<1>2. op \in Ops \cup BodyItems
  <2>1. CASE item \in {Want(o) : o \in Ops}
    BY <2>1 DEF Want
  <2>2. CASE item \in {WantOf(o, n) : o \in BodyItems, n \in Nat}
    BY <2>2 DEF WantOf
  <2> QED
    BY <1>1, <2>1, <2>2 DEF Items
<1>3. Is(Kind(item), t)
  BY DEF Suits
<1> HIDE DEF item
<1>4. \A o \in Ops : Want(o) \in Items
  BY DEF Items
<1>5. \A o \in BodyItems, n \in Nat : WantOf(o, n) \in Items
  BY DEF Items
<1>6. CASE op = "value"
  <2>1. Opening(t.word) \in Seq(Items)
    <3>1. \A o \in {"integer", "double", "string", "date", "array", "object", "bytes", "dict"} :
             Want(o) \in Items
      BY <1>4 DEF Ops, TextItems, ObjectItems
    <3> HIDE DEF Items
    <3> QED
      BY <3>1 DEF Opening
  <2> QED
    BY <1>6, <2>1 DEF Announced
<1>7. ASSUME op \in TextItems \cup ObjectItems
      PROVE  /\ t.word \in Nat /\ Number(t) >= 0 /\ Size(t) \in Nat
             /\ OwnTraits(t) \in Layouts /\ SuitsHeader(st, op, t)
  <2>1. Kind(item) = "word"
    BY <1>7 DEF Kind, TextItems, ObjectItems, BodyItems, item
  <2>2. t.word \in Nat
    BY <1>3, <2>1 DEF IsWorded
  <2>3. SuitsHeader(st, op, t) /\ Number(t) >= 0
    BY <1>7 DEF Suits, SuitsHeader
  <2> QED
    BY <2>2, <2>3, HeaderFacts
<1> HIDE DEF op
<1>8. CASE op \in TextItems
  <2>1. /\ Size(t) = 0 \/ WantOf("content", Size(t)) \in Items
        /\ Want("value") \in Items /\ Want("keys") \in Items
    BY <1>4, <1>5, <1>7, <1>8 DEF BodyItems, Ops, TextItems
  <2> DEFINE a == IF IsShared(t) \/ Size(t) = 0 THEN << >> ELSE <<WantOf("content", Size(t))>>
             b == IF op = "keys" /\ Number(t) # EMPTY_STRING THEN <<Want("value"), Want("keys")>>
                  ELSE << >>
  <2> HIDE DEF Items
  <2>2. a \in Seq(Items) /\ b \in Seq(Items)
    BY <2>1
  <2>3. TextWants(op, t) = a \o b
    BY DEF TextWants
  <2> HIDE DEF a, b
  <2>4. TextWants(op, t) \in Seq(Items)
    BY <2>2, <2>3
  <2>5. op # "value"
    BY <1>8 DEF TextItems
  <2> QED
    BY <1>8, <2>4, <2>5 DEF Announced, op
<1>9. CASE op \in ObjectItems
  <2>1. /\ Want("double") \in Items /\ Want("keys") \in Items /\ Want("weak") \in Items
        /\ Want("value") \in Items /\ Want("string") \in Items
        /\ WantOf("octets", Size(t)) \in Items
    BY <1>4, <1>5, <1>7, <1>9 DEF BodyItems, Ops, TextItems
  <2>2. \A o \in {"value", "string"}, n \in Nat : Wants(o, n) \in Seq(Items)
    <3> HIDE DEF Items
    <3>1. ASSUME NEW o \in {"value", "string"}, NEW n \in Nat PROVE Wants(o, n) \in Seq(Items)
      <4>1. Want(o) \in Items
        BY <2>1
      <4> QED
        BY <4>1, WantsFacts
    <3> QED
      BY <3>1
  <2>3. OwnTraits(t).count + 1 \in Nat /\ Size(t) \in Nat /\ 2 * Size(t) \in Nat
    BY <1>7, <1>9 DEF Layouts
  <2>4. Wants("value", Size(t)) \in Seq(Items) /\ Wants("value", 2 * Size(t)) \in Seq(Items)
        /\ Wants("string", OwnTraits(t).count + 1) \in Seq(Items)
    BY <2>2, <2>3
  <2>5. Members(OwnTraits(t)) \in Seq(Items)
    BY <1>7, <1>9, MembersFacts
  <2>6. ASSUME op = "object", ~IsShared(t), SharesTraits(t)
        PROVE  Members(st.traits[(Size(t) \div 2) + 1]) \in Seq(Items)
    <3>1. Size(t) \div 2 < Len(st.traits) /\ Size(t) \div 2 \in Nat
      BY <1>7, <1>9, <2>6, HeaderFacts DEF SuitsHeader
    <3>2. st.traits \in Seq(Layouts)
      BY DEF FrameStates
    <3>3. st.traits[(Size(t) \div 2) + 1] \in Layouts
      BY <3>1, <3>2
    <3> QED
      BY <3>3, MembersFacts
  <2> HIDE DEF Items
  <2>7. ASSUME ~IsShared(t) PROVE ObjectWants(st, op, t) \in Seq(Items)
    <3>1. CASE op \in {"date", "bytes", "array", "dict"}
      BY <2>1, <2>4, <3>1 DEF ObjectWants
    <3>2. CASE op = "object"
      BY <2>4, <2>5, <2>6, <2>7, <3>2 DEF ObjectWants
    <3> QED
      BY <1>9, <3>1, <3>2 DEF ObjectItems
  <2>8. op # "value" /\ op \notin TextItems
    BY <1>9 DEF ObjectItems, TextItems
  <2> QED
    BY <2>7, <2>8 DEF Announced, op
<1>10. CASE op \notin {"value"} \cup TextItems \cup ObjectItems
  <2> HIDE DEF Items
  <2> QED
    BY <1>10 DEF Announced, op
<1> QED
  BY <1>6, <1>8, <1>9, <1>10 DEF op

LEMMA AfterType ==
    ASSUME NEW st \in FrameStates, NEW t, IsWorded(t)
    PROVE  After(st, t) \in FrameStates
<1> DEFINE begun == Begun(st)
           op == Head(begun.want).op
           new == IF op \in ObjectItems /\ ~IsShared(t) /\ op = "object" /\ ~SharesTraits(t)
                  THEN Append(begun.traits, OwnTraits(t)) ELSE begun.traits
<1>1. begun \in FrameStates /\ begun.want # << >>
  BY BegunFacts
<1>2. CASE st = Refused \/ ~Suits(begun, t)
  BY <1>2, AtRestFacts DEF After
<1>3. CASE ~(st = Refused \/ ~Suits(begun, t))
  <2> HIDE DEF begun
  <2>1. Announced(begun, op, t) \in Seq(Items) /\ After(st, t) = Advanced(begun, t)
    BY <1>1, <1>3, AnnouncedType DEF After, begun
  <2>2. Tail(begun.want) \in Seq(Items) /\ begun.traits \in Seq(Layouts)
        /\ begun.strings \in Nat /\ begun.objects \in Nat
    BY <1>1 DEF FrameStates
  <2>3. Announced(begun, op, t) \o Tail(begun.want) \in Seq(Items)
    BY <2>1, <2>2
  <2>4. new \in Seq(Layouts)
    <3>1. ASSUME op = "object" PROVE OwnTraits(t) \in Layouts
      <4>1. Suits(begun, t)
        BY <1>3
      <4>2. Number(t) >= 0 /\ Is("word", t)
        BY <3>1, <4>1 DEF Suits, SuitsHeader, Kind, BodyItems, ObjectItems
      <4> QED
        BY <4>2, HeaderFacts DEF IsWorded
    <3> QED
      BY <2>2, <3>1
  <2>5. Advanced(begun, t) =
          [want    |-> Announced(begun, op, t) \o Tail(begun.want),
           strings |-> IF op = "content" THEN begun.strings + 1 ELSE begun.strings,
           objects |-> IF op \in ObjectItems /\ ~IsShared(t) THEN begun.objects + 1
                       ELSE begun.objects,
           traits  |-> new]
    BY DEF Advanced
  <2> HIDE DEF op, new
  <2> QED
    BY <2>1, <2>2, <2>3, <2>4, <2>5 DEF FrameStates
<1> QED
  BY <1>2, <1>3

(* Frames is the recursion it says it is.                                  *)
LEMMA FramesFacts ==
    ASSUME NEW src, Len(src) \in Nat, \A i \in 1 .. Len(src) : IsWorded(src[i])
    PROVE  /\ Frames(src)[0] = AtRest
           /\ \A n \in 1 .. Len(src) : Frames(src)[n] = After(Frames(src)[n - 1], src[n])
           /\ \A n \in 0 .. Len(src) : Frames(src)[n] \in FrameStates
<1> DEFINE n == Len(src)
           T == FrameStates
           F == [x \in T \X (1 .. n) |-> After(x[1], src[x[2]])]
           Rec(h) == h = [m \in 0 .. n |-> IF m = 0 THEN AtRest ELSE After(h[m - 1], src[m])]
           f == CHOOSE h : Rec(h)
<1>1. Frames(src) = f
  BY DEF Frames
<1>2. AtRest \in T /\ n \in Nat
  BY AtRestFacts
<1>3. F \in StepOver(n, T)
  <2>1. ASSUME NEW x \in T \X (1 .. n) PROVE After(x[1], src[x[2]]) \in T
    <3>1. x[1] \in T /\ x[2] \in 1 .. n
      OBVIOUS
    <3> HIDE DEF T
    <3>2. IsWorded(src[x[2]])
      BY <3>1
    <3> QED
      BY <3>1, <3>2, AfterType DEF T
  <2> QED
    BY <2>1 DEF StepOver
<1> HIDE DEF T, n
<1>4. PICK h \in [0 .. n -> T] : Solves(h, n, AtRest, F)
  BY <1>2, <1>3, RecursionSolved
<1>5. \A s \in T, m \in 1 .. n : F[<<s, m>>] = After(s, src[m])
  OBVIOUS
<1> HIDE DEF F
<1>6. ASSUME NEW m \in 0 .. n PROVE h[m] = IF m = 0 THEN AtRest ELSE After(h[m - 1], src[m])
  <2>1. CASE m = 0
    BY <1>4, <2>1 DEF Solves
  <2>2. CASE m # 0
    <3>1. m \in 1 .. n /\ m - 1 \in 0 .. n
      BY <1>2, <2>2
    <3>2. h[m] = F[<<h[m - 1], m>>]
      BY <1>4, <3>1 DEF Solves
    <3> QED
      BY <1>4, <1>5, <2>2, <3>1, <3>2
  <2> QED
    BY <2>1, <2>2
<1>7. Rec(h)
  <2>1. h = [m \in 0 .. n |-> h[m]]
    BY <1>4
  <2> QED
    BY <1>6, <2>1
<1>8. Rec(f)
  BY <1>7
<1> HIDE DEF f
<1>9. \A m \in 0 .. n : f[m] = IF m = 0 THEN AtRest ELSE After(f[m - 1], src[m])
  BY <1>8
<1> HIDE DEF Rec
<1>10. f[0] = AtRest /\ \A m \in 1 .. n : f[m] = After(f[m - 1], src[m])
  <2>1. 0 \in 0 .. n /\ \A m \in 1 .. n : m \in 0 .. n /\ m # 0
    BY <1>2
  <2> QED
    BY <1>9, <2>1
<1>11. \A m \in 0 .. n : f[m] \in T
  <2> DEFINE S == {m \in Nat : m <= n => f[m] \in T}
  <2>1. 0 \in S
    BY <1>2, <1>10
  <2>2. ASSUME NEW m \in Nat, m \in S PROVE m + 1 \in S
    <3>1. CASE m + 1 <= n
      <4>1. f[m] \in T /\ m + 1 \in 1 .. n /\ (m + 1) - 1 = m
        BY <1>2, <2>2, <3>1
      <4>2. f[m + 1] = After(f[m], src[m + 1]) /\ IsWorded(src[m + 1])
        BY <1>10, <4>1 DEF n
      <4>3. f[m + 1] \in T
        BY <4>1, <4>2, AfterType DEF T
      <4> QED
        BY <4>3
    <3>2. CASE ~(m + 1 <= n)
      BY <3>2
    <3> QED
      BY <3>1, <3>2
  <2>3. Nat \subseteq S
    <3> HIDE DEF S
    <3> QED
      BY <2>1, <2>2, SetInduction
  <2> QED
    BY <1>2, <2>3
<1> QED
  BY <1>1, <1>10, <1>11 DEF n, T

(* What is refused stays refused.                                          *)
LEMMA NeverRefused ==
    ASSUME NEW src, Len(src) \in Nat, \A i \in 1 .. Len(src) : IsWorded(src[i]),
           WellFramed(src)
    PROVE  \A n \in 0 .. Len(src) : Frames(src)[n] # Refused
<1> DEFINE S == {m \in Nat : m <= Len(src) => Frames(src)[Len(src) - m] # Refused}
<1>1. 0 \in S
  BY DEF WellFramed
<1>2. ASSUME NEW m \in Nat, m \in S PROVE m + 1 \in S
  <2>1. CASE m + 1 <= Len(src)
    <3> DEFINE k == Len(src) - m
    <3>1. k \in 1 .. Len(src) /\ k - 1 = Len(src) - (m + 1) /\ m <= Len(src)
      BY <2>1
    <3>2. Frames(src)[k] # Refused
      BY <1>2, <3>1
    <3>3. Frames(src)[k] = After(Frames(src)[k - 1], src[k])
      BY <3>1, FramesFacts
    <3>4. Frames(src)[k - 1] # Refused
      BY <3>2, <3>3 DEF After
    <3> QED
      BY <3>1, <3>4
  <2>2. CASE ~(m + 1 <= Len(src))
    BY <2>2
  <2> QED
    BY <2>1, <2>2
<1>3. Nat \subseteq S
  <2> HIDE DEF S
  <2> QED
    BY <1>1, <1>2, SetInduction
<1>4. ASSUME NEW n \in 0 .. Len(src) PROVE Frames(src)[n] # Refused
  <2>1. Len(src) - n \in Nat /\ Len(src) - n <= Len(src) /\ Len(src) - (Len(src) - n) = n
    OBVIOUS
  <2>2. Len(src) - n \in S
    BY <1>3, <2>1
  <2> QED
    BY <2>1, <2>2
<1> QED
  BY <1>4

----------------------------------------------------------------------------
(* What a stack of calls looks like.                                       *)
KeyTakers == {"key", "arrayStart"}
Takers    == KeyTakers \cup {"traits"}
Once      == {"arrayStart", "traits"}
Lasting   == {"value", "string", "got", "assign", "key", "entry", "populate"}

IsText(c) == c.op \in {"string", "content"} \/ (c.op = "got" /\ Is("str", c.value))

Paired(s) == \A i \in 1 .. Len(s) - 1 : s[i].op = "string" <=> s[i + 1].op = "key"

(* What waits below the call that runs.                                    *)
IsCalm(s) == /\ IsSeq(s) /\ s # << >> /\ Paired(s)
             /\ s[Len(s)].op \in Bottom /\ s[1].op # "key"
             /\ \A i \in 1 .. Len(s) - 1 : s[i].op \in Lasting

IsBelow(s) == IsSeq(s) /\ s # << >> /\ (IsCalm(s) \/ (Head(s).op \in Takers /\ IsCalm(Tail(s))))

IsShaped(s) == /\ IsSeq(s) /\ Len(s) > 1 /\ Head(s).op \notin Bottom \cup Takers
               /\ IsBelow(Tail(s))
               /\ s[2].op \in Takers => IsText(Head(s))

(* Calls put on a calm stack.                                              *)
IsBlock(a) == /\ IsSeq(a) /\ Paired(a)
              /\ \A i \in 1 .. Len(a) : a[i].op \in Lasting
              /\ a # << >> => a[1].op # "key" /\ a[Len(a)].op # "string"

LEMMA BlockOnCalm ==
    ASSUME NEW a, IsBlock(a), NEW s, IsCalm(s) PROVE IsCalm(a \o s)
<1> DEFINE m == Len(a)
           n == Len(s)
           t == a \o s
<1>1. /\ m \in Nat /\ n \in Nat /\ n > 0 /\ IsSeq(t) /\ Len(t) = m + n
      /\ \A i \in 1 .. m : t[i] = a[i]
      /\ \A i \in 1 .. n : t[m + i] = s[i]
  BY SeqFacts, ConcatFacts DEF IsBlock, IsCalm
<1>2. /\ Paired(a) /\ \A i \in 1 .. m : a[i].op \in Lasting
      /\ m > 0 => a[1].op # "key" /\ a[m].op # "string"
  <2>1. m > 0 => a # << >>
    <3>1. Len(<< >>) = 0
      OBVIOUS
    <3> QED
      BY <1>1, <3>1
  <2> QED
    BY <2>1 DEF IsBlock
<1>3. /\ Paired(s) /\ s[n].op \in Bottom /\ s[1].op # "key"
      /\ \A i \in 1 .. n - 1 : s[i].op \in Lasting
  BY DEF IsCalm
<1>4. t # << >> /\ t[m + n] = s[n] /\ t[m + 1] = s[1]
  <2>1. n \in 1 .. n /\ 1 \in 1 .. n
    BY <1>1
  <2>2. Len(<< >>) = 0 /\ Len(t) > 0
    BY <1>1
  <2> QED
    BY <1>1, <2>1, <2>2
<1> HIDE DEF m, n, t
<1>5. ASSUME NEW i \in 1 .. m + n - 1
      PROVE  t[i].op \in Lasting /\ (t[i].op = "string" <=> t[i + 1].op = "key")
  <2>1. CASE i \in 1 .. m - 1
    <3>1. i \in 1 .. m /\ i + 1 \in 1 .. m
      BY <1>1, <2>1
    <3>2. t[i] = a[i] /\ t[i + 1] = a[i + 1]
      BY <1>1, <3>1
    <3> QED
      BY <1>2, <2>1, <3>1, <3>2 DEF Paired, m
  <2>2. CASE i = m
    <3>1. m > 0 /\ i \in 1 .. m
      BY <1>1, <2>2
    <3>2. t[i] = a[m] /\ t[i + 1] = s[1]
      BY <1>1, <1>4, <2>2, <3>1
    <3>3. a[m].op # "string" /\ a[m].op \in Lasting /\ s[1].op # "key"
      BY <1>2, <1>3, <2>2, <3>1
    <3> QED
      BY <3>2, <3>3
  <2>3. CASE i \notin 1 .. m
    <3> DEFINE j == i - m
    <3>1. j \in 1 .. n - 1 /\ j \in 1 .. n /\ j + 1 \in 1 .. n /\ i = m + j /\ i + 1 = m + (j + 1)
      BY <1>1, <2>3
    <3> HIDE DEF j
    <3>2. t[i] = s[j] /\ t[i + 1] = s[j + 1]
      BY <1>1, <3>1
    <3> QED
      BY <1>3, <3>1, <3>2 DEF Paired, n
  <2> QED
    BY <1>1, <2>1, <2>2, <2>3
<1>6. t[1].op # "key"
  <2>1. CASE m = 0
    BY <1>1, <1>3, <1>4, <2>1
  <2>2. CASE m # 0
    <3>1. 1 \in 1 .. m /\ m > 0
      BY <1>1, <2>2
    <3> QED
      BY <1>1, <1>2, <3>1
  <2> QED
    BY <2>1, <2>2
<1>7. Paired(t) /\ \A i \in 1 .. Len(t) - 1 : t[i].op \in Lasting
  BY <1>1, <1>5 DEF Paired
<1>8. IsCalm(t)
  BY <1>1, <1>3, <1>4, <1>6, <1>7 DEF IsCalm
<1> QED
  BY <1>8 DEF t

LEMMA ConsFacts ==
    ASSUME NEW c, NEW s, IsSeq(s)
    PROVE  LET t == <<c>> \o s
           IN  /\ IsSeq(t) /\ t # << >> /\ Len(t) = Len(s) + 1
               /\ Head(t) = c /\ t[1] = c /\ Tail(t) = s
               /\ s # << >> => Len(t) > 1 /\ t[2] = Head(s)
<1> DEFINE t == <<c>> \o s
<1>1. PICK S : s \in Seq(S)
  BY DEF IsSeq
<1>2. IsSeq(t) /\ Len(t) = 1 + Len(s) /\ Len(s) \in Nat
  BY ConcatFacts, ShortSeqs, SeqFacts
<1>3. Head(t) = c /\ t[1] = c /\ Tail(t) = s
  BY <1>1
<1>4. t # << >>
  <2>1. Len(<< >>) = 0
    OBVIOUS
  <2> QED
    BY <1>2, <2>1
<1>5. ASSUME s # << >> PROVE Len(t) > 1 /\ t[2] = Head(s)
  <2>1. Len(s) > 0 /\ Head(s) = s[1] /\ 1 \in 1 .. Len(s)
    BY <1>5, SeqFacts
  <2>2. t[1 + 1] = s[1]
    BY <2>1, ConcatFacts, ShortSeqs
  <2> QED
    BY <1>2, <2>1, <2>2
<1> QED
  BY <1>2, <1>3, <1>4, <1>5

LEMMA CalmHead ==
    ASSUME NEW s, IsCalm(s)
    PROVE  /\ Head(s) = s[1] /\ IsSeq(s) /\ s # << >> /\ Head(s).op \notin Takers
           /\ Head(s).op \in Lasting \cup Bottom /\ IsBelow(s)
<1> DEFINE n == Len(s)
<1>1. Head(s) = s[1] /\ s[1].op # "key" /\ n \in Nat /\ n > 0 /\ IsSeq(s) /\ s # << >>
  BY SeqFacts DEF IsCalm
<1>2. s[1].op \in Lasting \cup Bottom
  <2> HIDE DEF n
  <2>1. n = 1 \/ 1 \in 1 .. n - 1
    BY <1>1
  <2> QED
    BY <2>1 DEF IsCalm, n
<1> QED
  BY <1>1, <1>2 DEF IsBelow, Lasting, Bottom, Takers, KeyTakers

LEMMA PutOnCalm ==
    ASSUME NEW s, IsCalm(s), NEW c
    PROVE  /\ c.op \notin Bottom \cup Takers => IsShaped(<<c>> \o s)
           /\ c.op \in Takers => IsBelow(<<c>> \o s)
<1> DEFINE t == <<c>> \o s
<1>1. /\ IsSeq(s) /\ s # << >> /\ IsSeq(t) /\ t # << >>
      /\ Head(t) = c /\ Tail(t) = s /\ Len(t) > 1 /\ t[2] = Head(s)
  BY ConsFacts DEF IsCalm
<1>2. Head(s).op \notin Takers
  BY CalmHead
<1> HIDE DEF t
<1>3. c.op \notin Bottom \cup Takers => IsShaped(t)
  BY <1>1, <1>2 DEF IsShaped, IsBelow
<1>4. c.op \in Takers => IsBelow(t)
  BY <1>1 DEF IsBelow
<1> QED
  BY <1>3, <1>4 DEF t

LEMMA PutText ==
    ASSUME NEW s, IsBelow(s), NEW c, IsText(c) PROVE IsShaped(<<c>> \o s)
<1> DEFINE t == <<c>> \o s
<1>1. /\ IsSeq(s) /\ s # << >> /\ IsSeq(t) /\ t # << >>
      /\ Head(t) = c /\ Tail(t) = s /\ Len(t) > 1
  BY ConsFacts DEF IsBelow
<1>2. c.op \notin Bottom \cup Takers
  BY DEF IsText, Bottom, Takers, KeyTakers
<1> HIDE DEF t
<1>3. IsShaped(t)
  BY <1>1, <1>2 DEF IsShaped
<1> QED
  BY <1>3 DEF t

(* A calm stack without its head, and as the stack itself.                 *)
LEMMA CalmTail ==
    ASSUME NEW s, IsCalm(s), Tail(s) # << >>
    PROVE  /\ Head(s).op # "string" => IsCalm(Tail(s))
           /\ Head(s).op = "string" => Head(Tail(s)).op = "key" /\ IsBelow(Tail(s))
           /\ Head(s).op \in Lasting \ {"key"}
           /\ Len(s) > 1 /\ s[2] = Head(Tail(s)) /\ IsSeq(Tail(s))
<1> DEFINE n == Len(s)
           t == Tail(s)
<1>1. /\ n \in Nat /\ n > 1 /\ Head(s) = s[1] /\ IsSeq(t) /\ Len(t) = n - 1
      /\ \A i \in 1 .. n - 1 : t[i] = s[i + 1]
      /\ t[Len(t)] = s[n]
  BY SeqFacts, TailLast DEF IsCalm
<1>2. Head(t) = t[1] /\ t[1] = s[2] /\ 1 \in 1 .. n - 1
  <2>1. 1 \in 1 .. n - 1 /\ 1 + 1 = 2
    BY <1>1
  <2>2. Head(t) = t[1]
    BY <1>1, SeqFacts
  <2>3. t[1] = s[1 + 1]
    BY <1>1, <2>1
  <2> QED
    BY <2>1, <2>2, <2>3
<1>3. s[1].op \in Lasting \ {"key"} /\ (s[1].op = "string" <=> s[2].op = "key")
  <2>1. 1 + 1 = 2
    OBVIOUS
  <2>2. s[1].op = "string" <=> s[1 + 1].op = "key"
    BY <1>2 DEF IsCalm, Paired
  <2> QED
    BY <1>2, <2>1, <2>2 DEF IsCalm
<1> HIDE DEF n, t
<1>4. /\ Paired(t)
      /\ \A i \in 1 .. Len(t) - 1 : t[i].op \in Lasting
      /\ t[Len(t)].op \in Bottom
  <2>1. ASSUME NEW i \in 1 .. Len(t) - 1
        PROVE  t[i].op \in Lasting /\ (t[i].op = "string" <=> t[i + 1].op = "key")
    <3>1. i \in 1 .. n - 1 /\ i + 1 \in 1 .. n - 1
      BY <1>1
    <3>2. t[i] = s[i + 1] /\ t[i + 1] = s[(i + 1) + 1]
      BY <1>1, <3>1
    <3> QED
      BY <3>1, <3>2 DEF IsCalm, Paired, n
  <2>2. s[n].op \in Bottom
    BY DEF IsCalm, n
  <2> QED
    BY <1>1, <2>1, <2>2 DEF Paired
<1>5. t # << >>
  BY DEF t
<1>6. t[1].op # "key" => IsCalm(t)
  BY <1>1, <1>4, <1>5 DEF IsCalm
<1>7. ASSUME t[1].op = "key" PROVE IsBelow(t)
  <2>1. Tail(t) # << >>
    <3>1. ASSUME Tail(t) = << >> PROVE FALSE
      <4>1. Head(t).op \in Bottom
        BY <1>1, <1>4, <1>5, <3>1, TailLast
      <4> QED
        BY <1>2, <1>7, <4>1 DEF Bottom
    <3> QED
      BY <3>1
  <2> DEFINE u == Tail(t)
             k == Len(t)
  <2>2. /\ k \in Nat /\ k > 1 /\ IsSeq(u) /\ Len(u) = k - 1 /\ u[Len(u)] = t[k]
        /\ \A i \in 1 .. k - 1 : u[i] = t[i + 1]
    BY <1>1, <1>5, <2>1, SeqFacts, TailLast
  <2>3. u # << >>
    BY <2>1
  <2> HIDE DEF u, k
  <2>4. u[1] = t[2] /\ 1 \in 1 .. k - 1 /\ t[2].op # "key"
    <3>1. 1 \in 1 .. k - 1 /\ 1 + 1 = 2
      BY <2>2
    <3>2. u[1] = t[1 + 1]
      BY <2>2, <3>1
    <3>3. t[1].op = "string" <=> t[1 + 1].op = "key"
      BY <1>4, <3>1 DEF Paired, k
    <3> QED
      BY <1>7, <3>1, <3>2, <3>3
  <2>5. ASSUME NEW i \in 1 .. Len(u) - 1
        PROVE  u[i].op \in Lasting /\ (u[i].op = "string" <=> u[i + 1].op = "key")
    <3>1. i \in 1 .. k - 1 /\ i + 1 \in 1 .. k - 1
      BY <2>2
    <3>2. u[i] = t[i + 1] /\ u[i + 1] = t[(i + 1) + 1]
      BY <2>2, <3>1
    <3> QED
      BY <1>4, <3>1, <3>2 DEF Paired, k
  <2>6. IsCalm(u)
    BY <1>4, <2>2, <2>3, <2>4, <2>5 DEF IsCalm, Paired, k
  <2>7. Head(t).op \in Takers
    BY <1>2, <1>7 DEF Takers, KeyTakers
  <2> QED
    BY <1>1, <1>5, <2>6, <2>7 DEF IsBelow, u
<1>8. t[1] = s[2]
  BY <1>2
<1> QED
  BY <1>1, <1>2, <1>3, <1>6, <1>7 DEF t, n

LEMMA CalmShaped == ASSUME NEW s, IsCalm(s), Tail(s) # << >> PROVE IsShaped(s)
<1>1. /\ Head(s).op # "string" => IsCalm(Tail(s))
      /\ Head(s).op = "string" => Head(Tail(s)).op = "key" /\ IsBelow(Tail(s))
      /\ Head(s).op \in Lasting \ {"key"} /\ IsSeq(s) /\ s # << >>
      /\ Len(s) > 1 /\ s[2] = Head(Tail(s)) /\ IsSeq(Tail(s))
  BY CalmTail DEF IsCalm
<1>2. Head(s).op \notin Bottom \cup Takers
  BY <1>1 DEF Lasting, Bottom, Takers, KeyTakers
<1>3. CASE Head(s).op = "string"
  BY <1>1, <1>2, <1>3 DEF IsShaped, IsText
<1>4. CASE Head(s).op # "string"
  <2>1. IsBelow(Tail(s)) /\ Head(Tail(s)).op \notin Takers
    BY <1>1, <1>4, CalmHead
  <2> QED
    BY <1>1, <1>2, <2>1 DEF IsShaped
<1> QED
  BY <1>3, <1>4

----------------------------------------------------------------------------
(* What the calls that wait want of the stream.                            *)
Layout(traits) == [count |-> Len(traits.members), dynamic |-> traits.dynamic]

Piece(c) == IF c.op \in {"value", "entry"} THEN <<Want("value")>>
            ELSE IF c.op = "key" THEN <<Want("keys")>> ELSE << >>

Pieces(s) == [i \in 1 .. Len(s) |-> Piece(s[i])]

IsWanted(s, w) == Joins(Pieces(s), w)

LEMMA PieceSeq == \A c : IsSeq(Piece(c))
  BY ShortSeqs DEF Piece

LEMMA PiecesFacts ==
    ASSUME NEW s, IsSeq(s)
    PROVE  IsSeq(Pieces(s)) /\ Len(Pieces(s)) = Len(s)
           /\ \A i \in 1 .. Len(s) : Pieces(s)[i] = Piece(s[i])
<1> DEFINE x == Pieces(s)
<1>1. Len(s) \in Nat /\ DOMAIN x = 1 .. Len(s) /\ x = [i \in 1 .. Len(s) |-> x[i]]
      /\ \A i \in 1 .. Len(s) : x[i] = Piece(s[i])
  BY SeqFacts DEF Pieces
<1> HIDE DEF x
<1>2. IsSeq(x) /\ Len(x) = Len(s)
  BY <1>1, FunctionIsSeq
<1> QED
  BY <1>1, <1>2 DEF x

LEMMA PiecesConcat ==
    ASSUME NEW a, IsSeq(a), NEW s, IsSeq(s)
    PROVE  Pieces(a \o s) = Pieces(a) \o Pieces(s)
<1> DEFINE m == Len(a)
           n == Len(s)
           t == a \o s
           x == Pieces(t)
           y == Pieces(a) \o Pieces(s)
<1>1. /\ m \in Nat /\ n \in Nat /\ IsSeq(t) /\ Len(t) = m + n
      /\ \A i \in 1 .. m : t[i] = a[i]
      /\ \A i \in 1 .. n : t[m + i] = s[i]
  BY SeqFacts, ConcatFacts
<1>2. /\ IsSeq(x) /\ Len(x) = m + n
      /\ \A i \in 1 .. m + n : x[i] = Piece(t[i])
  <2> HIDE DEF t, m, n
  <2> QED
    BY <1>1, PiecesFacts
<1>3. /\ IsSeq(y) /\ Len(y) = m + n
      /\ \A i \in 1 .. m : y[i] = Piece(a[i])
      /\ \A i \in 1 .. n : y[m + i] = Piece(s[i])
  <2>1. /\ IsSeq(Pieces(a)) /\ Len(Pieces(a)) = m
        /\ IsSeq(Pieces(s)) /\ Len(Pieces(s)) = n
        /\ \A i \in 1 .. m : Pieces(a)[i] = Piece(a[i])
        /\ \A i \in 1 .. n : Pieces(s)[i] = Piece(s[i])
    BY PiecesFacts
  <2> DEFINE p == Pieces(a)
             q == Pieces(s)
  <2>3. IsSeq(p) /\ Len(p) = m /\ IsSeq(q) /\ Len(q) = n
    BY <2>1
  <2>5. IsSeq(p) /\ IsSeq(q)
    BY <2>3
  <2> HIDE DEF p, q, m, n
  <2>4. /\ IsSeq(p \o q) /\ Len(p \o q) = Len(p) + Len(q)
        /\ \A i \in 1 .. Len(p) : (p \o q)[i] = p[i]
        /\ \A i \in 1 .. Len(q) : (p \o q)[Len(p) + i] = q[i]
    BY <2>5, ConcatFacts
  <2>2. /\ IsSeq(p \o q) /\ Len(p \o q) = m + n
        /\ \A i \in 1 .. m : (p \o q)[i] = p[i]
        /\ \A i \in 1 .. n : (p \o q)[m + i] = q[i]
    BY <2>3, <2>4
  <2> QED
    BY <2>1, <2>2 DEF p, q
<1> HIDE DEF t, x, y, m, n
<1>4. ASSUME NEW i \in 1 .. m + n PROVE x[i] = y[i]
  <2>1. CASE i \in 1 .. m
    BY <1>1, <1>2, <1>3, <2>1
  <2>2. CASE i \notin 1 .. m
    <3>1. i - m \in 1 .. n /\ i = m + (i - m)
      BY <1>1, <2>2
    <3>2. x[i] = Piece(t[i]) /\ t[i] = s[i - m] /\ y[i] = Piece(s[i - m])
      BY <1>1, <1>2, <1>3, <3>1
    <3> QED
      BY <3>2
  <2> QED
    BY <2>1, <2>2
<1>5. \E S : x \in Seq(S) /\ y \in Seq(S)
  <2>1. PICK S, T : x \in Seq(S) /\ y \in Seq(T)
    BY <1>2, <1>3 DEF IsSeq
  <2>2. x \in Seq(S \cup T) /\ y \in Seq(S \cup T)
    BY <2>1
  <2> QED
    BY <2>2
<1>6. x = y
  <2>1. PICK S : x \in Seq(S) /\ y \in Seq(S)
    BY <1>5
  <2> QED
    BY <1>2, <1>3, <1>4, <2>1
<1> QED
  BY <1>6 DEF x, y, t

LEMMA WantedConcat ==
    ASSUME NEW a, IsSeq(a), NEW u, IsWanted(a, u), NEW s, IsSeq(s), NEW w, IsWanted(s, w)
    PROVE  IsWanted(a \o s, u \o w)
<1>1. IsSeq(Pieces(a)) /\ IsSeq(Pieces(s))
  BY PiecesFacts
<1>2. Joins(Pieces(a) \o Pieces(s), u \o w)
  BY <1>1, JoinsConcat DEF IsWanted
<1> QED
  BY <1>2, PiecesConcat DEF IsWanted

LEMMA WantedSeq == ASSUME NEW s, IsSeq(s), NEW w, IsWanted(s, w) PROVE IsSeq(w)
  BY PiecesFacts, JoinsSeq DEF IsWanted

LEMMA WantedOne == ASSUME NEW c PROVE IsWanted(<<c>>, Piece(c))
<1> DEFINE s == <<c>>
<1>1. Pieces(s) = <<Piece(c)>>
  <2>1. Len(s) = 1 /\ s[1] = c
    BY ShortSeqs
  <2> HIDE DEF s
  <2>2. Pieces(s) = [i \in 1 .. 1 |-> Piece(s[i])]
    BY <2>1 DEF Pieces
  <2>3. \A i \in 1 .. 1 : Piece(s[i]) = Piece(c)
    BY <2>1
  <2> DEFINE x == Piece(c)
  <2> HIDE DEF x
  <2>4. Pieces(s) = [i \in 1 .. 1 |-> x]
    BY <2>2, <2>3 DEF x
  <2>5. [i \in 1 .. 1 |-> x] = <<x>>
    OBVIOUS
  <2> QED
    BY <2>4, <2>5 DEF x
<1>2. Joins(<<Piece(c)>>, Piece(c))
  <2> DEFINE x == Piece(c)
  <2>1. IsSeq(x)
    BY PieceSeq
  <2> HIDE DEF x
  <2>2. Joins(<<x>>, x)
    BY <2>1, JoinsOne
  <2> QED
    BY <2>2 DEF x
<1> QED
  BY <1>1, <1>2 DEF IsWanted

LEMMA WantedEmpty == ASSUME NEW w PROVE IsWanted(<< >>, w) <=> w = << >>
<1>1. Pieces(<< >>) = << >>
  <2>1. Len(<< >>) = 0
    OBVIOUS
  <2> QED
    BY <2>1 DEF Pieces
<1> QED
  BY <1>1, JoinsEmpty DEF IsWanted

LEMMA WantedTail ==
    ASSUME NEW s, IsSeq(s), s # << >>, NEW w, IsWanted(s, w)
    PROVE  \E v : w = Piece(Head(s)) \o v /\ IsWanted(Tail(s), v) /\ IsSeq(v)
<1> DEFINE c == Head(s)
           t == Tail(s)
<1>1. PICK S : s \in Seq(S)
  BY DEF IsSeq
<1>2. s = <<c>> \o t /\ IsSeq(t) /\ IsSeq(<<c>>)
  BY <1>1, SeqFacts, ShortSeqs
<1> HIDE DEF c, t
<1>3. Pieces(s) = Pieces(<<c>>) \o Pieces(t)
  BY <1>2, PiecesConcat
<1>4. Pieces(<<c>>) = <<Piece(c)>>
  <2> DEFINE x == Piece(c)
             z == <<c>>
  <2>1. Len(z) = 1 /\ z[1] = c
    BY ShortSeqs
  <2> HIDE DEF z
  <2>2. Pieces(z) = [i \in 1 .. 1 |-> Piece(z[i])]
    BY <2>1 DEF Pieces
  <2>3. \A i \in 1 .. 1 : Piece(z[i]) = x
    BY <2>1
  <2> HIDE DEF x
  <2>4. Pieces(z) = [i \in 1 .. 1 |-> x]
    BY <2>2, <2>3
  <2>5. [i \in 1 .. 1 |-> x] = <<x>>
    OBVIOUS
  <2> QED
    BY <2>4, <2>5 DEF x, z
<1> DEFINE x == Piece(c)
           q == Pieces(t)
           p == <<x>> \o q
<1>5. IsSeq(q) /\ Pieces(s) = p
  BY <1>2, <1>3, <1>4, PiecesFacts
<1> HIDE DEF x, q
<1>6. IsSeq(p) /\ p # << >> /\ Head(p) = x /\ Tail(p) = q
  BY <1>5, ConsFacts
<1> HIDE DEF p
<1>7. PICK v : w = Head(p) \o v /\ Joins(Tail(p), v) /\ IsSeq(v)
  BY <1>5, <1>6, JoinsTail DEF IsWanted
<1> QED
  BY <1>6, <1>7 DEF IsWanted, x, q, c, t

(* Calls of two kinds that alternate: n values with where they go, and n   *)
(* keys of a dictionary with their values.                                 *)
LEMMA EachWanted ==
    ASSUME NEW n \in Nat, NEW s, s = [i \in 1 .. n |-> s[i]], NEW op,
           op \in {"assign", "entry"}, \A i \in 1 .. n : s[i].op = op
    PROVE  /\ IsBlock(Each(s))
           /\ op = "assign" => IsWanted(Each(s), Wants("value", n))
           /\ op = "entry"  => IsWanted(Each(s), Wants("value", 2 * n))
<1> DEFINE t == Each(s)
           v == Want("value")
<1>1. DOMAIN s = 1 .. n /\ Len(s) = n
  BY FunctionIsSeq
<1>2. /\ DOMAIN t = 1 .. 2 * n /\ t = [i \in 1 .. 2 * n |-> t[i]]
      /\ \A i \in 1 .. 2 * n : /\ i % 2 = 1 => t[i] = Read("value")
                               /\ i % 2 # 1 => t[i] = s[i \div 2]
  BY <1>1 DEF Each
<1> HIDE DEF t
<1>3. ASSUME NEW i \in 1 .. 2 * n
      PROVE  /\ i % 2 = 1 => t[i].op = "value" /\ Piece(t[i]) = <<v>>
             /\ i % 2 # 1 => t[i].op = op
  <2>1. CASE i % 2 = 1
    <3>0. t[i] = Read("value")
      BY <1>2, <2>1
    <3>1. t[i] = [op |-> "value"]
      BY <3>0 DEF Read
    <3>2. t[i].op = "value"
      BY <3>1
    <3>3. Piece(t[i]) = <<v>>
      BY <3>2 DEF Piece
    <3> QED
      BY <2>1, <3>2, <3>3
  <2>2. CASE i % 2 # 1
    <3>1. i \div 2 \in 1 .. n
      BY <2>2
    <3> QED
      BY <1>2, <2>2, <3>1
  <2> QED
    BY <2>1, <2>2
<1>4. IsSeq(t) /\ Len(t) = 2 * n
  <2>1. 2 * n \in Nat
    OBVIOUS
  <2> QED
    BY <1>2, <2>1, FunctionIsSeq
<1>5. IsBlock(t)
  <2>1. \A i \in 1 .. Len(t) : t[i].op \in {"value", "assign", "entry"}
    BY <1>3, <1>4
  <2>2. \A i \in 1 .. Len(t) - 1 : i \in 1 .. Len(t) /\ i + 1 \in 1 .. Len(t)
    BY <1>4
  <2>3. t # << >> => 1 \in 1 .. Len(t) /\ Len(t) \in 1 .. Len(t)
    BY <1>4, SeqFacts
  <2> QED
    BY <1>4, <2>1, <2>2, <2>3 DEF IsBlock, Paired, Lasting
<1> HIDE DEF v
<1>6. ASSUME op = "entry" PROVE IsWanted(t, Wants("value", 2 * n))
  <2> DEFINE r == [i \in 1 .. 2 * n + 1 |-> Wants("value", 2 * n + 1 - i)]
  <2>1. ASSUME NEW i \in 1 .. 2 * n + 1 PROVE 2 * n + 1 - i \in Nat /\ IsSeq(r[i])
    <3>1. 2 * n + 1 - i \in Nat
      OBVIOUS
    <3>2. r[i] = Wants("value", 2 * n + 1 - i)
      OBVIOUS
    <3> HIDE DEF r
    <3>3. r[i] \in Seq({Want("value")})
      BY <3>1, <3>2, WantsFacts
    <3> QED
      BY <3>1, <3>3 DEF IsSeq
  <2>2. r[1] = Wants("value", 2 * n) /\ r[2 * n + 1] = << >>
    <3>1. 1 \in 1 .. 2 * n + 1 /\ 2 * n + 1 \in 1 .. 2 * n + 1 /\ 2 * n + 1 - 1 = 2 * n
          /\ 2 * n + 1 - (2 * n + 1) = 0
      OBVIOUS
    <3>2. Wants("value", 0) = << >>
      BY WantsFacts
    <3> QED
      BY <3>1, <3>2
  <2>3. ASSUME NEW i \in 1 .. 2 * n PROVE r[i] = <<v>> \o r[i + 1]
    <3>1. i \in 1 .. 2 * n + 1 /\ i + 1 \in 1 .. 2 * n + 1 /\ 2 * n + 1 - i \in Nat
          /\ 2 * n + 1 - i > 0 /\ (2 * n + 1 - i) - 1 = 2 * n + 1 - (i + 1)
      OBVIOUS
    <3>2. r[i] = Wants("value", 2 * n + 1 - i) /\ r[i + 1] = Wants("value", 2 * n + 1 - (i + 1))
      BY <3>1
    <3> HIDE DEF r
    <3> QED
      BY <3>1, <3>2, WantsFacts DEF v
  <2> HIDE DEF r
  <2>4. ASSUME NEW i \in 1 .. 2 * n PROVE Pieces(t)[i] = <<v>>
    <3>1. Piece(t[i]) = <<v>>
      BY <1>3, <1>6 DEF Piece, v
    <3> QED
      BY <1>4, <3>1, PiecesFacts
  <2>5. IsSeq(<<v>>) /\ Len(Pieces(t)) = 2 * n
    BY <1>4, PiecesFacts, ShortSeqs
  <2> QED
    BY <2>1, <2>2, <2>3, <2>4, <2>5 DEF IsWanted, Joins
<1>7. ASSUME op = "assign" PROVE IsWanted(t, Wants("value", n))
  <2> DEFINE r == [i \in 1 .. 2 * n + 1 |-> Wants("value", n - (i \div 2))]
  <2>1. ASSUME NEW i \in 1 .. 2 * n + 1 PROVE n - (i \div 2) \in Nat /\ IsSeq(r[i])
    <3>1. n - (i \div 2) \in Nat
      OBVIOUS
    <3>2. r[i] = Wants("value", n - (i \div 2))
      OBVIOUS
    <3> HIDE DEF r
    <3>3. r[i] \in Seq({Want("value")})
      BY <3>1, <3>2, WantsFacts
    <3> QED
      BY <3>1, <3>3 DEF IsSeq
  <2>2. r[1] = Wants("value", n) /\ r[2 * n + 1] = << >>
    <3>1. 1 \in 1 .. 2 * n + 1 /\ 2 * n + 1 \in 1 .. 2 * n + 1 /\ n - (1 \div 2) = n
          /\ n - ((2 * n + 1) \div 2) = 0
      OBVIOUS
    <3>2. Wants("value", 0) = << >>
      BY WantsFacts
    <3> QED
      BY <3>1, <3>2
  <2>3. ASSUME NEW i \in 1 .. 2 * n
        PROVE  /\ i % 2 = 1 => r[i] = <<v>> \o r[i + 1]
               /\ i % 2 # 1 => r[i] = r[i + 1]
    <3>1. /\ i \in 1 .. 2 * n + 1 /\ i + 1 \in 1 .. 2 * n + 1 /\ n - (i \div 2) \in Nat
          /\ i % 2 = 1 => n - (i \div 2) > 0 /\ (n - (i \div 2)) - 1 = n - ((i + 1) \div 2)
          /\ i % 2 # 1 => n - (i \div 2) = n - ((i + 1) \div 2)
      <4>1. i \in Int /\ i >= 1 /\ i <= 2 * n
        OBVIOUS
      <4>2. i \in 1 .. 2 * n + 1 /\ i + 1 \in 1 .. 2 * n + 1 /\ n - (i \div 2) \in Nat
        BY <4>1
      <4>3. ASSUME i % 2 = 1 PROVE n - (i \div 2) > 0 /\ (n - (i \div 2)) - 1 = n - ((i + 1) \div 2)
        <5>1. (i + 1) \div 2 = (i \div 2) + 1 /\ i = 2 * (i \div 2) + 1
          BY <4>1, <4>3
        <5> QED
          BY <4>1, <5>1
      <4>4. ASSUME i % 2 # 1 PROVE n - (i \div 2) = n - ((i + 1) \div 2)
        <5>1. (i + 1) \div 2 = i \div 2
          BY <4>1, <4>4
        <5> QED
          BY <5>1
      <4> QED
        BY <4>2, <4>3, <4>4
    <3>2. r[i] = Wants("value", n - (i \div 2)) /\ r[i + 1] = Wants("value", n - ((i + 1) \div 2))
      BY <3>1
    <3> HIDE DEF r
    <3>3. CASE i % 2 = 1
      BY <3>1, <3>2, <3>3, WantsFacts DEF v
    <3>4. CASE i % 2 # 1
      BY <3>1, <3>2, <3>4
    <3> QED
      BY <3>3, <3>4
  <2> HIDE DEF r
  <2>4. ASSUME NEW i \in 1 .. 2 * n
        PROVE  IsSeq(Pieces(t)[i]) /\ r[i] = Pieces(t)[i] \o r[i + 1]
    <3>1. Pieces(t)[i] = Piece(t[i])
      BY <1>4, PiecesFacts
    <3>2. CASE i % 2 = 1
      <4>1. Pieces(t)[i] = <<v>>
        BY <1>3, <3>1, <3>2
      <4> QED
        BY <2>3, <3>2, <4>1, ShortSeqs
    <3>3. CASE i % 2 # 1
      <4>1. Pieces(t)[i] = << >>
        BY <1>3, <1>7, <3>1, <3>3 DEF Piece
      <4>2. IsSeq(r[i + 1])
        <5>1. i + 1 \in 1 .. 2 * n + 1
          OBVIOUS
        <5> QED
          BY <2>1, <5>1
      <4> QED
        BY <2>3, <3>3, <4>1, <4>2, ShortSeqs, EmptyConcat
    <3> QED
      BY <3>2, <3>3
  <2>5. Len(Pieces(t)) = 2 * n
    BY <1>4, PiecesFacts
  <2> QED
    BY <2>1, <2>2, <2>4, <2>5 DEF IsWanted, Joins
<1> QED
  BY <1>5, <1>6, <1>7 DEF t

----------------------------------------------------------------------------
(* What the call that runs wants, then those below it.  A taker has told   *)
(* the writer what comes behind the string it waits for.                   *)
Keyed(c) == IF c.op = "string" THEN <<Want("keys")>>
            ELSE IF c.op = "content"
            THEN <<WantOf("content", c.length)>> \o <<Want("value"), Want("keys")>>
            ELSE IF c.value.str = EmptyString THEN << >> ELSE <<Want("value"), Want("keys")>>

Opened(c) == IF c.op \in Octets THEN <<WantOf(c.op, c.length)>>
             ELSE IF c.op = "create" THEN Members(Layout(c.traits))
             ELSE IF c.op = "stamp" THEN <<Want("double")>>
             ELSE IF c.op = "entry" THEN <<Want("value")>>
             ELSE IF c.op \in Words \cup {"double"} THEN <<Want(c.op)>> ELSE << >>

First(c, caller) == IF caller.op \in KeyTakers THEN Keyed(c) ELSE Opened(c)

IsTaker(c) ==
    /\ c.op = "arrayStart" => c.length \in Nat
    /\ c.op = "traits" => /\ c.count \in Nat /\ c.dynamic \in BOOLEAN
                          /\ IsSeq(c.names) /\ Len(c.names) <= c.count

Counted(c) == [count |-> c.count, dynamic |-> c.dynamic]

TakerWants(c) == IF c.op = "arrayStart" THEN Wants("value", c.length)
                 ELSE IF c.op = "traits"
                 THEN Wants("string", c.count - Len(c.names)) \o Members(Counted(c))
                 ELSE << >>

Below(s, w) ==
    IF Head(s).op \in Takers
    THEN \E v : IsWanted(Tail(s), v) /\ w = TakerWants(Head(s)) \o v
    ELSE IsWanted(s, w)

Related(s, want) == \E w : Below(Tail(s), w) /\ IsSeq(w) /\ want = First(Head(s), s[2]) \o w

LEMMA MembersSeq == ASSUME NEW traits, traits.count \in Nat PROVE IsSeq(Members(traits))
<1> DEFINE a == Wants("value", traits.count)
           b == IF traits.dynamic THEN <<Want("keys")>> ELSE << >>
<1>1. IsSeq(a)
  BY WantsFacts DEF IsSeq
<1>2. IsSeq(b)
  BY ShortSeqs
<1>3. Members(traits) = a \o b
  BY DEF Members
<1> HIDE DEF a, b
<1> QED
  BY <1>1, <1>2, <1>3, ConcatFacts

LEMMA TakerWantsSeq == ASSUME NEW c, IsTaker(c) PROVE IsSeq(TakerWants(c))
<1>1. CASE c.op = "arrayStart"
  BY <1>1, WantsFacts DEF TakerWants, IsTaker, IsSeq
<1>2. CASE c.op = "traits"
  <2> DEFINE n == c.count - Len(c.names)
  <2>1. n \in Nat /\ c.count \in Nat
    BY <1>2, SeqFacts DEF IsTaker
  <2> HIDE DEF n
  <2>2. IsSeq(Wants("string", n))
    BY <2>1, WantsFacts DEF IsSeq
  <2>3. IsSeq(Members(Counted(c)))
    BY <2>1, MembersSeq DEF Counted
  <2>4. TakerWants(c) = Wants("string", n) \o Members(Counted(c))
    BY <1>2 DEF TakerWants, n
  <2> QED
    BY <2>2, <2>3, <2>4, ConcatFacts
<1>3. CASE c.op \notin {"arrayStart", "traits"}
  BY <1>3, ShortSeqs DEF TakerWants
<1> QED
  BY <1>1, <1>2, <1>3

(* What lies below a shaped stack.                                         *)
LEMMA ShapedFacts ==
    ASSUME NEW s, IsShaped(s)
    PROVE  /\ IsSeq(s) /\ s # << >> /\ IsSeq(Tail(s)) /\ Tail(s) # << >>
           /\ s[2] = Head(Tail(s)) /\ s = <<Head(s)>> \o Tail(s)
           /\ IsBelow(Tail(s)) /\ Head(s).op \notin Bottom \cup Takers
           /\ s[2].op \notin Takers => IsCalm(Tail(s))
           /\ s[2].op \in Takers => IsText(Head(s)) /\ IsCalm(Tail(Tail(s)))
<1>1. /\ IsSeq(s) /\ Len(s) > 1 /\ IsBelow(Tail(s)) /\ Head(s).op \notin Bottom \cup Takers
      /\ s[2].op \in Takers => IsText(Head(s))
  BY DEF IsShaped
<1>2. s # << >>
  <2>1. Len(<< >>) = 0
    OBVIOUS
  <2> QED
    BY <1>1, <2>1
<1>3. PICK S : s \in Seq(S)
  BY <1>1 DEF IsSeq
<1>4. s = <<Head(s)>> \o Tail(s)
  BY <1>2, <1>3
<1>5. IsSeq(Tail(s)) /\ Tail(s) # << >>
  BY <1>1 DEF IsBelow
<1>6. s[2] = Head(Tail(s))
  <2>1. 1 \in 1 .. Len(s) - 1 /\ 1 + 1 = 2
    BY <1>1, <1>2, SeqFacts
  <2>2. Tail(s)[1] = s[1 + 1]
    BY <1>1, <1>2, <2>1, SeqFacts
  <2> QED
    BY <1>5, <2>1, <2>2, SeqFacts
<1>7. /\ s[2].op \notin Takers => IsCalm(Tail(s))
      /\ s[2].op \in Takers => IsCalm(Tail(Tail(s)))
  <2>1. ASSUME s[2].op \in Takers PROVE IsCalm(Tail(Tail(s)))
    <3>1. ~IsCalm(Tail(s))
      BY <1>6, <2>1, CalmHead
    <3> QED
      BY <1>1, <3>1 DEF IsBelow
  <2>2. ASSUME s[2].op \notin Takers PROVE IsCalm(Tail(s))
    BY <1>1, <1>6, <2>2 DEF IsBelow
  <2> QED
    BY <2>1, <2>2
<1> QED
  BY <1>1, <1>2, <1>4, <1>5, <1>6, <1>7

(* Another call in the place of the one that runs.                         *)
LEMMA Replaced ==
    ASSUME NEW s, IsShaped(s), NEW w, Below(Tail(s), w), IsSeq(w),
           NEW c, c.op \notin Bottom \cup Takers, s[2].op \in Takers => IsText(c)
    PROVE  LET t == <<c>> \o Tail(s)
           IN  /\ IsShaped(t) /\ Head(t) = c /\ t[2] = s[2] /\ Tail(t) = Tail(s)
               /\ Related(t, First(c, s[2]) \o w)
<1> DEFINE r == Tail(s)
           t == <<c>> \o r
<1>1. IsSeq(r) /\ r # << >> /\ s[2] = Head(r) /\ IsBelow(r)
  BY ShapedFacts
<1> HIDE DEF r
<1>2. IsSeq(t) /\ Head(t) = c /\ Tail(t) = r /\ Len(t) > 1 /\ t[2] = Head(r)
  BY <1>1, ConsFacts
<1> HIDE DEF t
<1>3. IsShaped(t)
  BY <1>1, <1>2 DEF IsShaped
<1>4. Related(t, First(c, s[2]) \o w)
  BY <1>1, <1>2 DEF Related, r
<1> QED
  BY <1>1, <1>2, <1>3, <1>4 DEF t, r

(* A call on a calm stack, and the stack itself.                           *)
LEMMA CallRelated ==
    ASSUME NEW s, IsCalm(s), NEW w, IsWanted(s, w), NEW c, c.op \notin Bottom \cup Takers
    PROVE  LET t == <<c>> \o s
           IN  /\ IsShaped(t) /\ Head(t) = c /\ t[2] = Head(s) /\ Tail(t) = s
               /\ t[2].op \notin Takers
               /\ Related(t, Opened(c) \o w)
<1> DEFINE t == <<c>> \o s
<1>1. IsSeq(s) /\ s # << >> /\ Head(s).op \notin Takers
  BY CalmHead
<1>2. IsSeq(t) /\ Head(t) = c /\ Tail(t) = s /\ Len(t) > 1 /\ t[2] = Head(s)
  BY <1>1, ConsFacts
<1>3. IsShaped(t)
  BY PutOnCalm
<1>4. IsSeq(w)
  BY <1>1, WantedSeq
<1> HIDE DEF t
<1>5. First(c, t[2]) = Opened(c)
  BY <1>1, <1>2 DEF First, Takers
<1>6. Below(s, w)
  BY <1>1 DEF Below
<1>7. Related(t, Opened(c) \o w)
  BY <1>2, <1>4, <1>5, <1>6 DEF Related
<1> QED
  BY <1>1, <1>2, <1>3, <1>7 DEF t

LEMMA TakerRelated ==
    ASSUME NEW s, IsCalm(s), NEW w, IsWanted(s, w), NEW taker, taker.op \in Takers,
           IsTaker(taker), NEW r, r = <<taker>> \o s, NEW c, IsText(c), NEW t, t = <<c>> \o r
    PROVE  /\ IsShaped(t) /\ Head(t) = c /\ t[2] = taker /\ Tail(t) = r
           /\ Related(t, First(c, taker) \o (TakerWants(taker) \o w))
<1> DEFINE v == TakerWants(taker) \o w
<1>1. IsSeq(s) /\ s # << >>
  BY CalmHead
<1>2. IsSeq(r) /\ r # << >> /\ Head(r) = taker /\ Tail(r) = s /\ IsBelow(r)
  <2> DEFINE x == <<taker>> \o s
  <2>1. IsSeq(x) /\ x # << >> /\ Head(x) = taker /\ Tail(x) = s
    BY <1>1, ConsFacts
  <2>2. IsBelow(x)
    BY PutOnCalm
  <2>3. r = x
    OBVIOUS
  <2> HIDE DEF x
  <2> QED
    BY <2>1, <2>2, <2>3
<1>3. IsSeq(v)
  <2>1. IsSeq(w) /\ IsSeq(TakerWants(taker))
    BY <1>1, WantedSeq, TakerWantsSeq
  <2> QED
    BY <2>1, ConcatFacts
<1>4. Below(r, v)
  BY <1>2 DEF Below
<1> HIDE DEF v
<1>5. IsSeq(t) /\ Head(t) = c /\ Tail(t) = r /\ Len(t) > 1 /\ t[2] = taker
  <2> DEFINE x == <<c>> \o r
  <2>1. IsSeq(x) /\ Head(x) = c /\ Tail(x) = r /\ Len(x) > 1 /\ x[2] = taker
    BY <1>2, ConsFacts
  <2>2. t = x
    OBVIOUS
  <2> HIDE DEF x
  <2> QED
    BY <2>1, <2>2
<1>6. IsShaped(t)
  BY <1>2, PutText
<1>7. Related(t, First(c, taker) \o v)
  BY <1>3, <1>4, <1>5 DEF Related
<1> QED
  BY <1>5, <1>6, <1>7 DEF v

LEMMA CalmRelated ==
    ASSUME NEW s, IsCalm(s), Tail(s) # << >>, NEW w, IsWanted(s, w)
    PROVE  IsShaped(s) /\ Related(s, w) /\ Head(s).op \in Lasting
           /\ s[2].op \notin Once
<1> DEFINE c == Head(s)
           t == Tail(s)
<1>1. /\ c.op # "string" => IsCalm(t)
      /\ c.op = "string" => Head(t).op = "key" /\ IsBelow(t)
      /\ c.op \in Lasting \ {"key"}
      /\ s[2] = Head(t) /\ IsSeq(t) /\ t # << >>
  BY CalmTail
<1>2. IsSeq(s) /\ s # << >> /\ IsShaped(s)
  BY CalmHead, CalmShaped
<1>3. PICK v : w = Piece(c) \o v /\ IsWanted(t, v) /\ IsSeq(v)
  BY <1>2, WantedTail
<1> HIDE DEF c, t
<1>4. CASE c.op = "string"
  <2>1. PICK u : v = Piece(Head(t)) \o u /\ IsWanted(Tail(t), u) /\ IsSeq(u)
    BY <1>1, <1>3, WantedTail
  <2>2. Piece(Head(t)) = <<Want("keys")>> /\ Piece(c) = << >>
    BY <1>1, <1>4 DEF Piece
  <2>3. w = v /\ << >> \o u = u
    BY <1>3, <2>1, <2>2, EmptyConcat
  <2>4. Head(t).op \in Takers /\ TakerWants(Head(t)) = << >>
    BY <1>1, <1>4 DEF Takers, KeyTakers, TakerWants
  <2>5. Below(t, u)
    BY <2>1, <2>3, <2>4 DEF Below
  <2>6. First(c, s[2]) = <<Want("keys")>>
    BY <1>1, <1>4 DEF First, KeyTakers, Keyed
  <2>7. Related(s, w)
    BY <2>1, <2>2, <2>3, <2>5, <2>6 DEF Related, c, t
  <2> QED
    BY <1>1, <1>2, <1>4, <2>7 DEF Once, c
<1>5. CASE c.op # "string"
  <2>1. Head(t).op \notin Takers
    BY <1>1, <1>5, CalmHead
  <2>2. Below(t, v)
    BY <1>3, <2>1 DEF Below
  <2>3. First(c, s[2]) = Piece(c)
    BY <1>1, <1>5, <2>1 DEF First, Takers, Opened, Piece, Lasting, Octets, Words
  <2>4. Related(s, w)
    BY <1>3, <2>2, <2>3 DEF Related, c, t
  <2>5. s[2].op \notin Once
    BY <1>1, <2>1 DEF Once, Takers, KeyTakers
  <2> QED
    BY <1>1, <1>2, <2>4, <2>5 DEF c
<1> QED
  BY <1>4, <1>5

----------------------------------------------------------------------------
(* The tables have what the message has sent; what is announced and not    *)
(* yet made is counted already.                                            *)
Lay(traits) == [i \in 1 .. Len(traits) |-> Layout(traits[i])]

Making  == {"stamp", "octets", "create"}
Pending(s) == IF Head(s).op \in Making \/ s[2].op \in Once THEN 1 ELSE 0

SentTraits(s, traits) == IF s[2].op = "traits" THEN Append(Lay(traits), Counted(s[2]))
                         ELSE Lay(traits)

Match(s, st, strings, objs, traits) ==
    /\ IsShaped(s) /\ Related(s, st.want) /\ IsTaker(s[2])
    /\ st.strings = Len(strings)
    /\ st.objects = Len(objs) + Pending(s)
    /\ st.traits = SentTraits(s, traits)

Follows(st) == Match(stack, st, tableStrings, tableObjects, tableTraits)

ItemOf(c, caller) ==
    IF c.op = "stamp" THEN Want("double")
    ELSE IF c.op \in Octets THEN WantOf(c.op, c.length)
    ELSE IF c.op = "string" /\ caller.op \in KeyTakers THEN Want("keys") ELSE Want(c.op)

LEMMA OneCall ==
    ASSUME NEW r, IsCalm(r), NEW w, IsWanted(r, w), NEW c, c.op \notin Bottom \cup Takers,
           NEW st, st.want = Opened(c) \o w,
           NEW ss, NEW oo, NEW tt, st.strings = Len(ss), Len(oo) \in Nat,
           st.objects = Len(oo) + (IF c.op \in Making THEN 1 ELSE 0), st.traits = Lay(tt)
    PROVE  Match(<<c>> \o r, st, ss, oo, tt)
<1> DEFINE t == <<c>> \o r
<1>1. /\ IsShaped(t) /\ Head(t) = c /\ t[2].op \notin Takers
      /\ Related(t, Opened(c) \o w)
  BY CallRelated
<1> HIDE DEF t
<1>2. IsTaker(t[2]) /\ t[2].op \notin Once /\ t[2].op # "traits"
  BY <1>1 DEF IsTaker, Takers, KeyTakers, Once
<1>3. Pending(t) = IF c.op \in Making THEN 1 ELSE 0
  BY <1>1, <1>2 DEF Pending
<1>4. Match(t, st, ss, oo, tt)
  BY <1>1, <1>2, <1>3 DEF Match, SentTraits
<1> QED
  BY <1>4 DEF t

LEMMA CalmMatch ==
    ASSUME NEW s, IsCalm(s), Tail(s) # << >>, NEW st, IsWanted(s, st.want),
           NEW ss, NEW oo, NEW tt, st.strings = Len(ss), Len(oo) \in Nat,
           st.objects = Len(oo), st.traits = Lay(tt)
    PROVE  Match(s, st, ss, oo, tt)
<1>1. IsShaped(s) /\ Related(s, st.want) /\ Head(s).op \in Lasting /\ s[2].op \notin Once
  BY CalmRelated
<1>2. IsTaker(s[2]) /\ s[2].op # "traits"
  BY <1>1 DEF IsTaker, Once
<1>3. Pending(s) = 0
  BY <1>1 DEF Pending, Lasting, Making
<1> QED
  BY <1>1, <1>2, <1>3 DEF Match, SentTraits

LEMMA TakerMatch ==
    ASSUME NEW r, IsCalm(r), NEW w, IsWanted(r, w), NEW taker, taker.op \in Takers,
           IsTaker(taker), NEW c, IsText(c), NEW s, s = <<c>> \o (<<taker>> \o r),
           NEW st, st.want = First(c, taker) \o (TakerWants(taker) \o w),
           NEW ss, NEW oo, NEW tt, st.strings = Len(ss), Len(oo) \in Nat,
           st.objects = Len(oo) + (IF taker.op \in Once THEN 1 ELSE 0),
           st.traits = IF taker.op = "traits" THEN Append(Lay(tt), Counted(taker)) ELSE Lay(tt)
    PROVE  Match(s, st, ss, oo, tt)
<1>1. /\ IsShaped(s) /\ Head(s) = c /\ s[2] = taker
      /\ Related(s, First(c, taker) \o (TakerWants(taker) \o w))
  <2> DEFINE z == <<taker>> \o r
  <2>1. s = <<c>> \o z /\ z = <<taker>> \o r
    OBVIOUS
  <2> HIDE DEF z
  <2>2. Related(s, First(c, taker) \o (TakerWants(taker) \o w))
    BY <2>1, TakerRelated
  <2>3. IsShaped(s)
    <3>1. IsBelow(z)
      BY PutOnCalm DEF z
    <3>2. IsShaped(<<c>> \o z)
      BY <3>1, PutText
    <3> QED
      BY <2>1, <3>2
  <2>4. Head(s) = c
    BY <2>1, TakerRelated
  <2>5. s[2] = taker
    BY <2>1, TakerRelated
  <2> QED
    BY <2>2, <2>3, <2>4, <2>5
<1>2. Pending(s) = IF taker.op \in Once THEN 1 ELSE 0
  BY <1>1 DEF Pending, IsText, Making
<1> QED
  BY <1>1, <1>2 DEF Match, SentTraits

(* What a read wants comes first.                                          *)
LEMMA ReadWants ==
    ASSUME NEW st, Follows(st), NEW op \in Reads, Reading(op)
    PROVE  /\ st.want # << >> /\ Head(st.want) = ItemOf(Head(stack), stack[2])
           /\ op \notin {"string", "content"} =>
                /\ IsCalm(Tail(stack)) /\ stack[2].op \notin Takers
                /\ IsWanted(Tail(stack), Tail(st.want))
           /\ stack[2].op \notin KeyTakers =>
                Below(Tail(stack), Tail(st.want)) /\ IsSeq(Tail(st.want))
           /\ stack[2].op \in KeyTakers /\ op = "string" =>
                Below(Tail(stack), Tail(st.want)) /\ IsSeq(Tail(st.want))
           /\ stack[2].op \in KeyTakers /\ op = "content" =>
                \E w : Below(Tail(stack), w) /\ IsSeq(w)
                       /\ Tail(st.want) = <<Want("value"), Want("keys")>> \o w
<1> DEFINE c == Head(stack)
           caller == stack[2]
           want == st.want
           r == Tail(stack)
<1>1. c.op = op /\ IsShaped(stack) /\ caller = Head(r)
  BY ShapedFacts DEF Follows, Match, Reading
<1>2. PICK w : Below(r, w) /\ IsSeq(w) /\ want = First(c, caller) \o w
  BY DEF Follows, Match, Related
<1>3. /\ op \notin {"string", "content"} => caller.op \notin Takers
      /\ caller.op \notin Takers => IsCalm(r)
  <2>1. caller.op \in Takers => c.op \in {"string", "content"} \/ c.op = "got"
    BY ShapedFacts DEF Follows, Match, IsText
  <2>2. op # "got"
    BY DEF Reads, Words, Octets, Doubles
  <2> QED
    BY <1>1, <2>1, <2>2, ShapedFacts
<1> HIDE DEF c, caller, want, r
<1> DEFINE item == ItemOf(c, caller)
<1>4. ASSUME caller.op \notin KeyTakers PROVE First(c, caller) = <<item>>
  <2>1. First(c, caller) = Opened(c)
    BY <1>4 DEF First
  <2>2. Opened(c) = <<item>>
    BY <1>1, <1>4 DEF Opened, ItemOf, Reads, Words, Octets, Doubles
  <2> QED
    BY <2>1, <2>2
<1>5. ASSUME caller.op \in KeyTakers
      PROVE  /\ op = "string" => First(c, caller) = <<item>>
             /\ op = "content" => First(c, caller) = <<item>> \o <<Want("value"), Want("keys")>>
             /\ op \in {"string", "content"}
  <2>1. op \in {"string", "content"}
    BY <1>3, <1>5 DEF Takers
  <2> QED
    BY <1>1, <1>5, <2>1 DEF First, Keyed, ItemOf, Octets
<1> HIDE DEF item
<1>6. ASSUME First(c, caller) = <<item>>
      PROVE  want # << >> /\ Head(want) = item /\ Tail(want) = w
  <2>1. want = <<item>> \o w
    BY <1>2, <1>6
  <2> QED
    BY <1>2, <2>1, ConsFacts
<1>7. ASSUME caller.op \in KeyTakers, op = "content"
      PROVE  /\ want # << >> /\ Head(want) = item
             /\ Tail(want) = <<Want("value"), Want("keys")>> \o w
  <2> DEFINE two == <<Want("value"), Want("keys")>>
  <2>1. want = (<<item>> \o two) \o w /\ IsSeq(two) /\ IsSeq(<<item>>)
    BY <1>2, <1>5, <1>7, ShortSeqs
  <2> HIDE DEF two
  <2> DEFINE one == <<item>>
  <2>4. IsSeq(one) /\ IsSeq(two) /\ IsSeq(w) /\ want = (one \o two) \o w
    BY <1>2, <2>1
  <2> HIDE DEF one
  <2>6. IsSeq(one) /\ IsSeq(two) /\ IsSeq(w)
    BY <2>4
  <2>7. (one \o two) \o w = one \o (two \o w)
    BY <2>6, ConcatAssociates
  <2>8. IsSeq(two \o w)
    BY <2>6, ConcatFacts
  <2>5. want = one \o (two \o w) /\ IsSeq(two \o w)
    BY <2>4, <2>7, <2>8
  <2>2. want = <<item>> \o (two \o w) /\ IsSeq(two \o w)
    BY <2>5 DEF one
  <2>3. want # << >> /\ Head(want) = item /\ Tail(want) = two \o w
    BY <2>2, ConsFacts
  <2> QED
    BY <2>3 DEF two
<1>8. want # << >> /\ Head(want) = item
  BY <1>4, <1>5, <1>6, <1>7
<1>9. ASSUME op \notin {"string", "content"}
      PROVE  IsCalm(r) /\ caller.op \notin Takers /\ IsWanted(r, Tail(want))
  <2>1. caller.op \notin Takers /\ caller.op \notin KeyTakers /\ IsCalm(r)
    BY <1>3, <1>9 DEF Takers
  <2>2. Tail(want) = w
    BY <1>4, <1>6, <2>1
  <2> QED
    BY <1>1, <1>2, <2>1, <2>2 DEF Below
<1>10. caller.op \notin KeyTakers => Below(r, Tail(want)) /\ IsSeq(Tail(want))
  BY <1>2, <1>4, <1>6
<1>11. caller.op \in KeyTakers /\ op = "string" => Below(r, Tail(want)) /\ IsSeq(Tail(want))
  BY <1>2, <1>5, <1>6
<1>12. caller.op \in KeyTakers /\ op = "content" =>
         \E v : Below(r, v) /\ IsSeq(v) /\ Tail(want) = <<Want("value"), Want("keys")>> \o v
  BY <1>2, <1>7
<1> QED
  BY <1>8, <1>9, <1>10, <1>11, <1>12 DEF c, caller, want, r, item

(* A token that suits is one the read can take.                            *)
LEMMA SuitsFits ==
    ASSUME SourceInv, pc = "reading", pos < Len(source),
           NEW st, Follows(st), NEW op \in Reads, Reading(op), Suits(st, Token)
    PROVE  /\ Fits /\ IsWorded(Token)
           /\ op = "value" => Token.word \in Markers
           /\ op \in TextItems \cup ObjectItems => SuitsHeader(st, Head(st.want).op, Token)
           /\ op \notin {"string", "stamp"} => Head(st.want).op = op
           /\ op = "stamp" => Head(st.want).op = "double"
           /\ op = "string" => Head(st.want).op = IF stack[2].op \in KeyTakers THEN "keys"
                                                  ELSE "string"
<1> DEFINE item == Head(st.want)
           c == Head(stack)
           caller == stack[2]
           t == Token
<1>1. item = ItemOf(c, caller) /\ c.op = op
  BY ReadWants DEF Reading
<1>2. /\ Is(Kind(item), t)
      /\ item.op = "value" => t.word \in Markers
      /\ item.op \in BodyItems => ByteSize[t.raw] = item.length
      /\ item.op \in TextItems \cup ObjectItems => SuitsHeader(st, item.op, t)
      /\ item.op = "weak" => t.word < 128
  BY DEF Suits
<1>3. IsToken(t)
  <2>1. Len(source) \in Nat /\ \A i \in 1 .. Len(source) : IsToken(source[i])
    BY SourceFacts DEF SourceInv
  <2>2. pos + 1 \in 1 .. Len(source)
    BY <2>1 DEF SourceInv
  <2> QED
    BY <2>1, <2>2 DEF Token
<1>4. IsWorded(t)
  BY <1>3 DEF IsToken, IsWorded, Is
<1>5. Fits <=> /\ Is(Needs[op], t) /\ (Is("raw", t) => ByteSize[t.raw] = c.length)
               /\ op = "weak" => t.word < 128
  BY <1>1 DEF Fits
<1> HIDE DEF item, c, caller, t
<1>6. \A x, y \in {"word", "raw", "double"} : Is(x, t) /\ Is(y, t) => x = y
  BY <1>3 DEF IsToken, Is
<1>7. Needs[op] = IF op \in Words THEN "word" ELSE IF op \in Octets THEN "raw" ELSE "double"
  BY DEF Needs, Reads
<1>8. CASE op \in Doubles
  <2>1. item.op = "double"
    BY <1>1, <1>8 DEF ItemOf, Want, Doubles, Octets
  <2>2. Kind(item) = "double" /\ Needs[op] = "double"
    BY <1>7, <1>8, <2>1 DEF Kind, BodyItems, Doubles, Words, Octets
  <2>3. ~Is("raw", t)
    BY <1>2, <1>6, <2>2
  <2>4. op # "weak"
    BY <1>8 DEF Doubles
  <2> QED
    BY <1>2, <1>4, <1>5, <1>8, <2>1, <2>2, <2>3, <2>4 DEF TextItems, ObjectItems, Doubles, item, t
<1>9. CASE op \in Octets
  <2>1. item = WantOf(op, c.length)
    BY <1>1, <1>9 DEF ItemOf, Octets
  <2>2. item.op = op /\ item.length = c.length
    BY <2>1 DEF WantOf
  <2>3. Kind(item) = "raw" /\ Needs[op] = "raw" /\ item.op \in BodyItems
    BY <1>7, <1>9, <2>2 DEF Kind, BodyItems, Words, Octets
  <2>4. op # "weak"
    BY <1>9 DEF Octets
  <2> QED
    BY <1>2, <1>4, <1>5, <1>9, <2>2, <2>3, <2>4 DEF TextItems, ObjectItems, Octets, item, t
<1>10. CASE op \in Words
  <2>1. item = Want(IF op = "string" /\ caller.op \in KeyTakers THEN "keys" ELSE op)
    BY <1>1, <1>10 DEF ItemOf, Octets, Words
  <2>2. item.op = IF op = "string" /\ caller.op \in KeyTakers THEN "keys" ELSE op
    BY <2>1 DEF Want
  <2>3. Kind(item) = "word" /\ Needs[op] = "word" /\ item.op \notin BodyItems
    BY <1>7, <1>10, <2>2 DEF Kind, BodyItems, Words
  <2>4. ~Is("raw", t)
    BY <1>2, <1>6, <2>3
  <2>5. op \in TextItems \cup ObjectItems => item.op \in TextItems \cup ObjectItems
    BY <1>10, <2>2 DEF TextItems, ObjectItems, Words
  <2>6. op = "value" => t.word \in Markers
    BY <1>2, <2>2
  <2>7. op # "stamp"
    BY <1>10 DEF Words
  <2>8. op # "string" => item.op = op
    BY <2>2
  <2>9. op = "string" => item.op = IF caller.op \in KeyTakers THEN "keys" ELSE "string"
    BY <2>2
  <2>10. Fits
    BY <1>2, <1>5, <2>2, <2>3, <2>4
  <2>11. op \in TextItems \cup ObjectItems => SuitsHeader(st, item.op, t)
    BY <1>2, <2>5
  <2> QED
    BY <1>4, <2>6, <2>7, <2>8, <2>9, <2>10, <2>11 DEF item, t, caller
<1> QED
  BY <1>8, <1>9, <1>10 DEF Reads

----------------------------------------------------------------------------
(* A token that is read, and what the stream and the tables become.        *)
LEMMA AdvancedFacts ==
    ASSUME NEW st, NEW t, NEW op, Head(st.want).op = op, NEW new, new = Advanced(st, t)
    PROVE  /\ new.want = Announced(st, op, t) \o Tail(st.want)
           /\ new.strings = IF op = "content" THEN st.strings + 1 ELSE st.strings
           /\ new.objects = IF op \in ObjectItems /\ ~IsShared(t) THEN st.objects + 1
                            ELSE st.objects
           /\ new.traits = IF op = "object" /\ ~IsShared(t) /\ ~SharesTraits(t)
                           THEN Append(st.traits, OwnTraits(t)) ELSE st.traits
  BY DEF Advanced, ObjectItems

LEMMA TableFacts ==
    ASSUME IInv
    PROVE  /\ Len(tableStrings) \in Nat /\ Len(tableObjects) \in Nat /\ Len(tableTraits) \in Nat
           /\ IsSeq(tableStrings) /\ IsSeq(tableObjects) /\ IsSeq(tableTraits)
           /\ IsSeq(Lay(tableTraits)) /\ Len(Lay(tableTraits)) = Len(tableTraits)
           /\ \A i \in 1 .. Len(tableTraits) : Lay(tableTraits)[i] = Layout(tableTraits[i])
           /\ Fresh \in Nat
<1>1. IsSeq(tableStrings) /\ IsSeq(tableTraits)
  BY DEF IInv, TextInv
<1>2. IsSeq(tableObjects) /\ Fresh \in Nat
  <2>1. Len(out) \in Nat /\ before \in Nat /\ before <= Len(out)
    BY IdsFacts DEF IInv
  <2>2. tableObjects = [i \in 1 .. Len(out) - before |-> before + i]
    BY DEF IInv, HeapInv
  <2> DEFINE n == Len(out) - before
             s == [i \in 1 .. n |-> before + i]
  <2>3. n \in Nat /\ DOMAIN s = 1 .. n /\ s = [i \in 1 .. n |-> s[i]]
    BY <2>1
  <2>4. tableObjects = s
    BY <2>2
  <2> HIDE DEF n, s
  <2> QED
    BY <2>1, <2>3, <2>4, FunctionIsSeq DEF Fresh
<1>3. Len(tableStrings) \in Nat /\ Len(tableObjects) \in Nat /\ Len(tableTraits) \in Nat
  BY <1>1, <1>2, SeqFacts
<1>4. /\ IsSeq(Lay(tableTraits)) /\ Len(Lay(tableTraits)) = Len(tableTraits)
      /\ \A i \in 1 .. Len(tableTraits) : Lay(tableTraits)[i] = Layout(tableTraits[i])
  <2> DEFINE n == Len(tableTraits)
             s == [i \in 1 .. n |-> Layout(tableTraits[i])]
  <2>1. Lay(tableTraits) = s
    BY DEF Lay
  <2>2. n \in Nat /\ DOMAIN s = 1 .. n /\ s = [i \in 1 .. n |-> s[i]]
        /\ \A i \in 1 .. n : s[i] = Layout(tableTraits[i])
    BY <1>3
  <2> HIDE DEF s, n
  <2>3. IsSeq(s) /\ Len(s) = n
    BY <2>2, FunctionIsSeq
  <2> QED
    BY <2>1, <2>2, <2>3 DEF n
<1> QED
  BY <1>1, <1>2, <1>3, <1>4

(* The reader takes for a reference what the format says is one.           *)
LEMMA SharedReference ==
    ASSUME Token.word \in Nat, Number(Token) >= 0, NEW table, IsSeq(table),
           IsShared(Token) => Size(Token) < Len(table)
    PROVE  /\ IsReference(table) <=> IsShared(Token)
           /\ Type = Number(Token) /\ Length = Size(Token) /\ Length \in Nat
           /\ Entry(table, Length) = Length + 1
           /\ IsShared(Token) => Length + 1 \in 1 .. Len(table)
<1>1. Type = Number(Token) /\ Length = Size(Token)
  BY DEF Type, Length, Number, Size
<1>2. Size(Token) \in Nat
  BY HeaderFacts
<1>3. Len(table) \in Nat /\ DOMAIN table = 1 .. Len(table)
  BY SeqFacts
<1> DEFINE n == Length
<1>4. Entry(table, n) = n + 1
  BY <1>1, <1>2 DEF Entry
<1> HIDE DEF n
<1>5. IsShared(Token) => n + 1 \in 1 .. Len(table)
  BY <1>1, <1>2, <1>3 DEF n
<1>6. IsReference(table) <=> IsShared(Token)
  BY <1>1, <1>3, <1>4, <1>5 DEF IsReference, IsShared, n
<1> QED
  BY <1>1, <1>2, <1>4, <1>5, <1>6 DEF n

(* A read that is no part of a string.                                     *)
ItemFor(op) == IF op = "stamp" THEN "double" ELSE op

Plain == Reads \ {"string", "content"}

LEMMA PlainRead ==
    ASSUME IInv, NEW st, Follows(st), NEW op \in Plain, Ready(op), Suits(st, Token),
           NEW new, new = Advanced(st, Token)
    PROVE  /\ IsCalm(Tail(stack)) /\ IsWanted(Tail(stack), Tail(st.want))
           /\ new.want = Announced(st, ItemFor(op), Token) \o Tail(st.want)
           /\ st.strings = Len(tableStrings) /\ new.strings = Len(tableStrings)
           /\ st.objects = Len(tableObjects) + (IF op \in Making THEN 1 ELSE 0)
           /\ new.objects = IF op \in ObjectItems /\ ~IsShared(Token) THEN st.objects + 1
                            ELSE st.objects
           /\ st.traits = Lay(tableTraits)
           /\ new.traits = IF op = "object" /\ ~IsShared(Token) /\ ~SharesTraits(Token)
                           THEN Append(st.traits, OwnTraits(Token)) ELSE st.traits
           /\ op \in ObjectItems =>
                /\ SuitsHeader(st, op, Token) /\ Token.word \in Nat /\ st.objects = Len(tableObjects)
                /\ Number(Token) >= 0
                /\ IsReference(tableObjects) <=> IsShared(Token)
                /\ Length = Size(Token) /\ Length \in Nat
           /\ op \in Words => Token.word \in Nat
<1>1. /\ SourceInv /\ pc = "reading" /\ pos < Len(source) /\ op \in Reads /\ Reading(op)
      /\ Head(stack).op = op
  BY DEF IInv, Ready, Reading, Plain
<1>2. /\ op \in TextItems \cup ObjectItems => SuitsHeader(st, Head(st.want).op, Token)
      /\ Head(st.want).op = ItemFor(op)
  BY <1>1, SuitsFits DEF Plain, ItemFor
<1>3. /\ IsCalm(Tail(stack)) /\ stack[2].op \notin Takers
      /\ IsWanted(Tail(stack), Tail(st.want))
  BY <1>1, ReadWants DEF Plain
<1>4. /\ st.strings = Len(tableStrings)
      /\ st.objects = Len(tableObjects) + (IF op \in Making THEN 1 ELSE 0)
      /\ st.traits = Lay(tableTraits)
  BY <1>1, <1>3 DEF Follows, Match, Pending, SentTraits, Takers, KeyTakers, Once
<1>5. /\ new.want = Announced(st, ItemFor(op), Token) \o Tail(st.want)
      /\ new.strings = st.strings
      /\ new.objects = IF op \in ObjectItems /\ ~IsShared(Token) THEN st.objects + 1
                       ELSE st.objects
      /\ new.traits = IF op = "object" /\ ~IsShared(Token) /\ ~SharesTraits(Token)
                      THEN Append(st.traits, OwnTraits(Token)) ELSE st.traits
  <2> DEFINE k == ItemFor(op)
  <2>1. k # "content" /\ (k \in ObjectItems <=> op \in ObjectItems) /\ (k = "object" <=> op = "object")
    BY DEF ItemFor, ObjectItems, Plain
  <2>2. Head(st.want).op = k
    BY <1>2
  <2> HIDE DEF k
  <2>3. /\ new.want = Announced(st, k, Token) \o Tail(st.want)
        /\ new.strings = IF k = "content" THEN st.strings + 1 ELSE st.strings
        /\ new.objects = IF k \in ObjectItems /\ ~IsShared(Token) THEN st.objects + 1
                         ELSE st.objects
        /\ new.traits = IF k = "object" /\ ~IsShared(Token) /\ ~SharesTraits(Token)
                        THEN Append(st.traits, OwnTraits(Token)) ELSE st.traits
    BY <2>2, AdvancedFacts
  <2> QED
    BY <2>1, <2>3 DEF k
<1>6. op \in Words => Token.word \in Nat
  BY <1>1, TokenFacts
<1>7. ASSUME op \in ObjectItems
      PROVE  /\ SuitsHeader(st, op, Token) /\ Token.word \in Nat /\ st.objects = Len(tableObjects)
             /\ Number(Token) >= 0
             /\ IsReference(tableObjects) <=> IsShared(Token)
             /\ Length = Size(Token) /\ Length \in Nat
  <2>1. op \in Words /\ op \notin TextItems /\ op \notin Making /\ ItemFor(op) = op
    BY <1>7 DEF ObjectItems, Words, TextItems, Making, ItemFor
  <2>2. SuitsHeader(st, op, Token)
    BY <1>2, <1>7, <2>1
  <2>3. Len(tableObjects) \in Nat /\ IsSeq(tableObjects)
    BY TableFacts
  <2>4. st.objects = Len(tableObjects)
    BY <1>4, <2>1, <2>3
  <2>5. Number(Token) >= 0 /\ (IsShared(Token) => Size(Token) < Len(tableObjects))
    BY <2>1, <2>2, <2>4 DEF SuitsHeader
  <2> QED
    BY <1>6, <2>1, <2>2, <2>3, <2>4, <2>5, SharedReference
<1> QED
  BY <1>3, <1>4, <1>5, <1>6, <1>7

----------------------------------------------------------------------------
(* Reads of a value that is no object.                                     *)
LEMMA OpenedFacts ==
    /\ \A v : Opened(Got(v)) = << >> /\ Got(v).op = "got"
    /\ \A op \in (Words \cup {"double"}) : Opened(Read(op)) = <<Want(op)>> /\ Read(op).op = op
    /\ \A n : Opened(Sized("content", n)) = <<WantOf("content", n)>>
              /\ Sized("content", n).op = "content"
    /\ \A n : Opened(Sized("octets", n)) = <<WantOf("octets", n)>>
              /\ Sized("octets", n).op = "octets"
    /\ Opened(Read("stamp")) = <<Want("double")>> /\ Read("stamp").op = "stamp"
<1>1. ASSUME NEW v PROVE Opened(Got(v)) = << >> /\ Got(v).op = "got"
  BY DEF Opened, Got, Octets, Words
<1>2. ASSUME NEW op \in Words \cup {"double"}
      PROVE  Opened(Read(op)) = <<Want(op)>> /\ Read(op).op = op
  BY DEF Opened, Read, Octets, Words
<1>3. ASSUME NEW n PROVE /\ Opened(Sized("content", n)) = <<WantOf("content", n)>>
                         /\ Sized("content", n).op = "content"
                         /\ Opened(Sized("octets", n)) = <<WantOf("octets", n)>>
                         /\ Sized("octets", n).op = "octets"
  BY DEF Opened, Sized, Octets
<1>4. Opened(Read("stamp")) = <<Want("double")>> /\ Read("stamp").op = "stamp"
  BY DEF Opened, Read, Octets
<1> QED
  BY <1>1, <1>2, <1>3, <1>4

(* The read becomes one call.                                              *)
LEMMA BecomesOne ==
    ASSUME IInv, NEW st, Follows(st), NEW op \in Plain, Ready(op), Suits(st, Token),
           NEW new, new = Advanced(st, Token),
           NEW c, c.op \notin Bottom \cup Takers, Become(<<c>>),
           Announced(st, ItemFor(op), Token) = Opened(c),
           tableStrings' = tableStrings, tableTraits' = tableTraits, Len(tableObjects') \in Nat,
           new.objects = Len(tableObjects') + (IF c.op \in Making THEN 1 ELSE 0),
           op = "object" => IsShared(Token) \/ SharesTraits(Token)
    PROVE  Match(stack', new, tableStrings', tableObjects', tableTraits')
<1> DEFINE r == Tail(stack)
           w == Tail(st.want)
<1>1. /\ IsCalm(r) /\ IsWanted(r, w)
      /\ new.want = Announced(st, ItemFor(op), Token) \o w
      /\ new.strings = Len(tableStrings) /\ new.traits = Lay(tableTraits)
  BY PlainRead
<1>2. stack' = <<c>> \o r
  BY DEF Become
<1> HIDE DEF r, w
<1>3. new.want = Opened(c) \o w /\ new.strings = Len(tableStrings') /\ new.traits = Lay(tableTraits')
  BY <1>1
<1>4. Match(<<c>> \o r, new, tableStrings', tableObjects', tableTraits')
  BY <1>1, <1>3, OneCall
<1> QED
  BY <1>2, <1>4

----------------------------------------------------------------------------
(* Markers, words, references and bodies of bytes.                         *)
LEMMA MarkerAnnounces ==
    ASSUME NEW after \in AfterMarker, after[1] = Token.word, NEW st
    PROVE  /\ Announced(st, "value", Token) = Opened(after[2])
           /\ after[2].op \notin Bottom \cup Takers \cup Making
<1> DEFINE c == after[2]
           n == after[1]
<1>1. Announced(st, "value", Token) = Opening(n)
  BY DEF Announced
<1>2. CASE n <= TRUE_MARKER
  <2>1. c \in {Got(Nil), Got(False), Got(True)}
    BY <1>2 DEF AfterMarker, TRUE_MARKER, INTEGER_MARKER, DOUBLE_MARKER, STRING_MARKER,
                DATE_MARKER, ARRAY_MARKER, OBJECT_MARKER, BYTE_ARRAY_MARKER, DICT_MARKER
  <2>2. Opened(c) = << >> /\ c.op = "got"
    BY <2>1, OpenedFacts
  <2>3. Opening(n) = << >>
    BY <1>2 DEF Opening
  <2> QED
    BY <1>1, <2>2, <2>3 DEF Bottom, Takers, KeyTakers, Making
<1>3. CASE ~(n <= TRUE_MARKER)
  <2>1. PICK op \in Words \cup {"double"} : c = Read(op) /\ Opening(n) = <<Want(op)>>
    BY <1>3 DEF AfterMarker, Opening, Words, UNDEFINED_MARKER, NULL_MARKER, FALSE_MARKER,
                TRUE_MARKER, INTEGER_MARKER, DOUBLE_MARKER, STRING_MARKER,
                DATE_MARKER, ARRAY_MARKER, OBJECT_MARKER, BYTE_ARRAY_MARKER, DICT_MARKER
  <2>2. Opened(c) = <<Want(op)>> /\ c.op = op
    BY <2>1, OpenedFacts
  <2> QED
    BY <1>1, <2>1, <2>2 DEF Bottom, Takers, KeyTakers, Making, Words
<1> QED
  BY <1>2, <1>3

LEMMA ScalarFollows ==
    ASSUME IInv, NEW st, Follows(st), ReadMarker \/ ReadInteger \/ ReadNumber,
           Suits(st, Token), NEW new, new = Advanced(st, Token)
    PROVE  Match(stack', new, tableStrings', tableObjects', tableTraits')
<1>1. ASSUME NEW op \in {"value", "integer", "double"}, Ready(op), NEW c, Become(<<c>>),
             c.op \notin Bottom \cup Takers \cup Making, UNCHANGED tables,
             Announced(st, op, Token) = Opened(c)
      PROVE  Match(stack', new, tableStrings', tableObjects', tableTraits')
  <2>1. op \in Plain /\ op \notin ObjectItems \cup Making /\ op # "object" /\ ItemFor(op) = op
    BY DEF Plain, Reads, Words, Doubles, ObjectItems, Making, ItemFor
  <2>2. Len(tableObjects) \in Nat
    BY TableFacts
  <2>3. /\ tableStrings' = tableStrings /\ tableTraits' = tableTraits
        /\ tableObjects' = tableObjects
    BY <1>1 DEF tables
  <2>4. new.objects = Len(tableObjects')
    BY <1>1, <2>1, <2>2, <2>3, PlainRead
  <2> QED
    BY <1>1, <2>1, <2>2, <2>3, <2>4, BecomesOne
<1>2. CASE ReadMarker
  <2>1. PICK after \in AfterMarker : after[1] = Token.word /\ Become(<<after[2]>>)
    BY <1>2 DEF ReadMarker
  <2>2. Ready("value") /\ UNCHANGED tables
    BY <1>2 DEF ReadMarker, Consume
  <2> QED
    BY <1>1, <2>1, <2>2, MarkerAnnounces
<1>3. CASE ReadInteger
  <2> DEFINE v == Num(Signed(Token.word))
  <2>1. Ready("integer") /\ UNCHANGED tables /\ Become(<<Got(v)>>)
    BY <1>3 DEF ReadInteger, Consume
  <2> HIDE DEF v
  <2>2. Announced(st, "integer", Token) = << >>
    BY DEF Announced, TextItems, ObjectItems
  <2>3. Opened(Got(v)) = << >> /\ Got(v).op \notin Bottom \cup Takers \cup Making
    BY OpenedFacts DEF Bottom, Takers, KeyTakers, Making
  <2> QED
    BY <1>1, <2>1, <2>2, <2>3
<1>4. CASE ReadNumber
  <2> DEFINE v == IF Token.double = Float(NaN) THEN Nil ELSE Token.double
  <2>1. Ready("double") /\ UNCHANGED tables /\ Become(<<Got(v)>>)
    BY <1>4 DEF ReadNumber, Consume
  <2> HIDE DEF v
  <2>2. Announced(st, "double", Token) = << >>
    BY DEF Announced, TextItems, ObjectItems
  <2>3. Opened(Got(v)) = << >> /\ Got(v).op \notin Bottom \cup Takers \cup Making
    BY OpenedFacts DEF Bottom, Takers, KeyTakers, Making
  <2> QED
    BY <1>1, <2>1, <2>2, <2>3
<1> QED
  BY <1>2, <1>3, <1>4

(* A reference to an object.                                               *)
LEMMA ReferenceFollows ==
    ASSUME IInv, NEW st, Follows(st), NEW op \in ObjectItems, ReadReference(op),
           Suits(st, Token), NEW new, new = Advanced(st, Token)
    PROVE  Match(stack', new, tableStrings', tableObjects', tableTraits')
<1> DEFINE v == Ref(tableObjects[Entry(tableObjects, Length)])
<1>1. Ready(op) /\ Become(<<Got(v)>>) /\ UNCHANGED tables /\ IsReference(tableObjects)
  BY DEF ReadReference, Consume
<1>2. op \in Plain /\ op \notin Making /\ ItemFor(op) = op /\ op \notin TextItems /\ op # "value"
  BY DEF Plain, Reads, Words, ObjectItems, Making, ItemFor, TextItems
<1> HIDE DEF v
<1>3. Len(tableObjects) \in Nat
  BY TableFacts
<1>4. IsShared(Token) /\ new.objects = Len(tableObjects)
  BY <1>1, <1>2, <1>3, PlainRead
<1>5. Announced(st, op, Token) = << >>
  BY <1>2, <1>4 DEF Announced
<1>6. Opened(Got(v)) = << >> /\ Got(v).op \notin Bottom \cup Takers \cup Making
  BY OpenedFacts DEF Bottom, Takers, KeyTakers, Making
<1>7. tableStrings' = tableStrings /\ tableTraits' = tableTraits /\ tableObjects' = tableObjects
  BY <1>1 DEF tables
<1> QED
  BY <1>1, <1>2, <1>3, <1>4, <1>5, <1>6, <1>7, BecomesOne

(* An object announced, or made.                                           *)
LEMMA InlineOne ==
    ASSUME IInv, NEW st, Follows(st), NEW op \in ObjectItems, Ready(op), Suits(st, Token),
           NEW new, new = Advanced(st, Token), ~IsReference(tableObjects),
           NEW c, c.op \notin Bottom \cup Takers, Become(<<c>>),
           ObjectWants(st, op, Token) = Opened(c),
           UNCHANGED <<tableStrings, tableTraits>>,
           tableObjects' = IF c.op \in Making THEN tableObjects ELSE Append(tableObjects, Fresh),
           op = "object" => SharesTraits(Token)
    PROVE  Match(stack', new, tableStrings', tableObjects', tableTraits')
<1>2. op \in Plain /\ op \notin Making /\ ItemFor(op) = op /\ op \notin TextItems /\ op # "value"
  BY DEF Plain, Reads, Words, ObjectItems, Making, ItemFor, TextItems
<1>3. Len(tableObjects) \in Nat /\ IsSeq(tableObjects)
  BY TableFacts
<1>4. ~IsShared(Token) /\ new.objects = Len(tableObjects) + 1
  BY <1>2, <1>3, PlainRead
<1>5. Announced(st, op, Token) = Opened(c)
  BY <1>2, <1>4 DEF Announced
<1>6. Len(tableObjects') \in Nat
      /\ new.objects = Len(tableObjects') + (IF c.op \in Making THEN 1 ELSE 0)
  <2>1. Len(Append(tableObjects, Fresh)) = Len(tableObjects) + 1
    BY <1>3, AppendFacts
  <2> QED
    BY <1>3, <1>4, <2>1
<1> QED
  BY <1>2, <1>5, <1>6, BecomesOne

LEMMA TimeFollows ==
    ASSUME IInv, NEW st, Follows(st), ReadDate \/ ReadStamp,
           Suits(st, Token), NEW new, new = Advanced(st, Token)
    PROVE  Match(stack', new, tableStrings', tableObjects', tableTraits')
<1>1. CASE ReadReference("date")
  BY <1>1, ReferenceFollows DEF ObjectItems
<1>2. CASE ReadInline("date", <<Read("stamp")>>) /\ UNCHANGED <<tables, out>>
  <2>1. /\ Ready("date") /\ ~IsReference(tableObjects) /\ Become(<<Read("stamp")>>)
        /\ UNCHANGED <<tableStrings, tableTraits>> /\ tableObjects' = tableObjects
    BY <1>2 DEF ReadInline, Consume, tables
  <2>2. ObjectWants(st, "date", Token) = Opened(Read("stamp")) /\ Read("stamp").op = "stamp"
    BY OpenedFacts DEF ObjectWants
  <2>3. "date" \in ObjectItems /\ "stamp" \in Making /\ "stamp" \notin Bottom \cup Takers
    BY DEF ObjectItems, Making, Bottom, Takers, KeyTakers
  <2> QED
    BY <2>1, <2>2, <2>3, InlineOne
<1>3. CASE ReadStamp
  <2> DEFINE v == Ref(Fresh)
  <2>1. /\ Ready("stamp") /\ Become(<<Got(v)>>) /\ UNCHANGED <<tableStrings, tableTraits>>
        /\ tableObjects' = Append(tableObjects, Fresh)
    BY <1>3 DEF ReadStamp, Consume, Make
  <2> HIDE DEF v
  <2>2. /\ "stamp" \in Plain /\ "stamp" \in Making /\ "stamp" \notin ObjectItems
        /\ ItemFor("stamp") = "double" /\ "stamp" # "object"
    BY DEF Plain, Reads, Doubles, Making, ObjectItems, ItemFor
  <2>3. Announced(st, "double", Token) = << >>
    BY DEF Announced, TextItems, ObjectItems
  <2>4. Opened(Got(v)) = << >> /\ Got(v).op \notin Bottom \cup Takers \cup Making
    BY OpenedFacts DEF Bottom, Takers, KeyTakers, Making
  <2>5. new.objects = Len(tableObjects) + 1 /\ Len(tableObjects) \in Nat /\ IsSeq(tableObjects)
    BY <2>1, <2>2, PlainRead, TableFacts
  <2>6. Len(tableObjects') = Len(tableObjects) + 1
    BY <2>1, <2>5, AppendFacts
  <2> QED
    BY <2>1, <2>2, <2>3, <2>4, <2>5, <2>6, BecomesOne
<1> QED
  BY <1>1, <1>2, <1>3 DEF ReadDate

LEMMA BytesFollows ==
    ASSUME IInv, NEW st, Follows(st), ReadByteArray \/ ReadOctets,
           Suits(st, Token), NEW new, new = Advanced(st, Token)
    PROVE  Match(stack', new, tableStrings', tableObjects', tableTraits')
<1> DEFINE v == Ref(Fresh)
           n == Length
<1>1. CASE ReadReference("bytes")
  BY <1>1, ReferenceFollows DEF ObjectItems
<1>2. CASE ReadByteArray /\ ~ReadReference("bytes")
  <2>1. /\ Ready("bytes") /\ ~IsReference(tableObjects)
        /\ Become(IF n = 0 THEN <<Got(v)>> ELSE <<Sized("octets", n)>>)
        /\ UNCHANGED <<tableStrings, tableTraits>>
        /\ tableObjects' = IF n = 0 THEN Append(tableObjects, Fresh) ELSE tableObjects
    BY <1>2 DEF ReadByteArray, ReadInline, MakeBytes, Make, tables
  <2>2. "bytes" \in ObjectItems /\ "bytes" \in Plain
    BY DEF ObjectItems, Plain, Reads, Words
  <2>3. n = Size(Token)
    BY <2>1, <2>2, PlainRead
  <2> HIDE DEF n, v
  <2>4. ObjectWants(st, "bytes", Token) = IF n = 0 THEN << >> ELSE <<WantOf("octets", n)>>
    BY <2>3 DEF ObjectWants
  <2>5. /\ Opened(Got(v)) = << >> /\ Got(v).op = "got"
        /\ Opened(Sized("octets", n)) = <<WantOf("octets", n)>> /\ Sized("octets", n).op = "octets"
    BY OpenedFacts
  <2>6. /\ {"got", "octets"} \cap (Bottom \cup Takers) = {}
        /\ "got" \notin Making /\ "octets" \in Making /\ "bytes" # "object"
    BY DEF Bottom, Takers, KeyTakers, Making
  <2>7. CASE n = 0
    BY <2>1, <2>2, <2>4, <2>5, <2>6, <2>7, InlineOne
  <2>8. CASE n # 0
    BY <2>1, <2>2, <2>4, <2>5, <2>6, <2>8, InlineOne
  <2> QED
    BY <2>7, <2>8
<1>3. CASE ReadOctets
  <2>1. /\ Ready("octets") /\ Become(<<Got(v)>>) /\ UNCHANGED <<tableStrings, tableTraits>>
        /\ tableObjects' = Append(tableObjects, Fresh)
    BY <1>3 DEF ReadOctets, Consume, MakeBytes, Make
  <2> HIDE DEF v
  <2>2. /\ "octets" \in Plain /\ "octets" \in Making /\ "octets" \notin ObjectItems
        /\ ItemFor("octets") = "octets" /\ "octets" # "object"
    BY DEF Plain, Reads, Octets, Making, ObjectItems, ItemFor
  <2>3. Announced(st, "octets", Token) = << >>
    BY DEF Announced, TextItems, ObjectItems
  <2>4. Opened(Got(v)) = << >> /\ Got(v).op \notin Bottom \cup Takers \cup Making
    BY OpenedFacts DEF Bottom, Takers, KeyTakers, Making
  <2>5. new.objects = Len(tableObjects) + 1 /\ Len(tableObjects) \in Nat /\ IsSeq(tableObjects)
    BY <2>1, <2>2, PlainRead, TableFacts
  <2>6. Len(tableObjects') = Len(tableObjects) + 1
    BY <2>1, <2>5, AppendFacts
  <2> QED
    BY <2>1, <2>2, <2>3, <2>4, <2>5, <2>6, BecomesOne
<1> QED
  BY <1>1, <1>2, <1>3

LEMMA WeakFollows ==
    ASSUME IInv, NEW st, Follows(st), ReadWeak, Suits(st, Token),
           NEW new, new = Advanced(st, Token), Tail(stack') # << >>
    PROVE  Match(stack', new, tableStrings', tableObjects', tableTraits')
<1> DEFINE r == Tail(stack)
           w == Tail(st.want)
<1>1. Ready("weak") /\ Become(<< >>) /\ UNCHANGED tables
  BY DEF ReadWeak, Consume
<1>2. /\ "weak" \in Plain /\ "weak" \notin Making /\ "weak" \notin ObjectItems
      /\ ItemFor("weak") = "weak" /\ "weak" # "object"
  BY DEF Plain, Reads, Words, Making, ObjectItems, ItemFor
<1>3. Announced(st, "weak", Token) = << >>
  BY DEF Announced, TextItems, ObjectItems
<1>4. /\ IsCalm(r) /\ IsWanted(r, w) /\ new.want = << >> \o w
      /\ new.strings = Len(tableStrings) /\ new.objects = Len(tableObjects) + 0
      /\ new.traits = Lay(tableTraits) /\ Len(tableObjects) \in Nat
  BY <1>1, <1>2, <1>3, PlainRead, TableFacts
<1>5. stack' = << >> \o r
  BY <1>1 DEF Become
<1> HIDE DEF r, w
<1>6. new.want = w /\ stack' = r
  BY <1>4, <1>5, CalmHead, WantedSeq, EmptyConcat
<1>7. /\ new.strings = Len(tableStrings') /\ new.objects = Len(tableObjects')
      /\ new.traits = Lay(tableTraits') /\ Len(tableObjects') \in Nat
  BY <1>1, <1>4 DEF tables
<1> QED
  BY <1>4, <1>6, <1>7, CalmMatch

(* The parts of a string, for whoever takes it.                            *)
LEMMA ReplacedMatch ==
    ASSUME IInv, NEW st, Follows(st), NEW op \in {"string", "content"}, Reading(op),
           NEW c, IsText(c), Become(<<c>>), NEW w, Below(Tail(stack), w), IsSeq(w),
           NEW new, new.want = First(c, stack[2]) \o w, new.strings = Len(tableStrings'),
           new.objects = st.objects, new.traits = st.traits,
           UNCHANGED <<tableObjects, tableTraits>>
    PROVE  Match(stack', new, tableStrings', tableObjects', tableTraits')
<1> DEFINE r == Tail(stack)
           t == <<c>> \o r
<1>1. c.op \notin Bottom \cup Takers \cup Making
  BY DEF IsText, Bottom, Takers, KeyTakers, Making
<1>2. IsShaped(stack) /\ IsTaker(stack[2]) /\ Head(stack).op \notin Making
  BY DEF Follows, Match, Reading, Making
<1>3. IsShaped(t) /\ Head(t) = c /\ t[2] = stack[2] /\ Related(t, First(c, stack[2]) \o w)
  BY <1>1, <1>2, Replaced
<1>4. stack' = t
  BY DEF Become
<1> HIDE DEF t, r
<1>5. Pending(t) = Pending(stack) /\ SentTraits(t, tableTraits) = SentTraits(stack, tableTraits)
  BY <1>1, <1>2, <1>3 DEF Pending, SentTraits
<1>6. st.objects = Len(tableObjects) + Pending(stack) /\ st.traits = SentTraits(stack, tableTraits)
  BY DEF Follows, Match
<1> QED
  BY <1>2, <1>3, <1>4, <1>5, <1>6 DEF Match

LEMMA ContentFollows ==
    ASSUME IInv, NEW st, Follows(st), ReadContent, Suits(st, Token),
           NEW new, new = Advanced(st, Token)
    PROVE  Match(stack', new, tableStrings', tableObjects', tableTraits')
<1> DEFINE s == Token.raw
           c == Got(Str(s))
           two == <<Want("value"), Want("keys")>>
<1>1. /\ Ready("content") /\ Reading("content") /\ Become(<<c>>)
      /\ UNCHANGED <<tableObjects, tableTraits>> /\ tableStrings' = Append(tableStrings, s)
  BY DEF ReadContent, Consume, Ready
<1>2. "content" \in Reads /\ "content" \in Octets /\ "content" \notin ObjectItems /\ "content" # "object"
  BY DEF Reads, Octets, ObjectItems
<1>3. s # EmptyString
  <2>1. Head(stack).length # 0
    <3>1. IsCall(Ids, out, Head(stack)) /\ Head(stack).op = "content"
      BY <1>1, RestFacts DEF IInv, Bottom
    <3> QED
      BY <3>1 DEF IsCall, Words, Doubles
  <2>2. s \in Strings /\ ByteSize[s] = Head(stack).length
    BY <1>1, <1>2, TokenFacts DEF IInv
  <2> QED
    BY <2>1, <2>2, StringsAssumption
<1> HIDE DEF s
<1>4. c.op = "got" /\ c.value = Str(s) /\ Str(s).str = s /\ Opened(c) = << >> /\ Is("str", c.value)
  BY OpenedFacts DEF Got, Str, Is
<1> HIDE DEF c
<1>5. IsText(c)
  BY <1>4 DEF IsText
<1>6. Head(st.want).op = "content"
  BY <1>1, <1>2, SuitsFits DEF IInv, Ready, Reading
<1>7. /\ new.want = Announced(st, "content", Token) \o Tail(st.want)
      /\ new.strings = st.strings + 1 /\ new.objects = st.objects /\ new.traits = st.traits
  <2> DEFINE k == "content"
             z == Token
  <2>1. Head(st.want).op = k
    BY <1>6
  <2> HIDE DEF k, z
  <2>2. /\ new.want = Announced(st, k, z) \o Tail(st.want)
        /\ new.strings = IF k = "content" THEN st.strings + 1 ELSE st.strings
        /\ new.objects = IF k \in ObjectItems /\ ~IsShared(z) THEN st.objects + 1 ELSE st.objects
        /\ new.traits = IF k = "object" /\ ~IsShared(z) /\ ~SharesTraits(z)
                        THEN Append(st.traits, OwnTraits(z)) ELSE st.traits
    BY <2>1, AdvancedFacts DEF z
  <2> QED
    BY <1>2, <2>2 DEF k, z
<1>8. Announced(st, "content", Token) = << >>
  BY DEF Announced, TextItems, ObjectItems
<1>9. new.strings = Len(tableStrings')
  <2>1. IsSeq(tableStrings)
    BY TableFacts
  <2>2. Len(tableStrings') = Len(tableStrings) + 1
    BY <1>1, <2>1, AppendFacts
  <2> QED
    BY <1>7, <2>2 DEF Follows, Match
<1>10. CASE stack[2].op \in KeyTakers
  <2>1. PICK w : Below(Tail(stack), w) /\ IsSeq(w) /\ Tail(st.want) = two \o w
    BY <1>1, <1>2, <1>10, ReadWants
  <2>2. First(c, stack[2]) = two
    BY <1>3, <1>4, <1>10 DEF First, Keyed
  <2>3. IsSeq(two)
    BY ShortSeqs
  <2> HIDE DEF two
  <2>4. new.want = two \o w
    <3> DEFINE x == two \o w
    <3>1. IsSeq(x)
      BY <2>1, <2>3, ConcatFacts
    <3>2. new.want = << >> \o x
      BY <1>7, <1>8, <2>1
    <3> HIDE DEF x
    <3>3. new.want = x
      BY <3>1, <3>2, EmptyConcat
    <3> QED
      BY <3>3 DEF x
  <2> QED
    BY <1>1, <1>5, <1>7, <1>9, <2>1, <2>2, <2>4, ReplacedMatch
<1>11. CASE stack[2].op \notin KeyTakers
  <2>1. Below(Tail(stack), Tail(st.want)) /\ IsSeq(Tail(st.want))
    BY <1>1, <1>2, <1>11, ReadWants
  <2>2. First(c, stack[2]) = << >>
    BY <1>4, <1>11 DEF First
  <2>3. new.want = First(c, stack[2]) \o Tail(st.want)
    BY <1>7, <1>8, <2>2
  <2> QED
    BY <1>1, <1>5, <1>7, <1>9, <2>1, <2>3, ReplacedMatch
<1> QED
  BY <1>10, <1>11

LEMMA StringFollows ==
    ASSUME IInv, NEW st, Follows(st), ReadString, Suits(st, Token),
           NEW new, new = Advanced(st, Token)
    PROVE  Match(stack', new, tableStrings', tableObjects', tableTraits')
<1> DEFINE s == tableStrings[Entry(tableStrings, Length)]
           n == Length
           c == IF IsReference(tableStrings) THEN Got(Str(s))
                ELSE IF n > 0 THEN Sized("content", n) ELSE Got(Str(EmptyString))
           two == <<Want("value"), Want("keys")>>
           item == IF stack[2].op \in KeyTakers THEN "keys" ELSE "string"
           body == IF IsShared(Token) \/ Size(Token) = 0 THEN << >>
                   ELSE <<WantOf("content", Size(Token))>>
           rest == IF item = "keys" /\ Number(Token) # EMPTY_STRING THEN two ELSE << >>
           w == Tail(st.want)
<1>1. /\ Ready("string") /\ Reading("string") /\ Become(<<c>>)
      /\ UNCHANGED <<tableObjects, tableTraits, tableStrings>>
  BY DEF ReadString, StringHeader, Consume, Ready
<1>2. "string" \in Reads /\ "string" \in Words /\ "string" \in TextItems
  BY DEF Reads, Words, TextItems
<1>3. Head(st.want).op = item /\ SuitsHeader(st, item, Token)
  BY <1>1, <1>2, SuitsFits DEF IInv, Ready, Reading
<1>4. item \in TextItems /\ item \notin ObjectItems /\ item # "content" /\ item # "object" /\ item # "value"
  BY DEF TextItems, ObjectItems
<1>5. /\ new.want = Announced(st, item, Token) \o w
      /\ new.strings = st.strings /\ new.objects = st.objects /\ new.traits = st.traits
  <2> DEFINE k == item
             z == Token
  <2>1. Head(st.want).op = k
    BY <1>3
  <2> HIDE DEF k, z
  <2>2. /\ new.want = Announced(st, k, z) \o Tail(st.want)
        /\ new.strings = IF k = "content" THEN st.strings + 1 ELSE st.strings
        /\ new.objects = IF k \in ObjectItems /\ ~IsShared(z) THEN st.objects + 1 ELSE st.objects
        /\ new.traits = IF k = "object" /\ ~IsShared(z) /\ ~SharesTraits(z)
                        THEN Append(st.traits, OwnTraits(z)) ELSE st.traits
    BY <2>1, AdvancedFacts DEF z
  <2> QED
    BY <1>4, <2>2 DEF k, z
<1>6. Announced(st, item, Token) = body \o rest
  <2>1. Announced(st, item, Token) = TextWants(item, Token)
    BY <1>4 DEF Announced
  <2> QED
    BY <2>1 DEF TextWants
<1>7. Below(Tail(stack), w) /\ IsSeq(w)
  <2>1. stack[2].op \in KeyTakers \/ stack[2].op \notin KeyTakers
    OBVIOUS
  <2> QED
    BY <1>1, <1>2, <2>1, ReadWants
<1>8. st.strings = Len(tableStrings) /\ IsSeq(tableStrings)
  BY TableFacts DEF Follows, Match
<1>9. Token.word \in Nat /\ Number(Token) >= 0 /\ (IsShared(Token) => Size(Token) < Len(tableStrings))
  BY <1>1, <1>2, <1>3, <1>4, <1>8, TokenFacts DEF IInv, SuitsHeader
<1>10. /\ IsReference(tableStrings) <=> IsShared(Token)
       /\ n = Size(Token) /\ n \in Nat
       /\ Entry(tableStrings, Length) = n + 1
       /\ IsShared(Token) => n + 1 \in 1 .. Len(tableStrings)
  BY <1>8, <1>9, SharedReference
<1>11. IsShared(Token) => s # EmptyString
  BY <1>10 DEF IInv, TextInv
<1>12. Number(Token) = EMPTY_STRING <=> ~IsShared(Token) /\ n = 0
  <2>1. Number(Token) \in Nat
    BY <1>9, HeaderFacts
  <2>2. n = Number(Token) \div 2
    BY <1>10 DEF Size
  <2> DEFINE m == Number(Token)
  <2> HIDE DEF m, n
  <2>3. m = 1 <=> m % 2 # 0 /\ n = 0
    BY <2>1, <2>2 DEF m
  <2> QED
    BY <2>3 DEF m, IsShared, EMPTY_STRING
<1>13. IsText(c) /\ body \o rest = First(c, stack[2])
  <2>1. /\ \A x : /\ Got(Str(x)).op = "got" /\ Got(Str(x)).value = Str(x) /\ Str(x).str = x
                  /\ Is("str", Str(x)) /\ Opened(Got(Str(x))) = << >>
        /\ Sized("content", n).op = "content" /\ Sized("content", n).length = n
        /\ Opened(Sized("content", n)) = <<WantOf("content", n)>>
    BY OpenedFacts DEF Got, Str, Is, Sized
  <2>2. \A x : IsText(Got(Str(x)))
    BY <2>1 DEF IsText
  <2>3. IsText(Sized("content", n))
    BY <2>1 DEF IsText
  <2>4. IsSeq(two) /\ IsSeq(<<WantOf("content", n)>>) /\ IsSeq(<< >>)
    BY ShortSeqs
  <2>5. CASE IsShared(Token)
    <3>1. c = Got(Str(s)) /\ body = << >>
      BY <1>10, <2>5
    <3>2. rest = IF item = "keys" THEN two ELSE << >>
      BY <1>12, <2>5
    <3> HIDE DEF s, c, body, rest
    <3>3. First(c, stack[2]) = IF item = "keys" THEN two ELSE << >>
      BY <1>11, <2>1, <2>5, <3>1 DEF First, Keyed
    <3> HIDE DEF two
    <3>4. IsSeq(rest)
      BY <2>4, <3>2
    <3>5. << >> \o rest = rest
      BY <3>4, EmptyConcat
    <3> QED
      BY <2>2, <3>1, <3>2, <3>3, <3>5
  <2>6. CASE ~IsShared(Token) /\ n > 0
    <3>1. c = Sized("content", n) /\ body = <<WantOf("content", n)>>
      BY <1>10, <2>6
    <3>2. rest = IF item = "keys" THEN two ELSE << >>
      BY <1>12, <2>6
    <3> HIDE DEF c, body, rest, n
    <3>3. First(c, stack[2]) = IF item = "keys" THEN body \o two ELSE body
      BY <2>1, <3>1 DEF First, Keyed
    <3> HIDE DEF two
    <3>4. IsSeq(body)
      BY <2>4, <3>1
    <3>5. body \o << >> = body
      BY <3>4, EmptyConcat
    <3> QED
      BY <2>3, <3>1, <3>2, <3>3, <3>5
  <2>7. CASE ~IsShared(Token) /\ ~(n > 0)
    <3>1. n = 0
      BY <1>10, <2>7
    <3>2. c = Got(Str(EmptyString)) /\ body = << >> /\ rest = << >>
      BY <1>10, <1>12, <2>7, <3>1
    <3> HIDE DEF c, body, rest
    <3>3. First(c, stack[2]) = << >>
      BY <2>1, <3>2 DEF First, Keyed
    <3>4. << >> \o << >> = << >>
      OBVIOUS
    <3> QED
      BY <2>2, <3>2, <3>3, <3>4
  <2> QED
    BY <2>5, <2>6, <2>7
<1> HIDE DEF c, body, rest, w, item
<1>14. new.want = First(c, stack[2]) \o w
  BY <1>5, <1>6, <1>13
<1>15. new.strings = Len(tableStrings')
  BY <1>1, <1>5, <1>8
<1> QED
  BY <1>1, <1>5, <1>7, <1>13, <1>14, <1>15, ReplacedMatch

----------------------------------------------------------------------------
(* Calls put on a calm stack, with what they want.                         *)
LEMMA BlockWanted ==
    ASSUME NEW a, IsBlock(a), NEW u, IsWanted(a, u), NEW s, IsCalm(s), NEW w, IsWanted(s, w)
    PROVE  IsCalm(a \o s) /\ IsWanted(a \o s, u \o w)
<1>1. IsSeq(a) /\ IsSeq(s)
  BY DEF IsBlock, IsCalm
<1>2. IsWanted(a \o s, u \o w)
  BY <1>1, WantedConcat
<1> QED
  BY <1>2, BlockOnCalm

LEMMA OneBlock ==
    ASSUME NEW c, c.op \in Lasting \ {"key", "string"}
    PROVE  IsBlock(<<c>>) /\ IsWanted(<<c>>, Piece(c))
<1> DEFINE s == <<c>>
<1>1. IsSeq(s) /\ Len(s) = 1 /\ s[1] = c
  BY ShortSeqs
<1> HIDE DEF s
<1>2. IsBlock(s)
  BY <1>1 DEF IsBlock, Paired
<1> QED
  BY <1>2, WantedOne DEF s

LEMMA TwoOnes == ASSUME NEW a, NEW b PROVE <<a, b>> = <<a>> \o <<b>>
<1> DEFINE x == <<a>>
           y == <<b>>
           z == x \o y
<1>1. /\ IsSeq(x) /\ Len(x) = 1 /\ x[1] = a
      /\ IsSeq(y) /\ Len(y) = 1 /\ y[1] = b
  BY ShortSeqs
<1> HIDE DEF x, y
<1>4. /\ IsSeq(z) /\ Len(z) = Len(x) + Len(y)
      /\ \A i \in 1 .. Len(x) : z[i] = x[i]
      /\ \A i \in 1 .. Len(y) : z[Len(x) + i] = y[i]
  <2>1. IsSeq(x) /\ IsSeq(y)
    BY <1>1
  <2> QED
    BY <2>1, ConcatFacts
<1> HIDE DEF z
<1>5. /\ IsSeq(z) /\ Len(z) = 1 + 1
      /\ \A i \in 1 .. 1 : z[i] = x[i]
      /\ \A i \in 1 .. 1 : z[1 + i] = y[i]
  BY <1>1, <1>4
<1>6. 1 \in 1 .. 1 /\ 1 + 1 = 2
  OBVIOUS
<1>7. z[1] = x[1] /\ z[1 + 1] = y[1]
  BY <1>5, <1>6
<1>2. IsSeq(z) /\ Len(z) = 2 /\ z[1] = a /\ z[2] = b
  BY <1>1, <1>5, <1>6, <1>7
<1>3. z = <<a, b>>
  BY <1>2 DEF IsSeq
<1> QED
  BY <1>3 DEF x, y, z

LEMMA TwoCalls == ASSUME NEW r, IsSeq(r), NEW a, NEW b PROVE <<a, b>> \o r = <<a>> \o (<<b>> \o r)
<1> DEFINE x == <<a>>
           y == <<b>>
<1>4. IsSeq(x) /\ IsSeq(y) /\ IsSeq(<<a, b>>)
  BY ShortSeqs
<1>3. <<a, b>> = <<a>> \o <<b>>
  BY TwoOnes
<1> HIDE DEF x, y
<1>5. (x \o y) \o r = x \o (y \o r)
  BY <1>4, ConcatAssociates
<1>6. <<a, b>> = x \o y
  BY <1>3 DEF x, y
<1> QED
  BY <1>5, <1>6 DEF x, y

(* An object whose contents are read behind a string.                      *)
LEMMA InlineTaker ==
    ASSUME IInv, NEW st, Follows(st), NEW op \in {"array", "object"}, Ready(op),
           Suits(st, Token), NEW new, new = Advanced(st, Token), ~IsReference(tableObjects),
           NEW taker, taker.op \in Once, IsTaker(taker),
           Become(<<Read("string"), taker>>), UNCHANGED tables,
           NEW u, ObjectWants(st, op, Token) = u,
           u = First(Read("string"), taker) \o TakerWants(taker),
           taker.op = "arrayStart" => op = "array",
           taker.op = "traits" => op = "object" /\ ~SharesTraits(Token)
                                  /\ Counted(taker) = OwnTraits(Token)
    PROVE  Match(stack', new, tableStrings', tableObjects', tableTraits')
<1> DEFINE r == Tail(stack)
           w == Tail(st.want)
           c == Read("string")
           x == First(c, taker)
           y == TakerWants(taker)
<1>1. /\ op \in Plain /\ op \in ObjectItems /\ op \notin Making /\ ItemFor(op) = op
      /\ op \notin TextItems /\ op # "value" /\ op \in Words
  BY DEF Plain, Reads, Words, ObjectItems, Making, ItemFor, TextItems
<1>2. /\ IsCalm(r) /\ IsWanted(r, w)
      /\ new.want = Announced(st, op, Token) \o w
      /\ ~IsShared(Token)
      /\ new.strings = Len(tableStrings) /\ new.objects = Len(tableObjects) + 1
      /\ new.traits = IF op = "object" /\ ~SharesTraits(Token)
                      THEN Append(Lay(tableTraits), OwnTraits(Token)) ELSE Lay(tableTraits)
      /\ Len(tableObjects) \in Nat
  <2>1. /\ IsCalm(r) /\ IsWanted(r, w)
        /\ new.want = Announced(st, ItemFor(op), Token) \o w
        /\ new.strings = Len(tableStrings)
    BY <1>1, PlainRead
  <2>2. /\ st.objects = Len(tableObjects) /\ (IsReference(tableObjects) <=> IsShared(Token))
        /\ st.traits = Lay(tableTraits)
    BY <1>1, PlainRead
  <2>3. /\ new.objects = IF op \in ObjectItems /\ ~IsShared(Token) THEN st.objects + 1
                         ELSE st.objects
        /\ new.traits = IF op = "object" /\ ~IsShared(Token) /\ ~SharesTraits(Token)
                        THEN Append(st.traits, OwnTraits(Token)) ELSE st.traits
    BY <1>1, PlainRead
  <2>4. Len(tableObjects) \in Nat
    BY TableFacts
  <2> QED
    BY <1>1, <2>1, <2>2, <2>3, <2>4
<1>3. Announced(st, op, Token) = x \o y
  BY <1>1, <1>2 DEF Announced
<1>4. IsSeq(r) /\ IsSeq(w) /\ IsSeq(x) /\ IsSeq(y)
  <2>1. IsSeq(r) /\ IsSeq(w)
    BY <1>2, CalmHead, WantedSeq
  <2>2. IsSeq(y)
    BY TakerWantsSeq
  <2>3. c.op = "string"
    BY DEF Read
  <2>4. x = <<Want("keys")>> \/ x = <<Want("string")>>
    BY <2>3 DEF First, Keyed, Opened, Octets, Words
  <2> QED
    BY <2>1, <2>2, <2>4, ShortSeqs
<1>5. stack' = <<c, taker>> \o r
  BY DEF Become
<1>6. c.op = "string"
  BY DEF Read
<1> HIDE DEF r, w, c, x, y
<1>7. new.want = x \o (y \o w)
  <2>1. (x \o y) \o w = x \o (y \o w)
    BY <1>4, ConcatAssociates
  <2> QED
    BY <1>2, <1>3, <2>1
<1>8. stack' = <<c>> \o (<<taker>> \o r)
  BY <1>4, <1>5, TwoCalls
<1>9. taker.op \in Takers /\ (taker.op = "arrayStart" \/ taker.op = "traits") /\ IsText(c)
  BY <1>6 DEF Once, Takers, KeyTakers, IsText
<1>10. /\ new.strings = Len(tableStrings') /\ Len(tableObjects') \in Nat
       /\ new.objects = Len(tableObjects') + (IF taker.op \in Once THEN 1 ELSE 0)
       /\ new.traits = IF taker.op = "traits" THEN Append(Lay(tableTraits'), Counted(taker))
                       ELSE Lay(tableTraits')
  BY <1>2, <1>9 DEF tables
<1>11. new.want = First(c, taker) \o (TakerWants(taker) \o w)
  BY <1>7 DEF x, y
<1> QED
  BY <1>2, <1>8, <1>9, <1>10, <1>11, TakerMatch

LEMMA ArrayFollows ==
    ASSUME IInv, NEW st, Follows(st), ReadArray, Suits(st, Token),
           NEW new, new = Advanced(st, Token)
    PROVE  Match(stack', new, tableStrings', tableObjects', tableTraits')
<1>1. CASE ReadReference("array")
  BY <1>1, ReferenceFollows DEF ObjectItems
<1>2. CASE ~ReadReference("array")
  <2> DEFINE n == Length
             taker == Sized("arrayStart", n)
             u == <<Want("keys")>> \o Wants("value", n)
  <2>1. /\ Ready("array") /\ ~IsReference(tableObjects) /\ UNCHANGED tables
        /\ Become(<<Read("string"), taker>>)
    BY <1>2 DEF ReadArray, ReadInline, Consume, tables
  <2>2. "array" \in Plain /\ "array" \in ObjectItems
    BY DEF Plain, Reads, Words, ObjectItems
  <2>3. n = Size(Token) /\ n \in Nat
    BY <2>1, <2>2, PlainRead
  <2>4. ObjectWants(st, "array", Token) = u
    BY <2>3 DEF ObjectWants
  <2> HIDE DEF n
  <2>5. taker.op = "arrayStart" /\ taker.length = n
    BY DEF Sized
  <2> HIDE DEF taker
  <2>6. IsTaker(taker) /\ taker.op \in Once /\ TakerWants(taker) = Wants("value", n)
    BY <2>3, <2>5 DEF IsTaker, Once, TakerWants
  <2>7. First(Read("string"), taker) = <<Want("keys")>>
    BY <2>5 DEF First, Keyed, KeyTakers, Read
  <2>8. u = First(Read("string"), taker) \o TakerWants(taker)
    BY <2>6, <2>7
  <2> HIDE DEF u
  <2>9. taker.op # "traits"
    BY <2>5
  <2> QED
    BY <2>1, <2>4, <2>6, <2>8, <2>9, InlineTaker
<1> QED
  BY <1>1, <1>2

LEMMA OwnTraitsFacts ==
    ASSUME NEW n \in Nat
    PROVE  /\ (n \div 2) \div 8 = n \div 16 /\ (n \div 2) \div 4 = n \div 8
           /\ n \div 16 \in Nat
<1>1. (n \div 2) \div 8 = n \div 16
  OBVIOUS
<1>2. (n \div 2) \div 4 = n \div 8
  OBVIOUS
<1> QED
  BY <1>1, <1>2

LEMMA ObjectFollows ==
    ASSUME IInv, NEW st, Follows(st), ReadObject, Suits(st, Token),
           NEW new, new = Advanced(st, Token)
    PROVE  Match(stack', new, tableStrings', tableObjects', tableTraits')
<1>1. CASE ReadReference("object")
  BY <1>1, ReferenceFollows DEF ObjectItems
<1>2. CASE ~ReadReference("object")
  <2> DEFINE n == Length
             created == [op |-> "create", traits |-> tableTraits[KnownTraits]]
             taker == [op |-> "traits", dynamic |-> (n \div 4) % 2 = 1,
                       count |-> n \div 8, names |-> << >>]
  <2>1. /\ Ready("object") /\ ~IsReference(tableObjects) /\ UNCHANGED tables
        /\ Become(IF n % 2 = 0 THEN <<created>> ELSE <<Read("string"), taker>>)
    BY <1>2 DEF ReadObject, ReadInline, tables
  <2>2. "object" \in Plain /\ "object" \in ObjectItems
    BY DEF Plain, Reads, Words, ObjectItems
  <2>3. /\ n = Size(Token) /\ n \in Nat /\ Token.word \in Nat /\ Number(Token) >= 0
        /\ SuitsHeader(st, "object", Token) /\ ~IsShared(Token) /\ st.traits = Lay(tableTraits)
    BY <2>1, <2>2, PlainRead
  <2>4. CASE n % 2 = 0
    <3>1. SharesTraits(Token) /\ Size(Token) \div 2 < Len(st.traits)
      BY <2>3, <2>4 DEF SharesTraits, SuitsHeader
    <3> DEFINE m == n \div 2
    <3>2. m \in Nat /\ m < Len(st.traits) /\ m = Size(Token) \div 2
      BY <2>3, <3>1
    <3> HIDE DEF m, n
    <3>3. KnownTraits = m + 1
      BY <3>2 DEF KnownTraits, Entry, m, n
    <3>4. m + 1 \in 1 .. Len(tableTraits) /\ st.traits[m + 1] = Layout(tableTraits[m + 1])
      BY <2>3, <3>2, TableFacts
    <3>5. created.op = "create" /\ created.traits = tableTraits[m + 1]
      BY <3>3
    <3> HIDE DEF created
    <3>6. ObjectWants(st, "object", Token) = Opened(created)
      <4>1. ObjectWants(st, "object", Token) = Members(st.traits[m + 1])
        BY <3>1, <3>2 DEF ObjectWants
      <4>2. Opened(created) = Members(Layout(created.traits))
        BY <3>5 DEF Opened, Octets
      <4> QED
        BY <3>4, <3>5, <4>1, <4>2
    <3>7. created.op \notin Bottom \cup Takers /\ created.op \in Making
      BY <3>5 DEF Bottom, Takers, KeyTakers, Making
    <3>8. Become(<<created>>) /\ UNCHANGED <<tableStrings, tableTraits>> /\ tableObjects' = tableObjects
      BY <2>1, <2>4 DEF tables, n
    <3> QED
      BY <2>1, <2>2, <3>1, <3>6, <3>7, <3>8, InlineOne
  <2>5. CASE n % 2 # 0
    <3> DEFINE d == (n \div 4) % 2 = 1
               k == n \div 8
               own == OwnTraits(Token)
               u == Wants("string", own.count + 1) \o Members(own)
    <3>1. ~SharesTraits(Token) /\ ObjectWants(st, "object", Token) = u
      BY <2>3, <2>5 DEF SharesTraits, ObjectWants
    <3>2. own = [count |-> k, dynamic |-> d] /\ k \in Nat /\ d \in BOOLEAN
      <4> DEFINE z == Number(Token)
      <4>1. z \in Nat /\ n = z \div 2
        BY <2>3, HeaderFacts DEF Size
      <4>2. own = [count |-> z \div 16, dynamic |-> (z \div 8) % 2 = 1]
        BY DEF OwnTraits
      <4> HIDE DEF z, n
      <4>3. k = z \div 16 /\ n \div 4 = z \div 8 /\ k \in Nat
        BY <4>1, OwnTraitsFacts
      <4>4. d \in BOOLEAN
        OBVIOUS
      <4> QED
        BY <4>2, <4>3, <4>4
    <3>3. /\ taker.op = "traits" /\ taker.count = k /\ taker.dynamic = d /\ taker.names = << >>
          /\ Counted(taker) = [count |-> k, dynamic |-> d]
      BY DEF Counted
    <3>4. Become(<<Read("string"), taker>>)
      BY <2>1, <2>5
    <3> HIDE DEF n, taker, k, d, own
    <3>5. IsTaker(taker) /\ taker.op \in Once /\ Len(taker.names) = 0
      <4>1. Len(<< >>) = 0 /\ IsSeq(<< >>)
        BY ShortSeqs
      <4> QED
        BY <3>2, <3>3, <4>1 DEF IsTaker, Once
    <3>6. TakerWants(taker) = Wants("string", k) \o Members(own)
      <4>1. k - 0 = k
        BY <3>2
      <4> QED
        BY <3>2, <3>3, <3>5, <4>1 DEF TakerWants
    <3>7. First(Read("string"), taker) = <<Want("string")>>
      BY <3>3 DEF First, KeyTakers, Opened, Read, Octets, Words
    <3>8. u = First(Read("string"), taker) \o TakerWants(taker)
      <4> DEFINE a == Wants("string", k)
                 b == Members(own)
                 x == <<Want("string")>>
      <4>1. own.count = k /\ k + 1 \in Nat /\ k + 1 > 0 /\ (k + 1) - 1 = k
        BY <3>2
      <4>2. Wants("string", k + 1) = x \o a
        BY <4>1, WantsFacts
      <4>3. IsSeq(a)
        BY <3>2, WantsFacts DEF IsSeq
      <4>4. IsSeq(b)
        BY <3>2, <4>1, MembersSeq
      <4>5. IsSeq(x)
        BY ShortSeqs
      <4>6. u = (x \o a) \o b
        BY <4>1, <4>2
      <4> HIDE DEF a, b, x, u
      <4>7. u = x \o (a \o b)
        BY <4>3, <4>4, <4>5, <4>6, ConcatAssociates
      <4> QED
        BY <3>6, <3>7, <4>7 DEF a, b, x
    <3> HIDE DEF u
    <3>9. taker.op # "arrayStart" /\ Counted(taker) = OwnTraits(Token)
      BY <3>2, <3>3 DEF own
    <3> QED
      BY <2>1, <3>1, <3>4, <3>5, <3>8, <3>9, InlineTaker
  <2> QED
    BY <2>4, <2>5
<1> QED
  BY <1>1, <1>2

LEMMA DictionaryFollows ==
    ASSUME IInv, NEW st, Follows(st), ReadDictionary, Suits(st, Token),
           NEW new, new = Advanced(st, Token)
    PROVE  Match(stack', new, tableStrings', tableObjects', tableTraits')
<1>1. CASE ReadReference("dict")
  BY <1>1, ReferenceFollows DEF ObjectItems
<1>2. CASE ~ReadReference("dict")
  <2> DEFINE n == Length
             takers == [i \in 1 .. n |-> [op |-> "entry", id |-> Fresh]]
             e == Each(takers)
             c == Read("weak")
             got == Got(Ref(Fresh))
             g == <<got>>
             r == Tail(stack)
             w == Tail(st.want)
             v == Wants("value", 2 * n)
             one == <<c>>
  <2>1. /\ Ready("dict") /\ ~IsReference(tableObjects)
        /\ UNCHANGED <<tableStrings, tableTraits>>
        /\ tableObjects' = Append(tableObjects, Fresh)
        /\ Become(<<c>> \o e \o g)
    BY <1>2 DEF ReadDictionary, ReadInline, Consume, Make
  <2>2. /\ "dict" \in Plain /\ "dict" \in ObjectItems /\ ItemFor("dict") = "dict"
        /\ "dict" \notin Making /\ "dict" \notin TextItems
    BY DEF Plain, Reads, Words, ObjectItems, ItemFor, Making, TextItems
  <2>3. /\ IsCalm(r) /\ IsWanted(r, w)
        /\ new.want = Announced(st, "dict", Token) \o w
        /\ n = Size(Token) /\ n \in Nat /\ ~IsShared(Token)
        /\ new.strings = Len(tableStrings) /\ new.objects = Len(tableObjects) + 1
        /\ new.traits = Lay(tableTraits)
        /\ Len(tableObjects) \in Nat /\ IsSeq(tableObjects)
    BY <2>1, <2>2, PlainRead, TableFacts
  <2>4. Announced(st, "dict", Token) = <<Want("weak")>> \o v
    BY <2>2, <2>3 DEF Announced, ObjectWants
  <2>5. stack' = ((one \o e) \o g) \o r
    BY <2>1 DEF Become
  <2>6. IsBlock(e) /\ IsWanted(e, v)
    <3>1. takers = [i \in 1 .. n |-> takers[i]] /\ \A i \in 1 .. n : takers[i].op = "entry"
      OBVIOUS
    <3> HIDE DEF takers, n
    <3> QED
      BY <2>3, <3>1, EachWanted
  <2>7. IsBlock(g) /\ IsWanted(g, << >>) /\ c.op = "weak" /\ Opened(c) = <<Want("weak")>>
    <3>1. got.op = "got" /\ c.op = "weak" /\ Opened(c) = <<Want("weak")>>
      BY OpenedFacts DEF Words
    <3> HIDE DEF got, c
    <3>2. got.op \in Lasting \ {"key", "string"} /\ Piece(got) = << >>
      BY <3>1 DEF Lasting, Piece
    <3>3. IsBlock(g) /\ IsWanted(g, Piece(got))
      BY <3>2, OneBlock
    <3> QED
      BY <3>1, <3>2, <3>3
  <2>8. IsSeq(one) /\ IsSeq(e) /\ IsSeq(g) /\ IsSeq(r) /\ IsSeq(w) /\ IsSeq(v)
    <3>1. IsSeq(e) /\ IsSeq(g)
      BY <2>6, <2>7 DEF IsBlock
    <3>2. IsSeq(r) /\ IsSeq(w)
      BY <2>3, CalmHead, WantedSeq
    <3>3. IsSeq(v)
      BY <2>6, <3>1, WantedSeq
    <3>4. IsSeq(one)
      BY ShortSeqs
    <3> QED
      BY <3>1, <3>2, <3>3, <3>4
  <2> HIDE DEF e, g, r, w, v, n, takers, one
  <2> DEFINE s == e \o (g \o r)
  <2>9. IsCalm(g \o r) /\ IsWanted(g \o r, << >> \o w)
    BY <2>3, <2>7, BlockWanted
  <2>10. << >> \o w = w
    BY <2>8, EmptyConcat
  <2>11. IsCalm(s) /\ IsWanted(s, v \o w)
    BY <2>6, <2>9, <2>10, BlockWanted
  <2>12. stack' = one \o s
    <3> DEFINE y == one \o e
               z == g \o r
    <3>1. IsSeq(y) /\ IsSeq(z)
      BY <2>8, ConcatFacts
    <3> HIDE DEF y, z
    <3>2. (y \o g) \o r = y \o (g \o r)
      BY <2>8, <3>1, ConcatAssociates
    <3>4. IsSeq(one) /\ IsSeq(e) /\ IsSeq(z)
      BY <2>8, <3>1
    <3>3. (one \o e) \o z = one \o (e \o z)
      BY <3>4, ConcatAssociates
    <3> QED
      BY <2>5, <3>2, <3>3 DEF y, z, s
  <2>13. new.want = <<Want("weak")>> \o (v \o w)
    <3> DEFINE x == <<Want("weak")>>
    <3>1. IsSeq(x)
      BY ShortSeqs
    <3>2. new.want = (x \o v) \o w
      BY <2>3, <2>4
    <3> HIDE DEF x
    <3>4. IsSeq(x) /\ IsSeq(v) /\ IsSeq(w)
      BY <2>8, <3>1
    <3>3. (x \o v) \o w = x \o (v \o w)
      BY <3>4, ConcatAssociates
    <3> QED
      BY <3>2, <3>3 DEF x
  <2>14. Len(tableObjects') = Len(tableObjects) + 1
    BY <2>1, <2>3, AppendFacts
  <2> HIDE DEF s, c
  <2>15. /\ c.op \notin Bottom \cup Takers \cup Making
         /\ new.want = Opened(c) \o (v \o w)
         /\ new.strings = Len(tableStrings') /\ Len(tableObjects') \in Nat
         /\ new.objects = Len(tableObjects') /\ new.traits = Lay(tableTraits')
    BY <2>1, <2>3, <2>7, <2>13, <2>14 DEF Bottom, Takers, KeyTakers, Making
  <2>16. Match(<<c>> \o s, new, tableStrings', tableObjects', tableTraits')
    <3> DEFINE x == v \o w
    <3>1. IsCalm(s) /\ IsWanted(s, x) /\ new.want = Opened(c) \o x
      BY <2>11, <2>15
    <3>2. new.objects = Len(tableObjects') + (IF c.op \in Making THEN 1 ELSE 0)
      BY <2>15
    <3> HIDE DEF x
    <3>3. c.op \notin Bottom \cup Takers /\ new.strings = Len(tableStrings')
          /\ Len(tableObjects') \in Nat /\ new.traits = Lay(tableTraits')
      BY <2>15
    <3> QED
      BY <3>1, <3>2, <3>3, OneCall
  <2> QED
    BY <2>12, <2>16 DEF one
<1> QED
  BY <1>1, <1>2

----------------------------------------------------------------------------
(* A call that is no read.                                                 *)
LEMMA TopWants ==
    ASSUME IInv, NEW st, Follows(st)
    PROVE  LET caller == stack[2]
               r      == Tail(stack)
               rest   == Tail(Tail(stack))
           IN  /\ IsSeq(r) /\ r # << >> /\ caller = Head(r)
               /\ st.strings = Len(tableStrings) /\ Len(tableObjects) \in Nat
               /\ caller.op \notin Takers =>
                    /\ IsCalm(r) /\ st.traits = Lay(tableTraits)
                    /\ st.objects = Len(tableObjects)
                                    + (IF Head(stack).op \in Making THEN 1 ELSE 0)
                    /\ \E w : IsWanted(r, w) /\ IsSeq(w) /\ st.want = Opened(Head(stack)) \o w
               /\ caller.op \in Takers =>
                    /\ IsCalm(rest) /\ IsText(Head(stack)) /\ IsTaker(caller)
                    /\ st.objects = Len(tableObjects) + (IF caller.op \in Once THEN 1 ELSE 0)
                    /\ st.traits = IF caller.op = "traits"
                                   THEN Append(Lay(tableTraits), Counted(caller))
                                   ELSE Lay(tableTraits)
                    /\ \E v : IsWanted(rest, v) /\ IsSeq(v)
                              /\ st.want = First(Head(stack), caller) \o (TakerWants(caller) \o v)
<1> DEFINE c == Head(stack)
           caller == stack[2]
           r == Tail(stack)
           rest == Tail(r)
<1>1. /\ IsShaped(stack) /\ Related(stack, st.want) /\ IsTaker(caller)
      /\ st.strings = Len(tableStrings)
      /\ st.objects = Len(tableObjects) + (IF c.op \in Making \/ caller.op \in Once THEN 1 ELSE 0)
      /\ st.traits = IF caller.op = "traits" THEN Append(Lay(tableTraits), Counted(caller))
                     ELSE Lay(tableTraits)
  BY DEF Follows, Match, Pending, SentTraits
<1>2. /\ IsSeq(r) /\ r # << >> /\ caller = Head(r)
      /\ caller.op \notin Takers => IsCalm(r)
      /\ caller.op \in Takers => IsText(c) /\ IsCalm(rest)
  BY <1>1, ShapedFacts
<1>3. PICK w : Below(r, w) /\ IsSeq(w) /\ st.want = First(c, caller) \o w
  BY <1>1 DEF Related
<1>4. Len(tableObjects) \in Nat
  BY TableFacts
<1> HIDE DEF c, caller, r, rest
<1>5. ASSUME caller.op \notin Takers
      PROVE  /\ IsCalm(r) /\ st.traits = Lay(tableTraits)
             /\ st.objects = Len(tableObjects) + (IF c.op \in Making THEN 1 ELSE 0)
             /\ IsWanted(r, w) /\ st.want = Opened(c) \o w
  <2>1. caller.op \notin Once /\ caller.op # "traits" /\ caller.op \notin KeyTakers
    BY <1>5 DEF Takers, KeyTakers, Once
  <2>2. First(c, caller) = Opened(c)
    BY <2>1 DEF First
  <2>3. IsWanted(r, w)
    BY <1>2, <1>3, <1>5 DEF Below
  <2> QED
    BY <1>1, <1>2, <1>3, <1>5, <2>1, <2>2, <2>3
<1>6. ASSUME caller.op \in Takers
      PROVE  /\ IsCalm(rest) /\ IsText(c) /\ IsTaker(caller)
             /\ st.objects = Len(tableObjects) + (IF caller.op \in Once THEN 1 ELSE 0)
             /\ st.traits = IF caller.op = "traits"
                            THEN Append(Lay(tableTraits), Counted(caller)) ELSE Lay(tableTraits)
             /\ \E v : IsWanted(rest, v) /\ IsSeq(v)
                       /\ st.want = First(c, caller) \o (TakerWants(caller) \o v)
  <2>1. c.op \notin Making
    BY <1>2, <1>6 DEF IsText, Making
  <2>2. PICK v : IsWanted(rest, v) /\ w = TakerWants(caller) \o v
    BY <1>2, <1>3, <1>6 DEF Below, rest
  <2>3. IsSeq(v)
    BY <1>2, <1>6, <2>2, CalmHead, WantedSeq
  <2> QED
    BY <1>1, <1>2, <1>3, <1>6, <2>1, <2>2, <2>3
<1> QED
  BY <1>1, <1>2, <1>3, <1>4, <1>5, <1>6 DEF c, caller, r, rest

(* What there is below the call that takes a value.                        *)
LEMMA CallerGone ==
    ASSUME IInv, NEW st, Follows(st), NEW op \in {"assign", "entry"}, Taking(op)
    PROVE  /\ IsCalm(Tail(Tail(stack)))
           /\ st.strings = Len(tableStrings) /\ Len(tableObjects) \in Nat
           /\ st.objects = Len(tableObjects) /\ st.traits = Lay(tableTraits)
           /\ \E v : /\ IsWanted(Tail(Tail(stack)), v) /\ IsSeq(v)
                     /\ op = "assign" => st.want = v
                     /\ op = "entry"  => st.want = <<Want("value")>> \o v
<1> DEFINE c == Head(stack)
           caller == stack[2]
           r == Tail(stack)
<1>1. c.op = "got" /\ caller.op = op
  BY DEF Taking, Reading
<1>2. caller.op \notin Takers /\ caller.op \notin Bottom /\ c.op \notin Making
      /\ caller.op \notin {"string", "key"}
  BY <1>1 DEF Takers, KeyTakers, Bottom, Making
<1>3. /\ IsSeq(r) /\ r # << >> /\ caller = Head(r)
      /\ st.strings = Len(tableStrings) /\ Len(tableObjects) \in Nat
      /\ IsCalm(r) /\ st.traits = Lay(tableTraits)
      /\ st.objects = Len(tableObjects)
      /\ \E w : IsWanted(r, w) /\ IsSeq(w) /\ st.want = Opened(c) \o w
  BY <1>2, TopWants
<1>4. PICK w : IsWanted(r, w) /\ IsSeq(w) /\ st.want = Opened(c) \o w
  BY <1>3
<1>5. Opened(c) = << >>
  BY <1>1 DEF Opened, Octets, Words
<1> HIDE DEF c, caller, r
<1>6. st.want = w
  BY <1>4, <1>5, EmptyConcat
<1>7. Tail(r) # << >>
  <2>1. Tail(r) = << >> => Head(r) = r[Len(r)]
    BY <1>3, TailLast
  <2> QED
    BY <1>2, <1>3, <2>1 DEF IsCalm
<1>8. IsCalm(Tail(r))
  BY <1>2, <1>3, <1>7, CalmTail
<1>9. PICK v : w = Piece(Head(r)) \o v /\ IsWanted(Tail(r), v) /\ IsSeq(v)
  BY <1>3, <1>4, WantedTail
<1>10. /\ op = "assign" => Piece(Head(r)) = << >>
       /\ op = "entry" => Piece(Head(r)) = <<Want("value")>>
  BY <1>1, <1>3 DEF Piece
<1>11. op = "assign" => st.want = v
  BY <1>6, <1>9, <1>10, EmptyConcat
<1> QED
  BY <1>3, <1>6, <1>8, <1>9, <1>10, <1>11 DEF r

LEMMA TakeAssignFollows ==
    ASSUME IInv, NEW st, Follows(st), TakeAssign, Tail(stack') # << >>
    PROVE  Match(stack', st, tableStrings', tableObjects', tableTraits')
<1> DEFINE s == Tail(Tail(stack))
<1>1. Taking("assign") /\ stack' = << >> \o s /\ UNCHANGED tables
  BY DEF TakeAssign, Take
<1>2. /\ IsCalm(s) /\ IsWanted(s, st.want)
      /\ st.strings = Len(tableStrings) /\ Len(tableObjects) \in Nat
      /\ st.objects = Len(tableObjects) /\ st.traits = Lay(tableTraits)
  BY <1>1, CallerGone
<1> HIDE DEF s
<1>3. stack' = s
  BY <1>1, <1>2, CalmHead, EmptyConcat
<1>4. Match(s, st, tableStrings, tableObjects, tableTraits)
  BY <1>2, <1>3, CalmMatch
<1> QED
  BY <1>1, <1>3, <1>4 DEF tables

LEMMA TakeEntryKeyFollows ==
    ASSUME IInv, NEW st, Follows(st), TakeEntryKey
    PROVE  Match(stack', st, tableStrings', tableObjects', tableTraits')
<1> DEFINE s == Tail(Tail(stack))
           a == Read("value")
           b == Assign(Caller.id, "pairs", Taken)
           t == <<b>> \o s
<1>1. Taking("entry") /\ stack' = <<a, b>> \o s /\ UNCHANGED tables
  BY DEF TakeEntryKey, Take
<1>2. /\ IsCalm(s)
      /\ st.strings = Len(tableStrings) /\ Len(tableObjects) \in Nat
      /\ st.objects = Len(tableObjects) /\ st.traits = Lay(tableTraits)
      /\ \E v : IsWanted(s, v) /\ IsSeq(v) /\ st.want = <<Want("value")>> \o v
  BY <1>1, CallerGone
<1>3. PICK v : IsWanted(s, v) /\ IsSeq(v) /\ st.want = <<Want("value")>> \o v
  BY <1>2
<1>4. b.op = "assign" /\ a.op = "value" /\ Opened(a) = <<Want("value")>>
  BY OpenedFacts DEF Assign, Words
<1> HIDE DEF s, a, b
<1>5. stack' = <<a>> \o t
  BY <1>1, <1>2, CalmHead, TwoCalls
<1>6. IsCalm(t) /\ IsWanted(t, v)
  <2>1. IsBlock(<<b>>) /\ IsWanted(<<b>>, << >>)
    <3>1. b.op \in Lasting \ {"key", "string"} /\ Piece(b) = << >>
      BY <1>4 DEF Lasting, Piece
    <3> QED
      BY <3>1, OneBlock
  <2> DEFINE x == <<b>>
  <2>2. IsBlock(x) /\ IsWanted(x, << >>)
    BY <2>1
  <2> HIDE DEF x
  <2>3. IsCalm(x \o s) /\ IsWanted(x \o s, << >> \o v)
    BY <1>2, <1>3, <2>2, BlockWanted
  <2>4. << >> \o v = v
    BY <1>3, EmptyConcat
  <2> QED
    BY <2>3, <2>4 DEF x
<1> HIDE DEF t
<1>7. a.op \notin Bottom \cup Takers /\ a.op \notin Making
  BY <1>4 DEF Bottom, Takers, KeyTakers, Making
<1>8. /\ st.want = Opened(a) \o v /\ st.strings = Len(tableStrings') /\ Len(tableObjects') \in Nat
      /\ st.objects = Len(tableObjects') + (IF a.op \in Making THEN 1 ELSE 0)
      /\ st.traits = Lay(tableTraits')
  BY <1>1, <1>2, <1>3, <1>4, <1>7 DEF tables
<1>9. Match(<<a>> \o t, st, tableStrings', tableObjects', tableTraits')
  BY <1>6, <1>7, <1>8, OneCall
<1> QED
  BY <1>5, <1>9

----------------------------------------------------------------------------
(* A text and the call that waits for it.                                  *)
LEMMA TextTaken ==
    ASSUME IInv, NEW st, Follows(st), NEW op \in Takers, Taking(op)
    PROVE  LET rest == Tail(Tail(stack))
           IN  /\ IsCalm(rest) /\ IsText(Head(stack)) /\ IsTaker(Caller) /\ Head(stack).op = "got"
               /\ st.strings = Len(tableStrings) /\ Len(tableObjects) \in Nat
               /\ st.objects = Len(tableObjects) + (IF op \in Once THEN 1 ELSE 0)
               /\ st.traits = IF op = "traits" THEN Append(Lay(tableTraits), Counted(Caller))
                              ELSE Lay(tableTraits)
               /\ \E v : /\ IsWanted(rest, v) /\ IsSeq(v)
                         /\ st.want = (IF op = "traits" \/ Taken.str = EmptyString THEN << >>
                                       ELSE <<Want("value"), Want("keys")>>)
                                      \o (TakerWants(Caller) \o v)
<1> DEFINE c == Head(stack)
           caller == stack[2]
           rest == Tail(Tail(stack))
<1>1. c.op = "got" /\ caller.op = op /\ caller = Caller /\ Taken = c.value
  BY DEF Taking, Reading, Caller, Taken
<1>2. /\ IsCalm(rest) /\ IsText(c) /\ IsTaker(caller)
      /\ st.strings = Len(tableStrings) /\ Len(tableObjects) \in Nat
      /\ st.objects = Len(tableObjects) + (IF caller.op \in Once THEN 1 ELSE 0)
      /\ st.traits = IF caller.op = "traits" THEN Append(Lay(tableTraits), Counted(caller))
                     ELSE Lay(tableTraits)
      /\ \E v : IsWanted(rest, v) /\ IsSeq(v)
                /\ st.want = First(c, caller) \o (TakerWants(caller) \o v)
  BY <1>1, TopWants
<1> HIDE DEF c, caller, rest
<1>3. First(c, caller) = IF op = "traits" \/ Taken.str = EmptyString THEN << >>
                         ELSE <<Want("value"), Want("keys")>>
  <2>1. CASE op = "traits"
    <3>1. First(c, caller) = Opened(c)
      BY <1>1, <2>1 DEF First, KeyTakers
    <3>2. Opened(c) = << >>
      BY <1>1 DEF Opened, Octets, Words
    <3> QED
      BY <2>1, <3>1, <3>2
  <2>2. CASE op # "traits"
    <3>1. First(c, caller) = Keyed(c)
      BY <1>1, <2>2 DEF First, Takers
    <3> QED
      BY <1>1, <2>2, <3>1 DEF Keyed
  <2> QED
    BY <2>1, <2>2
<1>4. PICK v : IsWanted(rest, v) /\ IsSeq(v)
               /\ st.want = First(c, caller) \o (TakerWants(caller) \o v)
  BY <1>2
<1> QED
  BY <1>1, <1>2, <1>3, <1>4 DEF c, rest

(* A key to come.                                                          *)
LEMMA KeyBlock ==
    ASSUME NEW a, a.op = "assign", NEW k, k.op = "key"
    PROVE  LET b == <<a, Read("string"), k>>
           IN  IsBlock(b) /\ IsWanted(b, <<Want("keys")>>)
<1> DEFINE x == Read("string")
           b == <<a, x, k>>
           one == <<a>>
           two == <<x>>
           three == <<k>>
           q == <<Want("keys")>>
<1>1. x.op = "string"
  BY DEF Read
<1> HIDE DEF x
<1>2. IsSeq(b) /\ Len(b) = 3 /\ b[1] = a /\ b[2] = x /\ b[3] = k
  <2>1. b \in Seq({a, x, k})
    OBVIOUS
  <2> QED
    BY <2>1 DEF IsSeq
<1>3. IsSeq(one) /\ IsSeq(two) /\ IsSeq(three)
  BY ShortSeqs
<1>4. b = one \o (two \o three)
  <2>1. two \o three = <<x, k>>
    BY TwoOnes
  <2>2. IsSeq(<<x, k>>) /\ Len(<<x, k>>) = 2 /\ <<x, k>>[1] = x /\ <<x, k>>[2] = k
    BY ShortSeqs
  <2> DEFINE y == <<x, k>>
             z == one \o y
  <2>3. /\ IsSeq(one) /\ Len(one) = 1 /\ one[1] = a
    BY ShortSeqs
  <2>4. IsSeq(y) /\ Len(y) = 2 /\ y[1] = x /\ y[2] = k
    BY <2>2
  <2> HIDE DEF y, one
  <2>5. /\ IsSeq(z) /\ Len(z) = Len(one) + Len(y)
        /\ \A i \in 1 .. Len(one) : z[i] = one[i]
        /\ \A i \in 1 .. Len(y) : z[Len(one) + i] = y[i]
    <3>1. IsSeq(one) /\ IsSeq(y)
      BY <2>3, <2>4
    <3> QED
      BY <3>1, ConcatFacts
  <2> HIDE DEF z
  <2>6. 1 \in 1 .. 1 /\ 1 \in 1 .. 2 /\ 2 \in 1 .. 2 /\ 1 + 1 = 2 /\ 1 + 2 = 3
    OBVIOUS
  <2>7. IsSeq(z) /\ Len(z) = 3 /\ z[1] = a /\ z[2] = x /\ z[3] = k
    BY <2>3, <2>4, <2>5, <2>6
  <2>8. b = z
    <3> HIDE DEF b
    <3>1. PICK S, T : b \in Seq(S) /\ z \in Seq(T)
      BY <1>2, <2>7 DEF IsSeq
    <3>2. b \in Seq(S \cup T) /\ z \in Seq(S \cup T)
      BY <3>1
    <3>3. \A i \in 1 .. 3 : i = 1 \/ i = 2 \/ i = 3
      OBVIOUS
    <3>4. \A i \in 1 .. 3 : b[i] = z[i]
      BY <1>2, <2>7, <3>3
    <3> QED
      BY <1>2, <2>7, <3>2, <3>4
  <2> QED
    BY <2>1, <2>8 DEF y, z
<1>5. IsBlock(b)
  <2> HIDE DEF b
  <2>1. \A i \in 1 .. 3 : i = 1 \/ i = 2 \/ i = 3
    OBVIOUS
  <2>2. \A i \in 1 .. 3 - 1 : (i = 1 /\ i + 1 = 2) \/ (i = 2 /\ i + 1 = 3)
    OBVIOUS
  <2>3. \A i \in 1 .. Len(b) : b[i].op \in Lasting
    BY <1>1, <1>2, <2>1 DEF Lasting
  <2>4. Paired(b)
    BY <1>1, <1>2, <2>2 DEF Paired
  <2>5. b[1].op # "key" /\ b[Len(b)].op # "string"
    BY <1>1, <1>2
  <2> QED
    BY <1>2, <2>3, <2>4, <2>5 DEF IsBlock
<1>6. IsWanted(one, << >>) /\ IsWanted(two, << >>) /\ IsWanted(three, q)
  <2>1. Piece(a) = << >> /\ Piece(x) = << >> /\ Piece(k) = q
    BY <1>1 DEF Piece
  <2> QED
    BY <2>1, WantedOne
<1>7. IsSeq(q)
  BY ShortSeqs
<1> HIDE DEF one, two, three, b, q
<1>8. IsWanted(two \o three, << >> \o q) /\ IsSeq(two \o three) /\ << >> \o q = q
  BY <1>3, <1>6, <1>7, WantedConcat, ConcatFacts, EmptyConcat
<1> DEFINE y == two \o three
<1>9. IsWanted(y, q) /\ IsSeq(y)
  BY <1>8
<1> HIDE DEF y
<1>10. IsWanted(one \o y, << >> \o q)
  BY <1>3, <1>6, <1>9, WantedConcat
<1>11. IsWanted(b, q)
  BY <1>4, <1>8, <1>10 DEF y
<1> QED
  BY <1>5, <1>11 DEF b, x, q

LEMMA ThreeCalls ==
    ASSUME NEW s, IsSeq(s), NEW a, NEW b, NEW c, NEW d
    PROVE  <<a, b, c, d>> \o s = <<a>> \o (<<b, c, d>> \o s)
<1> DEFINE x == <<a>>
           y == <<b, c, d>>
           z == <<a, b, c, d>>
<1>1. IsSeq(x)
  BY ShortSeqs
<1>2. y \in Seq({b, c, d})
  OBVIOUS
<1>3. IsSeq(y)
  BY <1>2 DEF IsSeq
<1>4. z = x \o y
  OBVIOUS
<1> HIDE DEF x, y, z
<1>5. (x \o y) \o s = x \o (y \o s)
  BY <1>1, <1>3, ConcatAssociates
<1> QED
  BY <1>4, <1>5 DEF x, y, z

LEMMA TakeKeyFollows ==
    ASSUME IInv, NEW st, Follows(st), TakeKey, Tail(stack') # << >>
    PROVE  Match(stack', st, tableStrings', tableObjects', tableTraits')
<1> DEFINE s == Tail(Tail(stack))
           a == Read("value")
           k == Caller
           e == Assign(k.id, k.field, Taken)
           b == <<e, Read("string"), k>>
           two == <<Want("value"), Want("keys")>>
<1>1. /\ Taking("key") /\ UNCHANGED tables /\ k.op = "key"
      /\ stack' = (IF Taken.str = EmptyString THEN << >> ELSE <<a, e, Read("string"), k>>) \o s
  BY DEF TakeKey, Take, Taking, Caller
<1>2. "key" \in Takers /\ "key" \notin Once
  BY DEF Takers, KeyTakers, Once
<1>3. /\ IsCalm(s)
      /\ st.strings = Len(tableStrings) /\ Len(tableObjects) \in Nat
      /\ st.objects = Len(tableObjects) + 0 /\ st.traits = Lay(tableTraits)
      /\ \E v : /\ IsWanted(s, v) /\ IsSeq(v)
                /\ st.want = (IF Taken.str = EmptyString THEN << >> ELSE two)
                             \o (TakerWants(k) \o v)
  BY <1>1, <1>2, TextTaken
<1>4. PICK v : /\ IsWanted(s, v) /\ IsSeq(v)
               /\ st.want = (IF Taken.str = EmptyString THEN << >> ELSE two)
                            \o (TakerWants(k) \o v)
  BY <1>3
<1>5. TakerWants(k) \o v = v
  <2>1. TakerWants(k) = << >>
    BY <1>1 DEF TakerWants
  <2> QED
    BY <1>4, <2>1, EmptyConcat
<1>6. e.op = "assign" /\ a.op = "value" /\ Opened(a) = <<Want("value")>>
  BY OpenedFacts DEF Assign, Words
<1>7. IsBlock(b) /\ IsWanted(b, <<Want("keys")>>)
  BY <1>1, <1>6, KeyBlock
<1> HIDE DEF s, a, k, e
<1>8. CASE Taken.str = EmptyString
  <2>1. stack' = s /\ st.want = v
    BY <1>1, <1>3, <1>4, <1>5, <1>8, CalmHead, EmptyConcat
  <2>2. st.objects = Len(tableObjects)
    BY <1>3
  <2>3. Match(s, st, tableStrings, tableObjects, tableTraits)
    BY <1>3, <1>4, <2>1, <2>2, CalmMatch
  <2> QED
    BY <1>1, <2>1, <2>3 DEF tables
<1>9. CASE Taken.str # EmptyString
  <2> DEFINE q == <<Want("keys")>>
             t == b \o s
             x == q \o v
  <2>1. st.want = <<Want("value")>> \o x
    <3>1. st.want = two \o v
      BY <1>4, <1>5, <1>9
    <3> QED
      BY <1>4, <3>1, TwoCalls
  <2>2. stack' = <<a>> \o t
    <3>1. IsSeq(s)
      BY <1>3, CalmHead
    <3> QED
      BY <1>1, <1>9, <3>1, ThreeCalls
  <2>3. IsCalm(t) /\ IsWanted(t, x)
    <3> HIDE DEF b, q
    <3> QED
      BY <1>3, <1>4, <1>7, BlockWanted DEF q
  <2> HIDE DEF t, x
  <2>4. a.op \notin Bottom \cup Takers /\ a.op \notin Making
    BY <1>6 DEF Bottom, Takers, KeyTakers, Making
  <2>5. /\ st.want = Opened(a) \o x /\ st.strings = Len(tableStrings') /\ Len(tableObjects') \in Nat
        /\ st.objects = Len(tableObjects') + (IF a.op \in Making THEN 1 ELSE 0)
        /\ st.traits = Lay(tableTraits')
    BY <1>1, <1>3, <1>6, <2>1, <2>4 DEF tables
  <2>6. Match(<<a>> \o t, st, tableStrings', tableObjects', tableTraits')
    BY <2>3, <2>4, <2>5, OneCall
  <2> QED
    BY <2>2, <2>6
<1> QED
  BY <1>8, <1>9

----------------------------------------------------------------------------
(* What is made is in the table.                                           *)
LEMMA MadeOne ==
    ASSUME IInv, NEW x, Make(x)
    PROVE  /\ Len(tableObjects') = Len(tableObjects) + 1 /\ Len(tableObjects') \in Nat
           /\ tableStrings' = tableStrings /\ tableTraits' = tableTraits
<1>1. Len(tableObjects) \in Nat /\ IsSeq(tableObjects)
  BY TableFacts
<1>2. tableObjects' = Append(tableObjects, Fresh)
      /\ tableStrings' = tableStrings /\ tableTraits' = tableTraits
  BY DEF Make
<1> DEFINE n == Fresh
<1> HIDE DEF n
<1>3. Len(Append(tableObjects, n)) = Len(tableObjects) + 1
  BY <1>1, AppendFacts
<1>4. Len(tableObjects') = Len(tableObjects) + 1
  BY <1>2, <1>3 DEF n
<1> QED
  BY <1>1, <1>2, <1>4

LEMMA GotBlock ==
    ASSUME NEW v PROVE IsBlock(<<Got(v)>>) /\ IsWanted(<<Got(v)>>, << >>)
<1> DEFINE c == Got(v)
<1>1. c.op = "got"
  BY DEF Got
<1> HIDE DEF c
<1>2. c.op \in Lasting \ {"key", "string"} /\ Piece(c) = << >>
  BY <1>1 DEF Lasting, Piece
<1>3. IsBlock(<<c>>) /\ IsWanted(<<c>>, Piece(c))
  BY <1>2, OneBlock
<1> QED
  BY <1>2, <1>3 DEF c

LEMMA ValuesBlock ==
    ASSUME NEW n \in Nat, NEW id, NEW field
    PROVE  IsBlock(Values(id, field, n)) /\ IsWanted(Values(id, field, n), Wants("value", n))
<1> DEFINE s == [i \in 1 .. n |-> Assign(id, field, Num(i - 1))]
<1>1. s = [i \in 1 .. n |-> s[i]] /\ \A i \in 1 .. n : s[i].op = "assign"
  BY DEF Assign
<1>2. Values(id, field, n) = Each(s)
  BY DEF Values
<1> HIDE DEF s
<1> DEFINE op == "assign"
<1>3. op \in {"assign", "entry"} /\ \A i \in 1 .. n : s[i].op = op
  BY <1>1
<1>4. IsBlock(Each(s)) /\ (op = "assign" => IsWanted(Each(s), Wants("value", n)))
  <2> HIDE DEF op
  <2> QED
    BY <1>1, <1>3, EachWanted
<1> QED
  BY <1>2, <1>4

LEMMA TakeArrayStartFollows ==
    ASSUME IInv, NEW st, Follows(st), TakeArrayStart, Tail(stack') # << >>
    PROVE  Match(stack', st, tableStrings', tableObjects', tableTraits')
<1> DEFINE s == Tail(Tail(stack))
           c == Head(stack)
           n == Caller.length
           field == IF Taken.str = EmptyString THEN "elems" ELSE "pairs"
           e == Values(Fresh, field, n)
           g == <<Got(Ref(Fresh))>>
           k == KeyOf(Fresh, "pairs")
           u == Wants("value", n)
           two == <<Want("value"), Want("keys")>>
<1>1. /\ Taking("arrayStart") /\ Caller.op = "arrayStart"
      /\ \E x : Make(x)
      /\ stack' = (IF Taken.str = EmptyString THEN e \o g ELSE <<c, k>> \o e \o g) \o s
  BY DEF TakeArrayStart, Take, Taking, Caller
<1>2. "arrayStart" \in Takers /\ "arrayStart" \in Once /\ "arrayStart" # "traits"
  BY DEF Takers, KeyTakers, Once
<1>3. /\ IsCalm(s) /\ IsText(c) /\ IsTaker(Caller) /\ c.op = "got"
      /\ st.strings = Len(tableStrings) /\ Len(tableObjects) \in Nat
      /\ st.objects = Len(tableObjects) + 1 /\ st.traits = Lay(tableTraits)
      /\ \E v : /\ IsWanted(s, v) /\ IsSeq(v)
                /\ st.want = (IF Taken.str = EmptyString THEN << >> ELSE two)
                             \o (TakerWants(Caller) \o v)
  BY <1>1, <1>2, TextTaken
<1>4. PICK v : /\ IsWanted(s, v) /\ IsSeq(v)
               /\ st.want = (IF Taken.str = EmptyString THEN << >> ELSE two)
                            \o (TakerWants(Caller) \o v)
  BY <1>3
<1>5. n \in Nat /\ TakerWants(Caller) = u
  BY <1>1, <1>3 DEF IsTaker, TakerWants
<1>6. IsBlock(e) /\ IsWanted(e, u)
  <2> DEFINE i == Fresh
             f == field
  <2> HIDE DEF i, f, n
  <2>1. IsBlock(Values(i, f, n)) /\ IsWanted(Values(i, f, n), Wants("value", n))
    BY <1>5, ValuesBlock
  <2> QED
    BY <2>1 DEF i, f
<1>7. IsBlock(g) /\ IsWanted(g, << >>)
  BY GotBlock
<1>8. Len(tableObjects') = Len(tableObjects) + 1 /\ Len(tableObjects') \in Nat
      /\ tableStrings' = tableStrings /\ tableTraits' = tableTraits
  BY <1>1, MadeOne
<1>9. k.op = "key" /\ k.op \in Takers /\ k.op \notin Once /\ IsTaker(k) /\ TakerWants(k) = << >>
  <2>1. k.op = "key"
    BY DEF KeyOf
  <2> HIDE DEF k
  <2> QED
    BY <2>1 DEF Takers, KeyTakers, Once, IsTaker, TakerWants
<1> DEFINE gs == g \o s
           es == e \o gs
           x == u \o v
<1>10. IsSeq(e) /\ IsSeq(g) /\ IsSeq(s) /\ IsSeq(u) /\ IsSeq(<<c, k>>)
  <2>1. IsSeq(e) /\ IsSeq(g)
    BY <1>6, <1>7 DEF IsBlock
  <2>2. IsSeq(s)
    BY <1>3, CalmHead
  <2>3. IsSeq(u)
    BY <1>6, <2>1, WantedSeq
  <2> QED
    BY <2>1, <2>2, <2>3, ShortSeqs
<1> HIDE DEF s, c, n, e, g, k, u
<1>11. IsCalm(es) /\ IsWanted(es, x) /\ IsSeq(gs) /\ IsSeq(es) /\ IsSeq(x)
  <2>1. IsCalm(gs) /\ IsWanted(gs, << >> \o v)
    BY <1>3, <1>4, <1>7, BlockWanted
  <2>2. IsWanted(gs, v) /\ IsSeq(gs)
    BY <1>4, <2>1, CalmHead, EmptyConcat
  <2> HIDE DEF gs
  <2>3. IsCalm(es) /\ IsWanted(es, x)
    BY <1>4, <1>6, <2>1, <2>2, BlockWanted
  <2> HIDE DEF es, x
  <2>4. IsSeq(es) /\ IsSeq(x)
    BY <2>3, CalmHead, WantedSeq
  <2> QED
    BY <2>1, <2>2, <2>3, <2>4
<1>12. CASE Taken.str = EmptyString
  <2>1. stack' = es
    <3>1. (e \o g) \o s = e \o (g \o s)
      BY <1>10, ConcatAssociates
    <3> QED
      BY <1>1, <1>12, <3>1
  <2>2. st.want = x
    <3> HIDE DEF x
    <3>1. st.want = << >> \o x
      BY <1>4, <1>5, <1>12 DEF x
    <3> QED
      BY <1>11, <3>1, EmptyConcat
  <2> HIDE DEF es, x
  <2>3. Match(es, st, tableStrings', tableObjects', tableTraits')
    <3>1. /\ IsCalm(es) /\ Tail(es) # << >> /\ IsWanted(es, st.want)
          /\ st.strings = Len(tableStrings') /\ Len(tableObjects') \in Nat
          /\ st.objects = Len(tableObjects') /\ st.traits = Lay(tableTraits')
      BY <1>3, <1>8, <1>11, <2>1, <2>2
    <3> QED
      BY <3>1, CalmMatch
  <2> QED
    BY <2>1, <2>3
<1>13. CASE Taken.str # EmptyString
  <2>1. stack' = <<c>> \o (<<k>> \o es)
    <3> DEFINE ck == <<c, k>>
               y == ck \o e
    <3>1. stack' = ((ck \o e) \o g) \o s
      BY <1>1, <1>13
    <3>2. IsSeq(ck)
      BY <1>10
    <3>3. <<c, k>> \o es = <<c>> \o (<<k>> \o es)
      <4> HIDE DEF es
      <4> QED
        BY <1>11, TwoCalls
    <3> HIDE DEF ck
    <3>4. IsSeq(y)
      BY <1>10, <3>2, ConcatFacts
    <3> HIDE DEF y
    <3>5. (y \o g) \o s = y \o gs
      BY <1>10, <3>4, ConcatAssociates
    <3>6. (ck \o e) \o gs = ck \o es
      <4>1. IsSeq(ck) /\ IsSeq(e) /\ IsSeq(gs)
        BY <1>10, <1>11, <3>2
      <4> HIDE DEF gs
      <4>2. (ck \o e) \o gs = ck \o (e \o gs)
        BY <4>1, ConcatAssociates
      <4> QED
        BY <4>2
    <3> QED
      BY <3>1, <3>3, <3>5, <3>6 DEF y, ck
  <2>2. First(c, k) = two
    BY <1>3, <1>9, <1>13 DEF First, KeyTakers, Keyed, Taken, c
  <2>3. st.want = First(c, k) \o (TakerWants(k) \o x)
    <3> HIDE DEF x
    <3>1. st.want = two \o x
      BY <1>4, <1>5, <1>13 DEF x
    <3>2. TakerWants(k) \o x = x
      BY <1>9, <1>11, EmptyConcat
    <3> QED
      BY <2>2, <3>1, <3>2
  <2> HIDE DEF es, x
  <2>4. Match(stack', st, tableStrings', tableObjects', tableTraits')
    <3>1. /\ IsCalm(es) /\ IsWanted(es, x) /\ k.op \in Takers /\ IsTaker(k) /\ IsText(c)
          /\ stack' = <<c>> \o (<<k>> \o es)
          /\ st.want = First(c, k) \o (TakerWants(k) \o x)
      BY <1>3, <1>9, <1>11, <2>1, <2>3
    <3>2. /\ st.strings = Len(tableStrings') /\ Len(tableObjects') \in Nat
          /\ st.objects = Len(tableObjects') + (IF k.op \in Once THEN 1 ELSE 0)
      BY <1>3, <1>8, <1>9
    <3>3. st.traits = IF k.op = "traits" THEN Append(Lay(tableTraits'), Counted(k))
                      ELSE Lay(tableTraits')
      BY <1>3, <1>8, <1>9
    <3> QED
      BY <3>1, <3>2, <3>3, TakerMatch
  <2> QED
    BY <2>4
<1> QED
  BY <1>12, <1>13

LEMMA PopulateFollows ==
    ASSUME IInv, NEW st, Follows(st), Populate
    PROVE  Match(stack', st, tableStrings', tableObjects', tableTraits')
<1> DEFINE c == Head(stack)
           s == Tail(stack)
           g == Got(Ref(c.id))
<1>1. c.op = "populate" /\ stack' = <<g>> \o s /\ UNCHANGED tables
  BY DEF Populate, Become, Reading
<1>2. c.op \notin Making /\ Opened(c) = << >> /\ ~IsText(c)
  BY <1>1 DEF Making, Opened, Octets, Words, IsText
<1>3. stack[2].op \notin Takers
  BY <1>2, TopWants
<1>4. /\ st.strings = Len(tableStrings) /\ Len(tableObjects) \in Nat /\ IsCalm(s)
      /\ st.traits = Lay(tableTraits) /\ st.objects = Len(tableObjects)
      /\ \E w : IsWanted(s, w) /\ IsSeq(w) /\ st.want = Opened(c) \o w
  BY <1>2, <1>3, TopWants
<1>5. PICK w : IsWanted(s, w) /\ IsSeq(w) /\ st.want = Opened(c) \o w
  BY <1>4
<1>6. Opened(g) = << >> /\ g.op = "got"
  BY OpenedFacts
<1> HIDE DEF c, s, g
<1>7. /\ g.op \notin Bottom \cup Takers /\ st.want = Opened(g) \o w
      /\ st.strings = Len(tableStrings') /\ Len(tableObjects') \in Nat
      /\ st.objects = Len(tableObjects') + (IF g.op \in Making THEN 1 ELSE 0)
      /\ st.traits = Lay(tableTraits')
  BY <1>1, <1>2, <1>4, <1>5, <1>6 DEF Bottom, Takers, KeyTakers, Making, tables
<1>8. Match(<<g>> \o s, st, tableStrings', tableObjects', tableTraits')
  BY <1>4, <1>5, <1>7, OneCall
<1> QED
  BY <1>1, <1>8

----------------------------------------------------------------------------
(* Traits and what is made of them.                                        *)
LEMMA LayAppended ==
    ASSUME NEW traits, IsSeq(traits), NEW x
    PROVE  Lay(Append(traits, x)) = Append(Lay(traits), Layout(x))
<1> DEFINE n == Len(traits)
           more == Append(traits, x)
           a == Lay(more)
           l == Lay(traits)
           y == Layout(x)
           b == Append(l, y)
<1>1. n \in Nat
  BY SeqFacts
<1>2. Len(more) = n + 1 /\ (\A i \in 1 .. n : more[i] = traits[i]) /\ more[n + 1] = x
  BY AppendFacts
<1> HIDE DEF more, n
<1>3. a = [i \in 1 .. n + 1 |-> Layout(more[i])]
  BY <1>2 DEF Lay
<1>4. l = [i \in 1 .. n |-> Layout(traits[i])]
  BY DEF Lay, n
<1> HIDE DEF a, l
<1>5. IsSeq(l) /\ Len(l) = n
  <2>1. DOMAIN l = 1 .. n /\ l = [i \in 1 .. n |-> l[i]]
    BY <1>4
  <2> QED
    BY <1>1, <2>1, FunctionIsSeq
<1>6. IsSeq(a) /\ Len(a) = n + 1
  <2>1. DOMAIN a = 1 .. n + 1 /\ a = [i \in 1 .. n + 1 |-> a[i]] /\ n + 1 \in Nat
    BY <1>1, <1>3
  <2> QED
    BY <2>1, FunctionIsSeq
<1> HIDE DEF y
<1>7. IsSeq(b) /\ Len(b) = n + 1 /\ (\A i \in 1 .. n : b[i] = l[i]) /\ b[n + 1] = y
  BY <1>5, AppendFacts
<1> HIDE DEF b
<1>8. ASSUME NEW i \in 1 .. n + 1 PROVE a[i] = b[i]
  <2>1. a[i] = Layout(more[i])
    BY <1>3
  <2>2. CASE i \in 1 .. n
    BY <1>2, <1>4, <1>7, <2>1, <2>2
  <2>3. CASE i = n + 1
    BY <1>2, <1>7, <2>1, <2>3 DEF y
  <2> QED
    BY <1>1, <2>2, <2>3
<1>9. a = b
  <2>1. PICK S, T : a \in Seq(S) /\ b \in Seq(T)
    BY <1>6, <1>7 DEF IsSeq
  <2>2. a \in Seq(S \cup T) /\ b \in Seq(S \cup T)
    BY <2>1
  <2> QED
    BY <1>6, <1>7, <1>8, <2>2
<1> QED
  BY <1>9 DEF a, b, l, y, more

LEMMA TakeTraitsFollows ==
    ASSUME IInv, NEW st, Follows(st), TakeTraits
    PROVE  Match(stack', st, tableStrings', tableObjects', tableTraits')
<1> DEFINE s == Tail(Tail(stack))
           c == Caller
           str == Taken.str
           names == Append(c.names, str)
           traits == [class_name |-> names[1], members |-> Tail(names), dynamic |-> c.dynamic]
           m == Len(c.names)
           members == Members(Counted(c))
<1>1. /\ Taking("traits") /\ c.op = "traits" /\ IsCall(Ids, out, c)
      /\ UNCHANGED <<tableStrings, tableObjects>>
      /\ IF Len(names) <= c.count
         THEN /\ stack' = <<Read("string"), [c EXCEPT !.names = names]>> \o s
              /\ tableTraits' = tableTraits
         ELSE /\ stack' = <<[op |-> "create", traits |-> traits]>> \o s
              /\ tableTraits' = Append(tableTraits, traits)
  BY TakeFacts DEF IInv, TakeTraits, TakeTraitsCaching, Bottom, Take, Taking, Caller
<1>2. "traits" \in Takers /\ "traits" \in Once
  BY DEF Takers, KeyTakers, Once
<1>3. /\ IsCalm(s) /\ IsTaker(c)
      /\ st.strings = Len(tableStrings) /\ Len(tableObjects) \in Nat
      /\ st.objects = Len(tableObjects) + 1
      /\ st.traits = Append(Lay(tableTraits), Counted(c))
      /\ \E v : IsWanted(s, v) /\ IsSeq(v) /\ st.want = << >> \o (TakerWants(c) \o v)
  BY <1>1, <1>2, TextTaken
<1>4. PICK v : IsWanted(s, v) /\ IsSeq(v) /\ st.want = << >> \o (TakerWants(c) \o v)
  BY <1>3
<1>5. c = [op |-> c.op, dynamic |-> c.dynamic, count |-> c.count, names |-> c.names]
  <2> HIDE DEF c
  <2> QED
    BY <1>1 DEF IsCall, Words, Doubles
<1> HIDE DEF s, c, str
<1>6. /\ c.count \in Nat /\ c.dynamic \in BOOLEAN /\ IsSeq(c.names) /\ m \in Nat /\ m <= c.count
      /\ TakerWants(c) = Wants("string", c.count - m) \o members
      /\ IsSeq(members)
  <2>1. /\ c.count \in Nat /\ c.dynamic \in BOOLEAN /\ IsSeq(c.names) /\ m <= c.count
        /\ TakerWants(c) = Wants("string", c.count - m) \o members
    BY <1>1, <1>3 DEF IsTaker, TakerWants
  <2>2. IsSeq(members)
    BY <2>1, MembersSeq DEF Counted
  <2> QED
    BY <2>1, <2>2, SeqFacts
<1>7. st.want = TakerWants(c) \o v
  <2> DEFINE x == TakerWants(c) \o v
  <2>1. IsSeq(TakerWants(c))
    BY <1>3, TakerWantsSeq
  <2>2. IsSeq(x)
    BY <1>4, <2>1, ConcatFacts
  <2>3. st.want = << >> \o x
    BY <1>4
  <2> HIDE DEF x
  <2>4. st.want = x
    BY <2>2, <2>3, EmptyConcat
  <2> QED
    BY <2>4 DEF x
<1>8. IsSeq(names) /\ Len(names) = m + 1 /\ names # << >>
  BY <1>6, AppendFacts
<1> HIDE DEF names, m, members
<1>9. CASE Len(names) <= c.count
  <2> DEFINE d == [c EXCEPT !.names = names]
             a == Read("string")
             k == c.count - (m + 1)
  <2>1. d.op = "traits" /\ d.names = names /\ d.count = c.count /\ d.dynamic = c.dynamic
    BY <1>1, <1>5
  <2>2. stack' = <<a, d>> \o s /\ tableTraits' = tableTraits /\ a.op = "string"
    BY <1>1, <1>9 DEF Read
  <2> HIDE DEF d, a
  <2>3. stack' = <<a>> \o (<<d>> \o s)
    BY <1>3, <2>2, CalmHead, TwoCalls
  <2>4. k \in Nat /\ c.count - m \in Nat /\ c.count - m > 0 /\ (c.count - m) - 1 = k
    BY <1>6, <1>8, <1>9
  <2>5. IsTaker(d) /\ d.op \in Takers /\ Counted(d) = Counted(c) /\ IsText(a)
    BY <1>2, <1>6, <1>8, <1>9, <2>1, <2>2 DEF IsTaker, Counted, IsText
  <2>6. TakerWants(d) = Wants("string", k) \o members
    <3>1. TakerWants(d) = Wants("string", d.count - Len(d.names)) \o Members(Counted(d))
      BY <2>1 DEF TakerWants
    <3>2. d.count - Len(d.names) = k
      BY <1>8, <2>1
    <3> QED
      BY <2>5, <3>1, <3>2 DEF members
  <2>7. First(a, d) = <<Want("string")>>
    BY <2>1, <2>2 DEF First, KeyTakers, Opened, Octets, Words
  <2>8. st.want = First(a, d) \o (TakerWants(d) \o v)
    <3> DEFINE x == <<Want("string")>>
               y == Wants("string", k)
               z == members
    <3>1. IsSeq(x) /\ IsSeq(y) /\ IsSeq(z)
      BY <1>6, <2>4, ShortSeqs, WantsFacts DEF IsSeq
    <3>2. Wants("string", c.count - m) = x \o y
      <4> DEFINE j == c.count - m
      <4>1. j \in Nat /\ j > 0 /\ j - 1 = k
        BY <2>4
      <4> HIDE DEF j, k
      <4> QED
        BY <4>1, WantsFacts DEF j
    <3>3. st.want = ((x \o y) \o z) \o v
      BY <1>6, <1>7, <3>2
    <3> HIDE DEF x, y, z
    <3>9. (x \o y) \o z = x \o (y \o z)
      BY <3>1, ConcatAssociates
    <3>4. (x \o y) \o z = x \o (y \o z) /\ IsSeq(y \o z)
      BY <3>1, <3>9, ConcatFacts
    <3> DEFINE yz == y \o z
    <3>5. IsSeq(x) /\ IsSeq(yz) /\ IsSeq(v)
      BY <1>4, <3>1, <3>4
    <3>6. st.want = (x \o yz) \o v
      BY <3>3, <3>4
    <3>7. TakerWants(d) = yz
      BY <2>6 DEF y, z
    <3> HIDE DEF yz
    <3>8. (x \o yz) \o v = x \o (yz \o v)
      BY <3>5, ConcatAssociates
    <3> QED
      BY <2>7, <3>6, <3>7, <3>8 DEF x
  <2>9. /\ st.strings = Len(tableStrings') /\ Len(tableObjects') \in Nat
        /\ st.objects = Len(tableObjects') + (IF d.op \in Once THEN 1 ELSE 0)
        /\ st.traits = IF d.op = "traits" THEN Append(Lay(tableTraits'), Counted(d))
                       ELSE Lay(tableTraits')
    BY <1>1, <1>2, <1>3, <2>1, <2>2, <2>5
  <2> QED
    BY <1>3, <1>4, <2>3, <2>5, <2>8, <2>9, TakerMatch
<1>10. CASE ~(Len(names) <= c.count)
  <2> DEFINE d == [op |-> "create", traits |-> traits]
  <2>1. /\ stack' = <<d>> \o s /\ tableTraits' = Append(tableTraits, traits)
        /\ d.op = "create" /\ d.traits = traits
    BY <1>1, <1>10
  <2>2. m = c.count /\ c.count - m = 0
    BY <1>6, <1>8, <1>10
  <2>3. Layout(traits) = Counted(c)
    <3>1. Len(Tail(names)) = c.count
      BY <1>6, <1>8, <2>2, SeqFacts
    <3> QED
      BY <3>1 DEF Layout, Counted
  <2>4. st.want = members \o v
    <3>1. TakerWants(c) = << >> \o members
      <4>1. Wants("string", 0) = << >>
        BY WantsFacts
      <4> QED
        BY <1>6, <2>2, <4>1
    <3>2. << >> \o members = members
      BY <1>6, EmptyConcat
    <3> QED
      BY <1>7, <3>1, <3>2
  <2>5. Lay(tableTraits') = Append(Lay(tableTraits), Counted(c))
    <3>1. IsSeq(tableTraits)
      BY TableFacts
    <3> HIDE DEF traits
    <3> QED
      BY <2>1, <2>3, <3>1, LayAppended
  <2>6. Opened(d) = members
    BY <2>1, <2>3 DEF Opened, Octets, members
  <2> HIDE DEF d, traits
  <2>7. /\ d.op \notin Bottom \cup Takers /\ st.want = Opened(d) \o v
        /\ st.strings = Len(tableStrings') /\ Len(tableObjects') \in Nat
        /\ st.objects = Len(tableObjects') + (IF d.op \in Making THEN 1 ELSE 0)
        /\ st.traits = Lay(tableTraits')
    BY <1>1, <1>3, <2>1, <2>4, <2>5, <2>6 DEF Bottom, Takers, KeyTakers, Making
  <2>8. Match(<<d>> \o s, st, tableStrings', tableObjects', tableTraits')
    BY <1>3, <1>4, <2>7, OneCall
  <2> QED
    BY <2>1, <2>8
<1> QED
  BY <1>9, <1>10

LEMMA CreateFollows ==
    ASSUME IInv, NEW st, Follows(st), CreateInstance, Tail(stack') # << >>
    PROVE  Match(stack', st, tableStrings', tableObjects', tableTraits')
<1> DEFINE c == Head(stack)
           s == Tail(stack)
           traits == c.traits
           members == traits.members
           n == Len(members)
           takers == [i \in DOMAIN members |-> Assign(Fresh, "props", Str(members[i]))]
           e == Each(takers)
           k == KeyOf(Fresh, "props")
           a == Read("string")
           d == IF traits.dynamic THEN <<a, k>> ELSE << >>
           f == [op |-> "populate", id |-> Fresh]
           g == <<f>>
           u == Wants("value", n)
           x == IF traits.dynamic THEN <<Want("keys")>> ELSE << >>
<1>1. /\ c.op = "create" /\ \E y : Make(y)
      /\ stack' = ((e \o d) \o g) \o s
  BY DEF CreateInstance, Become, Reading
<1>2. IsSeq(members)
  <2>1. IsCall(Ids, out, c)
    <3>1. Reading("create") /\ "create" \notin Bottom
      BY DEF CreateInstance, Bottom
    <3> QED
      BY <3>1, RestFacts DEF IInv
  <2> HIDE DEF c
  <2> QED
    BY <1>1, <2>1 DEF IsCall, Words, Doubles
<1>3. c.op \in Making /\ Opened(c) = Members(Layout(traits)) /\ ~IsText(c)
  BY <1>1 DEF Making, Opened, Octets, IsText
<1>4. stack[2].op \notin Takers
  BY <1>3, TopWants
<1>5. /\ st.strings = Len(tableStrings) /\ Len(tableObjects) \in Nat /\ IsCalm(s)
      /\ st.traits = Lay(tableTraits) /\ st.objects = Len(tableObjects) + 1
      /\ \E w : IsWanted(s, w) /\ IsSeq(w) /\ st.want = Opened(c) \o w
  BY <1>3, <1>4, TopWants
<1>6. PICK w : IsWanted(s, w) /\ IsSeq(w) /\ st.want = Opened(c) \o w
  BY <1>5
<1>7. Opened(c) = u \o x
  BY <1>3 DEF Members, Layout
<1>8. Len(tableObjects') = Len(tableObjects) + 1 /\ Len(tableObjects') \in Nat
      /\ tableStrings' = tableStrings /\ tableTraits' = tableTraits
  BY <1>1, MadeOne
<1>9. IsBlock(e) /\ IsWanted(e, u) /\ IsSeq(u)
  <2> DEFINE op == "assign"
  <2>1. DOMAIN members = 1 .. n /\ n \in Nat
    BY <1>2, SeqFacts
  <2>2. takers = [i \in 1 .. n |-> takers[i]] /\ \A i \in 1 .. n : takers[i].op = op
    BY <2>1 DEF Assign
  <2>3. op \in {"assign", "entry"}
    OBVIOUS
  <2>5. IsSeq(u)
    <3> HIDE DEF n
    <3> QED
      BY <2>1, WantsFacts DEF IsSeq
  <2> HIDE DEF takers, n, op
  <2>4. IsBlock(e) /\ (op = "assign" => IsWanted(e, u))
    BY <2>1, <2>2, <2>3, EachWanted
  <2> QED
    BY <2>4, <2>5 DEF op
<1>10. IsBlock(d) /\ IsWanted(d, x) /\ IsSeq(x)
  <2>1. a.op = "string" /\ k.op = "key"
    BY DEF Read, KeyOf
  <2> DEFINE ak == <<a, k>>
             q == <<Want("keys")>>
  <2>2. IsSeq(ak) /\ Len(ak) = 2 /\ ak[1] = a /\ ak[2] = k /\ IsSeq(q)
    BY ShortSeqs
  <2>3. ak = <<a>> \o <<k>>
    BY TwoOnes
  <2>4. IsWanted(<<a>>, << >>) /\ IsWanted(<<k>>, q) /\ IsSeq(<<a>>) /\ IsSeq(<<k>>)
    <3>1. Piece(a) = << >> /\ Piece(k) = q
      BY <2>1 DEF Piece
    <3> QED
      BY <3>1, WantedOne, ShortSeqs
  <2>5. IsWanted(ak, q)
    <3> DEFINE y == <<a>>
               z == <<k>>
    <3>1. ak = y \o z /\ IsWanted(y, << >>) /\ IsWanted(z, q) /\ IsSeq(y) /\ IsSeq(z)
      BY <2>3, <2>4
    <3> HIDE DEF y, z, ak, q
    <3>2. IsWanted(y \o z, << >> \o q)
      BY <3>1, WantedConcat
    <3> QED
      BY <2>2, <3>1, <3>2, EmptyConcat
  <2> HIDE DEF ak, a, k
  <2>6. IsBlock(ak)
    <3>1. \A i \in 1 .. 2 : i = 1 \/ i = 2
      OBVIOUS
    <3>2. \A i \in 1 .. 2 - 1 : i = 1 /\ i + 1 = 2
      OBVIOUS
    <3>3. \A i \in 1 .. Len(ak) : ak[i].op \in Lasting
      BY <2>1, <2>2, <3>1 DEF Lasting
    <3>4. Paired(ak)
      BY <2>1, <2>2, <3>2 DEF Paired
    <3>5. ak[1].op # "key" /\ ak[Len(ak)].op # "string"
      BY <2>1, <2>2
    <3> QED
      BY <2>2, <3>3, <3>4, <3>5 DEF IsBlock
  <2>7. IsBlock(<< >>) /\ IsWanted(<< >>, << >>) /\ IsSeq(<< >>)
    <3>1. Len(<< >>) = 0
      OBVIOUS
    <3>2. IsBlock(<< >>)
      BY <3>1, ShortSeqs DEF IsBlock, Paired
    <3> QED
      BY <3>2, WantedEmpty, ShortSeqs
  <2>8. CASE traits.dynamic
    BY <2>2, <2>5, <2>6, <2>8 DEF ak
  <2>9. CASE ~traits.dynamic
    BY <2>7, <2>9
  <2> QED
    BY <2>8, <2>9
<1>11. IsBlock(g) /\ IsWanted(g, << >>)
  <2>1. f.op = "populate"
    OBVIOUS
  <2> HIDE DEF f
  <2>2. f.op \in Lasting \ {"key", "string"} /\ Piece(f) = << >>
    BY <2>1 DEF Lasting, Piece
  <2> QED
    BY <2>2, OneBlock
<1> DEFINE gs == g \o s
           dgs == d \o gs
           all == e \o dgs
           xw == x \o w
           uxw == u \o xw
<1>12. IsSeq(e) /\ IsSeq(d) /\ IsSeq(g) /\ IsSeq(s)
  BY <1>5, <1>9, <1>10, <1>11, CalmHead DEF IsBlock
<1> HIDE DEF c, s, e, d, g, u, x
<1> HIDE DEF gs
<1>13. IsCalm(gs) /\ IsWanted(gs, w) /\ IsSeq(gs)
  <2>1. IsCalm(gs) /\ IsWanted(gs, << >> \o w)
    BY <1>5, <1>6, <1>11, BlockWanted DEF gs
  <2> QED
    BY <1>6, <2>1, CalmHead, EmptyConcat
<1>14. stack' = all
  <2> DEFINE ed == e \o d
  <2>1. IsSeq(ed)
    BY <1>12, ConcatFacts
  <2>2. stack' = (ed \o g) \o s
    BY <1>1
  <2> HIDE DEF ed
  <2>5. IsSeq(ed) /\ IsSeq(g) /\ IsSeq(s)
    BY <1>12, <2>1
  <2>3. (ed \o g) \o s = ed \o gs
    BY <2>5, ConcatAssociates DEF gs
  <2>4. (e \o d) \o gs = e \o (d \o gs)
    BY <1>12, <1>13, ConcatAssociates
  <2> QED
    BY <2>2, <2>3, <2>4 DEF ed
<1>15. IsCalm(dgs) /\ IsWanted(dgs, xw)
  BY <1>6, <1>10, <1>13, BlockWanted
<1>16. IsSeq(xw)
  BY <1>6, <1>10, ConcatFacts
<1>17. st.want = uxw
  BY <1>6, <1>7, <1>9, <1>10, ConcatAssociates
<1> HIDE DEF dgs, xw
<1>18. IsCalm(all) /\ IsWanted(all, uxw)
  BY <1>9, <1>15, BlockWanted
<1> HIDE DEF all, uxw
<1>19. /\ IsCalm(all) /\ Tail(all) # << >> /\ IsWanted(all, st.want)
       /\ st.strings = Len(tableStrings') /\ Len(tableObjects') \in Nat
       /\ st.objects = Len(tableObjects') /\ st.traits = Lay(tableTraits')
  BY <1>5, <1>8, <1>14, <1>17, <1>18
<1>20. Match(all, st, tableStrings', tableObjects', tableTraits')
  BY <1>19, CalmMatch
<1> QED
  BY <1>14, <1>20

----------------------------------------------------------------------------
(* Above the call of the program there are only calls of the reader.       *)
IsInner(c) == c.op \notin Bottom
Inners(a)  == IsSeq(a) /\ \A i \in 1 .. Len(a) : IsInner(a[i])
Within(s)  == \A i \in 1 .. Len(s) - 1 : IsInner(s[i])

InnerInv == stack # << >> => Within(stack)

(* A step of the call that runs leaves the program's call where it is.     *)
Deeper == /\ stack' # << >> /\ stack'[Len(stack')] = stack[Len(stack)]
          /\ Within(stack') /\ source' = source

LEMMA InnersOnStack ==
    ASSUME NEW a, Inners(a), NEW s, IsSeq(s), s # << >>, Within(s)
    PROVE  LET t == a \o s
           IN  t # << >> /\ t[Len(t)] = s[Len(s)] /\ Within(t)
<1> DEFINE t == a \o s
           m == Len(a)
           n == Len(s)
<1>1. IsSeq(a)
  BY DEF Inners
<1>2. /\ m \in Nat /\ n \in Nat /\ Len(t) = m + n
      /\ \A i \in 1 .. m : t[i] = a[i]
      /\ \A i \in 1 .. n : t[m + i] = s[i]
  BY <1>1, SeqFacts, ConcatFacts
<1>3. t # << >> /\ t[Len(t)] = s[n]
  BY <1>1, ConcatLast
<1> HIDE DEF t, m, n
<1>4. ASSUME NEW i \in 1 .. m + n - 1 PROVE IsInner(t[i])
  <2>1. CASE i \in 1 .. m
    BY <1>2, <2>1 DEF Inners, m
  <2>2. CASE i \notin 1 .. m
    <3>1. i - m \in 1 .. n - 1 /\ i - m \in 1 .. n /\ i = m + (i - m)
      BY <1>2, <2>2
    <3>2. t[i] = s[i - m]
      BY <1>2, <3>1
    <3> QED
      BY <3>1, <3>2 DEF Within, n
  <2> QED
    BY <2>1, <2>2
<1>5. Within(t)
  BY <1>2, <1>4 DEF Within
<1> QED
  BY <1>3, <1>5 DEF t, n

LEMMA WithinTail ==
    ASSUME NEW s, IsSeq(s), s # << >>, Within(s), Tail(s) # << >>
    PROVE  /\ IsSeq(Tail(s)) /\ Within(Tail(s)) /\ IsInner(Head(s))
           /\ Tail(s)[Len(Tail(s))] = s[Len(s)]
<1> DEFINE t == Tail(s)
           n == Len(s)
<1>1. /\ n \in Nat /\ n > 1 /\ IsSeq(t) /\ Len(t) = n - 1 /\ t[Len(t)] = s[n] /\ Head(s) = s[1]
      /\ \A i \in 1 .. n - 1 : t[i] = s[i + 1]
  BY SeqFacts, TailLast
<1> HIDE DEF t, n
<1>2. ASSUME NEW i \in 1 .. (n - 1) - 1 PROVE IsInner(t[i])
  <2>1. i \in 1 .. n - 1 /\ i + 1 \in 1 .. n - 1
    BY <1>1
  <2> QED
    BY <1>1, <2>1 DEF Within, n
<1>3. 1 \in 1 .. n - 1
  BY <1>1
<1>4. IsInner(Head(s))
  BY <1>1, <1>3 DEF Within, n
<1> QED
  BY <1>1, <1>2, <1>4 DEF Within, t, n

LEMMA TopInner ==
    ASSUME IInv, InnerInv, NEW op, Reading(op), op \notin Bottom
    PROVE  /\ IsInner(Head(stack)) /\ Head(stack).op = op
           /\ IsSeq(Tail(stack)) /\ Tail(stack) # << >> /\ Within(Tail(stack))
           /\ Tail(stack)[Len(Tail(stack))] = stack[Len(stack)]
           /\ stack[2] = Head(Tail(stack))
<1>1. /\ IsStack(Ids, out, Tail(stack)) /\ EndsAtCaller(Tail(stack)) /\ Head(stack).op = op
      /\ stack # << >> /\ stack[2] = Head(Tail(stack))
  BY RestFacts DEF IInv, Reading
<1>2. IsSeq(stack) /\ Tail(stack) # << >>
  BY <1>1 DEF IInv, StackInv, IsStack, EndsAtCaller
<1> QED
  BY <1>1, <1>2, WithinTail DEF InnerInv

LEMMA CallerInner ==
    ASSUME IInv, InnerInv, NEW op, Taking(op), op \notin Bottom
    PROVE  LET rest == Tail(Tail(stack))
           IN  /\ IsInner(Caller) /\ Caller.op = op
               /\ IsSeq(rest) /\ rest # << >> /\ Within(rest)
               /\ rest[Len(rest)] = stack[Len(stack)]
<1> DEFINE r == Tail(stack)
<1>1. Reading("got") /\ "got" \notin Bottom /\ Caller = stack[2] /\ stack[2].op = op
  BY DEF Taking, Caller, Bottom
<1>2. /\ IsSeq(r) /\ r # << >> /\ Within(r) /\ r[Len(r)] = stack[Len(stack)]
      /\ Caller = Head(r)
  BY <1>1, TopInner
<1>3. Tail(r) # << >>
  <2>1. EndsAtCaller(Tail(r))
    BY TakeFacts DEF IInv
  <2> QED
    BY <2>1 DEF EndsAtCaller
<1> HIDE DEF r
<1>4. IsSeq(Tail(r)) /\ Within(Tail(r)) /\ IsInner(Head(r))
      /\ Tail(r)[Len(Tail(r))] = r[Len(r)]
  BY <1>2, <1>3, WithinTail
<1> QED
  BY <1>1, <1>2, <1>3, <1>4 DEF r

LEMMA BecomeInner ==
    ASSUME IInv, InnerInv, NEW op, Reading(op), op \notin Bottom,
           NEW todo, Inners(todo), Become(todo)
    PROVE  Deeper
<1> DEFINE r == Tail(stack)
           t == todo \o r
<1>1. /\ IsSeq(r) /\ r # << >> /\ Within(r) /\ r[Len(r)] = stack[Len(stack)]
  BY TopInner
<1>2. stack' = t /\ source' = source
  BY DEF Become
<1> HIDE DEF r
<1>3. t # << >> /\ t[Len(t)] = r[Len(r)] /\ Within(t)
  BY <1>1, InnersOnStack
<1> QED
  BY <1>1, <1>2, <1>3 DEF Deeper

LEMMA TakeInner ==
    ASSUME IInv, InnerInv, NEW op, Taking(op), op \notin Bottom,
           NEW todo, Inners(todo), Take(todo)
    PROVE  Deeper
<1> DEFINE r == Tail(Tail(stack))
           t == todo \o r
<1>1. /\ IsSeq(r) /\ r # << >> /\ Within(r) /\ r[Len(r)] = stack[Len(stack)]
  BY CallerInner
<1>2. stack' = t /\ source' = source
  BY DEF Take
<1> HIDE DEF r
<1>3. t # << >> /\ t[Len(t)] = r[Len(r)] /\ Within(t)
  BY <1>1, InnersOnStack
<1> QED
  BY <1>1, <1>2, <1>3 DEF Deeper

(* The calls a step puts on the stack.                                     *)
Inward == Words \cup Doubles \cup Octets \cup {"arrayStart", "assign", "key", "entry", "populate",
                                             "got", "create", "traits"}

LEMMA ShortInners ==
    /\ Inners(<< >>)
    /\ \A c : IsInner(c) => Inners(<<c>>)
    /\ \A c, d : IsInner(c) /\ IsInner(d) => Inners(<<c, d>>)
    /\ \A c : c.op \in Inward => IsInner(c)
<1>1. Inners(<< >>)
  <2>1. Len(<< >>) = 0
    OBVIOUS
  <2> QED
    BY <2>1, ShortSeqs DEF Inners
<1>2. ASSUME NEW c, IsInner(c) PROVE Inners(<<c>>)
  <2> DEFINE s == <<c>>
  <2>1. IsSeq(s) /\ Len(s) = 1 /\ s[1] = c
    BY ShortSeqs
  <2> HIDE DEF s
  <2>2. Inners(s)
    BY <1>2, <2>1 DEF Inners
  <2> QED
    BY <2>2 DEF s
<1>3. ASSUME NEW c, NEW d, IsInner(c), IsInner(d) PROVE Inners(<<c, d>>)
  <2> DEFINE s == <<c, d>>
  <2>1. IsSeq(s) /\ Len(s) = 2 /\ s[1] = c /\ s[2] = d
    BY ShortSeqs
  <2>2. \A i \in 1 .. 2 : i = 1 \/ i = 2
    OBVIOUS
  <2> HIDE DEF s
  <2>3. Inners(s)
    BY <1>3, <2>1, <2>2 DEF Inners
  <2> QED
    BY <2>3 DEF s
<1>4. ASSUME NEW c, c.op \in Inward PROVE IsInner(c)
  BY <1>4 DEF IsInner, Inward, Words, Doubles, Octets, Bottom
<1> QED
  BY <1>1, <1>2, <1>3, <1>4

LEMMA ConcatInners ==
    ASSUME NEW a, Inners(a), NEW b, Inners(b) PROVE Inners(a \o b)
<1>1. IsSeq(a) /\ IsSeq(b)
  BY DEF Inners
<1> DEFINE t == a \o b
<1>2. IsSeq(t)
  BY <1>1, ConcatFacts
<1>3. /\ Len(a) \in Nat /\ Len(b) \in Nat /\ Len(t) = Len(a) + Len(b)
      /\ \A i \in 1 .. Len(a) : t[i] = a[i]
      /\ \A i \in 1 .. Len(b) : t[Len(a) + i] = b[i]
  BY <1>1, SeqFacts, ConcatFacts
<1> HIDE DEF t
<1>4. ASSUME NEW i \in 1 .. Len(t) PROVE IsInner(t[i])
  <2>1. CASE i \in 1 .. Len(a)
    BY <1>3, <2>1 DEF Inners
  <2>2. CASE i \notin 1 .. Len(a)
    <3>1. i - Len(a) \in 1 .. Len(b) /\ Len(a) + (i - Len(a)) = i
      BY <1>3, <2>2
    <3>2. t[i] = b[i - Len(a)]
      BY <1>3, <3>1
    <3> QED
      BY <3>1, <3>2 DEF Inners
  <2> QED
    BY <2>1, <2>2
<1>5. Inners(t)
  BY <1>2, <1>4 DEF Inners
<1> QED
  BY <1>5 DEF t

LEMMA EachInners ==
    ASSUME NEW n \in Int, NEW s, s = [i \in 1 .. n |-> s[i]],
           \A i \in 1 .. n : IsInner(s[i])
    PROVE  Inners(Each(s))
<1>1. ASSUME NEW m \in Nat, NEW u, u = [i \in 1 .. m |-> u[i]],
             \A i \in 1 .. m : IsInner(u[i])
      PROVE  Inners(Each(u))
  <2> DEFINE t == Each(u)
  <2>1. DOMAIN u = 1 .. m
    BY <1>1
  <2>2. IsSeq(u) /\ Len(u) = m
    BY <1>1, <2>1, FunctionIsSeq
  <2>3. /\ 2 * m \in Nat /\ DOMAIN t = 1 .. 2 * m /\ t = [i \in 1 .. 2 * m |-> t[i]]
        /\ \A i \in 1 .. 2 * m : /\ i % 2 = 1 => t[i] = Read("value")
                                 /\ i % 2 # 1 => t[i] = u[i \div 2]
    BY <2>2 DEF Each
  <2> HIDE DEF t
  <2>4. IsSeq(t) /\ Len(t) = 2 * m
    BY <2>3, FunctionIsSeq
  <2>5. IsInner(Read("value"))
    <3> DEFINE c == Read("value")
    <3>1. c.op \in Inward
      BY DEF Read, Inward, Words
    <3> HIDE DEF c
    <3>2. IsInner(c)
      BY <3>1, ShortInners
    <3> QED
      BY <3>2 DEF c
  <2>6. ASSUME NEW i \in 1 .. 2 * m PROVE IsInner(t[i])
    <3>1. CASE i % 2 = 1
      BY <2>3, <2>5, <3>1
    <3>2. CASE i % 2 # 1
      <4>1. i \div 2 \in 1 .. m
        BY <3>2
      <4> QED
        BY <1>1, <2>3, <3>2, <4>1
    <3> QED
      BY <3>1, <3>2
  <2>7. Inners(t)
    BY <2>4, <2>6 DEF Inners
  <2> QED
    BY <2>7 DEF t
<1>2. CASE n \in Nat
  BY <1>1, <1>2
<1>3. CASE n < 0
  <2>1. 1 .. n = 1 .. 0
    BY <1>3
  <2>2. s = [i \in 1 .. 0 |-> s[i]] /\ \A i \in 1 .. 0 : IsInner(s[i])
    BY <2>1
  <2> QED
    BY <1>1, <2>2
<1> QED
  BY <1>2, <1>3

----------------------------------------------------------------------------
(* Reads leave only calls of the reader.                                   *)
LEMMA ConsumeInner ==
    ASSUME IInv, InnerInv, NEW op \in Reads, Consume(op),
           NEW todo, Inners(todo), Become(todo)
    PROVE  Deeper
<1>1. Reading(op) /\ op \notin Bottom
  BY TokenFacts DEF IInv, Consume
<1> QED
  BY <1>1, BecomeInner

LEMMA PlainGot ==
    /\ \A id : Inners(<<Got(Ref(id))>>)
    /\ \A v : IsInner(Got(v))
    /\ \A op \in Words \cup Doubles : IsInner(Read(op))
    /\ \A op \in Octets \cup {"arrayStart"} : \A n : IsInner(Sized(op, n))
    /\ \A id, field, key : IsInner(Assign(id, field, key))
    /\ \A id, field : IsInner(KeyOf(id, field))
<1>1. \A v : IsInner(Got(v))
  BY DEF Got, IsInner, Bottom
<1>2. ASSUME NEW id PROVE Inners(<<Got(Ref(id))>>)
  <2> DEFINE c == Got(Ref(id))
  <2>1. IsInner(c)
    BY <1>1
  <2> HIDE DEF c
  <2>2. Inners(<<c>>)
    BY <2>1, ShortInners
  <2> QED
    BY <2>2 DEF c
<1>3. \A op \in Words \cup Doubles : IsInner(Read(op))
  BY DEF Read, IsInner, Bottom, Words, Doubles
<1>4. \A op \in Octets \cup {"arrayStart"} : \A n : IsInner(Sized(op, n))
  BY DEF Sized, IsInner, Bottom, Octets
<1>5. \A id, field, key : IsInner(Assign(id, field, key))
  BY DEF Assign, IsInner, Bottom
<1>6. \A id, field : IsInner(KeyOf(id, field))
  BY DEF KeyOf, IsInner, Bottom
<1> QED
  BY <1>1, <1>2, <1>3, <1>4, <1>5, <1>6

LEMMA ScalarInner ==
    ASSUME IInv, InnerInv, ReadMarker \/ ReadInteger \/ ReadNumber \/ ReadWeak
    PROVE  Deeper
<1>1. CASE ReadMarker
  <2>1. PICK after \in AfterMarker : Become(<<after[2]>>)
    BY <1>1 DEF ReadMarker
  <2> DEFINE c == after[2]
  <2>2. IsInner(c)
    <3>1. c \in {Got(Nil), Got(False), Got(True)} \cup {Read(op) : op \in Words \cup Doubles}
      BY DEF AfterMarker, Words, Doubles
    <3> HIDE DEF c
    <3> QED
      BY <3>1, PlainGot
  <2>3. Become(<<c>>) /\ Consume("value") /\ "value" \in Reads
    BY <1>1, <2>1 DEF ReadMarker, tables, Reads, Words
  <2> HIDE DEF c
  <2>4. Inners(<<c>>)
    BY <2>2, ShortInners
  <2> QED
    BY <2>3, <2>4, ConsumeInner
<1>2. CASE ReadInteger
  <2> DEFINE c == Got(Num(Signed(Token.word)))
  <2>1. IsInner(c)
    BY PlainGot
  <2>2. Become(<<c>>) /\ Consume("integer") /\ "integer" \in Reads
    BY <1>2 DEF ReadInteger, tables, Reads, Words
  <2> HIDE DEF c
  <2>3. Inners(<<c>>)
    BY <2>1, ShortInners
  <2> QED
    BY <2>2, <2>3, ConsumeInner
<1>3. CASE ReadNumber
  <2> DEFINE v == IF Token.double = Float(NaN) THEN Nil ELSE Token.double
             c == Got(v)
  <2>1. Become(<<c>>) /\ Consume("double") /\ "double" \in Reads
    BY <1>3 DEF ReadNumber, tables, Reads, Doubles
  <2>2. IsInner(c)
    BY PlainGot
  <2> HIDE DEF c
  <2>3. Inners(<<c>>)
    BY <2>2, ShortInners
  <2> QED
    BY <2>1, <2>3, ConsumeInner
<1>4. CASE ReadWeak
  <2>1. Become(<< >>) /\ Consume("weak") /\ "weak" \in Reads
    BY <1>4 DEF ReadWeak, tables, Reads, Words
  <2>2. Inners(<< >>)
    BY ShortInners
  <2> QED
    BY <2>1, <2>2, ConsumeInner
<1> QED
  BY <1>1, <1>2, <1>3, <1>4

LEMMA StringInner == ASSUME IInv, InnerInv, ReadString \/ ReadContent PROVE Deeper
<1>1. CASE ReadString
  <2> DEFINE s == tableStrings[Entry(tableStrings, Length)]
             c == IF IsReference(tableStrings) THEN Got(Str(s))
                  ELSE IF Length > 0 THEN Sized("content", Length) ELSE Got(Str(EmptyString))
  <2>1. Become(<<c>>) /\ Consume("string") /\ "string" \in Reads
    BY <1>1 DEF ReadString, StringHeader, Reads, Words
  <2>2. IsInner(c)
    BY PlainGot DEF Octets
  <2> HIDE DEF c
  <2>3. Inners(<<c>>)
    BY <2>2, ShortInners
  <2> QED
    BY <2>1, <2>3, ConsumeInner
<1>2. CASE ReadContent
  <2> DEFINE c == Got(Str(Token.raw))
  <2>1. Become(<<c>>) /\ Consume("content") /\ "content" \in Reads
    BY <1>2 DEF ReadContent, Reads, Octets
  <2>2. IsInner(c)
    BY PlainGot
  <2> HIDE DEF c
  <2>3. Inners(<<c>>)
    BY <2>2, ShortInners
  <2> QED
    BY <2>1, <2>3, ConsumeInner
<1> QED
  BY <1>1, <1>2

LEMMA ReferenceInner ==
    ASSUME IInv, InnerInv, NEW op \in Reads, ReadReference(op) PROVE Deeper
<1> DEFINE id == tableObjects[Entry(tableObjects, Length)]
<1>1. Consume(op) /\ Become(<<Got(Ref(id))>>)
  BY DEF ReadReference, tables
<1>2. Inners(<<Got(Ref(id))>>)
  BY PlainGot
<1> HIDE DEF id
<1> QED
  BY <1>1, <1>2, ConsumeInner

LEMMA LeafInner ==
    ASSUME IInv, InnerInv, ReadDate \/ ReadStamp \/ ReadByteArray \/ ReadOctets
    PROVE  Deeper
<1> DEFINE made == <<Got(Ref(Fresh))>>
<1>1. Inners(made)
  BY PlainGot
<1>2. CASE ReadStamp \/ ReadOctets
  <2>1. PICK op \in {"stamp", "octets"} : Consume(op) /\ Become(made)
    BY <1>2 DEF ReadStamp, ReadOctets, MakeBytes, Make
  <2>2. op \in Reads
    BY DEF Reads, Octets, Doubles
  <2> HIDE DEF made
  <2> QED
    BY <1>1, <2>1, <2>2, ConsumeInner
<1>3. CASE ReadReference("date") \/ ReadReference("bytes")
  BY <1>3, ReferenceInner DEF Reads, Words
<1>4. CASE ReadInline("date", <<Read("stamp")>>) /\ UNCHANGED <<tables, out>>
  <2> DEFINE c == Read("stamp")
  <2>1. Consume("date") /\ Become(<<c>>) /\ "date" \in Reads
    BY <1>4 DEF ReadInline, tables, Reads, Words
  <2>2. IsInner(c)
    BY PlainGot DEF Doubles
  <2> HIDE DEF c
  <2>3. Inners(<<c>>)
    BY <2>2, ShortInners
  <2> QED
    BY <2>1, <2>3, ConsumeInner
<1>5. CASE ReadByteArray /\ ~ReadReference("bytes")
  <2> DEFINE sized == <<Sized("octets", Length)>>
             todo == IF Length = 0 THEN made ELSE sized
  <2>1. Consume("bytes") /\ Become(todo) /\ "bytes" \in Reads
    BY <1>5 DEF ReadByteArray, ReadInline, MakeBytes, Make, tables, Reads, Words
  <2>2. Inners(sized)
    <3> DEFINE c == Sized("octets", Length)
    <3>1. IsInner(c)
      BY PlainGot DEF Octets
    <3> HIDE DEF c
    <3>2. Inners(<<c>>)
      BY <3>1, ShortInners
    <3> QED
      BY <3>2 DEF c
  <2> HIDE DEF made, sized
  <2>3. Inners(todo)
    BY <1>1, <2>2
  <2> HIDE DEF todo
  <2> QED
    BY <2>1, <2>3, ConsumeInner
<1> QED
  BY <1>2, <1>3, <1>4, <1>5 DEF ReadDate

LEMMA ArrayInner == ASSUME IInv, InnerInv, ReadArray PROVE Deeper
<1>1. CASE ReadReference("array")
  BY <1>1, ReferenceInner DEF Reads, Words
<1>2. CASE ~ReadReference("array")
  <2> DEFINE c == Read("string")
             d == Sized("arrayStart", Length)
  <2>1. /\ Consume("array") /\ Become(<<c, d>>)
        /\ "array" \in Reads
    BY <1>2 DEF ReadArray, ReadInline, tables, Reads, Words
  <2>2. IsInner(c)
    BY PlainGot DEF Words
  <2>3. IsInner(d)
    BY PlainGot
  <2> HIDE DEF c, d
  <2>4. Inners(<<c, d>>)
    BY <2>2, <2>3, ShortInners
  <2> QED
    BY <2>1, <2>4, ConsumeInner
<1> QED
  BY <1>1, <1>2

LEMMA DictionaryInner == ASSUME IInv, InnerInv, ReadDictionary PROVE Deeper
<1>1. CASE ReadReference("dict")
  BY <1>1, ReferenceInner DEF Reads, Words
<1>2. CASE ~ReadReference("dict")
  <2> DEFINE c == Read("weak")
             n == Length
             id == Fresh
             s == [i \in 1 .. n |-> [op |-> "entry", id |-> id]]
             e == Each(s)
             g == <<Got(Ref(id))>>
             a == <<c>> \o e
             todo == a \o g
  <2>1. /\ Consume("dict") /\ Become(todo)
        /\ "dict" \in Reads /\ "dict" \in Words
    BY <1>2 DEF ReadDictionary, ReadInline, Make, Reads, Words
  <2>2. n \in Int
    BY <2>1, TokenFacts DEF IInv, Consume
  <2>3. IsInner(c)
    BY PlainGot DEF Words
  <2>4. Inners(g)
    BY PlainGot
  <2> HIDE DEF c, n, id
  <2>5. s = [i \in 1 .. n |-> s[i]] /\ \A i \in 1 .. n : s[i].op \in Inward
    BY DEF Inward
  <2> HIDE DEF s, g
  <2>6. \A i \in 1 .. n : IsInner(s[i])
    BY <2>5, ShortInners
  <2>7. Inners(e)
    BY <2>2, <2>5, <2>6, EachInners
  <2>8. Inners(<<c>>)
    BY <2>3, ShortInners
  <2> HIDE DEF e
  <2>9. Inners(a)
    <3> DEFINE b == <<c>>
    <3>1. Inners(b)
      BY <2>8
    <3> HIDE DEF b
    <3>2. Inners(b \o e)
      BY <2>7, <3>1, ConcatInners
    <3> QED
      BY <3>2 DEF b
  <2> HIDE DEF a
  <2>10. Inners(todo)
    BY <2>4, <2>9, ConcatInners
  <2> HIDE DEF todo
  <2> QED
    BY <2>1, <2>10, ConsumeInner
<1> QED
  BY <1>1, <1>2

LEMMA ObjectInner == ASSUME IInv, InnerInv, ReadObject PROVE Deeper
<1>1. CASE ReadReference("object")
  BY <1>1, ReferenceInner DEF Reads, Words
<1>2. CASE ~ReadReference("object")
  <2> DEFINE known == tableTraits[KnownTraits]
             create == [op |-> "create", traits |-> known]
             c == Read("string")
             d == [op |-> "traits", dynamic |-> (Length \div 4) % 2 = 1,
                   count |-> Length \div 8, names |-> << >>]
             todo == IF Length % 2 = 0 THEN <<create>> ELSE <<c, d>>
  <2>1. /\ Consume("object") /\ Become(todo)
        /\ "object" \in Reads
    BY <1>2 DEF ReadObject, ReadInline, Reads, Words
  <2>2. IsInner(create)
    BY DEF IsInner, Bottom
  <2>3. IsInner(c)
    BY PlainGot DEF Words
  <2>4. IsInner(d)
    BY DEF IsInner, Bottom
  <2> HIDE DEF create, c, d
  <2>5. Inners(<<c, d>>)
    BY <2>3, <2>4, ShortInners
  <2>6. Inners(<<create>>)
    BY <2>2, ShortInners
  <2>7. Inners(todo)
    BY <2>5, <2>6
  <2> HIDE DEF todo
  <2> QED
    BY <2>1, <2>7, ConsumeInner
<1> QED
  BY <1>1, <1>2

----------------------------------------------------------------------------
(* So does whatever takes a value.                                         *)
LEMMA ValuesInner ==
    ASSUME NEW id, NEW field, NEW n \in Int PROVE Inners(Values(id, field, n))
<1> DEFINE s == [i \in 1 .. n |-> Assign(id, field, Num(i - 1))]
<1>1. s = [i \in 1 .. n |-> s[i]] /\ \A i \in 1 .. n : s[i] = Assign(id, field, Num(i - 1))
  OBVIOUS
<1> HIDE DEF s
<1>2. \A i \in 1 .. n : IsInner(s[i])
  BY <1>1, PlainGot
<1>3. Inners(Each(s))
  BY <1>1, <1>2, EachInners
<1> QED
  BY <1>3 DEF Values, s

LEMMA TopGot ==
    ASSUME IInv, InnerInv, NEW op, Taking(op), op \notin Bottom
    PROVE  /\ IsInner(Head(stack)) /\ IsInner(Caller)
           /\ Caller.op = op /\ Head(stack).op = "got" /\ IsCall(Ids, out, Caller)
<1>1. Reading("got") /\ "got" \notin Bottom
  BY DEF Taking, Bottom
<1> QED
  BY <1>1, TopInner, CallerInner, TakeFacts DEF IInv

LEMMA TakeArrayStartInner == ASSUME IInv, InnerInv, TakeArrayStart PROVE Deeper
<1> DEFINE n == Caller.length
           id == Fresh
           g == <<Got(Ref(id))>>
           h == Head(stack)
           k == KeyOf(id, "pairs")
           elems == Values(id, "elems", n)
           pairs == Values(id, "pairs", n)
           a == elems \o g
           b == (<<h, k>> \o pairs) \o g
           todo == IF Taken.str = EmptyString THEN a ELSE b
<1>1. /\ Taking("arrayStart") /\ "arrayStart" \notin Bottom /\ Take(todo)
  BY DEF TakeArrayStart, Make, Bottom
<1>2. IsInner(h) /\ IsCall(Ids, out, Caller) /\ Caller.op = "arrayStart"
  BY <1>1, TopGot
<1>3. n \in Int
  <2> DEFINE c == Caller
  <2> HIDE DEF c
  <2> QED
    BY <1>2 DEF IsCall, Words, Doubles, Octets, c
<1>4. IsInner(k)
  BY PlainGot
<1>5. Inners(g)
  BY PlainGot
<1> HIDE DEF n, id, h, k, g
<1>6. Inners(elems) /\ Inners(pairs)
  BY <1>3, ValuesInner
<1> HIDE DEF elems, pairs
<1>7. Inners(a)
  BY <1>5, <1>6, ConcatInners
<1>8. Inners(b)
  <2> DEFINE c == <<h, k>>
             d == c \o pairs
  <2>1. Inners(c)
    BY <1>2, <1>4, ShortInners
  <2> HIDE DEF c
  <2>2. Inners(d)
    BY <1>6, <2>1, ConcatInners
  <2> HIDE DEF d
  <2>3. Inners(d \o g)
    BY <1>5, <2>2, ConcatInners
  <2> QED
    BY <2>3 DEF c, d
<1> HIDE DEF a, b
<1>9. Inners(todo)
  BY <1>7, <1>8
<1> HIDE DEF todo
<1> QED
  BY <1>1, <1>9, TakeInner

LEMMA TakeAssignInner == ASSUME IInv, InnerInv, TakeAssign PROVE Deeper
<1>1. /\ Taking("assign") /\ "assign" \notin Bottom /\ Take(<< >>)
  BY DEF TakeAssign, tables, Bottom
<1>2. Inners(<< >>)
  BY ShortInners
<1> QED
  BY <1>1, <1>2, TakeInner

LEMMA FourInners ==
    ASSUME NEW c, IsInner(c), NEW d, IsInner(d), NEW e, IsInner(e),
           NEW f, IsInner(f)
    PROVE  Inners(<<c, d, e, f>>)
<1> DEFINE a == <<c, d>>
           b == <<e, f>>
           s == <<c, d, e, f>>
<1>1. Inners(a) /\ Inners(b)
  BY ShortInners
<1>2. s = a \o b
  OBVIOUS
<1> HIDE DEF a, b
<1>3. Inners(a \o b)
  BY <1>1, ConcatInners
<1> HIDE DEF s
<1>4. Inners(s)
  BY <1>2, <1>3
<1> QED
  BY <1>4 DEF s

LEMMA TakeKeyInner == ASSUME IInv, InnerInv, TakeKey PROVE Deeper
<1> DEFINE c == Caller
           v == Read("value")
           d == Assign(c.id, c.field, Taken)
           r == Read("string")
           more == <<v, d, r, c>>
           todo == IF Taken.str = EmptyString THEN << >> ELSE more
<1>1. /\ Taking("key") /\ "key" \notin Bottom /\ Take(todo)
  BY DEF TakeKey, tables, Bottom
<1>2. IsInner(c)
  BY <1>1, TopGot
<1>3. IsInner(v) /\ IsInner(r)
  BY PlainGot DEF Words
<1>4. IsInner(d)
  BY PlainGot
<1> HIDE DEF c, v, d, r
<1>5. Inners(more)
  BY <1>2, <1>3, <1>4, FourInners
<1>6. Inners(<< >>)
  BY ShortInners
<1> HIDE DEF more
<1>7. Inners(todo)
  BY <1>5, <1>6
<1> HIDE DEF todo
<1> QED
  BY <1>1, <1>7, TakeInner

LEMMA TakeEntryKeyInner == ASSUME IInv, InnerInv, TakeEntryKey PROVE Deeper
<1> DEFINE v == Read("value")
           d == Assign(Caller.id, "pairs", Taken)
           todo == <<v, d>>
<1>1. /\ Taking("entry") /\ "entry" \notin Bottom /\ Take(todo)
  BY DEF TakeEntryKey, tables, Bottom
<1>2. IsInner(v)
  BY PlainGot DEF Words
<1>3. IsInner(d)
  BY PlainGot
<1> HIDE DEF v, d
<1>4. Inners(todo)
  BY <1>2, <1>3, ShortInners
<1> HIDE DEF todo
<1> QED
  BY <1>1, <1>4, TakeInner

LEMMA TakeTraitsInner == ASSUME IInv, InnerInv, TakeTraits PROVE Deeper
<1> DEFINE c == Caller
           names == Append(c.names, Taken.str)
           traits == [class_name |-> names[1], members |-> Tail(names), dynamic |-> c.dynamic]
           a == Read("string")
           d == [c EXCEPT !.names = names]
           e == [op |-> "create", traits |-> traits]
           more == <<a, d>>
           todo == IF Len(names) <= c.count THEN more ELSE <<e>>
<1>1. /\ Taking("traits") /\ "traits" \notin Bottom /\ Take(todo)
  BY DEF TakeTraits, TakeTraitsCaching, Bottom
<1>2. /\ IsCall(Ids, out, c) /\ c.op = "traits"
  BY <1>1, TopGot
<1>3. /\ c = [op |-> c.op, dynamic |-> c.dynamic, count |-> c.count, names |-> c.names]
  <2> HIDE DEF c
  <2> QED
    BY <1>2 DEF IsCall, Words, Doubles
<1> HIDE DEF c, names
<1>4. d.op = "traits"
  BY <1>2, <1>3
<1>5. IsInner(d)
  BY <1>4 DEF IsInner, Bottom
<1>6. IsInner(e)
  BY DEF IsInner, Bottom
<1>7. IsInner(a)
  BY PlainGot DEF Words
<1> HIDE DEF a, d, e
<1>8. Inners(more)
  BY <1>5, <1>7, ShortInners
<1>9. Inners(<<e>>)
  BY <1>6, ShortInners
<1> HIDE DEF more
<1>10. Inners(todo)
  BY <1>8, <1>9
<1> HIDE DEF todo
<1> QED
  BY <1>1, <1>10, TakeInner

LEMMA PopulateInner == ASSUME IInv, InnerInv, Populate PROVE Deeper
<1> DEFINE id == Head(stack).id
           todo == <<Got(Ref(id))>>
<1>1. /\ Reading("populate") /\ "populate" \notin Bottom /\ Become(todo)
  BY DEF Populate, tables, Bottom
<1>2. Inners(todo)
  BY PlainGot
<1> HIDE DEF todo
<1> QED
  BY <1>1, <1>2, BecomeInner

LEMMA CreateInner == ASSUME IInv, InnerInv, CreateInstance PROVE Deeper
<1> DEFINE traits == Head(stack).traits
           members == traits.members
           n == Len(members)
           id == Fresh
           s == [i \in DOMAIN members |-> Assign(id, "props", Str(members[i]))]
           a == Read("string")
           k == KeyOf(id, "props")
           p == [op |-> "populate", id |-> id]
           e == Each(s)
           dyn == IF traits.dynamic THEN <<a, k>> ELSE << >>
           todo == (e \o dyn) \o <<p>>
<1>1. /\ Reading("create") /\ "create" \notin Bottom
      /\ stack' = (e \o dyn \o <<p>>) \o Tail(stack) /\ UNCHANGED <<source, start, result, before>>
  BY DEF CreateInstance, Make, Become, Bottom
<1>2. IsSeq(members) /\ n \in Nat /\ DOMAIN members = 1 .. n
  <2> DEFINE c == Head(stack)
  <2>1. IsCall(Ids, out, c) /\ c.op = "create"
    BY <1>1, RestFacts DEF IInv
  <2> HIDE DEF c
  <2>2. IsSeq(c.traits.members)
    BY <2>1 DEF IsCall, Words, Doubles
  <2> QED
    BY <2>2, SeqFacts DEF c
<1>3. IsInner(a)
  BY PlainGot DEF Words
<1>4. IsInner(k)
  BY PlainGot
<1>5. IsInner(p)
  <2>1. p.op \in Inward
    BY DEF Inward
  <2> HIDE DEF p
  <2> QED
    BY <2>1, ShortInners
<1> HIDE DEF members, n, a, k, p, id
<1>6. /\ s = [i \in 1 .. n |-> s[i]]
      /\ \A i \in 1 .. n : s[i] = Assign(id, "props", Str(members[i]))
  BY <1>2
<1> HIDE DEF s
<1>7. \A i \in 1 .. n : IsInner(s[i])
  BY <1>6, PlainGot
<1>8. Inners(e)
  BY <1>2, <1>6, <1>7, EachInners
<1> HIDE DEF e
<1>9. Inners(dyn)
  BY <1>3, <1>4, ShortInners
<1> HIDE DEF dyn
<1>10. Inners(<<p>>)
  BY <1>5, ShortInners
<1>11. Inners(e \o dyn)
  BY <1>8, <1>9, ConcatInners
<1>12. Inners(todo)
  <2> DEFINE x == e \o dyn
             y == <<p>>
  <2>1. Inners(x) /\ Inners(y)
    BY <1>10, <1>11
  <2> HIDE DEF x, y
  <2>2. Inners(x \o y)
    BY <2>1, ConcatInners
  <2> QED
    BY <2>2 DEF x, y
<1>13. Become(todo)
  BY <1>1 DEF Become
<1> HIDE DEF todo
<1> QED
  BY <1>1, <1>12, <1>13, BecomeInner

----------------------------------------------------------------------------
(* Where the reader is in a stream of messages.                            *)
FrameAt(src, p, b) == IF p = b THEN Begun(AtRest) ELSE Frames(src)[p]

Between(src, b, p) == b <= p /\ \A m \in Ends(src) : ~(b < m /\ m < p)

LEMMA SourceFrames ==
    ASSUME NEW src, IsSource(src)
    PROVE  /\ Len(src) \in Nat /\ \A i \in 1 .. Len(src) : IsWorded(src[i])
           /\ Frames(src)[0] = AtRest
           /\ \A n \in 1 .. Len(src) : Frames(src)[n] = After(Frames(src)[n - 1], src[n])
           /\ \A n \in 0 .. Len(src) : Frames(src)[n] \in FrameStates
           /\ WellFramed(src) => \A n \in 0 .. Len(src) : Frames(src)[n] # Refused
<1>1. Len(src) \in Nat /\ \A i \in 1 .. Len(src) : IsToken(src[i])
  BY SourceFacts
<1>2. \A i \in 1 .. Len(src) : IsWorded(src[i])
  BY <1>1 DEF IsToken, IsWorded, Is
<1> QED
  BY <1>1, <1>2, FramesFacts, NeverRefused

LEMMA FrameNow ==
    ASSUME NEW src, IsSource(src), NEW b \in {0} \cup Ends(src),
           NEW p \in 0 .. Len(src), Between(src, b, p)
    PROVE  LET st == FrameAt(src, p, b)
           IN  /\ st.want # << >> => /\ st = Begun(Frames(src)[p])
                                     /\ p = b \/ p \notin Ends(src)
               /\ st.want = << >> => p \in Ends(src) /\ p > b
<1> DEFINE st == FrameAt(src, p, b)
           f == Frames(src)[p]
<1>1. Len(src) \in Nat /\ Frames(src)[0] = AtRest /\ f \in FrameStates
  BY SourceFrames
<1>2. AtRest \in FrameStates /\ AtRest.want = << >>
  BY AtRestFacts DEF AtRest
<1>3. /\ Begun(f).want # << >> /\ Begun(AtRest).want # << >>
      /\ f.want # << >> => Begun(f) = f
      /\ f.want = << >> => Begun(f) = Begun(AtRest)
  BY <1>1, <1>2, BegunFacts
<1>4. b \in 0 .. Len(src) /\ b <= p
  BY <1>1 DEF Ends, Between
<1>5. CASE p = b
  <2>1. f.want = << >>
    BY <1>1, <1>2, <1>5 DEF Ends
  <2>2. st = Begun(AtRest)
    BY <1>5 DEF FrameAt
  <2> QED
    BY <1>3, <1>5, <2>1, <2>2
<1>6. CASE p # b
  <2>1. st = f /\ p > b /\ p \in 1 .. Len(src)
    BY <1>1, <1>4, <1>6 DEF FrameAt
  <2>2. f.want = << >> <=> p \in Ends(src)
    BY <2>1 DEF Ends
  <2> QED
    BY <1>3, <1>6, <2>1, <2>2
<1> QED
  BY <1>5, <1>6

LEMMA FrameNext ==
    ASSUME NEW src, IsSource(src), WellFramed(src), NEW b \in {0} \cup Ends(src),
           NEW p \in 0 .. Len(src), p < Len(src), Between(src, b, p),
           FrameAt(src, p, b).want # << >>
    PROVE  /\ Suits(FrameAt(src, p, b), src[p + 1])
           /\ FrameAt(src, p + 1, b) = Advanced(FrameAt(src, p, b), src[p + 1])
           /\ Between(src, b, p + 1)
<1> DEFINE st == FrameAt(src, p, b)
           f == Frames(src)[p]
           g == Frames(src)[p + 1]
           t == src[p + 1]
<1>1. st = Begun(f) /\ (p = b \/ p \notin Ends(src))
  BY FrameNow
<1>2. Len(src) \in Nat /\ b \in 0 .. Len(src) /\ b <= p /\ p + 1 \in 1 .. Len(src) /\ p + 1 # b
  BY SourceFrames DEF Ends, Between
<1>3. g = After(f, t) /\ g # Refused
  <2>1. /\ \A n \in 1 .. Len(src) : Frames(src)[n] = After(Frames(src)[n - 1], src[n])
        /\ \A n \in 0 .. Len(src) : Frames(src)[n] # Refused
    BY SourceFrames
  <2>2. p + 1 \in 0 .. Len(src) /\ (p + 1) - 1 = p
    BY <1>2
  <2> QED
    BY <1>2, <2>1, <2>2
<1>4. FrameAt(src, p + 1, b) = g
  BY <1>2 DEF FrameAt
<1>5. Between(src, b, p + 1)
  <2>1. ASSUME NEW m \in Ends(src), b < m, m < p + 1 PROVE FALSE
    <3>1. m \in Nat /\ p \in Nat /\ b \in Nat
      BY <1>2 DEF Ends
    <3>2. m < p \/ m = p
      BY <2>1, <3>1
    <3> QED
      BY <1>1, <2>1, <3>1, <3>2 DEF Between
  <2> QED
    BY <1>2, <2>1 DEF Between
<1> HIDE DEF st, f, g, t
<1>6. Suits(st, t) /\ g = Advanced(st, t)
  BY <1>1, <1>3 DEF After
<1> QED
  BY <1>4, <1>5, <1>6 DEF st, g, t

----------------------------------------------------------------------------
(* The reader is in the message that begins behind start, and the stream   *)
(* is there as well.                                                       *)
Frame == FrameAt(source, pos, start)

Until(src, n) == {m \in Ends(src) : m <= n}

(* As many objects as messages that are over at n; nothing failed.         *)
Kept(src, n, objs, rest, error) ==
    /\ n \in {0} \cup Ends(src)
    /\ IsSeq(objs) /\ Len(objs) = Cardinality(Until(src, n))
    /\ rest = << >> /\ error = "none"

(* An object for each message that is over, and what lies behind them.     *)
Split(src, objs, rest) ==
    /\ Len(objs) = Cardinality(Ends(src))
    /\ \E n \in {0} \cup Ends(src) :
         /\ \A m \in Ends(src) : m <= n
         /\ rest = SubSeq(src, n + 1, Len(src))

(* Between messages there is an object for each that is over; within one,  *)
(* the reader wants what the stream wants; at the end the stream is split. *)
ReadInv ==
    WellFramed(source) =>
      /\ pc = "reading" /\ stack = << >> => Kept(source, pos, objects, incomplete, failure)
      /\ InMessage => /\ Kept(source, start, objects, incomplete, failure)
                      /\ Between(source, start, pos) /\ start < Len(source)
                      /\ Tail(stack) # << >> => Follows(Frame)
      /\ pc = "returned" => Split(source, objects, incomplete)

LEMMA DeeperKeeps ==
    ASSUME ReadInv, stack # << >>, Deeper, UNCHANGED <<start, result>>,
           WellFramed(source) /\ InMessage =>
             /\ Between(source, start, pos')
             /\ Tail(stack') # << >> =>
                  Match(stack', FrameAt(source, pos', start), tableStrings', tableObjects', tableTraits')
    PROVE  ReadInv'
<1>1. /\ source' = source /\ stack' # << >> /\ stack'[Len(stack')] = stack[Len(stack)]
      /\ start' = start /\ objects' = objects /\ incomplete' = incomplete /\ failure' = failure
      /\ pc' = pc
  BY DEF Deeper, result
<1> SUFFICES ASSUME WellFramed(source)
             PROVE  /\ InMessage' => /\ Kept(source, start, objects, incomplete, failure)
                                     /\ Between(source, start, pos') /\ start < Len(source)
                                     /\ Tail(stack') # << >> => Follows(Frame)'
                    /\ pc = "returned" => Split(source, objects, incomplete)
  BY <1>1 DEF ReadInv
<1>2. pc = "returned" => Split(source, objects, incomplete)
  BY DEF ReadInv
<1>3. ASSUME InMessage'
      PROVE  /\ Kept(source, start, objects, incomplete, failure)
             /\ Between(source, start, pos') /\ start < Len(source)
             /\ Tail(stack') # << >> => Follows(Frame)'
  <2>1. InMessage
    BY <1>1, <1>3 DEF InMessage
  <2>2. Kept(source, start, objects, incomplete, failure) /\ start < Len(source)
    BY <2>1 DEF ReadInv
  <2>3. Follows(Frame)' = Match(stack', FrameAt(source, pos', start), tableStrings', tableObjects',
                                tableTraits')
    BY <1>1 DEF Follows, Frame
  <2> QED
    BY <2>1, <2>2, <2>3
<1> QED
  BY <1>2, <1>3

LEMMA TokenStep ==
    ASSUME IInv, InnerInv, ReadInv, WellFramed(source), InMessage,
           NEW op \in Reads, Reading(op), pos < Len(source)
    PROVE  /\ Follows(Frame) /\ Suits(Frame, Token)
           /\ FrameAt(source, pos + 1, start) = Advanced(Frame, Token)
           /\ Between(source, start, pos + 1)
<1>1. op \notin Bottom
  BY DEF Reads, Words, Doubles, Octets, Bottom
<1>2. Tail(stack) # << >>
  BY <1>1, TopInner
<1>3. /\ start \in {0} \cup Ends(source) /\ Between(source, start, pos) /\ Follows(Frame)
  BY <1>2 DEF ReadInv, Kept
<1>4. IsSource(source) /\ pos \in 0 .. Len(source)
  BY DEF IInv, SourceInv, Reading
<1>5. Frame.want # << >>
  BY <1>3, ReadWants
<1> QED
  BY <1>3, <1>4, <1>5, FrameNext DEF Frame, Token

LEMMA ConsumeFollows ==
    ASSUME IInv, InnerInv, ReadInv, NEW op \in Reads, Consume(op), Deeper,
           UNCHANGED <<start, result>>,
           Follows(Frame) /\ Suits(Frame, Token) /\ Tail(stack') # << >> =>
             Match(stack', Advanced(Frame, Token), tableStrings', tableObjects', tableTraits')
    PROVE  ReadInv'
<1>1. Reading(op) /\ pos < Len(source) /\ pos' = pos + 1 /\ stack # << >>
  BY DEF Consume, Ready, Reading
<1>2. ASSUME WellFramed(source), InMessage
      PROVE  /\ Between(source, start, pos')
             /\ Tail(stack') # << >> =>
                  Match(stack', FrameAt(source, pos', start), tableStrings', tableObjects', tableTraits')
  BY <1>1, <1>2, TokenStep
<1> QED
  BY <1>1, <1>2, DeeperKeeps

(* A step that takes no token.                                             *)
LEMMA QuietKeeps ==
    ASSUME IInv, InnerInv, ReadInv, NEW op, Reading(op), op \notin Bottom,
           Deeper, UNCHANGED <<pos, start, result>>,
           Follows(Frame) /\ Tail(stack') # << >> =>
             Match(stack', Frame, tableStrings', tableObjects', tableTraits')
    PROVE  ReadInv'
<1>1. Tail(stack) # << >> /\ stack # << >>
  BY TopInner DEF Reading
<1>2. ASSUME WellFramed(source), InMessage
      PROVE  /\ Between(source, start, pos')
             /\ Tail(stack') # << >> =>
                  Match(stack', FrameAt(source, pos', start), tableStrings', tableObjects', tableTraits')
  <2>1. Between(source, start, pos) /\ Follows(Frame)
    BY <1>1, <1>2 DEF ReadInv
  <2> QED
    BY <2>1 DEF Frame
<1> QED
  BY <1>1, <1>2, DeeperKeeps

----------------------------------------------------------------------------
(* Every read and every take keeps the reader where the stream is.         *)
Consumes == \/ ReadMarker \/ ReadInteger \/ ReadNumber \/ ReadWeak
            \/ ReadString \/ ReadContent \/ ReadDate \/ ReadStamp
            \/ ReadByteArray \/ ReadOctets \/ ReadArray \/ ReadDictionary \/ ReadObject

Quiet == TakeArrayStart \/ TakeKey \/ TakeAssign \/ TakeEntryKey \/ TakeTraits
          \/ CreateInstance \/ Populate

LEMMA ConsumesInner == ASSUME IInv, InnerInv, Consumes PROVE Deeper
  BY ScalarInner, StringInner, LeafInner, ArrayInner, DictionaryInner, ObjectInner DEF Consumes

LEMMA ConsumesFollows ==
    ASSUME IInv, Consumes, Tail(stack') # << >>, NEW st, Follows(st), Suits(st, Token),
           NEW new, new = Advanced(st, Token)
    PROVE  Match(stack', new, tableStrings', tableObjects', tableTraits')
<1>1. CASE ReadMarker \/ ReadInteger \/ ReadNumber
  BY <1>1, ScalarFollows
<1>2. CASE ReadWeak
  BY <1>2, WeakFollows
<1>3. CASE ReadString
  BY <1>3, StringFollows
<1>4. CASE ReadContent
  BY <1>4, ContentFollows
<1>5. CASE ReadDate \/ ReadStamp
  BY <1>5, TimeFollows
<1>6. CASE ReadByteArray \/ ReadOctets
  BY <1>6, BytesFollows
<1>7. CASE ReadArray
  BY <1>7, ArrayFollows
<1>8. CASE ReadDictionary
  BY <1>8, DictionaryFollows
<1>9. CASE ReadObject
  BY <1>9, ObjectFollows
<1> QED
  BY <1>1, <1>2, <1>3, <1>4, <1>5, <1>6, <1>7, <1>8, <1>9 DEF Consumes

LEMMA ConsumesFacts ==
    ASSUME Consumes PROVE (\E op \in Reads : Consume(op)) /\ UNCHANGED <<start, result>>
<1>1. CASE ReadMarker
  BY <1>1 DEF ReadMarker, Become, Reads, Words
<1>2. CASE ReadInteger
  BY <1>2 DEF ReadInteger, Become, Reads, Words
<1>3. CASE ReadNumber
  BY <1>3 DEF ReadNumber, Become, Reads, Doubles
<1>4. CASE ReadWeak
  BY <1>4 DEF ReadWeak, Become, Reads, Words
<1>5. CASE ReadString
  BY <1>5 DEF ReadString, StringHeader, Become, Reads, Words
<1>6. CASE ReadContent
  BY <1>6 DEF ReadContent, Become, Reads, Octets
<1>7. CASE ReadDate
  BY <1>7 DEF ReadDate, ReadReference, ReadInline, Become, Reads, Words
<1>8. CASE ReadStamp
  BY <1>8 DEF ReadStamp, Become, Reads, Doubles
<1>9. CASE ReadByteArray
  BY <1>9 DEF ReadByteArray, ReadReference, ReadInline, Become, Reads, Words
<1>10. CASE ReadOctets
  BY <1>10 DEF ReadOctets, Become, Reads, Octets
<1>11. CASE ReadArray
  BY <1>11 DEF ReadArray, ReadReference, ReadInline, Become, Reads, Words
<1>12. CASE ReadDictionary
  BY <1>12 DEF ReadDictionary, ReadReference, ReadInline, Become, Reads, Words
<1>13. CASE ReadObject
  BY <1>13 DEF ReadObject, ReadReference, ReadInline, Become, Reads, Words
<1> QED
  BY <1>1, <1>2, <1>3, <1>4, <1>5, <1>6, <1>7, <1>8, <1>9, <1>10, <1>11, <1>12, <1>13 DEF Consumes

LEMMA ConsumesKeep ==
    ASSUME IInv, InnerInv, ReadInv, Consumes PROVE ReadInv'
<1>1. UNCHANGED <<start, result>> /\ \E op \in Reads : Consume(op)
  BY ConsumesFacts
<1>2. PICK op \in Reads : Consume(op)
  BY <1>1
<1>3. Deeper
  BY ConsumesInner
<1> DEFINE new == Advanced(Frame, Token)
<1>4. ASSUME Follows(Frame), Suits(Frame, Token), Tail(stack') # << >>
      PROVE  Match(stack', new, tableStrings', tableObjects', tableTraits')
  BY <1>4, ConsumesFollows
<1> QED
  BY <1>1, <1>2, <1>3, <1>4, ConsumeFollows

LEMMA TakesFacts ==
    ASSUME Quiet
    PROVE  /\ UNCHANGED <<pos, start, result>>
           /\ \E op \in {"got", "create", "populate"} : Reading(op) /\ op \notin Bottom
<1>1. CASE TakeArrayStart \/ TakeKey \/ TakeAssign \/ TakeEntryKey \/ TakeTraits
  <2>1. Reading("got") /\ UNCHANGED <<pos, start, result>>
    BY <1>1 DEF TakeArrayStart, TakeKey, TakeAssign, TakeEntryKey, TakeTraits,
                TakeTraitsCaching, Taking, Take
  <2> QED
    BY <2>1 DEF Bottom
<1>2. CASE CreateInstance \/ Populate
  BY <1>2 DEF CreateInstance, Populate, Become, Bottom
<1> QED
  BY <1>1, <1>2 DEF Quiet

LEMMA TakesInner ==
    ASSUME IInv, InnerInv, Quiet PROVE Deeper
  BY TakeArrayStartInner, TakeKeyInner, TakeAssignInner, TakeEntryKeyInner, TakeTraitsInner,
     CreateInner, PopulateInner DEF Quiet

LEMMA TakesFollow ==
    ASSUME IInv, NEW st, Follows(st), Quiet, Tail(stack') # << >>
    PROVE  Match(stack', st, tableStrings', tableObjects', tableTraits')
  BY TakeArrayStartFollows, TakeKeyFollows, TakeAssignFollows, TakeEntryKeyFollows,
     TakeTraitsFollows, CreateFollows, PopulateFollows DEF Quiet

LEMMA TakesKeep ==
    ASSUME IInv, InnerInv, ReadInv, Quiet, Deeper PROVE ReadInv'
<1>1. PICK op \in {"got", "create", "populate"} : Reading(op) /\ op \notin Bottom
  BY TakesFacts
<1>2. UNCHANGED <<pos, start, result>>
  BY TakesFacts
<1>3. ASSUME Follows(Frame), Tail(stack') # << >>
      PROVE  Match(stack', Frame, tableStrings', tableObjects', tableTraits')
  BY <1>3, TakesFollow
<1> QED
  BY <1>1, <1>2, <1>3, QuietKeeps

----------------------------------------------------------------------------
(* What a stream of messages never makes the reader do.                    *)
LEMMA NeverGarbled ==
    ASSUME IInv, InnerInv, ReadInv, WellFramed(source), InMessage PROVE ~Garbled
<1> SUFFICES ASSUME Garbled PROVE FALSE
  OBVIOUS
<1> DEFINE op == Head(stack).op
<1>1. Reading(op) /\ pos < Len(source) /\ ~Fits /\ op \in Reads /\ pc = "reading"
  <2>1. Waiting /\ pos < Len(source) /\ ~Fits
    BY DEF Garbled
  <2>2. op \in Reads
    BY <2>1 DEF Waiting, Needs, Reads
  <2> QED
    BY <2>1, <2>2 DEF Waiting, Reading
<1> HIDE DEF op
<1>2. Follows(Frame) /\ Suits(Frame, Token)
  BY <1>1, TokenStep
<1>3. Fits
  BY <1>1, <1>2, SuitsFits DEF IInv
<1> QED
  BY <1>1, <1>3

LEMMA NeverBadMarker ==
    ASSUME IInv, InnerInv, ReadInv, WellFramed(source), InMessage PROVE ~BadMarker
<1> SUFFICES ASSUME BadMarker PROVE FALSE
  OBVIOUS
<1>1. /\ Reading("value") /\ pos < Len(source) /\ "value" \in Reads /\ pc = "reading"
      /\ \A after \in AfterMarker : after[1] # Token.word
  BY DEF BadMarker, Ready, Reading, Reads, Words
<1>2. Follows(Frame) /\ Suits(Frame, Token)
  BY <1>1, TokenStep
<1>3. Token.word \in Markers
  BY <1>1, <1>2, SuitsFits DEF IInv
<1> DEFINE w == Token.word
<1>4. w \in Markers /\ \A after \in AfterMarker : after[1] # w
  BY <1>1, <1>3
<1> HIDE DEF w
<1>5. w \in {UNDEFINED_MARKER, NULL_MARKER, FALSE_MARKER, TRUE_MARKER, INTEGER_MARKER, DOUBLE_MARKER,
             STRING_MARKER, DATE_MARKER, ARRAY_MARKER, OBJECT_MARKER, BYTE_ARRAY_MARKER, DICT_MARKER}
  BY <1>4 DEF Markers, UNDEFINED_MARKER, NULL_MARKER, FALSE_MARKER, TRUE_MARKER, INTEGER_MARKER,
     DOUBLE_MARKER, STRING_MARKER, DATE_MARKER, ARRAY_MARKER, OBJECT_MARKER, BYTE_ARRAY_MARKER, DICT_MARKER
<1>6. \A m, c : <<m, c>>[1] = m
  OBVIOUS
<1>7. /\ <<UNDEFINED_MARKER, Got(Nil)>> \in AfterMarker
      /\ <<NULL_MARKER, Got(Nil)>> \in AfterMarker
      /\ <<FALSE_MARKER, Got(False)>> \in AfterMarker
      /\ <<TRUE_MARKER, Got(True)>> \in AfterMarker
      /\ <<INTEGER_MARKER, Read("integer")>> \in AfterMarker
      /\ <<DOUBLE_MARKER, Read("double")>> \in AfterMarker
      /\ <<STRING_MARKER, Read("string")>> \in AfterMarker
      /\ <<DATE_MARKER, Read("date")>> \in AfterMarker
      /\ <<ARRAY_MARKER, Read("array")>> \in AfterMarker
      /\ <<OBJECT_MARKER, Read("object")>> \in AfterMarker
      /\ <<BYTE_ARRAY_MARKER, Read("bytes")>> \in AfterMarker
      /\ <<DICT_MARKER, Read("dict")>> \in AfterMarker
  BY DEF AfterMarker
<1> QED
  BY <1>4, <1>5, <1>6, <1>7

LEMMA NeverNegative ==
    ASSUME IInv, InnerInv, ReadInv, WellFramed(source), InMessage PROVE ~NegativeLength
<1> SUFFICES ASSUME NegativeLength PROVE FALSE
  OBVIOUS
<1>1. /\ Ready("bytes") /\ Reading("bytes") /\ pos < Len(source) /\ Length < 0
      /\ "bytes" \in Reads /\ "bytes" \in Plain /\ "bytes" \in ObjectItems
  BY DEF NegativeLength, Ready, Reads, Words, Plain, ObjectItems
<1>2. Follows(Frame) /\ Suits(Frame, Token)
  BY <1>1, TokenStep
<1> DEFINE new == Advanced(Frame, Token)
<1>3. Length \in Nat
  BY <1>1, <1>2, PlainRead
<1> QED
  BY <1>1, <1>3

LEMMA NeverUnknown ==
    ASSUME IInv, InnerInv, ReadInv, WellFramed(source), InMessage PROVE ~UnknownTraits
<1> SUFFICES ASSUME UnknownTraits PROVE FALSE
  OBVIOUS
<1> DEFINE st == Frame
           n == Length
           m == n \div 2
<1>1. /\ Ready("object") /\ Reading("object") /\ pos < Len(source)
      /\ ~IsReference(tableObjects) /\ n % 2 = 0 /\ KnownTraits \notin DOMAIN tableTraits
      /\ "object" \in Reads /\ "object" \in Plain /\ "object" \in ObjectItems
  BY DEF UnknownTraits, Ready, Reads, Words, Plain, ObjectItems
<1>2. Follows(st) /\ Suits(st, Token)
  BY <1>1, TokenStep
<1> HIDE DEF st
<1>3. /\ n = Size(Token) /\ n \in Nat /\ Number(Token) >= 0
      /\ SuitsHeader(st, "object", Token) /\ ~IsShared(Token) /\ st.traits = Lay(tableTraits)
  BY <1>1, <1>2, PlainRead
<1>4. SharesTraits(Token) /\ Size(Token) \div 2 < Len(st.traits)
  BY <1>1, <1>3 DEF SharesTraits, SuitsHeader
<1>5. m \in Nat /\ m < Len(tableTraits)
  <2>1. Len(Lay(tableTraits)) = Len(tableTraits)
    BY TableFacts
  <2> QED
    BY <1>3, <1>4, <2>1
<1> HIDE DEF m, n
<1>6. KnownTraits = m + 1
  BY <1>5 DEF KnownTraits, Entry, m, n
<1>7. DOMAIN tableTraits = 1 .. Len(tableTraits) /\ Len(tableTraits) \in Nat
  BY TableFacts, SeqFacts
<1> QED
  BY <1>1, <1>5, <1>6, <1>7

(* A value that is the whole message leaves nothing wanted of it.          *)
LEMMA MessageTaken ==
    ASSUME IInv, NEW st, Follows(st), Taking("message"), Len(stack) = 2
    PROVE  st.want = << >>
<1> DEFINE r == Tail(stack)
           c == Head(stack)
<1>1. /\ IsSeq(r) /\ r # << >> /\ stack[2] = Head(r) /\ stack[2].op = "message" /\ c.op = "got"
      /\ "message" \notin Takers
      /\ stack[2].op \notin Takers => \E w : IsWanted(r, w) /\ IsSeq(w) /\ st.want = Opened(c) \o w
  BY TopWants DEF Taking, Reading, Takers, KeyTakers
<1>2. PICK w : IsWanted(r, w) /\ IsSeq(w) /\ st.want = Opened(c) \o w
  BY <1>1
<1>3. Len(r) = 1
  <2>1. stack # << >> /\ IsSeq(stack)
    BY DEF Taking, Reading, IInv, StackInv, IsStack
  <2> QED
    BY <2>1, SeqFacts
<1>4. Opened(c) = << >>
  BY <1>1 DEF Opened, Octets, Words
<1> HIDE DEF r, c
<1>5. PICK v : w = Piece(Head(r)) \o v /\ IsWanted(Tail(r), v) /\ IsSeq(v)
  BY <1>1, <1>2, WantedTail
<1>6. Tail(r) = << >>
  BY <1>1, <1>3, TailLast
<1>7. v = << >>
  BY <1>5, <1>6, WantedEmpty
<1>8. Piece(Head(r)) = << >>
  BY <1>1 DEF Piece
<1>9. w = << >>
  BY <1>5, <1>7, <1>8
<1> QED
  BY <1>2, <1>4, <1>9

----------------------------------------------------------------------------
ReaderInv == IInv /\ InnerInv /\ ReadInv

LEMMA NoSourceRefused == ~WellFramed(NoSource)
<1> DEFINE src == NoSource
<1>1. Len(src) = 1 /\ src[1] = Nil /\ (1 - 1) = 0 /\ 1 \in 1 .. 1 /\ 1 \in Nat
  BY DEF NoSource
<1>2. ~Is("word", Nil)
  BY DEF Is, Nil
<1> HIDE DEF src
<1>3. \A i \in 1 .. Len(src) : IsWorded(src[i])
  <2>1. \A i \in 1 .. 1 : i = 1
    OBVIOUS
  <2> QED
    BY <1>1, <1>2, <2>1 DEF IsWorded
<1>4. Frames(src)[0] = AtRest /\ Frames(src)[1] = After(AtRest, Nil)
  <2>1. /\ Frames(src)[0] = AtRest
        /\ \A n \in 1 .. Len(src) : Frames(src)[n] = After(Frames(src)[n - 1], src[n])
    BY <1>1, <1>3, FramesFacts
  <2> QED
    BY <1>1, <2>1
<1>5. ~Suits(Begun(AtRest), Nil)
  <2> DEFINE st == Begun(AtRest)
  <2>1. st.want = <<Want("value")>>
    BY AtRestFacts, BegunFacts DEF AtRest
  <2> HIDE DEF st
  <2>2. Head(st.want) = Want("value")
    BY <2>1
  <2>3. Kind(Want("value")) = "word"
    BY DEF Kind, Want, BodyItems
  <2>4. ~Suits(st, Nil)
    BY <1>2, <2>2, <2>3 DEF Suits
  <2> QED
    BY <2>4 DEF st
<1>6. Frames(src)[1] = Refused
  BY <1>4, <1>5 DEF After
<1> QED
  BY <1>1, <1>6 DEF WellFramed, src

(* The messages that are over.                                             *)
LEMMA UntilFacts ==
    ASSUME NEW src, IsSource(src), NEW n \in Int
    PROVE  /\ IsFiniteSet(Until(src, n)) /\ Cardinality(Until(src, n)) \in Nat
           /\ n = 0 => Until(src, n) = {}
           /\ n >= Len(src) => Until(src, n) = Ends(src)
           /\ \A p \in Ends(src) : n < p /\ Between(src, n, p) =>
                Cardinality(Until(src, p)) = Cardinality(Until(src, n)) + 1
<1>1. Len(src) \in Nat
  BY SourceFacts
<1>2. \A k \in Nat : Until(src, k) \subseteq 1 .. k
  BY <1>1 DEF Until, Ends
<1>3. Until(src, n) \subseteq 1 .. Len(src)
  BY <1>1 DEF Until, Ends
<1>4. IsFiniteSet(Until(src, n)) /\ Cardinality(Until(src, n)) \in Nat
  <2> DEFINE S == Until(src, n)
             T == 1 .. Len(src)
  <2>1. IsFiniteSet(T)
    BY <1>1, FS_Interval
  <2> HIDE DEF T
  <2>2. S \subseteq T
    BY <1>3 DEF T
  <2> HIDE DEF S
  <2>3. IsFiniteSet(S)
    BY <2>1, <2>2, FS_Subset
  <2>4. Cardinality(S) \in Nat
    BY <2>3, FS_CardinalityType
  <2> QED
    BY <2>3, <2>4 DEF S
<1>5. n = 0 => Until(src, n) = {}
  BY DEF Until, Ends
<1>6. n >= Len(src) => Until(src, n) = Ends(src)
  BY <1>1 DEF Until, Ends
<1>7. ASSUME NEW p \in Ends(src), n < p, Between(src, n, p)
      PROVE  Cardinality(Until(src, p)) = Cardinality(Until(src, n)) + 1
  <2>1. Until(src, p) = Until(src, n) \cup {p} /\ p \notin Until(src, n)
    BY <1>1, <1>7 DEF Until, Between, Ends
  <2> QED
    BY <1>4, <2>1, FS_AddElement
<1> QED
  BY <1>4, <1>5, <1>6, <1>7

----------------------------------------------------------------------------
(* Each action keeps all of it.                                            *)
LEMMA StackGone == ASSUME stack' = << >> PROVE InnerInv'
  BY DEF InnerInv

LEMMA ConsumesRead == ASSUME ReaderInv, Consumes PROVE InnerInv' /\ ReadInv'
<1>1. Deeper /\ ReadInv'
  BY ConsumesInner, ConsumesKeep DEF ReaderInv
<1> QED
  BY <1>1 DEF InnerInv, Deeper

LEMMA TakesRead == ASSUME ReaderInv, Quiet PROVE InnerInv' /\ ReadInv'
<1>1. Deeper
  BY TakesInner DEF ReaderInv
<1>2. ReadInv'
  BY <1>1, TakesKeep DEF ReaderInv
<1> QED
  BY <1>1, <1>2 DEF InnerInv, Deeper

LEMMA TwoInStack ==
    ASSUME NEW c, c \in {Read("message"), Read("caller")}
    PROVE  LET s == <<Read("value"), c>>
           IN  /\ Within(s) /\ s # << >> /\ s[Len(s)] = c /\ Head(s).op = "value"
               /\ s = <<Read("value")>> \o <<c>> /\ c.op = IF c = Read("message") THEN "message"
                                                                                  ELSE "caller"
<1> DEFINE v == Read("value")
           s == <<v, c>>
<1>1. IsInner(v)
  BY PlainGot DEF Words
<1>2. v.op = "value"
  BY DEF Read
<1>3. c.op = IF c = Read("message") THEN "message" ELSE "caller"
  BY DEF Read
<1> HIDE DEF v
<1>4. Len(s) = 2 /\ s[1] = v /\ s[2] = c /\ s # << >> /\ Head(s) = v /\ s = <<v>> \o <<c>>
  OBVIOUS
<1> HIDE DEF s
<1>5. Within(s)
  <2>1. \A i \in 1 .. 2 - 1 : i = 1
    OBVIOUS
  <2> QED
    BY <1>1, <1>4, <2>1 DEF Within
<1> QED
  BY <1>2, <1>3, <1>4, <1>5 DEF v, s

LEMMA BegunFollows ==
    Match(<<Read("value")>> \o <<Read("message")>>, Begun(AtRest), << >>, << >>, << >>)
<1> DEFINE c == Read("value")
           m == Read("message")
           r == <<m>>
           st == Begun(AtRest)
<1>1. c.op = "value" /\ m.op = "message"
  BY DEF Read
<1>2. st.want = <<Want("value")>> /\ st.strings = 0 /\ st.objects = 0 /\ st.traits = << >>
  BY AtRestFacts, BegunFacts DEF AtRest
<1> HIDE DEF c, m, st
<1>3. IsCalm(r)
  <2>1. IsSeq(r) /\ Len(r) = 1 /\ r[1] = m /\ r # << >>
    BY ShortSeqs
  <2>2. \A i : ~(i \in 1 .. 1 - 1)
    OBVIOUS
  <2> HIDE DEF r
  <2> QED
    BY <1>1, <2>1, <2>2 DEF IsCalm, Paired, Bottom
<1>4. IsWanted(r, << >>)
  <2>1. Piece(m) = << >>
    BY <1>1 DEF Piece
  <2> QED
    BY <2>1, WantedOne
<1>5. c.op \notin Bottom \cup Takers /\ c.op \notin Making
  BY <1>1 DEF Bottom, Takers, KeyTakers, Making
<1>6. st.want = Opened(c) \o << >>
  <2>1. Opened(c) = <<Want("value")>>
    BY <1>1 DEF Opened, Octets, Words
  <2> DEFINE x == <<Want("value")>>
  <2>2. IsSeq(x)
    BY ShortSeqs
  <2>3. st.want = x
    BY <1>2
  <2> HIDE DEF x
  <2>4. x \o << >> = x
    BY <2>2, EmptyConcat
  <2> QED
    BY <2>1, <2>3, <2>4 DEF x
<1>7. Lay(<< >>) = << >>
  <2>1. Len(<< >>) = 0
    OBVIOUS
  <2>2. Lay(<< >>) = [i \in 1 .. 0 |-> Layout(<< >>[i])]
    BY <2>1 DEF Lay
  <2> QED
    BY <2>2
<1>8. Len(<< >>) = 0 /\ 0 \in Nat /\ 0 = 0 + 0
  OBVIOUS
<1> DEFINE e == << >>
<1>9. /\ st.want = Opened(c) \o e /\ IsWanted(r, e) /\ st.strings = Len(e) /\ Len(e) \in Nat
      /\ st.objects = Len(e) + (IF c.op \in Making THEN 1 ELSE 0) /\ st.traits = Lay(e)
  BY <1>2, <1>4, <1>5, <1>6, <1>7, <1>8
<1> HIDE DEF e, r
<1>10. Match(<<c>> \o r, st, e, e, e)
  BY <1>3, <1>5, <1>9, OneCall
<1> QED
  BY <1>10 DEF c, r, m, st, e

LEMMA NextMessageReads ==
    ASSUME ReaderInv, NextMessage PROVE InnerInv' /\ ReadInv'
<1> DEFINE m == Read("message")
           s == <<Read("value"), m>>
<1>1. /\ pc = "reading" /\ stack = << >> /\ pos < Len(source) /\ start' = pos /\ stack' = s
      /\ tableStrings' = << >> /\ tableObjects' = << >> /\ tableTraits' = << >>
      /\ UNCHANGED <<source, pos, objects, incomplete, failure, pc>>
  BY DEF NextMessage, BeginMessage, result
<1>2. /\ Within(s) /\ s # << >> /\ s[Len(s)] = m /\ m.op = "message"
      /\ s = <<Read("value")>> \o <<m>>
  BY TwoInStack
<1>3. InnerInv'
  BY <1>1, <1>2 DEF InnerInv
<1>4. ReadInv'
  <2> SUFFICES ASSUME WellFramed(source)
               PROVE  /\ Kept(source, pos, objects, incomplete, failure)
                      /\ Between(source, pos, pos)
                      /\ Follows(Frame)'
    BY <1>1, <1>2 DEF ReadInv
  <2>1. Kept(source, pos, objects, incomplete, failure)
    BY <1>1 DEF ReaderInv, ReadInv
  <2>2. IsSource(source) /\ pos \in 0 .. Len(source) /\ Len(source) \in Nat
    BY <1>1, SourceFacts DEF ReaderInv, IInv, SourceInv
  <2>3. Between(source, pos, pos)
    BY <2>2 DEF Between, Ends
  <2>4. Frame' = Begun(AtRest)
    BY <1>1 DEF Frame, FrameAt
  <2>5. Follows(Frame)' = Match(s, Begun(AtRest), << >>, << >>, << >>)
    BY <1>1, <2>4 DEF Follows
  <2> QED
    BY <1>2, <2>1, <2>3, <2>5, BegunFollows
<1> QED
  BY <1>3, <1>4

----------------------------------------------------------------------------
(* A message or an object is taken by what lies at the bottom.             *)
LEMMA BottomTakes ==
    ASSUME IInv, InnerInv, NEW op \in Bottom, Taking(op)
    PROVE  /\ Len(stack) = 2 /\ stack[Len(stack)].op = op /\ Tail(stack) # << >>
           /\ pc = "reading" /\ stack # << >> /\ Head(stack).op = "got"
<1>1. /\ Reading("got") /\ "got" \notin Bottom /\ stack[2].op = op /\ pc = "reading" /\ stack # << >>
      /\ Head(stack).op = "got"
  BY DEF Taking, Reading, Bottom
<1>2. Tail(stack) # << >> /\ IsSeq(stack)
  BY <1>1, TopInner DEF IInv, StackInv, IsStack
<1>3. Len(stack) \in Nat /\ Len(stack) > 1
  BY <1>1, <1>2, SeqFacts, TailLast
<1>4. Len(stack) = 2
  <2> DEFINE n == Len(stack)
  <2>1. n \in Nat /\ n > 1 /\ \A i \in 1 .. n - 1 : IsInner(stack[i])
    BY <1>1, <1>3 DEF InnerInv, Within
  <2> HIDE DEF n
  <2>2. ~(n > 2)
    <3>1. n > 2 => 2 \in 1 .. n - 1
      BY <2>1
    <3> QED
      BY <1>1, <2>1, <3>1 DEF IsInner
  <2>3. n = 2
    BY <2>1, <2>2
  <2> QED
    BY <2>3 DEF n
<1> QED
  BY <1>1, <1>2, <1>4

LEMMA TakeMessageReads ==
    ASSUME ReaderInv, TakeMessage PROVE InnerInv' /\ ReadInv'
<1> DEFINE x == Taken
<1>1. /\ Taking("message") /\ "message" \in Bottom /\ objects' = Append(objects, x)
      /\ stack' = << >> /\ UNCHANGED <<source, pos, start, tables, incomplete, failure, pc>>
  BY DEF TakeMessage, Bottom
<1>2. /\ Len(stack) = 2 /\ stack[Len(stack)].op = "message" /\ Tail(stack) # << >>
      /\ pc = "reading" /\ stack # << >>
  BY <1>1, BottomTakes DEF ReaderInv
<1>3. InnerInv'
  BY <1>1, StackGone
<1>4. ReadInv'
  <2> SUFFICES ASSUME WellFramed(source)
               PROVE  Kept(source, pos, objects', incomplete, failure)
    BY <1>1, <1>2 DEF ReadInv, InMessage
  <2>1. /\ Kept(source, start, objects, incomplete, failure) /\ Between(source, start, pos)
        /\ Follows(Frame)
    BY <1>2 DEF ReaderInv, ReadInv, InMessage
  <2>2. Frame.want = << >>
    BY <1>1, <1>2, <2>1, MessageTaken DEF ReaderInv
  <2>3. IsSource(source) /\ pos \in 0 .. Len(source) /\ start \in {0} \cup Ends(source)
    BY <1>2, <2>1 DEF ReaderInv, IInv, SourceInv, Kept
  <2>4. pos \in Ends(source) /\ pos > start
    BY <2>1, <2>2, <2>3, FrameNow DEF Frame
  <2>5. Cardinality(Until(source, pos)) = Cardinality(Until(source, start)) + 1
    <3>1. start \in Int /\ start < pos
      BY <2>3, <2>4 DEF Ends
    <3> QED
      BY <2>1, <2>3, <2>4, <3>1, UntilFacts
  <2> HIDE DEF x
  <2>6. IsSeq(objects') /\ Len(objects') = Len(objects) + 1
    BY <1>1, <2>1, AppendFacts DEF Kept
  <2> QED
    BY <2>1, <2>4, <2>5, <2>6 DEF Kept
<1> QED
  BY <1>3, <1>4

LEMMA ReturnReads == ASSUME ReaderInv, ReturnObject PROVE InnerInv' /\ ReadInv'
<1>1. stack' = << >> /\ pc' = "read"
  BY DEF ReturnObject
<1> QED
  BY <1>1, StackGone DEF ReadInv, InMessage

LEMMA NothingLeft ==
    ASSUME NEW src, IsSource(src), NEW objs, NEW n, NEW rest, NEW error, NEW left,
           Kept(src, n, objs, rest, error), \A m \in Ends(src) : m <= n,
           left = SubSeq(src, n + 1, Len(src))
    PROVE  Split(src, objs, left)
<1>1. Len(objs) = Cardinality(Until(src, n)) /\ n \in {0} \cup Ends(src)
  BY DEF Kept
<1>2. Until(src, n) = Ends(src)
  BY DEF Until
<1> QED
  BY <1>1, <1>2 DEF Split

LEMMA EndReads ==
    ASSUME ReaderInv, EndOfSource PROVE InnerInv' /\ ReadInv'
<1>1. /\ pc = "reading" /\ stack = << >> /\ pos = Len(source) /\ pc' = "returned"
      /\ stack' = << >>
      /\ UNCHANGED <<source, pos, tables, objects, incomplete, failure>>
  BY DEF EndOfSource
<1>2. InnerInv'
  BY <1>1, StackGone
<1>3. WellFramed(source) => Kept(source, pos, objects, incomplete, failure)
  BY <1>1 DEF ReaderInv, ReadInv
<1>4. ReadInv'
  <2> SUFFICES ASSUME WellFramed(source) PROVE Split(source, objects, incomplete)
    BY <1>1 DEF ReadInv, InMessage
  <2>1. IsSource(source) /\ IsSeq(source) /\ Len(source) \in Nat
    BY <1>1, SourceFacts DEF ReaderInv, IInv, SourceInv
  <2>2. \A m \in Ends(source) : m <= pos
    BY <1>1, <2>1 DEF Ends
  <2>3. incomplete = SubSeq(source, pos + 1, Len(source))
    <3>1. incomplete = << >>
      BY <1>3 DEF Kept
    <3>2. PICK S : source \in Seq(S)
      BY <2>1 DEF IsSeq
    <3>3. SubSeq(source, Len(source) + 1, Len(source)) = << >>
      BY <2>1, <3>2
    <3> QED
      BY <1>1, <3>1, <3>3
  <2> QED
    BY <1>3, <2>1, <2>2, <2>3, NothingLeft
<1> QED
  BY <1>2, <1>4

----------------------------------------------------------------------------
(* A source that ends inside a message.                                    *)
LEMMA EndsInMessage ==
    ASSUME ReaderInv, SourceEnds, InMessage, WellFramed(source)
    PROVE  /\ Kept(source, start, objects, incomplete, failure) /\ IsSource(source)
           /\ Len(source) \notin Ends(source) /\ \A m \in Ends(source) : m <= start
<1> DEFINE op == Head(stack).op
<1>1. pc = "reading" /\ stack # << >> /\ Reading(op) /\ op \in Reads /\ pos = Len(source)
  BY DEF SourceEnds, Waiting, Needs, Reads, Reading
<1>2. op \notin Bottom
  BY <1>1 DEF Reads, Words, Doubles, Octets, Bottom
<1> HIDE DEF op
<1>3. Tail(stack) # << >>
  BY <1>1, <1>2, TopInner DEF ReaderInv
<1>4. /\ Kept(source, start, objects, incomplete, failure) /\ Between(source, start, pos)
      /\ Follows(Frame) /\ start < Len(source)
  BY <1>3 DEF ReaderInv, ReadInv
<1>5. Frame.want # << >>
  BY <1>1, <1>4, ReadWants
<1>6. /\ IsSource(source) /\ pos \in 0 .. Len(source) /\ start \in {0} \cup Ends(source)
      /\ Len(source) \in Nat
  BY <1>1, <1>4, SourceFacts DEF ReaderInv, IInv, SourceInv, Kept
<1>7. pos = start \/ pos \notin Ends(source)
  BY <1>4, <1>5, <1>6, FrameNow DEF Frame
<1>8. Len(source) \notin Ends(source)
  BY <1>1, <1>4, <1>6, <1>7
<1>9. ASSUME NEW m \in Ends(source) PROVE m <= start
  <2>1. m \in Nat /\ start \in Nat /\ m <= pos /\ pos \in Nat
    BY <1>1, <1>6 DEF Ends
  <2>2. ~(start < m /\ m < pos)
    BY <1>4 DEF Between
  <2>3. m = pos => pos = start
    BY <1>7
  <2> QED
    BY <2>1, <2>2, <2>3
<1> QED
  BY <1>4, <1>6, <1>8, <1>9

LEMMA SourceEndsReads == ASSUME ReaderInv, SourceEnds PROVE InnerInv' /\ ReadInv'
<1>1. stack' = << >> /\ UNCHANGED <<source, objects>> /\ failure' = "AMFErrorIncomplete"
  BY DEF SourceEnds, Rescue, LeaveRest, Escape, Raise
<1>2. InnerInv'
  BY <1>1, StackGone
<1>3. CASE InMessage
  <2>1. pc' = "returned" /\ incomplete' = SubSeq(source, start + 1, Len(source))
    BY <1>3 DEF SourceEnds, Rescue, LeaveRest
  <2>2. WellFramed(source) => Split(source, objects, incomplete')
    BY <1>3, <2>1, EndsInMessage, NothingLeft
  <2> QED
    BY <1>1, <1>2, <2>1, <2>2 DEF ReadInv, InMessage
<1>4. CASE ~InMessage
  <2>1. pc' = "raised"
    BY <1>4 DEF SourceEnds, Escape, Raise
  <2> QED
    BY <1>1, <1>2, <2>1 DEF ReadInv, InMessage
<1> QED
  BY <1>3, <1>4

(* What only another source makes happen, and what the mapper or a time    *)
(* makes happen.                                                           *)
Refusing == Garbled \/ BadMarker \/ NegativeLength \/ UnknownTraits
Escaping == CreateFails \/ StampFails \/ PopulateFails

LEMMA RefusingFacts ==
    ASSUME Refusing
    PROVE  /\ pc = "reading" /\ stack # << >> /\ stack' = << >> /\ source' = source
           /\ pc' # "reading"
           /\ pc' = "returned" => BadMarker /\ InMessage
<1>1. CASE Garbled
  BY <1>1 DEF Garbled, Waiting
<1>2. CASE BadMarker
  BY <1>2 DEF BadMarker, Ready, Reading, Rescue, LeaveRest, Escape, EscapeRead, Raise
<1>3. CASE NegativeLength
  BY <1>3 DEF NegativeLength, Ready, Reading, EscapeRead, Raise
<1>4. CASE UnknownTraits
  BY <1>4 DEF UnknownTraits, Ready, Reading, EscapeRead, Raise
<1> QED
  BY <1>1, <1>2, <1>3, <1>4 DEF Refusing

LEMMA EscapingFacts ==
    ASSUME Escaping
    PROVE  /\ stack' = << >> /\ source' = source /\ pc' = "raised"
           /\ failure' \in {"mapper", "FloatDomainError"}
  BY DEF Escaping, CreateFails, StampFails, PopulateFails, Escape, EscapeRead, Raise

LEMMA RefusingReads == ASSUME ReaderInv, Refusing PROVE InnerInv' /\ ReadInv'
<1>1. /\ stack' = << >> /\ source' = source /\ pc' # "reading"
      /\ pc' = "returned" => BadMarker /\ InMessage
  BY RefusingFacts
<1>2. WellFramed(source) => pc' # "returned"
  BY <1>1, NeverBadMarker DEF ReaderInv
<1> QED
  BY <1>1, <1>2, StackGone DEF ReadInv, InMessage

LEMMA EscapingReads == ASSUME ReaderInv, Escaping PROVE InnerInv' /\ ReadInv'
  BY EscapingFacts, StackGone DEF ReadInv, InMessage

LEMMA StepReads == ASSUME ReaderInv, Step PROVE InnerInv' /\ ReadInv'
<1>1. CASE Consumes
  BY <1>1, ConsumesRead
<1>2. CASE Quiet
  BY <1>2, TakesRead
<1>3. CASE Refusing \/ Escaping
  BY <1>3, RefusingReads, EscapingReads
<1> QED
  BY <1>1, <1>2, <1>3, NextMessageReads, TakeMessageReads, EndReads, ReturnReads, SourceEndsReads
     DEF Step, Consumes, Quiet, Refusing, Escaping

(* The calls of the program.                                               *)
LEMMA DeserializeReads ==
    ASSUME ReaderInv, NEW src \in Sources, Deserialize(src) PROVE InnerInv' /\ ReadInv'
<1>1. /\ source' = src /\ pos' = 0 /\ objects' = << >> /\ incomplete' = << >> /\ failure' = "none"
      /\ stack' = << >> /\ pc' = "reading"
  BY DEF Deserialize
<1>2. Kept(src, 0, << >>, << >>, "none")
  <2>1. IsSource(src)
    BY DeserializerAssumption
  <2>2. 0 \in Int /\ Cardinality({}) = 0 /\ Len(<< >>) = 0
    BY FS_EmptySet
  <2>3. Until(src, 0) = {}
    BY <2>1, <2>2, UntilFacts
  <2>4. IsSeq(<< >>)
    BY ShortSeqs
  <2> QED
    BY <2>2, <2>3, <2>4 DEF Kept
<1>3. ReadInv'
  BY <1>1, <1>2 DEF ReadInv, InMessage
<1> QED
  BY <1>1, <1>3, StackGone

LEMMA DeserializeNilReads == ASSUME ReaderInv, DeserializeNil PROVE InnerInv' /\ ReadInv'
<1>1. pc # "reading" /\ pc' = "raised" /\ stack' = stack
  BY DEF DeserializeNil
<1>2. stack' = << >>
  BY <1>1 DEF ReaderInv, IInv, SourceInv
<1> QED
  BY <1>1, <1>2, StackGone DEF ReadInv, InMessage

LEMMA CallReadObjectReads == ASSUME ReaderInv, CallReadObject PROVE InnerInv' /\ ReadInv'
<1>1. CASE source = NoSource
  <2>1. stack' = << >> /\ pc' = "raised"
    BY <1>1 DEF CallReadObject, Escape, Raise
  <2> QED
    BY <2>1, StackGone DEF ReadInv, InMessage
<1>2. CASE source # NoSource
  <2> DEFINE m == Read("caller")
             s == <<Read("value"), m>>
  <2>1. stack' = s /\ pc' = "reading"
    BY <1>2 DEF CallReadObject
  <2>2. Within(s) /\ s # << >> /\ s[Len(s)] = m
    BY TwoInStack
  <2>3. m.op = "caller"
    BY DEF Read
  <2> HIDE DEF s, m
  <2>4. InnerInv'
    BY <2>1, <2>2 DEF InnerInv
  <2>5. ReadInv'
    BY <2>1, <2>2, <2>3 DEF ReadInv, InMessage
  <2> QED
    BY <2>4, <2>5
<1> QED
  BY <1>1, <1>2

LEMMA InitReads == Init => ReaderInv
<1> SUFFICES ASSUME Init PROVE ReaderInv
  OBVIOUS
<1>1. IInv
  BY InitIInv
<1>2. source = NoSource /\ stack = << >>
  BY DEF Init
<1>3. ~WellFramed(source)
  BY <1>2, NoSourceRefused
<1> QED
  BY <1>1, <1>2, <1>3 DEF ReaderInv, InnerInv, ReadInv

LEMMA NextReads == ReaderInv /\ [Next]_vars => ReaderInv'
<1> SUFFICES ASSUME ReaderInv, [Next]_vars PROVE ReaderInv'
  OBVIOUS
<1>1. IInv'
  BY NextIInv DEF ReaderInv
<1>2. CASE Call
  <2>1. CASE DeserializeNil
    BY <1>1, <2>1, DeserializeNilReads DEF ReaderInv
  <2>2. CASE \E src \in Sources : Deserialize(src)
    BY <1>1, <2>2, DeserializeReads DEF ReaderInv
  <2> QED
    BY <1>2, <2>1, <2>2 DEF Call
<1>3. CASE CallReadObject
  BY <1>1, <1>3, CallReadObjectReads DEF ReaderInv
<1>4. CASE Step
  BY <1>1, <1>4, StepReads DEF ReaderInv
<1>5. CASE UNCHANGED vars
  <2>1. UNCHANGED <<source, pos, start, stack, tableStrings, tableObjects, tableTraits, objects,
                    incomplete, failure, pc>>
    BY <1>5 DEF vars, tables, result
  <2>2. InnerInv'
    BY <2>1 DEF ReaderInv, InnerInv, Within, IsInner
  <2>3. ReadInv'
    BY <2>1 DEF ReaderInv, ReadInv, InMessage, Follows, Frame
  <2> QED
    BY <1>1, <2>2, <2>3 DEF ReaderInv
<1> QED
  BY <1>2, <1>3, <1>4, <1>5 DEF Next

(* What the calls of amf3_deserialize and the three tables wait for is     *)
(* what a stream of messages has next, after every step of every call.     *)
THEOREM ReaderInvAlways == Spec => []ReaderInv
<1>1. Init => ReaderInv
  BY InitReads
<1>2. ReaderInv /\ [Next]_vars => ReaderInv'
  BY NextReads
<1> QED
  BY <1>1, <1>2, PTL DEF Spec

(* deserialize returns an object for each whole message of the stream, and *)
(* in incomplete_objects what lies behind the last of them, wherever the   *)
(* stream is cut: its rescue goes back to the @source.pos of the message   *)
(* it was in.                                                              *)
THEOREM SplitsAtMessagesAlways == Spec => []SplitsAtMessages
<1>1. ReaderInv => SplitsAtMessages
  BY DEF ReaderInv, ReadInv, Split, SplitsAtMessages
<1> QED
  BY <1>1, ReaderInvAlways, PTL

(* A stream of messages never makes deserialize fail by itself: no token   *)
(* of it is garbled or refused, no length is negative, no traits are       *)
(* unknown, and it is incomplete only if it was cut inside a message.      *)
(* What else comes out is what the mapper raises for a class it cannot     *)
(* make or a property its object refuses, or Time.at for no finite number. *)
THEOREM OnlyTheCutStopsTheReaderAlways == Spec => OnlyTheCutStopsTheReader
<1> DEFINE Whole ==
             /\ pc' # "garbled"
             /\ failure' \in {"none", "AMFErrorIncomplete", "mapper", "FloatDomainError"}
             /\ failure' = "AMFErrorIncomplete" => Len(source) \notin Ends(source)
<1>1. ASSUME ReaderInv, [Next]_vars, WellFramed(source), InDeserialize PROVE Whole
  <2>1. pc = "reading" /\ failure = "none" /\ (stack = << >> \/ InMessage)
    BY <1>1 DEF InDeserialize, InMessage, ReaderInv, ReadInv, Kept
  <2>2. CASE SourceEnds
    <3>1. InMessage
      BY <2>1, <2>2 DEF SourceEnds, Waiting
    <3>2. pc' = "returned" /\ failure' = "AMFErrorIncomplete"
      BY <2>2, <3>1 DEF SourceEnds, Rescue, LeaveRest
    <3> QED
      BY <1>1, <2>2, <3>1, <3>2, EndsInMessage
  <2>3. ~Refusing
    <3>1. stack = << >> => ~Refusing
      BY RefusingFacts
    <3> QED
      BY <1>1, <2>1, <3>1, NeverGarbled, NeverBadMarker, NeverNegative, NeverUnknown
         DEF ReaderInv, Refusing
  <2>4. CASE Escaping
    BY <2>4, EscapingFacts
  <2>5. CASE Consumes \/ Quiet
    <3>1. UNCHANGED result
      BY <2>5, ConsumesFacts, TakesFacts
    <3> QED
      BY <2>1, <3>1 DEF result
  <2>6. CASE NextMessage \/ TakeMessage \/ EndOfSource \/ ReturnObject \/ UNCHANGED vars
    BY <2>1, <2>6 DEF NextMessage, BeginMessage, TakeMessage, EndOfSource, ReturnObject, result, vars
  <2>7. ~Call /\ ~CallReadObject
    BY <2>1 DEF Call, Deserialize, DeserializeNil, CallReadObject
  <2> QED
    BY <1>1, <2>2, <2>3, <2>4, <2>5, <2>6, <2>7 DEF Next, Step, Consumes, Quiet, Refusing, Escaping
<1>2. ReaderInv /\ [Next]_vars => [WellFramed(source) /\ InDeserialize => Whole]_vars
  BY <1>1
<1> QED
  BY <1>2, ReaderInvAlways, PTL DEF Spec, OnlyTheCutStopsTheReader
=============================================================================
