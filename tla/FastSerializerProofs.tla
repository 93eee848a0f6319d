------------------------ MODULE FastSerializerProofs ------------------------
(***************************************************************************)
(* Proofs about FastSerializer, for any heap, mapper and user code.        *)
(*                                                                         *)
(* As for Serializer, what is pending is what the program, user code and   *)
(* the serializer itself put there.  Here a pending call also has the      *)
(* version it was made in, which is one the message has used; so a         *)
(* message that has used version 3 alone has the tables of version 3, and  *)
(* nothing in it writes an object a second time.                           *)
(***************************************************************************)
EXTENDS FastSerializer, StackLemmas

IsToken(t) == \/ Is("word", t) \/ Is("double", t)
              \/ Is("u16", t) /\ t.u16 \in 0 .. MaxUint16
              \/ Is("u32", t)
              \/ Is("raw", t) /\ t.raw \in Strings \ {EmptyString}
IsTokens(s) == IsSeq(s) /\ \A i \in 1 .. Len(s) : IsToken(s[i])

IsWork(used, c) ==
    \/ c.op = "value" /\ c.ver \in used /\ IsRuby(c.value)
    \/ c.op = "key" /\ c.ver \in used /\ IsRuby(c.key)
    \/ c.op = "close" /\ c.ver \in used
    \/ c.op = "call" /\ IsCall(heap, c.call)
    \/ c.op = "leave"

IsStack(used, s) == IsSeq(s) /\ \A i \in 1 .. Len(s) : IsWork(used, s[i])
IsBody(used, s)  == IsStack(used, s) /\ \A i \in 1 .. Len(s) : s[i].op # "leave"

(* A table has its three fields, and indices below its counter.            *)
IsTab(table, Keys) ==
    /\ table = [made |-> table.made, idx |-> table.idx, next |-> table.next]
    /\ table.made \in BOOLEAN /\ table.next \in Nat
    /\ DOMAIN table.idx \subseteq Keys
    /\ \A k \in DOMAIN table.idx : table.idx[k] \in Nat /\ table.idx[k] < table.next
    /\ ~table.made => table = NoTable

CStrings == {CString[s] : s \in Strings}

WorkInv == /\ heap \in Heaps
           /\ IsTokens(stream)
           /\ version \in {0, 3} /\ versions \subseteq {0, 3}
           /\ IsStack(versions, todo)
           /\ depth # 0 => version \in versions

TablesInv == /\ IsTab(strCache, CStrings) /\ IsTab(traitCache, Strings)
             /\ IsTab(objCache, Objects)
             /\ strCache.made = traitCache.made
             /\ depth # 0 => objCache.made /\ versions # {}
             /\ depth # 0 /\ versions = {3} => strCache.made

DepthInv ==
    /\ depth \in Nat /\ leaked \in Nat /\ leaked <= depth
    /\ failure \in {"none", "raised", "crashed"}
    /\ failure = "crashed" => todo = << >> /\ (depth = 0 \/ versions = {0, 3})
    /\ failure # "crashed" => depth = leaked + Count(todo, "leave")
    /\ todo # << >> => leaked > 0 \/ todo[Len(todo)].op = "leave"
    /\ failure # "crashed" /\ todo = << >>
         /\ (\E table \in {strCache, traitCache, objCache} : table.made) => leaked > 0

(* An ArrayCollection of a message in version 3 takes two indices.         *)
IsWide(o) == versions = {3} /\ heap[o].kind = "array" /\ IsCollection(o)

IndexInv ==
    \A o, r \in DOMAIN objCache.idx :
      /\ IsWide(o) => objCache.idx[o] + 1 < objCache.next
      /\ o # r => /\ objCache.idx[o] # objCache.idx[r]
                  /\ IsWide(o) => objCache.idx[o] + 1 # objCache.idx[r]

IInv == WorkInv /\ TablesInv /\ DepthInv /\ IndexInv

----------------------------------------------------------------------------
(* Sequences of tokens and of calls.                                       *)
LEMMA ListIsSeq == ASSUME NEW s PROVE IsList(s) <=> IsSeq(s)
  BY RangeSeq DEF IsList

LEMMA NoTokens == IsTokens(<< >>)
  BY ShortSeqs, SeqFacts DEF IsTokens

LEMMA OneToken == ASSUME NEW t, IsToken(t) PROVE IsTokens(<<t>>)
  BY ShortSeqs DEF IsTokens

LEMMA TwoTokens ==
    ASSUME NEW t, IsToken(t), NEW u, IsToken(u) PROVE IsTokens(<<t, u>>)
<1> DEFINE s == <<t, u>>
<1>1. IsSeq(s) /\ Len(s) = 2 /\ s[1] = t /\ s[2] = u
  BY ShortSeqs
<1>2. \A i \in 1 .. 2 : i = 1 \/ i = 2
  OBVIOUS
<1> HIDE DEF s
<1>3. IsTokens(s)
  BY <1>1, <1>2 DEF IsTokens
<1> QED
  BY <1>3 DEF s

LEMMA ConcatTokens ==
    ASSUME NEW s, IsTokens(s), NEW t, IsTokens(t) PROVE IsTokens(s \o t)
<1>1. IsSeq(s \o t)
  BY ConcatFacts DEF IsTokens
<1>2. ASSUME NEW i \in 1 .. Len(s \o t) PROVE IsToken((s \o t)[i])
  BY ConcatEntries DEF IsTokens
<1> QED
  BY <1>1, <1>2 DEF IsTokens

LEMMA TokenFacts ==
    /\ \A n : IsToken(Word(n)) /\ IsToken(U32(n))
    /\ \A v : IsToken(Double(v))
    /\ \A n \in 0 .. MaxUint16 : IsToken(U16(n))
    /\ \A s \in Strings : s # EmptyString => IsToken(Raw(s))
<1>1. \A n : IsToken(Word(n)) /\ IsToken(U32(n))
  BY DEF IsToken, Word, U32, Is
<1>2. \A v : IsToken(Double(v))
  BY DEF IsToken, Double, Is
<1>3. \A n \in 0 .. MaxUint16 : IsToken(U16(n))
  BY DEF IsToken, U16, Is
<1>4. \A s \in Strings : s # EmptyString => IsToken(Raw(s))
  BY DEF IsToken, Raw, Is
<1> QED
  BY <1>1, <1>2, <1>3, <1>4

LEMMA ContentTokens == ASSUME NEW s \in Strings PROVE IsTokens(Content(s))
  BY TokenFacts, OneToken, NoTokens DEF Content

LEMMA SizedTokens == ASSUME NEW s \in Strings PROVE IsTokens(Sized(s))
<1> DEFINE size == IF ByteSize[s] > MaxUint16 THEN U32(ByteSize[s]) ELSE U16(ByteSize[s])
<1>1. IsToken(size)
  <2>1. ByteSize[s] \in Nat /\ MaxUint16 \in Nat
    BY StringsAssumption, AMF0Assumption
  <2>2. ~(ByteSize[s] > MaxUint16) => ByteSize[s] \in 0 .. MaxUint16
    BY <2>1
  <2> QED
    BY <2>2, TokenFacts
<1> HIDE DEF size
<1>2. IsTokens(<<size>> \o Content(s))
  BY <1>1, OneToken, ContentTokens, ConcatTokens
<1> QED
  BY <1>2 DEF Sized, size

LEMMA ConcatStack ==
    ASSUME NEW used, NEW s, IsStack(used, s), NEW t, IsStack(used, t)
    PROVE  IsStack(used, s \o t)
<1>1. IsSeq(s \o t)
  BY ConcatFacts DEF IsStack
<1>2. ASSUME NEW i \in 1 .. Len(s \o t) PROVE IsWork(used, (s \o t)[i])
  BY ConcatEntries DEF IsStack
<1> QED
  BY <1>1, <1>2 DEF IsStack

LEMMA ConcatBody ==
    ASSUME NEW used, NEW s, IsBody(used, s), NEW t, IsBody(used, t)
    PROVE  IsBody(used, s \o t)
<1>1. IsStack(used, s \o t)
  BY ConcatStack DEF IsBody
<1>2. ASSUME NEW i \in 1 .. Len(s \o t) PROVE (s \o t)[i].op # "leave"
  BY ConcatEntries DEF IsBody, IsStack
<1> QED
  BY <1>1, <1>2 DEF IsBody

LEMMA TailStack ==
    ASSUME NEW used, NEW s, IsStack(used, s), s # << >> PROVE IsStack(used, Tail(s))
<1>1. /\ Len(s) \in Nat /\ IsSeq(Tail(s)) /\ Len(Tail(s)) = Len(s) - 1
      /\ \A i \in 1 .. Len(s) - 1 : Tail(s)[i] = s[i + 1]
  BY SeqFacts DEF IsStack
<1>2. \A i \in 1 .. Len(s) - 1 : i + 1 \in 1 .. Len(s)
  BY <1>1
<1> QED
  BY <1>1, <1>2 DEF IsStack

LEMMA MoreUsed ==
    ASSUME NEW used, NEW more, used \subseteq more, NEW s, IsStack(used, s)
    PROVE  IsStack(more, s)
  BY DEF IsStack, IsWork

LEMMA NoLeave == ASSUME NEW used, NEW s, IsBody(used, s) PROVE Count(s, "leave") = 0
<1>1. DOMAIN s = 1 .. Len(s)
  BY SeqFacts DEF IsBody, IsStack
<1> QED
  BY <1>1, CountNone DEF IsBody

LEMMA NothingCounted == Count(<< >>, "leave") = 0
<1>1. DOMAIN << >> = {}
  OBVIOUS
<1> QED
  BY <1>1, CountNone

LEMMA WorkKinds ==
    ASSUME NEW used
    PROVE  /\ \A ver \in used : \A v : IsRuby(v) =>
                IsWork(used, Value(ver, v)) /\ Value(ver, v).op # "leave"
           /\ \A ver \in used : \A k : IsRuby(k) =>
                IsWork(used, Key(ver, k)) /\ Key(ver, k).op # "leave"
           /\ \A ver \in used : IsWork(used, Close(ver)) /\ Close(ver).op # "leave"
           /\ \A c : IsCall(heap, c) => IsWork(used, Call(c)) /\ Call(c).op # "leave"
           /\ IsWork(used, Leave) /\ Leave.op = "leave"
<1>1. ASSUME NEW ver \in used, NEW v, IsRuby(v)
      PROVE  IsWork(used, Value(ver, v)) /\ Value(ver, v).op # "leave"
  BY <1>1 DEF Value, IsWork
<1>2. ASSUME NEW ver \in used, NEW k, IsRuby(k)
      PROVE  IsWork(used, Key(ver, k)) /\ Key(ver, k).op # "leave"
  BY <1>2 DEF Key, IsWork
<1>3. ASSUME NEW ver \in used PROVE IsWork(used, Close(ver)) /\ Close(ver).op # "leave"
  BY DEF Close, IsWork
<1>4. ASSUME NEW c, IsCall(heap, c) PROVE IsWork(used, Call(c)) /\ Call(c).op # "leave"
  BY <1>4 DEF Call, IsWork
<1>5. IsWork(used, Leave) /\ Leave.op = "leave"
  BY DEF Leave, IsWork
<1> QED
  BY <1>1, <1>2, <1>3, <1>4, <1>5

LEMMA ShortBodies ==
    ASSUME NEW used
    PROVE  /\ IsBody(used, << >>)
           /\ \A x : IsWork(used, x) /\ x.op # "leave" => IsBody(used, <<x>>)
<1>1. IsBody(used, << >>)
  BY ShortSeqs, SeqFacts DEF IsBody, IsStack
<1>2. ASSUME NEW x, IsWork(used, x), x.op # "leave" PROVE IsBody(used, <<x>>)
  BY <1>2, ShortSeqs DEF IsBody, IsStack
<1> QED
  BY <1>1, <1>2

(* Calls made of the entries of a list, one by one.                        *)
LEMMA FunctionBody ==
    ASSUME NEW used, NEW n \in Nat, NEW s, s = [i \in 1 .. n |-> s[i]],
           \A i \in 1 .. n : IsWork(used, s[i]) /\ s[i].op # "leave"
    PROVE  IsBody(used, s)
<1>1. DOMAIN s = 1 .. n
  OBVIOUS
<1>2. IsSeq(s) /\ Len(s) = n
  BY <1>1, FunctionIsSeq
<1> QED
  BY <1>2 DEF IsBody, IsStack

LEMMA ListFacts ==
    ASSUME NEW s, IsList(s)
    PROVE  IsSeq(s) /\ Len(s) \in Nat /\ DOMAIN s = 1 .. Len(s)
  BY ListIsSeq, SeqFacts

LEMMA ValuesBody ==
    ASSUME NEW used, NEW ver \in used, NEW values, IsValues(values)
    PROVE  IsBody(used, [i \in DOMAIN values |-> Value(ver, values[i])])
<1> DEFINE n == Len(values)
           s == [i \in 1 .. n |-> Value(ver, values[i])]
<1>1. n \in Nat /\ DOMAIN values = 1 .. n /\ \A i \in 1 .. n : IsRuby(values[i])
  BY ListFacts DEF IsValues
<1>2. s = [i \in 1 .. n |-> s[i]] /\ \A i \in 1 .. n : s[i] = Value(ver, values[i])
  OBVIOUS
<1> HIDE DEF s, n
<1>3. \A i \in 1 .. n : IsWork(used, s[i]) /\ s[i].op # "leave"
  BY <1>1, <1>2, WorkKinds
<1>4. IsBody(used, s)
  BY <1>1, <1>2, <1>3, FunctionBody
<1> QED
  BY <1>1, <1>4 DEF s

LEMMA KeysBody ==
    ASSUME NEW used, NEW ver \in used, NEW values, IsValues(values)
    PROVE  IsBody(used, [i \in DOMAIN values |-> Key(ver, values[i])])
<1> DEFINE n == Len(values)
           s == [i \in 1 .. n |-> Key(ver, values[i])]
<1>1. n \in Nat /\ DOMAIN values = 1 .. n /\ \A i \in 1 .. n : IsRuby(values[i])
  BY ListFacts DEF IsValues
<1>2. s = [i \in 1 .. n |-> s[i]] /\ \A i \in 1 .. n : s[i] = Key(ver, values[i])
  OBVIOUS
<1> HIDE DEF s, n
<1>3. \A i \in 1 .. n : IsWork(used, s[i]) /\ s[i].op # "leave"
  <2>1. ASSUME NEW i \in 1 .. n PROVE IsWork(used, s[i]) /\ s[i].op # "leave"
    <3>1. s[i] = Key(ver, values[i]) /\ IsRuby(values[i])
      BY <1>1, <1>2
    <3> QED
      BY <3>1, WorkKinds
  <2> QED
    BY <2>1
<1>4. IsBody(used, s)
  BY <1>1, <1>2, <1>3, FunctionBody
<1> QED
  BY <1>1, <1>4 DEF s

LEMMA CallsBody ==
    ASSUME NEW used, NEW made, IsCalls(heap, made)
    PROVE  IsBody(used, [i \in DOMAIN made |-> Call(made[i])])
<1> DEFINE n == Len(made)
           s == [i \in 1 .. n |-> Call(made[i])]
<1>1. n \in Nat /\ DOMAIN made = 1 .. n /\ \A i \in 1 .. n : IsCall(heap, made[i])
  BY ListFacts DEF IsCalls
<1>2. s = [i \in 1 .. n |-> s[i]] /\ \A i \in 1 .. n : s[i] = Call(made[i])
  OBVIOUS
<1> HIDE DEF s, n
<1>3. \A i \in 1 .. n : IsWork(used, s[i]) /\ s[i].op # "leave"
  BY <1>1, <1>2, WorkKinds
<1>4. IsBody(used, s)
  BY <1>1, <1>2, <1>3, FunctionBody
<1> QED
  BY <1>1, <1>4 DEF s

LEMMA EntriesBody ==
    ASSUME NEW used, NEW ver \in used, NEW pairs, IsPairs(pairs)
    PROVE  IsBody(used, Entries(ver, pairs))
<1> DEFINE n == 2 * Len(pairs)
           Entry(i) == IF i % 2 = 1 THEN Key(ver, pairs[(i + 1) \div 2][1])
                                    ELSE Value(ver, pairs[i \div 2][2])
           s == [i \in 1 .. n |-> Entry(i)]
<1>1. /\ Len(pairs) \in Nat
      /\ \A i \in 1 .. Len(pairs) : IsRuby(pairs[i][1]) /\ IsRuby(pairs[i][2])
  BY ListFacts DEF IsPairs
<1>2. n \in Nat
  BY <1>1
<1>3. s = [i \in 1 .. n |-> s[i]] /\ \A i \in 1 .. n : s[i] = Entry(i)
  OBVIOUS
<1>4. ASSUME NEW i \in 1 .. n PROVE IsWork(used, Entry(i)) /\ Entry(i).op # "leave"
  <2>1. CASE i % 2 = 1
    <3>1. (i + 1) \div 2 \in 1 .. Len(pairs)
      BY <1>1, <2>1
    <3>2. IsRuby(pairs[(i + 1) \div 2][1])
      BY <1>1, <3>1
    <3>3. Entry(i) = Key(ver, pairs[(i + 1) \div 2][1])
      BY <2>1
    <3> HIDE DEF Entry
    <3> QED
      BY <3>2, <3>3, WorkKinds
  <2>2. CASE i % 2 # 1
    <3>1. i \div 2 \in 1 .. Len(pairs)
      BY <1>1, <2>2
    <3>2. IsRuby(pairs[i \div 2][2])
      BY <1>1, <3>1
    <3>3. Entry(i) = Value(ver, pairs[i \div 2][2])
      BY <2>2
    <3> HIDE DEF Entry
    <3> QED
      BY <3>2, <3>3, WorkKinds
  <2> QED
    BY <2>1, <2>2
<1>5. Entries(ver, pairs) = s \o <<Close(ver)>>
  BY DEF Entries
<1> HIDE DEF s, n, Entry
<1>6. IsBody(used, s)
  BY <1>2, <1>3, <1>4, FunctionBody
<1>7. IsBody(used, <<Close(ver)>>)
  BY WorkKinds, ShortBodies
<1> QED
  BY <1>5, <1>6, <1>7, ConcatBody
----------------------------------------------------------------------------
(* Values and properties.                                                  *)
LEMMA RubyTags ==
    ASSUME NEW v, IsRuby(v)
    PROVE  /\ Is("str", v) => v.str \in Strings
           /\ Is("sym", v) => v.sym \in Strings
           /\ Is("ref", v) => v.ref \in Objects
<1>1. CASE v \in {Nil, True, False}
  BY <1>1 DEF Nil, True, False, Is
<1>2. CASE IsText(v)
  BY <1>2 DEF IsText, Is, Str, Sym
<1>3. CASE DOMAIN v \in {{"num"}, {"float"}}
  BY <1>3 DEF Is
<1>4. CASE \E o \in Objects : v = Ref(o)
  BY <1>4 DEF Ref, Is
<1> QED
  BY <1>1, <1>2, <1>3, <1>4 DEF IsRuby

LEMMA TextType ==
    ASSUME NEW k, IsRuby(k), Writable(k) PROVE TextOf(k) \in Strings
<1>1. EmptyString \in Strings /\ \A s \in Strings : CString[s] \in Strings
  BY StringsAssumption, AMF0Assumption
<1> QED
  BY <1>1, RubyTags DEF Writable, TextOf

LEMMA PairsFacts ==
    ASSUME NEW pairs, IsPairs(pairs)
    PROVE  /\ IsSeq(pairs) /\ Len(pairs) \in Nat /\ DOMAIN pairs = 1 .. Len(pairs)
           /\ \A i \in 1 .. Len(pairs) : IsRuby(pairs[i][1]) /\ IsRuby(pairs[i][2])
  BY ListFacts DEF IsPairs

LEMMA FetchRuby ==
    ASSUME NEW pairs, IsPairs(pairs), NEW key PROVE IsRuby(Fetch(pairs, key))
<1> DEFINE at == {i \in DOMAIN pairs : pairs[i][1] = key}
<1>1. CASE at = {}
  BY <1>1 DEF Fetch, IsRuby
<1>2. CASE at # {}
  <2> DEFINE i == CHOOSE i \in at : TRUE
  <2>1. i \in DOMAIN pairs
    BY <1>2
  <2>2. Fetch(pairs, key) = pairs[i][2]
    BY <1>2 DEF Fetch
  <2> HIDE DEF i
  <2> QED
    BY <2>1, <2>2 DEF IsPairs
<1> QED
  BY <1>1, <1>2

(* What is left of the properties are properties.                          *)
LEMMA DynamicPairs ==
    ASSUME NEW props, IsPairs(props), NEW members PROVE IsPairs(Dynamic(props, members))
<1> DEFINE n == Len(props)
           P == {props[i] : i \in 1 .. n}
           T == Seq(P)
           After(s, i) == IF \E j \in DOMAIN members : props[i][1] = members[j] THEN s
                          ELSE Append(s, props[i])
           F == [p \in T \X (1 .. n) |-> After(p[1], p[2])]
           others == CHOOSE others :
                       others = [i \in 0 .. n |-> IF i = 0 THEN << >>
                                                  ELSE After(others[i - 1], i)]
<1>1. n \in Nat /\ \A p \in P : IsRuby(p[1]) /\ IsRuby(p[2])
  BY PairsFacts
<1>2. << >> \in T
  OBVIOUS
<1>3. ASSUME NEW s \in T, NEW i \in 1 .. n PROVE After(s, i) \in T
  <2>1. props[i] \in P
    OBVIOUS
  <2> HIDE DEF P
  <2> QED
    BY <2>1
<1> HIDE DEF After, T, n
<1>4. F \in StepOver(n, T)
  BY <1>3 DEF StepOver
<1>5. PICK h \in [0 .. n -> T] : Solves(h, n, << >>, F)
  <2> HIDE DEF F
  <2> QED
    BY <1>1, <1>2, <1>4, RecursionSolved
<1>6. \A i \in 0 .. n : h[i] = IF i = 0 THEN << >> ELSE After(h[i - 1], i)
  <2>1. ASSUME NEW i \in 1 .. n PROVE h[i] = After(h[i - 1], i)
    <3>1. i - 1 \in 0 .. n
      BY <1>1
    <3>2. F[<<h[i - 1], i>>] = After(h[i - 1], i)
      BY <3>1
    <3> HIDE DEF F
    <3> QED
      BY <1>5, <3>2 DEF Solves
  <2> HIDE DEF F
  <2> QED
    BY <1>1, <1>5, <2>1 DEF Solves
<1> HIDE DEF F
<1>7. h = [i \in 0 .. n |-> IF i = 0 THEN << >> ELSE After(h[i - 1], i)]
  BY <1>6
<1>8. others = [i \in 0 .. n |-> IF i = 0 THEN << >> ELSE After(others[i - 1], i)]
  BY <1>7
<1> HIDE DEF others
<1> DEFINE S == {i \in Nat : i <= n => others[i] \in T}
<1>9. 0 \in S
  BY <1>1, <1>2, <1>8
<1>10. ASSUME NEW i \in Nat, i \in S PROVE i + 1 \in S
  <2> SUFFICES ASSUME i + 1 <= n PROVE others[i + 1] \in T
    OBVIOUS
  <2>1. i + 1 \in 1 .. n /\ (i + 1) - 1 = i /\ i + 1 \in 0 .. n /\ i + 1 # 0
    BY <1>1
  <2>2. others[i] \in T
    BY <1>1, <1>10, <2>1
  <2>3. others[i + 1] = After(others[(i + 1) - 1], i + 1)
    BY <1>8, <2>1
  <2> QED
    BY <1>3, <2>1, <2>2, <2>3
<1>11. others[n] \in T
  <2>1. Nat \subseteq S
    <3> HIDE DEF S
    <3> QED
      BY <1>9, <1>10, SetInduction
  <2> QED
    BY <1>1, <2>1
<1>12. IsPairs(others[n])
  <2>1. others[n] \in Seq(P)
    BY <1>11 DEF T
  <2>2. IsList(others[n])
    BY <2>1, ListIsSeq DEF IsSeq
  <2>3. \A i \in DOMAIN others[n] : others[n][i] \in P
    <3> HIDE DEF P
    <3> QED
      BY <2>1
  <2> HIDE DEF P
  <2> QED
    BY <1>1, <2>2, <2>3 DEF IsPairs
<1>13. Dynamic(props, members) = others[n]
  BY DEF Dynamic, others, After, n
<1> QED
  BY <1>12, <1>13

LEMMA StoredObject == ASSUME WorkInv, NEW o \in Objects PROVE IsStored(heap, heap[o])
  BY FastSerializerAssumption DEF WorkInv, IsHeap

IsGiven(given) == \/ given = Nil
                  \/ \E p \in Objects : given = Ref(p) /\ heap[p].kind = "hash"
                  \/ DOMAIN given = {"pairs"} /\ IsPairs(given.pairs)

LEMMA PropsPairs ==
    ASSUME WorkInv, NEW o \in Objects, heap[o].kind \in {"hash", "typed", "object"},
           NEW given, IsGiven(given)
    PROVE  IsPairs(Props(o, given))
<1>1. CASE given = Nil
  BY <1>1, StoredObject DEF Props, IsStored
<1>2. CASE \E p \in Objects : given = Ref(p) /\ heap[p].kind = "hash"
  <2>1. PICK p \in Objects : given = Ref(p) /\ heap[p].kind = "hash"
    BY <1>2
  <2>2. given # Nil /\ Is("ref", given) /\ given.ref = p
    BY <2>1 DEF Is, Ref, Nil
  <2>3. IsPairs(heap[p].pairs)
    BY <2>1, StoredObject DEF IsStored
  <2> QED
    BY <2>2, <2>3 DEF Props
<1>3. CASE DOMAIN given = {"pairs"} /\ IsPairs(given.pairs)
  <2>1. given # Nil /\ ~Is("ref", given)
    BY <1>3 DEF Is, Nil
  <2> QED
    BY <1>3, <2>1 DEF Props
<1> QED
  BY <1>1, <1>2, <1>3 DEF IsGiven

LEMMA Body3Body ==
    ASSUME WorkInv, NEW o \in Objects, NEW props, IsPairs(props), NEW traits,
           IsValues(traits.members), 3 \in versions
    PROVE  IsBody(versions, Body3(o, props, traits))
<1> DEFINE members == traits.members
           external == [i \in DOMAIN heap[o].external |-> Call(heap[o].external[i])]
           raise == Call([name |-> "raise"])
           values == [i \in DOMAIN members |-> Value(3, Fetch(props, members[i]))]
           dynamic == Entries(3, Dynamic(props, members))
<1>1. Is("external", heap[o]) => IsBody(versions, external)
  BY StoredObject, CallsBody DEF IsStored
<1>2. IsBody(versions, <<raise>>)
  <2>1. IsCall(heap, [name |-> "raise"])
    BY DEF IsCall
  <2> QED
    BY <2>1, WorkKinds, ShortBodies
<1>3. IsBody(versions, values)
  <2> DEFINE n == Len(members)
             s == [i \in 1 .. n |-> Value(3, Fetch(props, members[i]))]
  <2>1. n \in Nat /\ DOMAIN members = 1 .. n
    BY ListFacts DEF IsValues
  <2>2. s = [i \in 1 .. n |-> s[i]]
        /\ \A i \in 1 .. n : s[i] = Value(3, Fetch(props, members[i]))
    OBVIOUS
  <2> HIDE DEF s, n
  <2>3. \A i \in 1 .. n : IsWork(versions, s[i]) /\ s[i].op # "leave"
    <3>1. ASSUME NEW i \in 1 .. n PROVE IsWork(versions, s[i]) /\ s[i].op # "leave"
      <4>1. s[i] = Value(3, Fetch(props, members[i])) /\ IsRuby(Fetch(props, members[i]))
        BY <2>2, FetchRuby
      <4> QED
        BY <4>1, WorkKinds
    <3> QED
      BY <3>1
  <2>4. IsBody(versions, s)
    BY <2>1, <2>2, <2>3, FunctionBody
  <2> QED
    BY <2>1, <2>4 DEF s
<1>4. IsBody(versions, dynamic)
  BY DynamicPairs, EntriesBody
<1>5. IsBody(versions, << >>)
  BY ShortBodies
<1>6. Body3(o, props, traits) =
        IF traits.externalizable
        THEN IF Is("external", heap[o]) THEN external ELSE <<raise>>
        ELSE values \o (IF traits.dynamic THEN dynamic ELSE << >>)
  BY DEF Body3
<1> HIDE DEF external, raise, values, dynamic
<1> QED
  BY <1>1, <1>2, <1>3, <1>4, <1>5, <1>6, ConcatBody

----------------------------------------------------------------------------
(* The tables.                                                             *)
LEMMA InsertFields ==
    ASSUME NEW table, NEW Keys, IsTab(table, Keys), NEW key, NEW taken
    PROVE  Insert(table, key, taken) = [made |-> table.made,
                                        idx  |-> Store(table.idx, key, table.next),
                                        next |-> table.next + taken]
<1>1. table = [made |-> table.made, idx |-> table.idx, next |-> table.next]
  BY DEF IsTab
<1> DEFINE m == table.made
           f == table.idx
           n == table.next
<1> HIDE DEF m, f, n
<1>2. table = [made |-> m, idx |-> f, next |-> n]
  BY <1>1 DEF m, f, n
<1>3. Insert(table, key, taken) = [table EXCEPT !.idx = Store(table.idx, key, table.next),
                                               !.next = table.next + taken]
  BY DEF Insert
<1>4. Insert(table, key, taken) = [made |-> m, idx |-> Store(f, key, n), next |-> n + taken]
  BY <1>2, <1>3
<1> QED
  BY <1>4 DEF m, f, n

LEMMA InsertTab ==
    ASSUME NEW table, NEW Keys, IsTab(table, Keys), table.made,
           NEW key \in Keys, NEW taken \in {1, 2}
    PROVE  LET later == Insert(table, key, taken)
           IN  /\ IsTab(later, Keys) /\ later.made = table.made
               /\ later.next = table.next + taken
               /\ DOMAIN later.idx = DOMAIN table.idx \cup {key}
               /\ later.idx[key] = table.next
               /\ \A k \in DOMAIN table.idx : k # key => later.idx[k] = table.idx[k]
<1> DEFINE later == Insert(table, key, taken)
           f == table.idx
           n == table.next
           g == Store(f, key, n)
<1>1. /\ later.made = table.made /\ later.idx = g /\ later.next = n + taken
      /\ later = [made |-> later.made, idx |-> later.idx, next |-> later.next]
  <2> DEFINE m == table.made
             x == n + taken
  <2>1. later = [made |-> m, idx |-> g, next |-> x]
    BY InsertFields
  <2> HIDE DEF later, m, g, x
  <2>2. /\ later.made = m /\ later.idx = g /\ later.next = x
        /\ later = [made |-> later.made, idx |-> later.idx, next |-> later.next]
    BY <2>1
  <2> QED
    BY <2>2 DEF m, x
<1>2. /\ n \in Nat /\ DOMAIN f \subseteq Keys /\ table.made \in BOOLEAN
      /\ \A k \in DOMAIN f : f[k] \in Nat /\ f[k] < n
  BY DEF IsTab
<1>3. /\ DOMAIN g = DOMAIN f \cup {key} /\ g[key] = n
      /\ \A k \in DOMAIN f : k # key => g[k] = f[k]
  BY DEF Store
<1> HIDE DEF later, f, n, g
<1>4. \A k \in DOMAIN g : g[k] \in Nat /\ g[k] < n + taken
  BY <1>2, <1>3
<1>5. n + taken \in Nat
  BY <1>2
<1>6. IsTab(later, Keys)
  BY <1>1, <1>2, <1>3, <1>4, <1>5 DEF IsTab
<1> QED
  BY <1>1, <1>3, <1>6 DEF later, f, n

LEMMA NewTabs ==
    ASSUME NEW Keys
    PROVE  /\ IsTab(NoTable, Keys) /\ ~NoTable.made /\ NoTable.idx = << >>
           /\ IsTab(NewTable, Keys) /\ NewTable.made /\ NewTable.idx = << >>
<1>1. NewTable = [made |-> TRUE, idx |-> << >>, next |-> 0]
  <2>1. \A a, b, f, n : [[made |-> a, idx |-> f, next |-> n] EXCEPT !.made = b]
                        = [made |-> b, idx |-> f, next |-> n]
    OBVIOUS
  <2>2. NewTable = [NoTable EXCEPT !.made = TRUE]
    BY DEF NewTable
  <2>3. NoTable = [made |-> FALSE, idx |-> << >>, next |-> 0]
    BY DEF NoTable
  <2> QED
    BY <2>1, <2>2, <2>3, Zenon
<1>2. DOMAIN << >> = {}
  OBVIOUS
<1> QED
  BY <1>1, <1>2 DEF IsTab, NoTable

----------------------------------------------------------------------------
(* The steps of the innermost call: they write tokens, leave calls of      *)
(* their own kind to do, and add to the tables.                            *)
Writes == \E tokens : IsTokens(tokens) /\ Emit(tokens)
Leaves == \E calls : IsBody(versions, calls) /\ Do(calls)

Grown(table, later, Keys) ==
    \/ later = table
    \/ \E key \in Keys : table.made /\ ~Known(table, key) /\ later = Insert(table, key, 1)

(* AMF0 adds an object it has again, at the end.                           *)
Added == \E o \in Objects, taken \in {1, 2} :
           /\ ~Known(objCache, o) /\ (IsWide(o) => taken = 2)
           /\ objCache' = Insert(objCache, o, taken)

AddedAgain == \E o \in Objects :
                \/ objCache' = Insert(objCache, o, 1)
                \/ objCache' = [objCache EXCEPT !.next = @ + 1]

ObjectsGrown == \/ UNCHANGED objCache
                \/ Added
                \/ 0 \in versions /\ AddedAgain

WorkStep == /\ Writes \/ UNCHANGED stream
            /\ Leaves
            /\ Grown(strCache, strCache', CStrings)
            /\ Grown(traitCache, traitCache', Strings)
            /\ ObjectsGrown
            /\ Steady

LEMMA HeadWork == ASSUME WorkInv, todo # << >> PROVE IsWork(versions, Head(todo))
<1>1. IsSeq(todo) /\ \A i \in 1 .. Len(todo) : IsWork(versions, todo[i])
  BY DEF WorkInv, IsStack
<1>2. 1 \in 1 .. Len(todo) /\ Head(todo) = todo[1]
  BY <1>1, SeqFacts
<1> QED
  BY <1>1, <1>2

LEMMA HeadValue ==
    ASSUME WorkInv, NEW ver, NEW tag, IsValue(ver, tag)
    PROVE  ver \in versions /\ IsRuby(V) /\ Is(tag, V)
<1>1. /\ todo # << >> /\ Head(todo).op = "value" /\ Head(todo).ver = ver /\ Is(tag, V)
  BY DEF IsValue, Pending, V
<1>2. IsWork(versions, Head(todo))
  BY <1>1, HeadWork
<1> QED
  BY <1>1, <1>2 DEF IsWork, V

LEMMA HeadObject ==
    ASSUME WorkInv, NEW ver, NEW kinds, IsObject(ver, kinds)
    PROVE  ver \in versions /\ V.ref \in Objects /\ heap[V.ref].kind \in kinds
<1>1. IsValue(ver, "ref") /\ heap[V.ref].kind \in kinds
  BY DEF IsObject
<1> QED
  BY <1>1, HeadValue, RubyTags

LEMMA HeadKey ==
    ASSUME WorkInv, Pending("key")
    PROVE  Head(todo).ver \in versions /\ IsRuby(Head(todo).key)
  BY HeadWork DEF Pending, IsWork

LEMMA HeadCall ==
    ASSUME WorkInv, NEW name, Calling(name) PROVE IsCall(heap, C) /\ C.name = name
<1>1. todo # << >> /\ Head(todo).op = "call" /\ C.name = name
  BY DEF Calling, Pending, C
<1>2. IsWork(versions, Head(todo))
  BY <1>1, HeadWork
<1> QED
  BY <1>1, <1>2 DEF IsWork, C

LEMMA TokenStep ==
    ASSUME WorkInv, NEW tokens, IsTokens(tokens), Emit(tokens), Do(<< >>), Same
    PROVE  WorkStep
<1>1. Writes /\ Leaves
  BY ShortBodies DEF Writes, Leaves
<1> QED
  BY <1>1 DEF WorkStep, Same, Grown, ObjectsGrown, caches

(* AMF0: scalars, references and dates,                                    *)
LEMMA Scalar0Step ==
    ASSUME WorkInv, TablesInv,
           Write0Const \/ Write0Number \/ Write0String \/ Write0Key \/ Write0Reference
           \/ Write0Date
    PROVE  WorkStep
<1>1. CASE Write0Const
  <2> DEFINE tokens == IF V = Nil THEN <<Word(AMF0_NULL_MARKER)>>
                       ELSE <<Word(AMF0_BOOLEAN_MARKER), Word(IF V = True THEN 1 ELSE 0)>>
  <2>1. IsTokens(tokens)
    BY TokenFacts, OneToken, TwoTokens
  <2>2. Emit(tokens) /\ Do(<< >>) /\ Same
    BY <1>1 DEF Write0Const
  <2> HIDE DEF tokens
  <2> QED
    BY <2>1, <2>2, TokenStep
<1>2. CASE Write0Number
  BY <1>2, TokenFacts, TwoTokens, TokenStep DEF Write0Number
<1>3. CASE Write0String
  <2> DEFINE mark == <<Word(IF ByteSize[TextOf(V)] > MaxUint16
                            THEN AMF0_LONG_STRING_MARKER ELSE AMF0_STRING_MARKER)>>
             tokens == mark \o Sized(TextOf(V))
  <2>1. /\ IsValue(0, "str") \/ IsValue(0, "sym")
        /\ Writable(V) /\ Emit(tokens) /\ Do(<< >>) /\ Same
    BY <1>3 DEF Write0String
  <2>2. TextOf(V) \in Strings
    BY <2>1, HeadValue, TextType
  <2>3. IsTokens(mark)
    BY TokenFacts, OneToken
  <2>4. IsTokens(tokens)
    BY <2>2, <2>3, SizedTokens, ConcatTokens
  <2> HIDE DEF tokens, mark
  <2> QED
    BY <2>1, <2>4, TokenStep
<1>4. CASE Write0Key
  <2>1. TextOf(Head(todo).key) \in Strings
    BY <1>4, HeadKey, TextType DEF Write0Key
  <2> QED
    BY <1>4, <2>1, SizedTokens, TokenStep DEF Write0Key
<1>5. CASE Write0Reference
  <2> DEFINE i == objCache.idx[V.ref]
  <2>1. i \in 0 .. MaxUint16
    <3>1. i \in Nat /\ i <= MaxUint16 /\ MaxUint16 \in Nat
      BY <1>5, AMF0Assumption DEF Write0Reference, Known, TablesInv, IsTab
    <3> HIDE DEF i
    <3> QED
      BY <3>1
  <2>2. IsTokens(<<Word(AMF0_REFERENCE_MARKER), U16(i)>>)
    BY <2>1, TokenFacts, TwoTokens
  <2> QED
    BY <1>5, <2>2, TokenStep DEF Write0Reference
<1>6. CASE Write0Date
  <2> DEFINE first == <<Word(AMF0_DATE_MARKER), Double(Num(heap[V.ref].at))>>
             tokens == <<Word(AMF0_DATE_MARKER), Double(Num(heap[V.ref].at)), U16(0)>>
  <2>1. IsTokens(first) /\ IsTokens(<<U16(0)>>)
    BY TokenFacts, OneToken, TwoTokens, AMF0Assumption
  <2>2. tokens = first \o <<U16(0)>>
    <3>1. \A x, y, z : <<x, y, z>> = <<x, y>> \o <<z>>
      OBVIOUS
    <3> QED
      BY <3>1
  <2>3. IsTokens(tokens)
    BY <2>1, <2>2, ConcatTokens
  <2>4. Emit(tokens) /\ Do(<< >>) /\ Same
    BY <1>6 DEF Write0Date
  <2> HIDE DEF tokens
  <2> QED
    BY <2>3, <2>4, TokenStep
<1> QED
  BY <1>1, <1>2, <1>3, <1>4, <1>5, <1>6

(* AMF0: arrays and objects, which are added without a look at the table,  *)
LEMMA DirectGrown ==
    ASSUME NEW o \in Objects, AddDirect(o), 0 \in versions
    PROVE  /\ ObjectsGrown
           /\ Grown(strCache, strCache', CStrings) /\ Grown(traitCache, traitCache', Strings)
  BY DEF AddDirect, ObjectsGrown, AddedAgain, Grown

LEMMA Array0Step ==
    ASSUME WorkInv, NEW o \in Objects, heap[o].kind = "array", 0 \in versions, Array0(o)
    PROVE  WorkStep
<1>1. /\ AddDirect(o)
      /\ Emit(<<Word(AMF0_STRICT_ARRAY_MARKER), U32(Len(heap[o].elems))>>)
      /\ Do([i \in DOMAIN heap[o].elems |-> Value(0, heap[o].elems[i])])
      /\ Steady
  BY DEF Array0
<1>2. IsValues(heap[o].elems)
  BY StoredObject DEF IsStored
<1>3. Writes
  BY <1>1, TokenFacts, TwoTokens DEF Writes
<1>4. Leaves
  BY <1>1, <1>2, ValuesBody DEF Leaves
<1> QED
  BY <1>1, <1>3, <1>4, DirectGrown DEF WorkStep

LEMMA ClassNameType ==
    ASSUME WorkInv, NEW o \in Objects, heap[o].kind \in {"hash", "typed", "object"}
    PROVE  AsClassName(o) \in Strings \cup {NoName}
  BY StoredObject DEF IsStored, AsClassName

LEMMA Object0Step ==
    ASSUME WorkInv, NEW o \in Objects, heap[o].kind \in {"hash", "typed", "object"},
           NEW given, IsGiven(given), 0 \in versions, Object0(o, given)
    PROVE  WorkStep
<1> DEFINE tokens == IF AsClassName(o) = NoName THEN <<Word(AMF0_OBJECT_MARKER)>>
                     ELSE <<Word(AMF0_TYPED_OBJECT_MARKER)>> \o Sized(AsClassName(o))
<1>1. /\ AddDirect(o) /\ Emit(tokens) /\ Do(Entries(0, Props(o, given))) /\ Steady
  BY DEF Object0
<1>2. IsTokens(tokens)
  BY ClassNameType, TokenFacts, OneToken, SizedTokens, ConcatTokens
<1> HIDE DEF tokens
<1>3. Writes
  BY <1>1, <1>2 DEF Writes
<1>4. Leaves
  BY <1>1, PropsPairs, EntriesBody DEF Leaves
<1> QED
  BY <1>1, <1>3, <1>4, DirectGrown DEF WorkStep

LEMMA Complex0Step ==
    ASSUME WorkInv, Write0Array \/ Write0Object PROVE WorkStep
<1>1. CASE Write0Array
  BY <1>1, HeadObject, Array0Step DEF Write0Array, IsNew0
<1>2. CASE Write0Object
  <2>1. IsGiven(Nil)
    BY DEF IsGiven
  <2> QED
    BY <1>2, <2>1, HeadObject, Object0Step DEF Write0Object, IsNew0
<1> QED
  BY <1>1, <1>2

(* what is written as nothing, the ends of objects, and user code,         *)
LEMMA SilentStep ==
    ASSUME WorkInv, Write0Nothing \/ Write3Nothing \/ WriteClose \/ EncodeAmf
    PROVE  WorkStep
<1>1. CASE Write0Nothing \/ Write3Nothing
  <2>1. Leaves /\ UNCHANGED stream /\ Same
    BY <1>1, ShortBodies DEF Write0Nothing, Write3Nothing, Leaves
  <2> QED
    BY <2>1 DEF WorkStep, Same, Grown, ObjectsGrown, caches
<1>2. CASE WriteClose
  <2> DEFINE tokens == IF Head(todo).ver = 0 THEN <<U16(0), Word(AMF0_OBJECT_END_MARKER)>>
                                             ELSE <<Word(EMPTY_STRING)>>
  <2>1. IsTokens(tokens)
    BY TokenFacts, OneToken, TwoTokens, AMF0Assumption
  <2>2. Emit(tokens) /\ Do(<< >>) /\ Same
    BY <1>2 DEF WriteClose
  <2> HIDE DEF tokens
  <2> QED
    BY <2>1, <2>2, TokenStep
<1>3. CASE EncodeAmf
  <2> DEFINE o == V.ref
             made == heap[o].calls
  <2>1. /\ todo # << >> /\ Head(todo).op = "value" /\ Is("ref", V) /\ Is("calls", heap[o])
        /\ UNCHANGED stream /\ Do([i \in DOMAIN made |-> Call(made[i])]) /\ Same
    BY <1>3 DEF EncodeAmf, Pending, Encodes
  <2>2. o \in Objects
    <3>1. IsRuby(V)
      BY <2>1, HeadWork DEF IsWork, V
    <3> QED
      BY <2>1, <3>1, RubyTags
  <2>3. IsCalls(heap, made)
    BY <2>1, <2>2, StoredObject DEF IsStored
  <2> HIDE DEF o, made
  <2>4. Leaves
    BY <2>1, <2>3, CallsBody DEF Leaves
  <2> QED
    BY <2>1, <2>4 DEF WorkStep, Same, Grown, ObjectsGrown, caches
<1> QED
  BY <1>1, <1>2, <1>3

(* AMF3: scalars and strings,                                              *)
LEMMA Utf8Grown ==
    ASSUME NEW s \in Strings, s # EmptyString => strCache.made,
           NEW prefix, IsTokens(prefix), NEW suffix, IsTokens(suffix),
           WriteUtf8(s, prefix, suffix)
    PROVE  Writes /\ Grown(strCache, strCache', CStrings)
<1>1. CASE Emit(prefix \o <<Word(EMPTY_STRING)>> \o suffix) /\ UNCHANGED strCache
  BY <1>1, TokenFacts, OneToken, ConcatTokens DEF Writes, Grown
<1>2. CASE /\ Emit(prefix \o <<Reference(strCache, CString[s])>> \o suffix)
           /\ UNCHANGED strCache
  <2>1. IsTokens(<<Reference(strCache, CString[s])>>)
    BY TokenFacts, OneToken DEF Reference
  <2> QED
    BY <1>2, <2>1, ConcatTokens DEF Writes, Grown
<1>3. CASE /\ s # EmptyString /\ ~Known(strCache, CString[s])
           /\ Emit(prefix \o <<Header(ByteSize[s]), Raw(s)>> \o suffix)
           /\ strCache' = Insert(strCache, CString[s], 1)
  <2>1. IsTokens(<<Header(ByteSize[s]), Raw(s)>>)
    BY <1>3, TokenFacts, TwoTokens DEF Header
  <2>2. CString[s] \in CStrings
    BY DEF CStrings
  <2> QED
    BY <1>3, <2>1, <2>2, ConcatTokens DEF Writes, Grown
<1> QED
  BY <1>1, <1>2, <1>3 DEF WriteUtf8

LEMMA Scalar3Step ==
    ASSUME WorkInv, Write3Const \/ Write3Numeric \/ Write3String \/ Write3Key
    PROVE  WorkStep
<1>1. CASE Write3Const
  BY <1>1, TokenFacts, OneToken, TokenStep DEF Write3Const
<1>2. CASE Write3Numeric
  <2> DEFINE tokens == IF ~Is("num", V) \/ V.num < MIN_INTEGER \/ V.num > MAX_INTEGER
                       THEN <<Word(DOUBLE_MARKER), Double(V)>>
                       ELSE <<Word(INTEGER_MARKER), Word(V.num)>>
  <2>1. IsTokens(tokens)
    BY TokenFacts, TwoTokens
  <2>2. Emit(tokens) /\ Do(<< >>) /\ Same
    BY <1>2 DEF Write3Numeric
  <2> HIDE DEF tokens
  <2> QED
    BY <2>1, <2>2, TokenStep
<1>3. CASE Write3String
  <2>1. /\ IsValue(3, "str") \/ IsValue(3, "sym")
        /\ Writable(V) /\ ~NeedsStrings(TextOf(V))
        /\ WriteUtf8(TextOf(V), <<Word(STRING_MARKER)>>, << >>)
        /\ Do(<< >>) /\ UNCHANGED <<objCache, traitCache>> /\ Steady
    BY <1>3 DEF Write3String
  <2>2. TextOf(V) \in Strings
    BY <2>1, HeadValue, TextType
  <2>3. IsTokens(<<Word(STRING_MARKER)>>)
    BY TokenFacts, OneToken
  <2>4. Writes /\ Grown(strCache, strCache', CStrings)
    BY <2>1, <2>2, <2>3, NoTokens, Utf8Grown DEF NeedsStrings
  <2> QED
    BY <2>1, <2>4, ShortBodies DEF WorkStep, Leaves, Grown, ObjectsGrown
<1>4. CASE Write3Key
  <2> DEFINE k == Head(todo).key
  <2>1. /\ Pending("key") /\ Writable(k) /\ ~NeedsStrings(TextOf(k))
        /\ WriteUtf8(TextOf(k), << >>, << >>)
        /\ Do(<< >>) /\ UNCHANGED <<objCache, traitCache>> /\ Steady
    BY <1>4 DEF Write3Key
  <2>2. TextOf(k) \in Strings
    BY <2>1, HeadKey, TextType
  <2> HIDE DEF k
  <2>3. Writes /\ Grown(strCache, strCache', CStrings)
    BY <2>1, <2>2, NoTokens, Utf8Grown DEF NeedsStrings
  <2> QED
    BY <2>1, <2>3, ShortBodies DEF WorkStep, Leaves, Grown, ObjectsGrown
<1> QED
  BY <1>1, <1>2, <1>3, <1>4

(* AMF3: references, dates and byte arrays,                                *)
LEMMA ReferenceStep ==
    ASSUME WorkInv, NEW marker, NEW o, WriteReference(marker, o) PROVE WorkStep
<1>1. IsTokens(<<Word(marker), Reference(objCache, o)>>)
  BY TokenFacts, TwoTokens DEF Reference
<1> QED
  BY <1>1, TokenStep DEF WriteReference

LEMMA NewIsAdded ==
    ASSUME NEW o \in Objects, ~Known(objCache, o), NEW taken \in {1, 2},
           IsWide(o) => taken = 2, objCache' = Insert(objCache, o, taken)
    PROVE  ObjectsGrown
  BY DEF ObjectsGrown, Added

LEMMA LeafStep ==
    ASSUME WorkInv, NEW o \in Objects, heap[o].kind # "array", NEW marker,
           NEW body, IsTokens(body), WriteLeaf(marker, o, body)
    PROVE  WorkStep
<1>1. CASE WriteReference(marker, o)
  BY <1>1, ReferenceStep
<1>2. CASE /\ ~Known(objCache, o) /\ objCache' = Insert(objCache, o, 1)
           /\ Emit(<<Word(marker)>> \o body) /\ Do(<< >>)
           /\ UNCHANGED <<strCache, traitCache>> /\ Steady
  <2>1. Writes
    BY <1>2, TokenFacts, OneToken, ConcatTokens DEF Writes
  <2>2. Leaves
    BY <1>2, ShortBodies DEF Leaves
  <2>3. ObjectsGrown
    BY <1>2, NewIsAdded DEF IsWide
  <2> QED
    BY <1>2, <2>1, <2>2, <2>3 DEF WorkStep, Grown
<1> QED
  BY <1>1, <1>2 DEF WriteLeaf

LEMMA Leaf3Step ==
    ASSUME WorkInv, Write3Date \/ Write3ByteArray PROVE WorkStep
<1>1. CASE Write3Date
  <2>1. IsTokens(<<Word(NULL_MARKER), Double(Num(heap[V.ref].at))>>)
    BY TokenFacts, TwoTokens
  <2> QED
    BY <1>1, <2>1, HeadObject, LeafStep DEF Write3Date
<1>2. CASE Write3ByteArray
  <2> DEFINE text == heap[V.ref].text
  <2>1. V.ref \in Objects /\ heap[V.ref].kind = "bytes"
    BY <1>2, HeadObject DEF Write3ByteArray
  <2>2. text \in Strings
    BY <2>1, StoredObject DEF IsStored
  <2>3. IsTokens(<<Header(ByteSize[text])>> \o Content(text))
    BY <2>2, ContentTokens, TokenFacts, OneToken, ConcatTokens DEF Header
  <2> QED
    BY <1>2, <2>1, <2>3, LeafStep DEF Write3ByteArray
<1> QED
  BY <1>1, <1>2

(* arrays, and the collections around them, which take two indices,        *)
LEMMA Array3Parts ==
    ASSUME WorkInv, NEW o \in Objects, heap[o].kind = "array", 3 \in versions
    PROVE  /\ IsBody(versions, Elements3(o))
           /\ IsTokens(<<Word(ARRAY_MARKER)>> \o Array3Header(o))
<1>1. IsValues(heap[o].elems)
  BY StoredObject DEF IsStored
<1>2. IsBody(versions, Elements3(o))
  BY <1>1, ValuesBody DEF Elements3
<1>3. IsTokens(Array3Header(o))
  BY TokenFacts, TwoTokens DEF Array3Header, Header
<1>4. IsTokens(<<Word(ARRAY_MARKER)>> \o Array3Header(o))
  BY <1>3, TokenFacts, OneToken, ConcatTokens
<1> QED
  BY <1>2, <1>4

LEMMA CollectionStep ==
    ASSUME WorkInv, TablesInv, NEW o \in Objects, heap[o].kind = "array",
           3 \in versions, Collection3(o)
    PROVE  WorkStep
<1> DEFINE body  == <<Word(ARRAY_MARKER)>> \o Array3Header(o)
           known == <<Word(OBJECT_MARKER), Word((4 * traitCache.idx[CollectionName]) + 1)>>
           new   == <<Word(OBJECT_MARKER), Word(7)>>
<1>1. /\ ~Known(objCache, o) /\ traitCache.made
      /\ objCache' = Insert(objCache, o, 2)
      /\ Do(Elements3(o)) /\ Steady
      /\ IF Known(traitCache, CollectionName)
         THEN Emit(known \o body) /\ UNCHANGED <<strCache, traitCache>>
         ELSE /\ traitCache' = Insert(traitCache, CollectionName, 1)
              /\ WriteUtf8(CollectionName, new, body)
  BY DEF Collection3, CollectionTaking
<1>2. IsTokens(known) /\ IsTokens(new)
  BY TokenFacts, TwoTokens
<1>3. IsBody(versions, Elements3(o)) /\ IsTokens(body)
  BY Array3Parts
<1> HIDE DEF body, known, new
<1>4. Leaves /\ ObjectsGrown
  BY <1>1, <1>3, NewIsAdded DEF Leaves
<1>5. CollectionName \in Strings /\ strCache.made = traitCache.made
  BY AMF0Assumption DEF TablesInv
<1>6. CASE Known(traitCache, CollectionName)
  <2>1. Writes
    BY <1>1, <1>2, <1>3, <1>6, ConcatTokens DEF Writes
  <2> QED
    BY <1>1, <1>4, <1>6, <2>1 DEF WorkStep, Grown
<1>7. CASE ~Known(traitCache, CollectionName)
  <2>1. Writes /\ Grown(strCache, strCache', CStrings)
    BY <1>1, <1>2, <1>3, <1>5, <1>7, Utf8Grown
  <2>2. Grown(traitCache, traitCache', Strings)
    BY <1>1, <1>5, <1>7 DEF Grown
  <2> QED
    BY <1>1, <1>4, <2>1, <2>2 DEF WorkStep
<1> QED
  BY <1>6, <1>7

LEMMA Array3Step ==
    ASSUME WorkInv, TablesInv, NEW o \in Objects, heap[o].kind = "array",
           3 \in versions, Array3(o)
    PROVE  WorkStep
<1>1. CASE WriteReference(IF IsCollection(o) THEN OBJECT_MARKER ELSE ARRAY_MARKER, o)
  BY <1>1, ReferenceStep
<1>2. CASE PlainArray3(o)
  <2>1. /\ ~IsCollection(o) /\ ~Known(objCache, o)
        /\ objCache' = Insert(objCache, o, 1)
        /\ Emit(<<Word(ARRAY_MARKER)>> \o Array3Header(o)) /\ Do(Elements3(o))
        /\ UNCHANGED <<strCache, traitCache>> /\ Steady
    BY <1>2 DEF PlainArray3
  <2>2. Writes /\ Leaves
    BY <2>1, Array3Parts DEF Writes, Leaves
  <2>3. ObjectsGrown
    BY <2>1, NewIsAdded DEF IsWide
  <2> QED
    BY <2>1, <2>2, <2>3 DEF WorkStep, Grown
<1>3. CASE Collection3(o)
  BY <1>3, CollectionStep
<1> QED
  BY <1>1, <1>2, <1>3 DEF Array3

(* and objects, which leave their members and their properties to do.      *)
IsTraits(traits) == /\ traits.class_name \in Strings \cup {NoName}
                    /\ IsValues(traits.members)

LEMMA Object3Step ==
    ASSUME WorkInv, TablesInv, NEW o \in Objects,
           heap[o].kind \in {"hash", "typed", "object"}, NEW given, IsGiven(given),
           NEW givenTraits, givenTraits # Nil => IsTraits(givenTraits),
           3 \in versions, Object3(o, given, givenTraits)
    PROVE  WorkStep
<1> DEFINE traits == IF givenTraits = Nil THEN Traits(o) ELSE givenTraits
           key    == TraitKey(givenTraits, traits)
           name   == IF traits.class_name = NoName THEN EmptyString
                                                   ELSE traits.class_name
           body   == Body3(o, Props(o, given), traits)
           known  == <<Word(OBJECT_MARKER), Word((4 * traitCache.idx[key]) + 1)>>
           new    == <<Word(OBJECT_MARKER), TraitsHeader(traits)>>
           keys   == [i \in DOMAIN traits.members |-> Key(3, traits.members[i])]
<1>1. IsTraits(traits)
  <2>1. IsTraits(Traits(o))
    <3>1. IsValues(<< >>)
      <4>1. IsSeq(<< >>) /\ DOMAIN << >> = {}
        BY ShortSeqs
      <4> QED
        BY <4>1, ListIsSeq DEF IsValues
    <3> QED
      BY <3>1, ClassNameType DEF IsTraits, Traits
  <2> QED
    BY <2>1
<1>2. IsBody(versions, body) /\ IsBody(versions, keys)
  <2> HIDE DEF traits
  <2> QED
    BY <1>1, PropsPairs, Body3Body, KeysBody DEF IsTraits
<1>3. name \in Strings /\ key \in Strings \cup {NoName} /\ (key = NoName => name = EmptyString)
  <2> HIDE DEF traits
  <2>1. EmptyString \in Strings /\ DefaultName \in Strings /\ NoName \notin Strings
        /\ \A s \in Strings : CString[s] \in Strings
    BY StringsAssumption, AMF0Assumption, FastSerializerAssumption
  <2> QED
    BY <1>1, <2>1 DEF IsTraits, TraitKey
<1>4. IsTokens(known) /\ IsTokens(new)
  <2> HIDE DEF traits, key
  <2> QED
    BY TokenFacts, TwoTokens DEF TraitsHeader
<1>5. CASE WriteReference(OBJECT_MARKER, o)
  BY <1>5, ReferenceStep
<1>6. ASSUME ~WriteReference(OBJECT_MARKER, o)
      PROVE  /\ ~Known(objCache, o)
             /\ key # NoName => traitCache.made
             /\ objCache' = Insert(objCache, o, 1)
             /\ IF key # NoName /\ Known(traitCache, key)
                THEN Emit(known) /\ Do(body) /\ UNCHANGED <<strCache, traitCache>>
                ELSE /\ traitCache' = IF key = NoName THEN traitCache
                                      ELSE Insert(traitCache, key, 1)
                     /\ WriteUtf8(name, new, << >>)
                     /\ Do(keys \o body)
             /\ Steady
  BY <1>6 DEF Object3
<1> HIDE DEF traits, key, name, body, known, new, keys
<1>7. CASE ~WriteReference(OBJECT_MARKER, o) /\ key # NoName /\ Known(traitCache, key)
  <2>1. Writes /\ Leaves
    BY <1>2, <1>4, <1>6, <1>7 DEF Writes, Leaves
  <2>2. ObjectsGrown
    BY <1>6, <1>7, NewIsAdded DEF IsWide
  <2> QED
    BY <1>6, <1>7, <2>1, <2>2 DEF WorkStep, Grown
<1>8. CASE ~WriteReference(OBJECT_MARKER, o) /\ ~(key # NoName /\ Known(traitCache, key))
  <2>1. Writes /\ Grown(strCache, strCache', CStrings)
    <3>1. name # EmptyString => strCache.made
      BY <1>3, <1>6, <1>8 DEF TablesInv
    <3> QED
      BY <1>3, <1>4, <1>6, <1>8, <3>1, NoTokens, Utf8Grown
  <2>2. Leaves
    BY <1>2, <1>6, <1>8, ConcatBody DEF Leaves
  <2>3. Grown(traitCache, traitCache', Strings)
    BY <1>3, <1>6, <1>8 DEF Grown
  <2>4. ObjectsGrown
    BY <1>6, <1>8, NewIsAdded DEF IsWide
  <2> QED
    BY <1>6, <1>8, <2>1, <2>2, <2>3, <2>4 DEF WorkStep
<1> QED
  BY <1>5, <1>7, <1>8

LEMMA Complex3Step ==
    ASSUME WorkInv, TablesInv, Write3Array \/ Write3Object PROVE WorkStep
<1>1. CASE Write3Array
  BY <1>1, HeadObject, Array3Step DEF Write3Array
<1>2. CASE Write3Object
  <2>1. IsGiven(Nil)
    BY DEF IsGiven
  <2>2. /\ V.ref \in Objects /\ 3 \in versions
        /\ heap[V.ref].kind \in {"hash", "typed", "object"}
        /\ Object3(V.ref, Nil, Nil)
    BY <1>2, HeadObject DEF Write3Object
  <2> QED
    BY <2>1, <2>2, Object3Step
<1> QED
  BY <1>1, <1>2

(* User code may write arrays and objects too, in the version that was     *)
(* passed last.                                                            *)
LEMMA CallArrayStep ==
    ASSUME WorkInv, TablesInv, depth # 0, CallWriteArray PROVE WorkStep
<1>1. PICK o \in Objects : C.arg = Ref(o) /\ heap[o].kind = "array"
  <2>1. IsCall(heap, C) /\ C.name = "write_array"
    BY HeadCall DEF CallWriteArray
  <2> QED
    BY <2>1 DEF IsCall
<1>2. C.arg.ref = o
  BY <1>1 DEF Ref
<1>3. version \in {0, 3} /\ version \in versions
  BY DEF WorkInv
<1>4. IF version = 0 THEN Array0(o) ELSE Array3(o)
  BY <1>2 DEF CallWriteArray
<1> QED
  BY <1>1, <1>3, <1>4, Array0Step, Array3Step

LEMMA CallObjectStep ==
    ASSUME WorkInv, TablesInv, depth # 0, CallWriteObject PROVE WorkStep
<1>1. IsCall(heap, C) /\ C.name = "write_object"
  BY HeadCall DEF CallWriteObject
<1>2. PICK o \in Objects : C.arg = Ref(o) /\ heap[o].kind \in {"hash", "typed", "object"}
  BY <1>1 DEF IsCall
<1>3. IsGiven(C.props) /\ (C.traits # Nil => IsTraits(C.traits))
  BY <1>1 DEF IsCall, IsGiven, IsTraits
<1>4. C.arg.ref = o
  BY <1>2 DEF Ref
<1>5. version \in {0, 3} /\ version \in versions
  BY DEF WorkInv
<1>6. IF version = 0 THEN Object0(o, C.props) ELSE Object3(o, C.props, C.traits)
  BY <1>4 DEF CallWriteObject
<1> QED
  BY <1>2, <1>3, <1>5, <1>6, Object0Step, Object3Step

Working == \/ WriteClose
           \/ Write0Const \/ Write0Number \/ Write0String \/ Write0Key
           \/ Write0Reference
           \/ Write0Date \/ Write0Array \/ Write0Object \/ Write0Nothing
           \/ Write3Const \/ Write3Numeric \/ Write3String \/ Write3Key
           \/ Write3Date \/ Write3ByteArray \/ Write3Array \/ Write3Object \/ Write3Nothing
           \/ EncodeAmf \/ CallWriteArray \/ CallWriteObject

LEMMA AnyWorkStep == ASSUME WorkInv, TablesInv, depth # 0, Working PROVE WorkStep
  BY Scalar0Step, Complex0Step, SilentStep, Scalar3Step, Leaf3Step, Complex3Step,
     CallArrayStep, CallObjectStep DEF Working

LEMMA AnyWorkPending ==
    ASSUME Working PROVE todo # << >> /\ Head(todo).op \in {"value", "key", "close", "call"}
  BY DEF Working, WriteClose, Write0Const, Write0Number, Write0String, Write0Key,
     Write0Reference, Write0Date, Write0Array, Write0Object, Write0Nothing,
     Write3Const, Write3Numeric, Write3String, Write3Key, Write3Date, Write3ByteArray,
     Write3Array, Write3Object, Write3Nothing, EncodeAmf, CallWriteArray,
     CallWriteObject, IsNew0, IsObject, IsValue, Calling, Pending

----------------------------------------------------------------------------
(* What such a step preserves.  The tables first: an index a new object    *)
(* gets is the counter, and the counter passes the second index of an      *)
(* ArrayCollection as well.                                                *)
LEMMA GrownTab ==
    ASSUME NEW table, NEW later, NEW Keys, IsTab(table, Keys), Grown(table, later, Keys)
    PROVE  IsTab(later, Keys) /\ later.made = table.made
<1>1. CASE later = table
  BY <1>1
<1>2. CASE \E key \in Keys : table.made /\ ~Known(table, key) /\ later = Insert(table, key, 1)
  <2>1. PICK key \in Keys : table.made /\ later = Insert(table, key, 1)
    BY <1>2
  <2> QED
    BY <2>1, InsertTab
<1> QED
  BY <1>1, <1>2 DEF Grown

LEMMA GrownKeeps ==
    ASSUME NEW table, NEW later, NEW Keys, IsTab(table, Keys), Grown(table, later, Keys)
    PROVE  Keeps(table, later)
<1>1. CASE later = table
  BY <1>1 DEF Keeps, Known
<1>2. CASE \E key \in Keys : table.made /\ ~Known(table, key) /\ later = Insert(table, key, 1)
  <2>1. PICK key \in Keys : /\ table.made /\ ~Known(table, key)
                            /\ later = Insert(table, key, 1)
    BY <1>2
  <2>2. /\ DOMAIN later.idx = DOMAIN table.idx \cup {key}
        /\ \A k \in DOMAIN table.idx : k # key => later.idx[k] = table.idx[k]
    BY <2>1, InsertTab
  <2> QED
    BY <2>1, <2>2 DEF Keeps, Known
<1> QED
  BY <1>1, <1>2 DEF Grown

(* A counter that moves on over nothing.                                   *)
LEMMA SkippedTab ==
    ASSUME NEW table, NEW Keys, IsTab(table, Keys), table.made
    PROVE  LET later == [table EXCEPT !.next = @ + 1]
           IN  /\ IsTab(later, Keys) /\ later.made = table.made
               /\ later.idx = table.idx /\ later.next = table.next + 1
<1> DEFINE m == table.made
           f == table.idx
           n == table.next
           x == table.next + 1
           later == [table EXCEPT !.next = @ + 1]
<1>1. table = [made |-> m, idx |-> f, next |-> n]
  BY DEF IsTab
<1>2. later = [table EXCEPT !.next = x]
  OBVIOUS
<1>3. n \in Nat /\ x = n + 1 /\ DOMAIN f \subseteq Keys /\ m \in BOOLEAN
      /\ \A k \in DOMAIN f : f[k] \in Nat /\ f[k] < n
  BY DEF IsTab
<1> HIDE DEF m, f, n, x, later
<1>4. later = [made |-> m, idx |-> f, next |-> x]
  BY <1>1, <1>2
<1>5. \A k \in DOMAIN f : f[k] \in Nat /\ f[k] < x
  BY <1>3
<1>6. IsTab(later, Keys) /\ later.made = m /\ later.idx = f /\ later.next = x
  BY <1>3, <1>4, <1>5 DEF IsTab, m
<1> QED
  BY <1>6 DEF later, m, f, n, x

LEMMA ObjectsTab ==
    ASSUME IsTab(objCache, Objects), objCache.made, ObjectsGrown
    PROVE  IsTab(objCache', Objects) /\ objCache'.made
<1>1. CASE UNCHANGED objCache
  BY <1>1
<1>2. CASE \E o \in Objects, taken \in {1, 2} : objCache' = Insert(objCache, o, taken)
  BY <1>2, InsertTab
<1>3. CASE objCache' = [objCache EXCEPT !.next = @ + 1]
  BY <1>3, SkippedTab
<1> QED
  BY <1>1, <1>2, <1>3 DEF ObjectsGrown, Added, AddedAgain

LEMMA ObjectsIndices ==
    ASSUME IsTab(objCache, Objects), objCache.made, ObjectsGrown, IndexInv,
           UNCHANGED <<heap, versions>>
    PROVE  IndexInv'
<1>1. \A o : IsWide(o)' <=> IsWide(o)
  BY DEF IsWide, IsCollection
<1>2. CASE UNCHANGED objCache
  BY <1>1, <1>2 DEF IndexInv
<1>3. ASSUME NEW o \in Objects, NEW taken \in {1, 2}, objCache' = Insert(objCache, o, taken),
             IsWide(o) => taken = 2
      PROVE  IndexInv'
  <2>1. /\ objCache'.next = objCache.next + taken
        /\ DOMAIN objCache'.idx = DOMAIN objCache.idx \cup {o}
        /\ objCache'.idx[o] = objCache.next
        /\ \A k \in DOMAIN objCache.idx : k # o => objCache'.idx[k] = objCache.idx[k]
    BY <1>3, InsertTab
  <2>2. objCache.next \in Nat
        /\ \A k \in DOMAIN objCache.idx : objCache.idx[k] \in Nat /\ objCache.idx[k] < objCache.next
    BY DEF IsTab
  <2> DEFINE f == objCache.idx
             g == objCache'.idx
             n == objCache.next
             m == objCache'.next
  <2>3. \A k, r \in DOMAIN f :
          /\ IsWide(k) => f[k] + 1 < n
          /\ k # r => f[k] # f[r] /\ (IsWide(k) => f[k] + 1 # f[r])
    BY DEF IndexInv
  <2>4. /\ n \in Nat /\ \A k \in DOMAIN f : f[k] \in Nat /\ f[k] < n
        /\ m = n + taken /\ DOMAIN g = DOMAIN f \cup {o} /\ g[o] = n
        /\ \A k \in DOMAIN f : k # o => g[k] = f[k]
    BY <2>1, <2>2
  <2> HIDE DEF f, g, n, m
  <2>5. ASSUME NEW k \in DOMAIN g, NEW r \in DOMAIN g
        PROVE  /\ IsWide(k) => g[k] + 1 < m
               /\ k # r => g[k] # g[r] /\ (IsWide(k) => g[k] + 1 # g[r])
    <3>1. CASE k = o
      <4>1. g[k] = n /\ (IsWide(k) => m = n + 2)
        BY <1>3, <2>4, <3>1
      <4>2. k # r => r \in DOMAIN f /\ g[r] = f[r] /\ f[r] \in Nat /\ f[r] < n
        BY <2>4, <3>1
      <4> QED
        BY <2>4, <4>1, <4>2
    <3>2. CASE k # o
      <4>1. /\ k \in DOMAIN f /\ g[k] = f[k] /\ f[k] \in Nat /\ f[k] < n
            /\ IsWide(k) => f[k] + 1 < n
        BY <2>3, <2>4, <3>2
      <4>2. CASE r = o
        BY <2>4, <4>1, <4>2
      <4>3. CASE r # o
        <5>1. r \in DOMAIN f /\ g[r] = f[r] /\ f[r] \in Nat
          BY <2>4, <4>3
        <5>2. k # r => f[k] # f[r] /\ (IsWide(k) => f[k] + 1 # f[r])
          BY <2>3, <4>1, <5>1
        <5> QED
          BY <2>4, <4>1, <5>1, <5>2
      <4> QED
        BY <4>2, <4>3
    <3> QED
      BY <3>1, <3>2
  <2>6. \A k, r \in DOMAIN objCache'.idx :
          /\ IsWide(k) => objCache'.idx[k] + 1 < objCache'.next
          /\ k # r => /\ objCache'.idx[k] # objCache'.idx[r]
                      /\ IsWide(k) => objCache'.idx[k] + 1 # objCache'.idx[r]
    BY <2>5 DEF g, m
  <2> QED
    BY <1>1, <2>6 DEF IndexInv
<1>4. CASE 0 \in versions /\ objCache' = [objCache EXCEPT !.next = @ + 1]
  <2>1. objCache'.idx = objCache.idx
    BY <1>4, SkippedTab
  <2>2. \A o : ~IsWide(o)
    BY <1>4 DEF IsWide
  <2> QED
    BY <1>1, <2>1, <2>2 DEF IndexInv
<1>5. CASE Added
  BY <1>3, <1>5 DEF Added
<1>6. CASE 0 \in versions /\ \E o \in Objects : objCache' = Insert(objCache, o, 1)
  <2>1. \A o : ~IsWide(o)
    BY <1>6 DEF IsWide
  <2> QED
    BY <1>3, <1>6, <2>1
<1> QED
  BY <1>2, <1>4, <1>5, <1>6 DEF ObjectsGrown, AddedAgain

(* A message that runs has a depth.                                        *)
LEMMA LastCounts ==
    ASSUME NEW s, IsSeq(s), s # << >>, s[Len(s)].op = "leave"
    PROVE  Count(s, "leave") \in Nat /\ Count(s, "leave") > 0
<1>1. Len(s) \in 1 .. Len(s) /\ DOMAIN s = 1 .. Len(s)
  BY SeqFacts
<1>2. Len(s) \in Positions(s, "leave")
  BY <1>1 DEF Positions
<1>3. IsFiniteSet(Positions(s, "leave")) /\ Count(s, "leave") \in Nat
  BY PositionsFinite
<1>4. Cardinality(Positions(s, "leave")) # 0
  BY <1>2, <1>3, FS_EmptySet
<1> QED
  BY <1>3, <1>4 DEF Count

LEMMA PendingDepth ==
    ASSUME WorkInv, DepthInv, todo # << >>
    PROVE  /\ failure # "crashed" /\ depth > 0 /\ leaked <= depth
           /\ depth = leaked + Count(todo, "leave") /\ Count(todo, "leave") \in Nat
<1>1. /\ failure # "crashed" /\ depth = leaked + Count(todo, "leave")
      /\ leaked \in Nat /\ leaked <= depth
  BY DEF DepthInv
<1>2. IsSeq(todo) /\ Count(todo, "leave") \in Nat
  BY PositionsFinite DEF WorkInv, IsStack
<1>3. leaked > 0 \/ Count(todo, "leave") > 0
  BY <1>2, LastCounts DEF DepthInv
<1> QED
  BY <1>1, <1>2, <1>3

LEMMA WorkStepKeeps ==
    ASSUME IInv, WorkStep, todo # << >>, Head(todo).op # "leave"
    PROVE  IInv'
<1> DEFINE rest == Tail(todo)
<1> USE DEF IInv
<1>1. PICK calls : IsBody(versions, calls) /\ todo' = calls \o rest
  BY DEF WorkStep, Leaves, Do
<1>2. IsStack(versions, todo) /\ IsSeq(todo)
  BY DEF WorkInv, IsStack
<1>3. IsStack(versions, rest) /\ IsSeq(rest)
  BY <1>2, TailStack DEF IsStack
<1>4. leaked > 0 \/ (rest # << >> /\ rest[Len(rest)].op = "leave")
  BY <1>2, TailLast DEF DepthInv
<1>5. Count(todo, "leave") = Count(rest, "leave") /\ Count(rest, "leave") \in Nat
  <2>1. Count(rest, "leave") \in Nat
    BY <1>3, PositionsFinite DEF IsStack
  <2>2. Count(todo, "leave") = Count(rest, "leave") + (IF Head(todo).op = "leave" THEN 1 ELSE 0)
    BY <1>2, CountTail
  <2> QED
    BY <2>1, <2>2
<1> HIDE DEF rest
<1>6. IsStack(versions, calls) /\ Count(calls, "leave") = 0
  BY <1>1, NoLeave DEF IsBody
<1>7. /\ IsStack(versions, todo')
      /\ leaked > 0 \/ (todo' # << >> /\ todo'[Len(todo')].op = "leave")
      /\ Count(todo', "leave") = 0 + Count(rest, "leave")
  <2>1. IsSeq(calls) /\ IsSeq(rest)
    BY <1>3, <1>6 DEF IsStack
  <2>2. IsStack(versions, todo')
    BY <1>1, <1>3, <1>6, ConcatStack
  <2>3. Count(todo', "leave") = 0 + Count(rest, "leave")
    BY <1>1, <1>6, <2>1, CountConcat
  <2>4. rest # << >> => todo' # << >> /\ todo'[Len(todo')] = rest[Len(rest)]
    BY <1>1, <2>1, ConcatLast
  <2> QED
    BY <1>4, <2>2, <2>3, <2>4
<1>8. UNCHANGED <<heap, version, depth, failure, sent, leaked, versions>>
  BY DEF WorkStep, Steady, history
<1>9. IsTokens(stream')
  BY ConcatTokens DEF WorkStep, Writes, Emit, WorkInv
<1>10. (IsStack(versions, todo))'
  BY <1>7, <1>8 DEF IsStack, IsWork
<1>11. WorkInv'
  BY <1>8, <1>9, <1>10 DEF WorkInv
<1>12. DepthInv'
  <2>1. leaked \in Nat /\ leaked <= depth /\ failure # "crashed"
    BY PendingDepth DEF DepthInv
  <2>2. depth = leaked + Count(rest, "leave") /\ depth > 0
    BY <1>5, PendingDepth
  <2>3. depth = leaked + Count(todo', "leave")
    BY <1>5, <1>7, <2>2
  <2>4. todo' = << >> => leaked > 0
    BY <1>7
  <2> QED
    BY <1>7, <1>8, <2>1, <2>3, <2>4 DEF DepthInv
<1>13. depth # 0 /\ objCache.made
  BY PendingDepth DEF TablesInv, DepthInv
<1>14. /\ IsTab(strCache', CStrings) /\ strCache'.made = strCache.made
       /\ IsTab(traitCache', Strings) /\ traitCache'.made = traitCache.made
       /\ IsTab(objCache', Objects) /\ objCache'.made
  BY <1>13, GrownTab, ObjectsTab DEF WorkStep, TablesInv
<1>15. TablesInv'
  <2>1. CStrings' = CStrings
    BY DEF CStrings
  <2> QED
    BY <1>8, <1>14, <2>1 DEF TablesInv, IsTab, NoTable
<1>16. IndexInv'
  BY <1>8, <1>13, ObjectsIndices DEF WorkStep, TablesInv
<1> QED
  BY <1>11, <1>12, <1>15, <1>16

(* serialize begins, for the program or for user code: the version is now  *)
(* used, and the outermost call has new tables.                            *)
LEMMA EnterKeeps ==
    ASSUME IInv, NEW ver \in {0, 3}, NEW v, IsRuby(v), NEW rest, IsStack(versions, rest),
           Count(rest, "leave") = Count(todo, "leave"),
           rest # << >> => leaked > 0 \/ rest[Len(rest)].op = "leave",
           rest # << >> => depth # 0,
           Enter(ver, v, rest), failure # "crashed",
           failure' \in {"none", "raised"}
    PROVE  IInv'
<1> USE DEF IInv
<1> DEFINE calls == <<Value(ver, v), Leave>>
           traits == IF ver = 3 THEN NewTable ELSE traitCache
<1>1. /\ version' = ver /\ todo' = calls \o rest
      /\ depth' = depth + 1
      /\ UNCHANGED <<heap, stream, leaked>>
      /\ IF depth = 0
         THEN /\ objCache' = NewTable
              /\ strCache' = IF ver = 3 THEN NewTable ELSE strCache
              /\ traitCache' = traits
              /\ versions' = {ver}
         ELSE UNCHANGED caches /\ versions' = versions \cup {ver}
  BY DEF Enter, EnterWith
<1>2. /\ IsSeq(calls) /\ Len(calls) = 2 /\ calls[1] = Value(ver, v) /\ calls[2] = Leave
  BY ShortSeqs
<1>3. ver \in versions' /\ versions' \subseteq {0, 3} /\ (depth # 0 => versions \subseteq versions')
  BY <1>1 DEF WorkInv
<1>4. /\ IsWork(versions', Value(ver, v)) /\ Value(ver, v).op # "leave"
      /\ IsWork(versions', Leave) /\ Leave.op = "leave"
  BY <1>3, WorkKinds
<1>5. IsStack(versions', calls)
  <2>1. \A i \in 1 .. 2 : i = 1 \/ i = 2
    OBVIOUS
  <2> HIDE DEF calls
  <2> QED
    BY <1>2, <1>4, <2>1 DEF IsStack
<1>6. IsStack(versions', rest)
  <2>1. CASE depth # 0
    BY <1>3, <2>1, MoreUsed
  <2>2. CASE depth = 0
    BY <2>2, ShortSeqs, SeqFacts DEF IsStack
  <2> QED
    BY <2>1, <2>2
<1>7. Count(calls, "leave") = 1
  <2>1. Positions(calls, "leave") = {2}
    <3>1. DOMAIN calls = 1 .. 2
      BY <1>2, SeqFacts
    <3>2. 1 .. 2 = {1, 2}
      OBVIOUS
    <3> HIDE DEF calls
    <3> QED
      BY <1>2, <1>4, <3>1, <3>2 DEF Positions
  <2> QED
    BY <2>1, FS_Singleton DEF Count
<1>8. IsSeq(rest) /\ Count(rest, "leave") \in Nat
  BY PositionsFinite DEF IsStack
<1> HIDE DEF calls, traits
<1>9. /\ IsStack(versions', todo') /\ todo' # << >>
      /\ leaked > 0 \/ todo'[Len(todo')].op = "leave"
      /\ Count(todo', "leave") = 1 + Count(rest, "leave")
  <2>1. CASE rest # << >>
    <3>1. /\ todo' # << >> /\ todo'[Len(todo')] = rest[Len(rest)]
      BY <1>1, <1>2, <1>8, <2>1, ConcatLast
    <3>2. IsStack(versions', todo')
      BY <1>1, <1>5, <1>6, ConcatStack
    <3>3. Count(todo', "leave") = 1 + Count(rest, "leave")
      BY <1>1, <1>2, <1>7, <1>8, CountConcat
    <3> QED
      BY <2>1, <3>1, <3>2, <3>3
  <2>2. CASE rest = << >>
    <3>1. todo' = calls
      BY <1>1, <1>2, <2>2, EmptyConcat
    <3>2. Count(rest, "leave") = 0
      BY <2>2, NothingCounted
    <3>3. calls # << >>
      <4>1. Len(<< >>) = 0
        OBVIOUS
      <4> QED
        BY <1>2, <4>1
    <3>4. Len(todo') = 2 /\ todo'[2] = Leave
      BY <1>2, <3>1
    <3>5. todo'[Len(todo')].op = "leave"
      BY <1>4, <3>4
    <3>6. Count(todo', "leave") = 1 + Count(rest, "leave")
      BY <1>7, <3>1, <3>2
    <3> QED
      BY <1>5, <3>1, <3>3, <3>5, <3>6
  <2> QED
    BY <2>1, <2>2
<1>10. (IsStack(versions, todo))'
  BY <1>1, <1>9 DEF IsStack, IsWork
<1>11. WorkInv'
  BY <1>1, <1>3, <1>10 DEF WorkInv
<1>12. DepthInv'
  <2>1. /\ depth = leaked + Count(todo, "leave") /\ depth \in Nat
        /\ leaked \in Nat /\ leaked <= depth
    BY DEF DepthInv
  <2>2. depth' \in Nat /\ depth' = leaked + Count(todo', "leave") /\ leaked <= depth'
    <3> DEFINE n == Count(rest, "leave")
               m == Count(todo', "leave")
    <3>1. n \in Nat /\ m = 1 + n /\ depth = leaked + n /\ depth' = depth + 1
      BY <1>1, <1>8, <1>9, <2>1
    <3> HIDE DEF n, m
    <3> QED
      BY <2>1, <3>1 DEF m
  <2> QED
    BY <1>1, <1>9, <2>1, <2>2 DEF DepthInv
<1>13. depth \in Nat /\ depth' # 0
  BY <1>1 DEF DepthInv
<1>14. TablesInv'
  <2>1. CStrings' = CStrings
    BY DEF CStrings
  <2>2. /\ \A Keys : IsTab(NewTable, Keys)
        /\ NewTable.made
    BY NewTabs
  <2>3. CASE depth = 0
    <3>1. /\ objCache' = NewTable /\ versions' = {ver}
          /\ strCache' = IF ver = 3 THEN NewTable ELSE strCache
          /\ traitCache' = IF ver = 3 THEN NewTable ELSE traitCache
      BY <1>1, <2>3 DEF traits
    <3>2. IsTab(strCache', CStrings) /\ IsTab(traitCache', Strings) /\ IsTab(objCache', Objects)
      BY <2>2, <3>1 DEF TablesInv
    <3>3. strCache'.made = traitCache'.made /\ objCache'.made
          /\ (versions' = {3} => strCache'.made)
      BY <2>2, <3>1 DEF TablesInv
    <3> QED
      BY <2>1, <3>1, <3>2, <3>3 DEF TablesInv, IsTab, NoTable
  <2>4. CASE depth # 0
    <3>1. UNCHANGED caches /\ versions' = versions \cup {ver} /\ versions # {}
      BY <1>1, <2>4 DEF TablesInv
    <3>2. versions' = {3} => versions = {3}
      BY <3>1
    <3>3. UNCHANGED strCache /\ UNCHANGED traitCache /\ UNCHANGED objCache
      BY <3>1 DEF caches
    <3>4. /\ IsTab(strCache', CStrings) /\ IsTab(traitCache', Strings) /\ IsTab(objCache', Objects)
          /\ strCache'.made = traitCache'.made /\ objCache'.made
          /\ versions' = {3} => strCache'.made
      BY <2>4, <3>2, <3>3 DEF TablesInv
    <3> QED
      BY <2>1, <3>1, <3>4 DEF TablesInv, IsTab, NoTable
  <2> QED
    BY <2>3, <2>4
<1>15. IndexInv'
  <2>1. CASE depth = 0
    <3>1. DOMAIN objCache'.idx = {}
      BY <1>1, <2>1, NewTabs
    <3> QED
      BY <3>1 DEF IndexInv
  <2>2. CASE depth # 0
    <3>1. /\ objCache' = objCache /\ versions' = versions \cup {ver} /\ versions # {}
          /\ heap' = heap
      BY <1>1, <2>2 DEF TablesInv, caches
    <3>2. \A o : IsWide(o)' => IsWide(o)
      BY <3>1 DEF IsWide, IsCollection
    <3> QED
      BY <3>1, <3>2 DEF IndexInv
  <2> QED
    BY <2>1, <2>2
<1> QED
  BY <1>11, <1>12, <1>14, <1>15

LEMMA SerializeKeeps ==
    ASSUME IInv, NEW c \in Calls, Serialize(c[1], c[2]) PROVE IInv'
<1>1. /\ todo = << >> /\ failure # "crashed"
      /\ Enter(c[1], c[2], << >>) /\ failure' = "none"
  BY DEF Serialize
<1>2. c[1] \in {0, 3} /\ IsRuby(c[2])
  BY FastSerializerAssumption
<1>3. IsStack(versions, << >>)
  BY ShortSeqs, SeqFacts DEF IsStack
<1> QED
  BY <1>1, <1>2, <1>3, EnterKeeps

LEMMA TailLeaves ==
    ASSUME IInv, todo # << >>
    PROVE  /\ IsStack(versions, Tail(todo)) /\ IsSeq(Tail(todo))
           /\ Tail(todo) # << >> => leaked > 0 \/ Tail(todo)[Len(Tail(todo))].op = "leave"
           /\ Count(Tail(todo), "leave") \in Nat
           /\ Count(todo, "leave") = Count(Tail(todo), "leave")
                                     + (IF Head(todo).op = "leave" THEN 1 ELSE 0)
<1>1. IsStack(versions, todo) /\ IsSeq(todo)
  BY DEF IInv, WorkInv, IsStack
<1>2. IsStack(versions, Tail(todo)) /\ IsSeq(Tail(todo))
  BY <1>1, TailStack DEF IsStack
<1>3. Tail(todo) # << >> => leaked > 0 \/ Tail(todo)[Len(Tail(todo))].op = "leave"
  BY <1>1, TailLast DEF IInv, DepthInv
<1>4. Count(Tail(todo), "leave") \in Nat
  BY <1>2, PositionsFinite
<1> QED
  BY <1>1, <1>2, <1>3, <1>4, CountTail

LEMMA CallSerializeKeeps == ASSUME IInv, CallSerialize PROVE IInv'
<1> DEFINE rest == Tail(todo)
<1>1. /\ todo # << >> /\ Head(todo).op = "call" /\ C.name = "serialize"
      /\ Enter(C.ver, C.arg, rest) /\ failure' = failure
  BY DEF CallSerialize, Calling, Pending, C
<1>2. C.ver \in {0, 3} /\ IsRuby(C.arg)
  <2>1. IsCall(heap, C)
    BY HeadCall DEF CallSerialize, IInv
  <2> QED
    BY <1>1, <2>1 DEF IsCall
<1>3. /\ IsStack(versions, rest)
      /\ rest # << >> => leaked > 0 \/ rest[Len(rest)].op = "leave"
      /\ Count(rest, "leave") = Count(todo, "leave")
  BY <1>1, TailLeaves
<1>4. failure # "crashed" /\ depth # 0 /\ failure \in {"none", "raised"}
  BY <1>1, PendingDepth DEF IInv, DepthInv
<1> HIDE DEF rest
<1> QED
  BY <1>1, <1>2, <1>3, <1>4, EnterKeeps

(* It returns: the outermost call frees the tables.                        *)
LEMMA EndKeeps == ASSUME IInv, SerializeEnd PROVE IInv'
<1> USE DEF IInv
<1> DEFINE rest == Tail(todo)
<1>1. /\ todo # << >> /\ Head(todo).op = "leave"
      /\ depth' = depth - 1
      /\ IF depth = 1
         THEN strCache' = NoTable /\ traitCache' = NoTable /\ objCache' = NoTable
         ELSE UNCHANGED <<strCache, traitCache, objCache>>
      /\ UNCHANGED <<heap, stream, version, failure, sent, leaked, versions>>
  BY DEF SerializeEnd, EndFreeing, Pending, history, caches
<1>2. /\ IsStack(versions, rest) /\ IsSeq(rest)
      /\ rest # << >> => leaked > 0 \/ rest[Len(rest)].op = "leave"
      /\ Count(todo, "leave") = Count(rest, "leave") + 1 /\ Count(rest, "leave") \in Nat
  BY <1>1, TailLeaves
<1>3. todo' = rest
  <2>1. todo' = << >> \o rest
    BY DEF SerializeEnd, EndFreeing, Do
  <2> HIDE DEF rest
  <2> QED
    BY <1>2, <2>1, EmptyConcat
<1> HIDE DEF rest
<1>4. (IsStack(versions, todo))'
  BY <1>1, <1>2, <1>3 DEF IsStack, IsWork
<1>5. /\ failure # "crashed" /\ depth \in Nat /\ leaked \in Nat /\ depth > 0
      /\ depth = leaked + Count(todo, "leave")
  BY <1>1, PendingDepth DEF DepthInv
<1>6. WorkInv'
  BY <1>1, <1>4, <1>5 DEF WorkInv
<1>7. depth' \in Nat /\ depth' = leaked + Count(rest, "leave") /\ leaked <= depth'
  BY <1>1, <1>2, <1>5
<1>8. ASSUME todo' = << >>, \E table \in {strCache', traitCache', objCache'} : table.made
      PROVE  leaked' > 0
  <2>1. Count(rest, "leave") = 0
    BY <1>3, <1>8, NothingCounted
  <2>2. depth # 1
    BY <1>1, <1>8, NewTabs
  <2> QED
    BY <1>1, <1>2, <1>5, <2>1, <2>2
<1>9. DepthInv'
  BY <1>1, <1>2, <1>3, <1>5, <1>7, <1>8 DEF DepthInv
<1>10. TablesInv'
  <2>1. CASE depth = 1
    <3>1. strCache' = NoTable /\ traitCache' = NoTable /\ objCache' = NoTable /\ depth' = 0
      BY <1>1, <2>1
    <3>2. \A Keys : IsTab(NoTable, Keys)
      BY NewTabs
    <3> QED
      BY <3>1, <3>2 DEF TablesInv, IsTab, NoTable
  <2>2. CASE depth # 1
    <3>1. UNCHANGED <<strCache, traitCache, objCache, versions>>
      BY <1>1, <2>2
    <3>2. depth # 0
      BY <1>5
    <3> QED
      BY <3>1, <3>2 DEF TablesInv, IsTab, NoTable, CStrings
  <2> QED
    BY <2>1, <2>2
<1>11. IndexInv'
  <2>1. CASE depth = 1
    <3>1. DOMAIN objCache'.idx = {}
      BY <1>1, <2>1, NewTabs
    <3> QED
      BY <3>1 DEF IndexInv
  <2>2. CASE depth # 1
    <3>1. UNCHANGED <<heap, versions, objCache>>
      BY <1>1, <2>2
    <3> QED
      BY <3>1 DEF IndexInv, IsWide, IsCollection
  <2> QED
    BY <2>1, <2>2
<1> QED
  BY <1>6, <1>9, <1>10, <1>11

(* An exception ends at least the outermost call,                          *)
LEMMA RaiseKeeps ==
    ASSUME IInv, TextFails \/ Reference0Fails \/ CallRaises PROVE IInv'
<1> USE DEF IInv
<1>1. /\ todo # << >> /\ todo' = << >> /\ leaked' = depth /\ failure' = "raised"
      /\ UNCHANGED <<heap, version, depth, strCache, traitCache, objCache, versions>>
  BY DEF TextFails, Reference0Fails, CallRaises, Raise, IsValue, Calling, Pending, caches
<1>2. IsTokens(stream')
  <2>1. CASE UNCHANGED stream
    BY <2>1 DEF WorkInv
  <2>2. CASE \E n : Emit(<<Word(n)>>)
    BY <2>2, TokenFacts, OneToken, ConcatTokens DEF WorkInv, Emit
  <2>3. UNCHANGED stream \/ \E n : Emit(<<Word(n)>>)
    <3>1. CASE CallRaises
      BY <3>1 DEF CallRaises
    <3>2. CASE Reference0Fails
      <4>1. Emit(<<Word(AMF0_REFERENCE_MARKER)>>)
        BY <3>2 DEF Reference0Fails
      <4> QED
        BY <4>1, Zenon
    <3>3. CASE TextFails
      <4>1. UNCHANGED stream \/ Emit(<<Word(STRING_MARKER)>>)
        BY <3>3 DEF TextFails
      <4> QED
        BY <4>1, Zenon
    <3> QED
      BY <3>1, <3>2, <3>3
  <2> QED
    BY <2>1, <2>2, <2>3
<1>3. depth > 0 /\ depth \in Nat
  BY <1>1, PendingDepth DEF DepthInv
<1>4. (IsStack(versions, todo))'
  BY <1>1, ShortSeqs, SeqFacts DEF IsStack
<1>5. WorkInv'
  BY <1>1, <1>2, <1>4 DEF WorkInv
<1>6. Count(todo', "leave") = 0
  BY <1>1, NothingCounted
<1>7. DepthInv'
  BY <1>1, <1>3, <1>6 DEF DepthInv
<1>8. TablesInv'
  BY <1>1 DEF TablesInv, IsTab, NoTable, CStrings
<1>9. IndexInv'
  BY <1>1 DEF IndexInv, IsWide, IsCollection
<1> QED
  BY <1>5, <1>7, <1>8, <1>9

(* and the process ends only in a call of version 3 whose tables were made *)
(* for version 0.                                                          *)
LEMMA CrashKeeps == ASSUME IInv, Crash PROVE IInv'
<1> USE DEF IInv
<1>1. /\ todo' = << >> /\ failure' = "crashed"
      /\ UNCHANGED <<heap, stream, version, depth, strCache, traitCache, objCache,
                     leaked, versions>>
  BY DEF Crash, caches, history
<1>2. todo # << >>
  BY DEF Crash, IsObject, IsValue, Calling, Pending
<1>3. depth # 0
  BY <1>2, PendingDepth DEF DepthInv
<1>4. todo # << >> /\ (~strCache.made \/ ~traitCache.made) /\ 3 \in versions
  <2>1. CASE (IsValue(3, "str") \/ IsValue(3, "sym")) /\ NeedsStrings(TextOf(V))
    BY <2>1, HeadValue DEF IsValue, Pending, NeedsStrings
  <2>2. CASE Pending("key") /\ Head(todo).ver = 3 /\ NeedsStrings(TextOf(Head(todo).key))
    BY <2>2, HeadKey DEF Pending, NeedsStrings
  <2>3. CASE (\E kinds : IsObject(3, kinds)) /\ ~traitCache.made
    BY <2>3, HeadObject DEF IsObject, IsValue, Pending
  <2>4. CASE (\E name : Calling(name)) /\ version = 3 /\ ~traitCache.made
    BY <1>3, <2>4 DEF Calling, Pending, WorkInv
  <2> QED
    BY <2>1, <2>2, <2>3, <2>4 DEF Crash
<1>5. versions = {0, 3}
  <2>1. versions # {3} /\ versions \subseteq {0, 3}
    BY <1>3, <1>4 DEF TablesInv, WorkInv
  <2> QED
    BY <1>4, <2>1
<1>6. (IsStack(versions, todo))'
  BY <1>1, ShortSeqs, SeqFacts DEF IsStack
<1>7. WorkInv'
  BY <1>1, <1>6 DEF WorkInv
<1>8. DepthInv'
  BY <1>1, <1>5 DEF DepthInv
<1>9. TablesInv'
  BY <1>1 DEF TablesInv, IsTab, NoTable, CStrings
<1>10. IndexInv'
  BY <1>1 DEF IndexInv, IsWide, IsCollection
<1> QED
  BY <1>7, <1>8, <1>9, <1>10

(* A call outside serialize begins, is refused, or ends the process.       *)
LEMMA OutsideKeeps == ASSUME IInv, NEW c \in OutsideCalls, WriteOutside(c) PROVE IInv'
<1> USE DEF IInv
<1>1. /\ todo = << >> /\ failure # "crashed" /\ IsCall(heap, c)
      /\ UNCHANGED <<heap, stream, version, depth, strCache, traitCache, objCache,
                     leaked, versions>>
      /\ \/ failure' = "raised" /\ todo' = << >>
         \/ ~objCache.made /\ failure' = "crashed" /\ todo' = << >>
         \/ objCache.made /\ failure' = "none" /\ todo' = <<Call(c)>>
  BY DEF WriteOutside, caches
<1>2. depth = leaked /\ leaked \in Nat
  BY <1>1, NothingCounted DEF DepthInv
<1>3. IsStack(versions, << >>) /\ IsStack(versions, <<Call(c)>>)
      /\ Count(<<Call(c)>>, "leave") = 0
  <2>1. IsBody(versions, <<Call(c)>>)
    BY <1>1, WorkKinds, ShortBodies
  <2> QED
    BY <2>1, ShortBodies, NoLeave DEF IsBody
<1>4. IsStack(versions, todo') /\ Count(todo', "leave") = 0
  BY <1>1, <1>3, NothingCounted
<1>5. (IsStack(versions, todo))'
  BY <1>1, <1>4 DEF IsStack, IsWork
<1>6. WorkInv'
  BY <1>1, <1>5 DEF WorkInv
<1>7. ~objCache.made => depth = 0
  BY DEF TablesInv
<1>8. objCache.made => leaked > 0
  BY <1>1 DEF DepthInv
<1>9. DepthInv'
  BY <1>1, <1>2, <1>4, <1>7, <1>8 DEF DepthInv
<1>10. TablesInv'
  BY <1>1 DEF TablesInv, IsTab, NoTable, CStrings
<1>11. IndexInv'
  BY <1>1 DEF IndexInv, IsWide, IsCollection
<1> QED
  BY <1>6, <1>9, <1>10, <1>11

LEMMA InitIInv == Init => IInv
<1> SUFFICES ASSUME Init PROVE IInv
  OBVIOUS
<1>1. \A Keys : IsTab(NoTable, Keys) /\ ~NoTable.made /\ NoTable.idx = << >>
  BY NewTabs
<1>2. DOMAIN << >> = {}
  OBVIOUS
<1>3. IsStack(versions, todo)
  BY ShortSeqs, SeqFacts DEF Init, IsStack
<1>4. WorkInv
  BY <1>3, NoTokens DEF Init, WorkInv
<1>5. DepthInv
  BY <1>1, NothingCounted DEF Init, DepthInv
<1>6. TablesInv
  BY <1>1 DEF Init, TablesInv
<1>7. IndexInv
  BY <1>1, <1>2 DEF Init, IndexInv
<1> QED
  BY <1>4, <1>5, <1>6, <1>7 DEF IInv

LEMMA NextCases ==
    ASSUME Next
    PROVE  \/ \E c \in Calls : Serialize(c[1], c[2])
           \/ \E c \in OutsideCalls : WriteOutside(c)
           \/ CallSerialize
           \/ SerializeEnd
           \/ TextFails \/ Reference0Fails \/ CallRaises
           \/ Crash
           \/ Working
  BY DEF Next, Step, Working

LEMMA NextIInv == IInv /\ [Next]_vars => IInv'
<1> SUFFICES ASSUME IInv, [Next]_vars PROVE IInv'
  OBVIOUS
<1>1. CASE \E c \in Calls : Serialize(c[1], c[2])
  BY <1>1, SerializeKeeps
<1>2. CASE CallSerialize
  BY <1>2, CallSerializeKeeps
<1>3. CASE SerializeEnd
  BY <1>3, EndKeeps
<1>4. CASE TextFails \/ Reference0Fails \/ CallRaises
  BY <1>4, RaiseKeeps
<1>5. CASE Crash
  BY <1>5, CrashKeeps
<1>6. CASE Working
  <2>1. todo # << >> /\ Head(todo).op # "leave"
    BY <1>6, AnyWorkPending
  <2>2. WorkStep
    BY <1>6, <2>1, AnyWorkStep, PendingDepth DEF IInv
  <2> QED
    BY <2>1, <2>2, WorkStepKeeps
<1>7. CASE UNCHANGED vars
  BY <1>7 DEF vars, caches, IInv, WorkInv, TablesInv, DepthInv, IndexInv, IsStack, IsWork,
     IsTab, NoTable, CStrings, IsWide, IsCollection
<1>8. CASE \E c \in OutsideCalls : WriteOutside(c)
  BY <1>8, OutsideKeeps
<1> QED
  BY <1>1, <1>2, <1>3, <1>4, <1>5, <1>6, <1>7, <1>8, NextCases

LEMMA IInvAlways == Spec => []IInv
  BY InitIInv, NextIInv, PTL DEF Spec

----------------------------------------------------------------------------
(* TypeOK: the tables map strings, names and objects to numbers below      *)
(* their counters, the stream is made of tokens that fit, and nothing but  *)
(* calls is pending.                                                       *)
THEOREM TypeOKAlways == Spec => []TypeOK
<1>1. IInv => TypeOK
  <2> SUFFICES ASSUME IInv PROVE TypeOK
    OBVIOUS
  <2>1. /\ IsTable(strCache, {CString[s] : s \in Strings})
        /\ IsTable(traitCache, Strings) /\ IsTable(objCache, Objects)
    BY DEF IInv, TablesInv, IsTab, IsTable, CStrings
  <2>2. \A i \in DOMAIN stream : IsToken(stream[i])
    BY SeqFacts DEF IInv, WorkInv, IsTokens
  <2>3. \A i \in DOMAIN todo : IsWork(versions, todo[i])
    BY SeqFacts DEF IInv, WorkInv, IsStack
  <2>4. \A i \in DOMAIN todo : todo[i].op \in {"value", "key", "close", "call", "leave"}
    BY <2>3 DEF IsWork
  <2>5. depth \in Nat /\ leaked \in 0 .. depth
    BY DEF IInv, DepthInv
  <2> QED
    BY <2>1, <2>2, <2>4, <2>5 DEF TypeOK, IsToken, IInv, WorkInv, DepthInv
<1> QED
  BY <1>1, IInvAlways, PTL

(* OwnIndices: no two objects of a message share an index, and the array   *)
(* inside an ArrayCollection of AMF3 has one of its own.                   *)
THEOREM OwnIndicesAlways == Spec => []OwnIndices
<1>1. IInv => OwnIndices
  <2> SUFFICES ASSUME IInv PROVE OwnIndices
    OBVIOUS
  <2> DEFINE f == objCache.idx
             n == objCache.next
  <2>1. n \in Nat /\ \A o \in DOMAIN f : f[o] \in Nat /\ f[o] < n
    BY DEF IInv, TablesInv, IsTab
  <2>2. \A o, r \in DOMAIN f :
          /\ IsWide(o) => f[o] + 1 < n
          /\ o # r => f[o] # f[r] /\ (IsWide(o) => f[o] + 1 # f[r])
    BY DEF IInv, IndexInv
  <2>3. \A o : Slots(o) = f[o] .. f[o] + (IF IsWide(o) THEN 1 ELSE 0)
    BY DEF Slots, IsWide
  <2> HIDE DEF f, n
  <2>4. ASSUME NEW o \in DOMAIN f
        PROVE  /\ \A i \in Slots(o) : i = f[o] \/ (IsWide(o) /\ i = f[o] + 1)
               /\ Slots(o) \subseteq 0 .. (n - 1)
    <3>1. f[o] \in Nat /\ f[o] < n /\ n \in Nat /\ (IsWide(o) => f[o] + 1 < n)
      BY <2>1, <2>2
    <3>2. \A i \in f[o] .. f[o] + (IF IsWide(o) THEN 1 ELSE 0) :
            /\ i = f[o] \/ (IsWide(o) /\ i = f[o] + 1)
            /\ i \in 0 .. (n - 1)
      BY <3>1
    <3> QED
      BY <2>3, <3>2
  <2>5. ASSUME NEW o \in DOMAIN f, NEW r \in DOMAIN f, o # r, NEW i \in Slots(o), i \in Slots(r)
        PROVE  FALSE
    <3>1. /\ i = f[o] \/ (IsWide(o) /\ i = f[o] + 1)
          /\ i = f[r] \/ (IsWide(r) /\ i = f[r] + 1)
      BY <2>4, <2>5
    <3>2. f[o] \in Nat /\ f[r] \in Nat /\ f[o] # f[r]
          /\ (IsWide(o) => f[o] + 1 # f[r]) /\ (IsWide(r) => f[r] + 1 # f[o])
      BY <2>1, <2>2, <2>5
    <3> QED
      BY <3>1, <3>2
  <2>6. \A o, r \in DOMAIN f : o # r => Slots(o) \cap Slots(r) = {}
    BY <2>5
  <2> QED
    BY <2>4, <2>6 DEF OwnIndices, f, n
<1> QED
  BY <1>1, IInvAlways, PTL

(* StaleOnlyAfterFailure: the depth counts the running calls and those an  *)
(* exception ended, and tables outlive a message only after one.           *)
THEOREM StaleOnlyAfterFailureAlways == Spec => []StaleOnlyAfterFailure
<1>1. IInv => StaleOnlyAfterFailure
  BY DEF IInv, DepthInv, StaleOnlyAfterFailure, Count, Positions
<1> QED
  BY <1>1, IInvAlways, PTL

(* CrashesOnlyOutsideOrAcross: a table that was never made is looked into *)
(* only in a call outside serialize that no failed message precedes, or    *)
(* where calls of both versions share the tables.                          *)
THEOREM CrashesOnlyOutsideOrAcrossAlways == Spec => []CrashesOnlyOutsideOrAcross
<1>1. IInv => CrashesOnlyOutsideOrAcross
  BY DEF IInv, DepthInv, CrashesOnlyOutsideOrAcross
<1> QED
  BY <1>1, IInvAlways, PTL

(* IndicesNeverChange: while a message in version 3 runs, what the tables  *)
(* have keeps its index, whatever encode_amf calls.                        *)
THEOREM IndicesNeverChangeAlways == Spec => IndicesNeverChange
<1> DEFINE AllKeep == /\ Keeps(strCache, strCache') /\ Keeps(traitCache, traitCache')
                      /\ Keeps(objCache, objCache')
<1>1. IInv /\ [Next]_vars
        => [todo # << >> /\ todo' # << >> /\ versions' = {3} => AllKeep]_vars
  <2> SUFFICES ASSUME IInv, Next, todo # << >>, todo' # << >>, versions' = {3}
               PROVE  AllKeep
    BY DEF vars
  <2>1. ASSUME UNCHANGED <<strCache, traitCache, objCache>> PROVE AllKeep
    BY <2>1 DEF Keeps, Known
  <2>2. CASE \E c \in Calls : Serialize(c[1], c[2])
    BY <2>2 DEF Serialize
  <2>3. CASE CallSerialize
    <3>1. depth # 0
      BY PendingDepth DEF IInv, DepthInv
    <3>2. UNCHANGED <<strCache, traitCache, objCache>>
      BY <2>3, <3>1 DEF CallSerialize, Enter, EnterWith, caches
    <3> QED
      BY <2>1, <3>2
  <2>4. CASE SerializeEnd
    <3> DEFINE rest == Tail(todo)
    <3>1. /\ Head(todo).op = "leave" /\ todo' = << >> \o rest
      BY <2>4 DEF SerializeEnd, EndFreeing, Pending, Do
    <3>2. /\ IsSeq(rest)
          /\ rest # << >> => leaked > 0 \/ rest[Len(rest)].op = "leave"
          /\ Count(todo, "leave") = Count(rest, "leave") + 1 /\ Count(rest, "leave") \in Nat
      BY <3>1, TailLeaves
    <3> HIDE DEF rest
    <3>3. depth # 1
      <4>1. rest # << >>
        BY <3>1, <3>2, EmptyConcat
      <4>2. leaked > 0 \/ Count(rest, "leave") > 0
        BY <3>2, <4>1, LastCounts
      <4>3. depth = leaked + Count(todo, "leave") /\ leaked \in Nat
        BY DEF IInv, DepthInv
      <4> QED
        BY <3>2, <4>2, <4>3
    <3>4. UNCHANGED <<strCache, traitCache, objCache>>
      BY <2>4, <3>3 DEF SerializeEnd, EndFreeing, caches
    <3> QED
      BY <2>1, <3>4
  <2>5. CASE TextFails \/ Reference0Fails \/ CallRaises \/ Crash
    BY <2>5 DEF TextFails, Reference0Fails, CallRaises, Raise, Crash
  <2>7. CASE \E c \in OutsideCalls : WriteOutside(c)
    BY <2>7 DEF WriteOutside
  <2>6. CASE Working
    <3>1. WorkStep /\ objCache.made
      BY <2>6, AnyWorkStep, PendingDepth DEF IInv, TablesInv, DepthInv
    <3>2. Keeps(strCache, strCache') /\ Keeps(traitCache, traitCache')
      BY <3>1, GrownKeeps DEF WorkStep, IInv, TablesInv
    <3>3. 0 \notin versions
      BY <3>1 DEF WorkStep, Steady, history
    <3>4. UNCHANGED objCache \/ Added
      BY <3>1, <3>3 DEF WorkStep, ObjectsGrown
    <3>5. CASE Added
      <4>1. PICK o \in Objects, taken \in {1, 2} :
                   ~Known(objCache, o) /\ objCache' = Insert(objCache, o, taken)
        BY <3>5 DEF Added
      <4>2. /\ DOMAIN objCache'.idx = DOMAIN objCache.idx \cup {o}
            /\ \A k \in DOMAIN objCache.idx : k # o => objCache'.idx[k] = objCache.idx[k]
        BY <3>1, <4>1, InsertTab DEF IInv, TablesInv
      <4>3. Keeps(objCache, objCache')
        BY <4>1, <4>2 DEF Keeps, Known
      <4> QED
        BY <3>2, <4>3
    <3>6. CASE UNCHANGED objCache
      BY <3>2, <3>6 DEF Keeps, Known
    <3> QED
      BY <3>4, <3>5, <3>6
  <2> QED
    BY <2>2, <2>3, <2>4, <2>5, <2>6, <2>7, NextCases
<1>2. Spec => [][todo # << >> /\ todo' # << >> /\ versions' = {3} => AllKeep]_vars
  <2> HIDE DEF AllKeep
  <2> QED
    BY <1>1, IInvAlways, PTL DEF Spec
<1> QED
  BY <1>2 DEF IndicesNeverChange

=============================================================================
