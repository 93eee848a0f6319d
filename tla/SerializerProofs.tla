-------------------------- MODULE SerializerProofs --------------------------
(***************************************************************************)
(* Proofs about Serializer, for any heap, graph and user code.             *)
(*                                                                         *)
(* Whatever a step does, each cache stays as it is, gains one new key, or  *)
(* is made empty with the others where a message begins or ends.  That the *)
(* caches number their entries as a reader counts them, and that no entry  *)
(* is numbered twice, follow from this alone.                              *)
(***************************************************************************)
EXTENDS Serializer, StackLemmas

IsNumbering(cache) ==
    /\ cache = [idx |-> cache.idx, next |-> cache.next]
    /\ cache.next \in Nat
    /\ cache.idx = [k \in DOMAIN cache.idx |-> cache.idx[k]]
    /\ Dense(cache)

IInv == IsNumbering(cacheStrings) /\ IsNumbering(cacheObjects) /\ IsNumbering(cacheTraits)

(* One step of one cache within a message.                                 *)
Grown(cache, later) ==
    later = cache \/ \E key : ~Cached(cache, key) /\ later = Add(cache, key)

AllGrow == /\ Grown(cacheStrings, cacheStrings')
           /\ Grown(cacheObjects, cacheObjects')
           /\ Grown(cacheTraits, cacheTraits')

AllEmptied == /\ cacheStrings' = EmptyCache
              /\ cacheObjects' = EmptyCache
              /\ cacheTraits' = EmptyCache
              /\ depth = 0 \/ depth' = 0

LEMMA EmptyIsNumbering == IsNumbering(EmptyCache)
  BY DEF EmptyCache, IsNumbering, Dense

(* What add_string and add_object do to a cache that has not the key.      *)
LEMMA AddLemma ==
    ASSUME NEW cache, IsNumbering(cache), NEW key, ~Cached(cache, key)
    PROVE  IsNumbering(Add(cache, key)) /\ Keeps(cache, Add(cache, key))
<1> DEFINE later == Add(cache, key)
           f == cache.idx
           n == cache.next
           g == later.idx
<1>1. n \in Nat /\ key \notin DOMAIN f
  BY DEF IsNumbering, Cached
<1>2. /\ later = [idx |-> Store(f, key, n), next |-> n + 1]
      /\ g = Store(f, key, n) /\ later.next = n + 1
  BY DEF Add
<1>3. /\ DOMAIN g = DOMAIN f \cup {key}
      /\ g[key] = n
      /\ \A k \in DOMAIN f : g[k] = f[k]
  BY <1>1, <1>2 DEF Store
<1>4. g = [k \in DOMAIN g |-> g[k]]
  BY <1>2 DEF Store
<1>5. /\ \A k \in DOMAIN f : f[k] \in 0 .. (n - 1)
      /\ \A i \in 0 .. (n - 1) : \E k \in DOMAIN f : f[k] = i
      /\ \A j, k \in DOMAIN f : f[j] = f[k] => j = k
  BY DEF IsNumbering, Dense
<1> HIDE DEF later, f, n, g
<1>6. \A k \in DOMAIN g : g[k] \in 0 .. n
  BY <1>1, <1>3, <1>5
<1>7. \A i \in 0 .. n : \E k \in DOMAIN g : g[k] = i
  <2>1. \A i \in 0 .. n : i # n => i \in 0 .. (n - 1)
    BY <1>1
  <2> QED
    BY <2>1, <1>3, <1>5
<1>8. \A j, k \in DOMAIN g : g[j] = g[k] => j = k
  <2>1. \A k \in DOMAIN f : f[k] # n
    BY <1>1, <1>5
  <2> QED
    BY <2>1, <1>3, <1>5
<1>9. (n + 1) \in Nat /\ (n + 1) - 1 = n
  BY <1>1
<1>10. Dense(later)
  <2>1. later.idx = g /\ later.next - 1 = n
    BY <1>2, <1>9 DEF g
  <2> QED
    BY <2>1, <1>6, <1>7, <1>8 DEF Dense
<1>11. IsNumbering(later)
  <2>1. later.idx = g /\ later.next = n + 1
    BY <1>2 DEF g
  <2> QED
    BY <2>1, <1>2, <1>4, <1>9, <1>10 DEF IsNumbering
<1>12. Keeps(cache, later)
  BY <1>3 DEF Keeps, f, g
<1> QED
  BY <1>11, <1>12 DEF later

LEMMA GrownKeeps ==
    ASSUME NEW cache, NEW later, IsNumbering(cache), Grown(cache, later)
    PROVE  IsNumbering(later) /\ Keeps(cache, later)
<1>1. CASE later = cache
  BY <1>1 DEF Keeps
<1>2. CASE \E key : ~Cached(cache, key) /\ later = Add(cache, key)
  BY <1>2, AddLemma
<1> QED
  BY <1>1, <1>2 DEF Grown

----------------------------------------------------------------------------
(* The steps, one by one.                                                  *)
LEMMA EnterGrows ==
    ASSUME NEW v, NEW rest, Enter(v, rest) PROVE AllGrow \/ AllEmptied
  BY DEF Enter, EnterWith, NewCaches, caches, AllGrow, AllEmptied, Grown

LEMMA StringInternalGrows ==
    ASSUME NEW s, NEW tokens, WriteStringInternal(s, tokens)
    PROVE  Grown(cacheStrings, cacheStrings')
  BY DEF WriteStringInternal, StringWith, Grown

LEMMA LeafGrows ==
    ASSUME NEW marker, NEW o, NEW body, WriteLeaf(marker, o, body) PROVE AllGrow
  BY DEF WriteLeaf, WriteReference, caches, AllGrow, Grown

LEMMA ArrayGrows == ASSUME NEW o, Array(o) PROVE AllGrow
  BY DEF Array, WriteReference, caches, AllGrow, Grown

LEMMA ObjectGrows ==
    ASSUME NEW o, NEW given, NEW givenTraits, Object(o, given, givenTraits)
    PROVE  AllGrow
<1>1. CASE WriteReference(OBJECT_MARKER, o)
  BY <1>1 DEF WriteReference, caches, AllGrow, Grown
<1>2. CASE ~WriteReference(OBJECT_MARKER, o)
  <2> DEFINE traits == IF givenTraits = Nil THEN Traits(o) ELSE givenTraits
             default == givenTraits = Nil /\ traits.class_name = NoName
             name    == IF default THEN DefaultName ELSE traits.class_name
  <2>1. /\ ~Cached(cacheObjects, o)
        /\ cacheObjects' = Add(cacheObjects, o)
    BY <1>2 DEF Object
  <2>2. \/ UNCHANGED <<cacheStrings, cacheTraits>>
        \/ /\ ~(name # NoName /\ Cached(cacheTraits, name))
           /\ cacheTraits' = IF name = NoName THEN cacheTraits ELSE Add(cacheTraits, name)
           /\ WriteStringInternal(IF name \in {DefaultName, NoName} THEN EmptyString ELSE name,
                                  <<Word(OBJECT_MARKER), TraitsHeader(traits)>>)
    BY <1>2 DEF Object
  <2> HIDE DEF name
  <2>3. Grown(cacheTraits, cacheTraits')
    BY <2>2 DEF Grown
  <2>4. Grown(cacheStrings, cacheStrings')
    BY <2>2, StringInternalGrows DEF Grown
  <2>5. Grown(cacheObjects, cacheObjects')
    BY <2>1 DEF Grown
  <2> QED
    BY <2>3, <2>4, <2>5 DEF AllGrow
<1> QED
  BY <1>1, <1>2

LEMMA StepGrows == ASSUME [Next]_vars PROVE AllGrow \/ AllEmptied
<1>1. CASE \E v \in Roots : Serialize(v)
  BY <1>1, EnterGrows DEF Serialize
<1>2. CASE SerializeEnd
  BY <1>2 DEF SerializeEnd, EndWith, NewCaches, caches, AllGrow, AllEmptied, Grown
<1>3. CASE WriteConst \/ WriteNumeric \/ EncodingFails
  BY <1>3 DEF WriteConst, WriteNumeric, EncodingFails, caches, AllGrow, Grown
<1>4. CASE WriteString
  BY <1>4, StringInternalGrows DEF WriteString, AllGrow, Grown
<1>5. CASE WriteKey
  BY <1>5, StringInternalGrows DEF WriteKey, AllGrow, Grown
<1>6. CASE WriteTime
  BY <1>6, LeafGrows DEF WriteTime
<1>7. CASE WriteDate
  BY <1>7, LeafGrows DEF WriteDate
<1>8. CASE WriteByteArray
  BY <1>8, LeafGrows DEF WriteByteArray
<1>9. CASE WriteArray
  BY <1>9, ArrayGrows DEF WriteArray
<1>10. CASE WriteObject
  BY <1>10, ObjectGrows DEF WriteObject
<1>11. CASE WriteSealed \/ DeleteSealed \/ WriteClose
  BY <1>11 DEF WriteSealed, DeleteSealed, WriteClose, caches, AllGrow, Grown
<1>12. CASE EncodeAmf \/ CallRaises
  BY <1>12 DEF EncodeAmf, CallRaises, caches, AllGrow, Grown
<1>13. CASE CallSerialize
  BY <1>13, EnterGrows DEF CallSerialize
<1>14. CASE CallWriteArray
  BY <1>14, ArrayGrows DEF CallWriteArray
<1>15. CASE CallWriteObject
  BY <1>15, ObjectGrows DEF CallWriteObject
<1>16. CASE UNCHANGED vars
  BY <1>16 DEF vars, caches, AllGrow, Grown
<1> QED
  BY <1>1, <1>2, <1>3, <1>4, <1>5, <1>6, <1>7, <1>8, <1>9, <1>10, <1>11,
     <1>12, <1>13, <1>14, <1>15, <1>16 DEF Next, Step

----------------------------------------------------------------------------
LEMMA InitIInv == Init => IInv
  BY EmptyIsNumbering DEF Init, IInv

LEMMA NextIInv == IInv /\ [Next]_vars => IInv'
  BY StepGrows, GrownKeeps, EmptyIsNumbering DEF IInv, AllGrow, AllEmptied

LEMMA IInvAlways == Spec => []IInv
  BY InitIInv, NextIInv, PTL DEF Spec

(* The entries of every cache are numbered from 0 without a gap and apart. *)
THEOREM CachesDenseAlways == Spec => []CachesDense
<1>1. IInv => CachesDense
  BY DEF IInv, IsNumbering, CachesDense
<1> QED
  BY <1>1, IInvAlways, PTL

(* An index, once given, stays until the message ends.                     *)
THEOREM IndicesNeverChangeAlways == Spec => IndicesNeverChange
<1> DEFINE Kept == depth # 0 /\ depth' # 0 => /\ Keeps(cacheStrings, cacheStrings')
                                              /\ Keeps(cacheObjects, cacheObjects')
                                              /\ Keeps(cacheTraits, cacheTraits')
<1>1. ASSUME IInv, Next PROVE Kept
  BY <1>1, StepGrows, GrownKeeps DEF IInv, AllGrow, AllEmptied
<1>2. IInv /\ [Next]_vars => [Kept]_vars
  BY <1>1
<1> QED
  BY <1>2, IInvAlways, PTL DEF Spec, IndicesNeverChange
----------------------------------------------------------------------------
(* The pending calls are what the program, user code and the serializer    *)
(* itself put there: every argument is a value of the heap, and the last   *)
(* of them is the end of the outermost serialize, which an exception       *)
(* therefore always leaves undone.                                         *)
IsToken(t)  == DOMAIN t \in {{"word"}, {"double"}} \/ t \in {Raw(s) : s \in Blobs}
IsTokens(s) == IsSeq(s) /\ \A i \in 1 .. Len(s) : IsToken(s[i])

(* What is on the stream: these, and the strings that are inline.          *)
InlineTexts == Texts \ {EmptyString}
IsStream(s) == /\ IsSeq(s)
               /\ \A i \in 1 .. Len(s) :
                    IsToken(s[i]) \/ s[i] \in {Raw(t) : t \in InlineTexts}

IsProps(h, props) ==
    \/ \E o \in Objects : props = Ref(o) /\ h[o].kind = "hash"
    \/ \E pairs : IsPairs(pairs) /\ props = [pairs |-> pairs]

(* User code has passed traits with these members along with the Hash.     *)
MaySeal(h, props, members) ==
    \A o \in Objects : props = Ref(o) =>
      \A i \in DOMAIN members : Seals(h, o, Str(members[i]))

MayCall(h, c) == c.name = "write_object" /\ c.traits # Nil =>
                   MaySeal(h, c.props, c.traits.members)

IsWork(h, c) ==
    \/ c.op = "value" /\ IsValue(c.value)
    \/ c.op = "string" /\ c.text \in Texts
    \/ c.op = "call" /\ IsCall(h, c.call) /\ MayCall(h, c.call)
    \/ c.op \in {"close", "leave"}
    \/ /\ c.op \in {"sealed", "delete"}
       /\ IsProps(h, c.props)
       /\ IsNames(c.members) /\ c.members # << >>
       /\ MaySeal(h, c.props, c.members)

IsStack(h, s) == IsSeq(s) /\ \A i \in 1 .. Len(s) : IsWork(h, s[i])
IsBody(h, s)  == IsStack(h, s) /\ \A i \in 1 .. Len(s) : s[i].op # "leave"

KeysInv == /\ DOMAIN cacheStrings.idx \subseteq InlineTexts
           /\ DOMAIN cacheObjects.idx \subseteq Objects
           /\ DOMAIN cacheTraits.idx \subseteq Strings

WorkInv == /\ IsHeap(heap)
           /\ IsStream(stream)
           /\ IsStack(heap, todo)
           /\ KeysInv
           /\ IsSeq(sent) /\ Len(sent) <= MaxMessages

DepthInv == /\ leaked \in Nat
            /\ depth = leaked + Count(todo, "leave")
            /\ todo # << >> => todo[Len(todo)].op = "leave"
            /\ todo = << >> /\ (\E c \in {cacheStrings, cacheObjects, cacheTraits} :
                                   c # EmptyCache) => leaked > 0

(* A step of the innermost call: it writes tokens, of which the last may   *)
(* be a new string, and leaves calls of its own kind to do.                *)
Writes == \E tokens :
            /\ IsTokens(tokens)
            /\ \/ Emit(tokens) /\ UNCHANGED cacheStrings
               \/ \E s \in InlineTexts : /\ ~Cached(cacheStrings, s)
                                         /\ cacheStrings' = Add(cacheStrings, s)
                                         /\ Emit(tokens \o <<Raw(s)>>)
Leaves == \E calls : IsBody(heap', calls) /\ Do(calls)

(* Objects keep what they are, and user code what it calls.                *)
SameKinds(h, later) == \A o \in Objects :
                         /\ later[o].kind = h[o].kind
                         /\ Is("calls", later[o]) <=> Is("calls", h[o])
                         /\ Is("calls", h[o]) => later[o].calls = h[o].calls

----------------------------------------------------------------------------
(* Sequences.                                                              *)
LEMMA ListIsSeq == ASSUME NEW s PROVE IsList(s) <=> IsSeq(s)
  BY RangeSeq DEF IsList

LEMMA NoTokens == IsTokens(<< >>)
  BY ShortSeqs, SeqFacts DEF IsTokens

LEMMA OneToken == ASSUME NEW t, IsToken(t) PROVE IsTokens(<<t>>)
  BY ShortSeqs DEF IsTokens

LEMMA ConcatTokens ==
    ASSUME NEW s, IsTokens(s), NEW t, IsTokens(t) PROVE IsTokens(s \o t)
<1>1. IsSeq(s \o t)
  BY ConcatFacts DEF IsTokens
<1>2. ASSUME NEW i \in 1 .. Len(s \o t) PROVE IsToken((s \o t)[i])
  BY ConcatEntries DEF IsTokens
<1> QED
  BY <1>1, <1>2 DEF IsTokens

LEMMA PairConcat == \A x, y : <<x, y>> = <<x>> \o <<y>>
<1> SUFFICES ASSUME NEW x, NEW y PROVE <<x, y>> = <<x>> \o <<y>>
  OBVIOUS
<1> DEFINE s == <<x>> \o <<y>>
           t == <<x, y>>
           S == {x, y}
<1>1. <<x>> \in Seq(S) /\ <<y>> \in Seq(S)
  OBVIOUS
<1>2. s \in Seq(S) /\ Len(s) = 2 /\ s[1] = x /\ s[2] = y
  BY <1>1
<1>3. t \in Seq(S) /\ Len(t) = 2 /\ t[1] = x /\ t[2] = y
  OBVIOUS
<1> HIDE DEF s, t, S
<1>4. \A i \in 1 .. 2 : s[i] = t[i]
  <2>1. \A i \in 1 .. 2 : i = 1 \/ i = 2
    OBVIOUS
  <2> QED
    BY <1>2, <1>3, <2>1
<1>5. s = t
  BY <1>2, <1>3, <1>4
<1> QED
  BY <1>5 DEF s, t

LEMMA ConcatTwice ==
    ASSUME NEW s, IsSeq(s), NEW t, IsSeq(t), NEW u, IsSeq(u)
    PROVE  s \o (t \o u) = (s \o t) \o u
<1>1. PICK S : s \in Seq(S)
  BY DEF IsSeq
<1>2. PICK T : t \in Seq(T)
  BY DEF IsSeq
<1>3. PICK U : u \in Seq(U)
  BY DEF IsSeq
<1>4. /\ s \in Seq(S \cup T \cup U) /\ t \in Seq(S \cup T \cup U)
      /\ u \in Seq(S \cup T \cup U)
  BY <1>1, <1>2, <1>3
<1> QED
  BY <1>4, ConcatAssociative

LEMMA ConcatStream ==
    ASSUME NEW s, IsStream(s), NEW t, IsTokens(t)
    PROVE  /\ IsStream(s \o t)
           /\ \A x \in InlineTexts : IsStream(s \o (t \o <<Raw(x)>>))
<1>1. IsSeq(s \o t)
  BY ConcatFacts DEF IsTokens, IsStream
<1>2. IsStream(s \o t)
  <2>1. ASSUME NEW i \in 1 .. Len(s \o t)
        PROVE  IsToken((s \o t)[i]) \/ (s \o t)[i] \in {Raw(x) : x \in InlineTexts}
    BY ConcatEntries DEF IsTokens, IsStream
  <2> QED
    BY <1>1, <2>1 DEF IsStream
<1>3. ASSUME NEW x \in InlineTexts PROVE IsStream(s \o (t \o <<Raw(x)>>))
  <2> DEFINE u == s \o t
             v == <<Raw(x)>>
  <2>1. IsSeq(v) /\ Len(v) = 1 /\ v[1] = Raw(x) /\ IsSeq(u)
    BY <1>1, ShortSeqs
  <2>2. u \o v = s \o (t \o v)
    BY <2>1, ConcatTwice DEF IsTokens, IsStream
  <2> HIDE DEF u, v
  <2>3. ASSUME NEW i \in 1 .. Len(u \o v)
        PROVE  IsToken((u \o v)[i]) \/ (u \o v)[i] \in {Raw(y) : y \in InlineTexts}
    <3>1. \/ \E j \in 1 .. Len(u) : (u \o v)[i] = u[j]
          \/ \E j \in 1 .. Len(v) : (u \o v)[i] = v[j]
      BY <2>1, ConcatEntries
    <3>2. \A j \in 1 .. Len(v) : v[j] = Raw(x)
      BY <2>1
    <3>3. \A j \in 1 .. Len(u) : IsToken(u[j]) \/ u[j] \in {Raw(y) : y \in InlineTexts}
      BY <1>2 DEF u, IsStream
    <3> QED
      BY <3>1, <3>2, <3>3
  <2>4. IsStream(u \o v)
    BY <2>1, <2>3, ConcatFacts DEF IsStream
  <2> QED
    BY <2>2, <2>4 DEF v
<1> QED
  BY <1>2, <1>3

LEMMA WritesStream ==
    ASSUME IsStream(stream), Writes \/ UNCHANGED <<stream, cacheStrings>>
    PROVE  IsStream(stream')
  BY ConcatStream DEF Writes, Emit

LEMMA ConcatStack ==
    ASSUME NEW h, NEW s, IsStack(h, s), NEW t, IsStack(h, t)
    PROVE  IsStack(h, s \o t)
<1>1. IsSeq(s \o t)
  BY ConcatFacts DEF IsStack
<1>2. ASSUME NEW i \in 1 .. Len(s \o t) PROVE IsWork(h, (s \o t)[i])
  BY ConcatEntries DEF IsStack
<1> QED
  BY <1>1, <1>2 DEF IsStack

LEMMA ConcatBody ==
    ASSUME NEW h, NEW s, IsBody(h, s), NEW t, IsBody(h, t)
    PROVE  IsBody(h, s \o t)
<1>1. IsStack(h, s \o t)
  BY ConcatStack DEF IsBody
<1>2. ASSUME NEW i \in 1 .. Len(s \o t) PROVE (s \o t)[i].op # "leave"
  BY ConcatEntries DEF IsBody, IsStack
<1> QED
  BY <1>1, <1>2 DEF IsBody

LEMMA ShortBodies ==
    ASSUME NEW h
    PROVE  /\ IsBody(h, << >>)
           /\ \A x : IsWork(h, x) /\ x.op # "leave" => IsBody(h, <<x>>)
           /\ \A x, y : IsWork(h, x) /\ x.op # "leave" /\ IsWork(h, y) /\ y.op # "leave"
                => IsBody(h, <<x, y>>)
<1>1. IsBody(h, << >>)
  BY ShortSeqs, SeqFacts DEF IsBody, IsStack
<1>2. ASSUME NEW x, IsWork(h, x), x.op # "leave" PROVE IsBody(h, <<x>>)
  BY <1>2, ShortSeqs DEF IsBody, IsStack
<1>3. ASSUME NEW x, NEW y, IsWork(h, x), x.op # "leave", IsWork(h, y), y.op # "leave"
      PROVE  IsBody(h, <<x, y>>)
  <2> DEFINE s == <<x, y>>
  <2>1. IsSeq(s) /\ Len(s) = 2 /\ s[1] = x /\ s[2] = y
    BY ShortSeqs
  <2>2. \A i \in 1 .. 2 : i = 1 \/ i = 2
    OBVIOUS
  <2> HIDE DEF s
  <2>3. IsBody(h, s)
    BY <1>3, <2>1, <2>2 DEF IsBody, IsStack
  <2> QED
    BY <2>3 DEF s
<1> QED
  BY <1>1, <1>2, <1>3

----------------------------------------------------------------------------
(* Values, texts and property lists.                                       *)
LEMMA TextOf == ASSUME NEW v, IsText(v) PROVE Text(v) \in Texts /\ IsValue(v)
<1>1. PICK s \in Texts : v = Str(s) \/ v = Sym(s)
  BY DEF IsText
<1>2. CASE v = Str(s)
  BY <1>2 DEF Text, Is, Str, IsValue, IsText
<1>3. CASE v = Sym(s)
  BY <1>3 DEF Text, Is, Sym, IsValue, IsText
<1> QED
  BY <1>1, <1>2, <1>3

LEMMA ValueTags ==
    ASSUME NEW v, IsValue(v)
    PROVE  /\ Is("str", v) \/ Is("sym", v) => Text(v) \in Texts
           /\ Is("ref", v) => v.ref \in Objects
<1>1. CASE v \in {Nil, True, False}
  BY <1>1 DEF Nil, True, False, Is
<1>2. CASE IsText(v)
  <2>1. Text(v) \in Texts
    BY <1>2, TextOf
  <2>2. ~Is("ref", v)
    BY <1>2 DEF IsText, Is, Str, Sym
  <2> QED
    BY <2>1, <2>2
<1>3. CASE DOMAIN v \in {{"num"}, {"float"}}
  BY <1>3 DEF Is
<1>4. CASE \E o \in Objects : v = Ref(o)
  BY <1>4 DEF Ref, Is
<1> QED
  BY <1>1, <1>2, <1>3, <1>4 DEF IsValue

LEMMA StrIsText == ASSUME NEW s \in Texts PROVE IsText(Str(s))
  BY DEF IsText

LEMMA PairsFacts ==
    ASSUME NEW pairs, IsPairs(pairs)
    PROVE  /\ IsSeq(pairs) /\ Len(pairs) \in Nat /\ DOMAIN pairs = 1 .. Len(pairs)
           /\ \A i \in 1 .. Len(pairs) : IsText(pairs[i][1]) /\ IsValue(pairs[i][2])
  BY ListIsSeq, SeqFacts DEF IsPairs

(* Hash#delete takes the entry of the key out, if there is one.            *)
LEMMA WithoutEntries ==
    ASSUME NEW pairs, IsSeq(pairs), NEW key
    PROVE  \/ Without(pairs, key) = pairs
           \/ \E k \in 1 .. Len(pairs) :
                /\ pairs[k][1] = key
                /\ IsSeq(Without(pairs, key)) /\ Len(Without(pairs, key)) = Len(pairs) - 1
                /\ \A j \in 1 .. Len(pairs) - 1 :
                     Without(pairs, key)[j] = pairs[IF j < k THEN j ELSE j + 1]
<1>1. CASE At(pairs, key) = {}
  BY <1>1 DEF Without
<1>2. CASE At(pairs, key) # {}
  <2> DEFINE i == CHOOSE i \in At(pairs, key) : TRUE
             n == Len(pairs)
             s == SubSeq(pairs, 1, i - 1)
             t == SubSeq(pairs, i + 1, n)
  <2>1. n \in Nat /\ i \in 1 .. n /\ pairs[i][1] = key
    BY <1>2, SeqFacts DEF At
  <2>2. PICK S : pairs \in Seq(S)
    BY DEF IsSeq
  <2> HIDE DEF i
  <2>3. /\ s \in Seq(S) /\ Len(s) = i - 1
        /\ \A j \in 1 .. i - 1 : s[j] = pairs[j]
    BY <2>1, <2>2
  <2>4. /\ t \in Seq(S) /\ Len(t) = n - i
        /\ \A j \in 1 .. n - i : t[j] = pairs[i + j]
    BY <2>1, <2>2
  <2> HIDE DEF s, t
  <2>5. /\ IsSeq(s \o t) /\ Len(s \o t) = n - 1
        /\ \A j \in 1 .. i - 1 : (s \o t)[j] = pairs[j]
        /\ \A j \in 1 .. n - i : (s \o t)[(i - 1) + j] = pairs[i + j]
    <3>1. IsSeq(s) /\ IsSeq(t)
      BY <2>3, <2>4 DEF IsSeq
    <3>2. /\ IsSeq(s \o t) /\ Len(s \o t) = Len(s) + Len(t)
          /\ \A j \in 1 .. Len(s) : (s \o t)[j] = s[j]
          /\ \A j \in 1 .. Len(t) : (s \o t)[Len(s) + j] = t[j]
      BY <3>1, ConcatFacts
    <3> QED
      BY <2>1, <2>3, <2>4, <3>2
  <2> DEFINE u == s \o t
  <2> HIDE DEF u, n
  <2>6. ASSUME NEW j \in 1 .. n - 1 PROVE u[j] = pairs[IF j < i THEN j ELSE j + 1]
    <3>1. CASE j < i
      <4>1. j \in 1 .. i - 1
        BY <2>1, <3>1
      <4> QED
        BY <2>5, <3>1, <4>1 DEF u
    <3>2. CASE ~(j < i)
      <4>1. j - (i - 1) \in 1 .. n - i /\ (i - 1) + (j - (i - 1)) = j
            /\ i + (j - (i - 1)) = j + 1
        BY <2>1, <3>2
      <4>2. u[(i - 1) + (j - (i - 1))] = pairs[i + (j - (i - 1))]
        BY <2>5, <4>1 DEF u
      <4> QED
        BY <3>2, <4>1, <4>2
    <3> QED
      BY <3>1, <3>2
  <2>7. Without(pairs, key) = u
    BY <1>2 DEF Without, u, s, t, n, i
  <2>8. IsSeq(u) /\ Len(u) = n - 1
    BY <2>5 DEF u
  <2> QED
    BY <2>1, <2>6, <2>7, <2>8 DEF n
<1> QED
  BY <1>1, <1>2

LEMMA WithoutPairs ==
    ASSUME NEW pairs, IsPairs(pairs), NEW key PROVE IsPairs(Without(pairs, key))
<1> DEFINE u == Without(pairs, key)
           n == Len(pairs)
<1>1. /\ IsSeq(pairs) /\ n \in Nat
      /\ \A i \in 1 .. n : IsText(pairs[i][1]) /\ IsValue(pairs[i][2])
  BY PairsFacts
<1>2. CASE u = pairs
  BY <1>2
<1>3. CASE \E k \in 1 .. n :
             /\ IsSeq(u) /\ Len(u) = n - 1
             /\ \A j \in 1 .. n - 1 : u[j] = pairs[IF j < k THEN j ELSE j + 1]
  <2>1. PICK k \in 1 .. n :
             /\ IsSeq(u) /\ Len(u) = n - 1
             /\ \A j \in 1 .. n - 1 : u[j] = pairs[IF j < k THEN j ELSE j + 1]
    BY <1>3
  <2> HIDE DEF u, n
  <2>2. DOMAIN u = 1 .. n - 1 /\ IsList(u)
    BY <2>1, SeqFacts, ListIsSeq
  <2>3. \A j \in 1 .. n - 1 : (IF j < k THEN j ELSE j + 1) \in 1 .. n
    BY <1>1
  <2>4. IsPairs(u)
    BY <1>1, <2>1, <2>2, <2>3 DEF IsPairs
  <2> QED
    BY <2>4 DEF u
<1>4. IsPairs(u)
  BY <1>1, <1>2, <1>3, WithoutEntries
<1> QED
  BY <1>4

LEMMA FetchValue ==
    ASSUME NEW pairs, IsPairs(pairs), NEW key PROVE IsValue(Fetch(pairs, key))
<1>1. CASE At(pairs, key) = {}
  BY <1>1 DEF Fetch, IsValue
<1>2. CASE At(pairs, key) # {}
  <2> DEFINE i == CHOOSE i \in At(pairs, key) : TRUE
  <2>1. i \in DOMAIN pairs
    BY <1>2 DEF At
  <2>2. Fetch(pairs, key) = pairs[i][2]
    BY <1>2 DEF Fetch
  <2> HIDE DEF i
  <2> QED
    BY <2>1, <2>2 DEF IsPairs
<1> QED
  BY <1>1, <1>2

(* Setting an entry of a hash keeps keys and values in their sets.         *)
LEMMA PutInto ==
    ASSUME NEW K, NEW V, NEW pairs \in Seq(K \X V), NEW key \in K, NEW value \in V
    PROVE  PutPair(pairs, key, value) \in Seq(K \X V)
<1> DEFINE T == K \X V
           pair == <<key, value>>
<1>1. pair \in T /\ pairs \in Seq(T)
  OBVIOUS
<1> HIDE DEF T, pair
<1>2. CASE \E i \in DOMAIN pairs : pairs[i][1] = key
  <2> DEFINE s == [i \in DOMAIN pairs |-> IF pairs[i][1] = key THEN pair ELSE pairs[i]]
  <2>1. PutPair(pairs, key, value) = s
    BY <1>2 DEF PutPair, pair
  <2>2. DOMAIN pairs = 1 .. Len(pairs) /\ Len(pairs) \in Nat
    BY <1>1
  <2>3. \A i \in DOMAIN pairs : pairs[i] \in T
    BY <1>1
  <2>4. s \in [1 .. Len(pairs) -> T]
    BY <1>1, <2>2, <2>3
  <2> HIDE DEF s
  <2>5. s \in Seq(T)
    BY <2>2, <2>4
  <2> QED
    BY <2>1, <2>5 DEF T
<1>3. CASE ~ \E i \in DOMAIN pairs : pairs[i][1] = key
  <2>1. PutPair(pairs, key, value) = Append(pairs, pair)
    BY <1>3 DEF PutPair, pair
  <2>2. Append(pairs, pair) \in Seq(T)
    BY <1>1
  <2> QED
    BY <2>1, <2>2 DEF T
<1> QED
  BY <1>2, <1>3

LEMMA PairsOver ==
    ASSUME NEW K, \A key \in K : IsText(key), NEW V, \A value \in V : IsValue(value),
           NEW pairs \in Seq(K \X V)
    PROVE  IsPairs(pairs)
<1>1. \A i \in DOMAIN pairs : pairs[i][1] \in K /\ pairs[i][2] \in V
  <2> DEFINE T == K \X V
  <2>1. ASSUME NEW i \in DOMAIN pairs PROVE pairs[i] \in T
    <3> HIDE DEF T
    <3>1. pairs \in Seq(T)
      BY DEF T
    <3> QED
      BY <3>1
  <2> QED
    BY <2>1
<1>2. IsList(pairs)
  BY ListIsSeq DEF IsSeq
<1> QED
  BY <1>1, <1>2 DEF IsPairs

(* The properties the mapper makes of an object are pairs.                 *)
LEMMA SerializedPairs ==
    ASSUME NEW object, IsPairs(object.pairs) PROVE IsPairs(ObjectSerialize(object))
<1> DEFINE pairs == object.pairs
           n == Len(pairs)
           K == {Str(s) : s \in Texts}
           V == {pairs[i][2] : i \in 1 .. n}
           T == Seq(K \X V)
           Put(p, i) == PutPair(p, Str(Text(pairs[i][1])), pairs[i][2])
           F == [p \in T \X (1 .. n) |-> Put(p[1], p[2])]
           made == CHOOSE made :
                     made = [i \in 0 .. n |-> IF i = 0 THEN << >> ELSE Put(made[i - 1], i)]
<1>1. /\ n \in Nat
      /\ \A i \in 1 .. n : IsText(pairs[i][1]) /\ IsValue(pairs[i][2])
  BY PairsFacts
<1>2. /\ \A i \in 1 .. n : Str(Text(pairs[i][1])) \in K /\ pairs[i][2] \in V
      /\ \A key \in K : IsText(key)
      /\ \A value \in V : IsValue(value)
  BY <1>1, TextOf, StrIsText
<1>3. << >> \in T
  OBVIOUS
<1>4. F \in StepOver(n, T)
  <2>1. ASSUME NEW p \in T, NEW i \in 1 .. n PROVE Put(p, i) \in T
    <3>1. Str(Text(pairs[i][1])) \in K /\ pairs[i][2] \in V
      BY <1>2
    <3> HIDE DEF K, V, pairs
    <3> QED
      BY <3>1, PutInto
  <2> HIDE DEF Put, T
  <2> QED
    BY <2>1 DEF StepOver
<1> HIDE DEF Put, T, n
<1>5. PICK h \in [0 .. n -> T] : Solves(h, n, << >>, F)
  <2> HIDE DEF F
  <2> QED
    BY <1>1, <1>3, <1>4, RecursionSolved
<1>6. \A i \in 0 .. n : h[i] = IF i = 0 THEN << >> ELSE Put(h[i - 1], i)
  <2>1. ASSUME NEW i \in 1 .. n PROVE h[i] = Put(h[i - 1], i)
    <3>1. i - 1 \in 0 .. n
      BY <1>1
    <3>2. F[<<h[i - 1], i>>] = Put(h[i - 1], i)
      BY <3>1
    <3> HIDE DEF F
    <3> QED
      BY <1>5, <3>2 DEF Solves
  <2> HIDE DEF F
  <2> QED
    BY <1>1, <1>5, <2>1 DEF Solves
<1> HIDE DEF F
<1>7. h = [i \in 0 .. n |-> IF i = 0 THEN << >> ELSE Put(h[i - 1], i)]
  BY <1>6
<1>8. made = [i \in 0 .. n |-> IF i = 0 THEN << >> ELSE Put(made[i - 1], i)]
  BY <1>7
<1> HIDE DEF made
<1> DEFINE S == {i \in Nat : i <= n => made[i] \in T}
<1>9. 0 \in S
  BY <1>1, <1>3, <1>8
<1>10. ASSUME NEW i \in Nat, i \in S PROVE i + 1 \in S
  <2> SUFFICES ASSUME i + 1 <= n PROVE made[i + 1] \in T
    OBVIOUS
  <2>1. i + 1 \in 1 .. n /\ (i + 1) - 1 = i /\ i \in 0 .. n /\ i + 1 \in 0 .. n /\ i + 1 # 0
    BY <1>1
  <2>2. made[i] \in T /\ made[i + 1] = Put(made[i], i + 1)
    <3>1. made[i + 1] = Put(made[(i + 1) - 1], i + 1)
      BY <1>8, <2>1
    <3>2. made[i] \in T
      BY <1>1, <1>10, <2>1
    <3> QED
      BY <2>1, <3>1, <3>2
  <2>3. Str(Text(pairs[i + 1][1])) \in K /\ pairs[i + 1][2] \in V
    BY <1>2, <2>1
  <2> HIDE DEF K, V, pairs
  <2> QED
    BY <2>2, <2>3, PutInto DEF Put, T
<1>11. made[n] \in T
  <2>1. Nat \subseteq S
    <3> HIDE DEF S
    <3> QED
      BY <1>9, <1>10, SetInduction
  <2> QED
    BY <1>1, <2>1
<1>12. IsPairs(made[n])
  <2> HIDE DEF K, V, pairs
  <2> QED
    BY <1>2, <1>11, PairsOver DEF T
<1>13. ObjectSerialize(object) = IF object.kind = "object" THEN pairs ELSE made[n]
  BY DEF ObjectSerialize, made, Put, n
<1> QED
  BY <1>12, <1>13

----------------------------------------------------------------------------
(* What the helpers write and leave to do.                                 *)
LEMMA TokenFacts ==
    /\ \A n : IsToken(Word(n))
    /\ \A v : IsToken(Double(v))
    /\ \A s \in Blobs : IsToken(Raw(s))
<1>1. \A n : IsToken(Word(n))
  BY DEF IsToken, Word
<1>2. \A v : IsToken(Double(v))
  BY DEF IsToken, Double
<1>3. \A s \in Blobs : IsToken(Raw(s))
  BY DEF IsToken
<1> QED
  BY <1>1, <1>2, <1>3

LEMMA TwoTokens ==
    ASSUME NEW t, IsToken(t), NEW u, IsToken(u) PROVE IsTokens(<<t, u>>)
<1> DEFINE s == <<t, u>>
<1>1. IsSeq(s) /\ Len(s) = 2 /\ s[1] = t /\ s[2] = u
  BY ShortSeqs
<1>2. \A i \in 1 .. 2 : i = 1 \/ i = 2
  OBVIOUS
<1> HIDE DEF s
<1>3. IsTokens(s)
  BY <1>1, <1>2 DEF IsTokens
<1> QED
  BY <1>3 DEF s

LEMMA AddKeys ==
    ASSUME NEW cache, NEW key
    PROVE  DOMAIN Add(cache, key).idx = DOMAIN cache.idx \cup {key}
  BY DEF Add, Store

LEMMA StringInternalWrites ==
    ASSUME KeysInv, NEW s \in Texts, NEW tokens, IsTokens(tokens),
           WriteStringInternal(s, tokens)
    PROVE  Writes /\ DOMAIN cacheStrings'.idx \subseteq InlineTexts
<1>1. CASE Emit(tokens \o <<Word(EMPTY_STRING)>>) /\ UNCHANGED cacheStrings
  <2>1. IsTokens(tokens \o <<Word(EMPTY_STRING)>>)
    BY TokenFacts, OneToken, ConcatTokens
  <2> QED
    BY <1>1, <2>1 DEF Writes, KeysInv
<1>2. CASE Emit(tokens \o <<Reference(cacheStrings.idx[s])>>) /\ UNCHANGED cacheStrings
  <2>1. IsTokens(tokens \o <<Reference(cacheStrings.idx[s])>>)
    BY TokenFacts, OneToken, ConcatTokens DEF Reference
  <2> QED
    BY <1>2, <2>1 DEF Writes, KeysInv
<1>3. CASE /\ s # EmptyString /\ ~Cached(cacheStrings, s)
           /\ Emit(tokens \o <<Header(ByteSize[s]), Raw(s)>>)
           /\ cacheStrings' = Add(cacheStrings, s)
  <2> DEFINE first == tokens \o <<Header(ByteSize[s])>>
  <2>1. IsTokens(first)
    BY TokenFacts, OneToken, ConcatTokens DEF Header
  <2>2. DOMAIN cacheStrings'.idx = DOMAIN cacheStrings.idx \cup {s}
    BY <1>3, AddKeys
  <2>3. tokens \o <<Header(ByteSize[s]), Raw(s)>> = first \o <<Raw(s)>>
    <3>1. \A x, y : <<x, y>> = <<x>> \o <<y>>
      BY PairConcat
    <3>2. IsSeq(tokens) /\ IsSeq(<<Header(ByteSize[s])>>) /\ IsSeq(<<Raw(s)>>)
      BY ShortSeqs DEF IsTokens
    <3> QED
      BY <3>1, <3>2, ConcatTwice
  <2>4. s \in InlineTexts
    BY <1>3 DEF InlineTexts
  <2> HIDE DEF first
  <2> QED
    BY <1>3, <2>1, <2>2, <2>3, <2>4 DEF Writes, KeysInv
<1> QED
  BY <1>1, <1>2, <1>3 DEF WriteStringInternal, StringWith

LEMMA WorkKinds ==
    ASSUME NEW h
    PROVE  /\ \A v : IsValue(v) => IsWork(h, Value(v)) /\ Value(v).op # "leave"
           /\ \A s \in Texts : IsWork(h, StringOf(s)) /\ StringOf(s).op # "leave"
           /\ \A c : IsCall(h, c) /\ MayCall(h, c) =>
                    IsWork(h, Call(c)) /\ Call(c).op # "leave"
           /\ IsWork(h, Close) /\ Close.op # "leave"
           /\ IsWork(h, Leave) /\ Leave.op = "leave"
<1>1. ASSUME NEW v, IsValue(v) PROVE IsWork(h, Value(v)) /\ Value(v).op # "leave"
  BY <1>1 DEF Value, IsWork
<1>2. ASSUME NEW s \in Texts PROVE IsWork(h, StringOf(s)) /\ StringOf(s).op # "leave"
  BY DEF StringOf, IsWork
<1>3. ASSUME NEW c, IsCall(h, c), MayCall(h, c)
      PROVE  IsWork(h, Call(c)) /\ Call(c).op # "leave"
  BY <1>3 DEF Call, IsWork
<1>4. /\ IsWork(h, Close) /\ Close.op # "leave"
      /\ IsWork(h, Leave) /\ Leave.op = "leave"
  BY DEF Close, Leave, IsWork
<1> QED
  BY <1>1, <1>2, <1>3, <1>4

LEMMA NamesBody ==
    ASSUME NEW h, NEW names, IsNames(names)
    PROVE  IsBody(h, [i \in DOMAIN names |-> StringOf(names[i])])
<1> DEFINE n == Len(names)
           s == [i \in 1 .. n |-> StringOf(names[i])]
<1>1. n \in Nat /\ DOMAIN names = 1 .. n /\ \A i \in 1 .. n : names[i] \in Texts
  BY ListIsSeq, SeqFacts DEF IsNames
<1>2. DOMAIN s = 1 .. n /\ s = [i \in 1 .. n |-> s[i]]
  OBVIOUS
<1>3. \A i \in 1 .. n : s[i] = StringOf(names[i])
  OBVIOUS
<1> HIDE DEF s, n
<1>4. IsSeq(s) /\ Len(s) = n
  BY <1>1, <1>2, FunctionIsSeq
<1>5. \A i \in 1 .. n : IsWork(h, s[i]) /\ s[i].op # "leave"
  BY <1>1, <1>3, WorkKinds
<1>6. IsBody(h, s)
  BY <1>4, <1>5 DEF IsBody, IsStack
<1> QED
  BY <1>1, <1>6 DEF s

LEMMA ValuesBody ==
    ASSUME NEW h, NEW values, IsSeq(values),
           \A i \in 1 .. Len(values) : IsValue(values[i])
    PROVE  IsBody(h, [i \in 1 .. Len(values) |-> Value(values[i])])
<1> DEFINE n == Len(values)
           s == [i \in 1 .. n |-> Value(values[i])]
<1>1. n \in Nat
  BY SeqFacts
<1>2. DOMAIN s = 1 .. n /\ s = [i \in 1 .. n |-> s[i]]
  OBVIOUS
<1>3. \A i \in 1 .. n : s[i] = Value(values[i])
  OBVIOUS
<1>4. \A i \in 1 .. n : IsValue(values[i])
  OBVIOUS
<1> HIDE DEF s, n
<1>5. IsSeq(s) /\ Len(s) = n
  BY <1>1, <1>2, FunctionIsSeq
<1>6. \A i \in 1 .. n : IsWork(h, s[i]) /\ s[i].op # "leave"
  BY <1>3, <1>4, WorkKinds
<1>7. IsBody(h, s)
  BY <1>5, <1>6 DEF IsBody, IsStack
<1> QED
  BY <1>7 DEF s, n

LEMMA CallsBody ==
    ASSUME NEW h, NEW made, IsSeq(made),
           \A i \in DOMAIN made : IsCall(h, made[i]) /\ MayCall(h, made[i])
    PROVE  IsBody(h, [i \in DOMAIN made |-> Call(made[i])])
<1> DEFINE n == Len(made)
           s == [i \in 1 .. n |-> Call(made[i])]
<1>1. n \in Nat /\ DOMAIN made = 1 .. n
  BY SeqFacts
<1>2. DOMAIN s = 1 .. n /\ s = [i \in 1 .. n |-> s[i]]
  OBVIOUS
<1>3. \A i \in 1 .. n : s[i] = Call(made[i])
  OBVIOUS
<1> HIDE DEF s, n
<1>5. IsSeq(s) /\ Len(s) = n
  BY <1>1, <1>2, FunctionIsSeq
<1>6. \A i \in 1 .. n : IsWork(h, s[i]) /\ s[i].op # "leave"
  BY <1>1, <1>3, WorkKinds
<1>7. IsBody(h, s)
  BY <1>5, <1>6 DEF IsBody, IsStack
<1> QED
  BY <1>1, <1>7 DEF s

LEMMA DynamicBody ==
    ASSUME NEW h, NEW props, IsPairs(Entries(props)) PROVE IsBody(h, Dynamic(props))
<1> DEFINE pairs == Entries(props)
           n == 2 * Len(pairs)
           Entry(i) == IF i % 2 = 1 THEN StringOf(Text(pairs[(i + 1) \div 2][1]))
                                    ELSE Value(pairs[i \div 2][2])
           s == [i \in 1 .. n |-> Entry(i)]
<1>1. /\ Len(pairs) \in Nat
      /\ \A i \in 1 .. Len(pairs) : IsText(pairs[i][1]) /\ IsValue(pairs[i][2])
  BY PairsFacts
<1>2. n \in Nat
  BY <1>1
<1>3. DOMAIN s = 1 .. n /\ s = [i \in 1 .. n |-> s[i]]
  OBVIOUS
<1>4. \A i \in 1 .. n : s[i] = Entry(i)
  OBVIOUS
<1>5. ASSUME NEW i \in 1 .. n PROVE IsWork(h, Entry(i)) /\ Entry(i).op # "leave"
  <2>1. CASE i % 2 = 1
    <3>1. (i + 1) \div 2 \in 1 .. Len(pairs)
      BY <1>1, <2>1
    <3>2. Text(pairs[(i + 1) \div 2][1]) \in Texts
      BY <1>1, <3>1, TextOf
    <3>3. Entry(i) = StringOf(Text(pairs[(i + 1) \div 2][1]))
      BY <2>1
    <3> HIDE DEF Entry, pairs
    <3> QED
      BY <3>2, <3>3, WorkKinds
  <2>2. CASE i % 2 # 1
    <3>1. i \div 2 \in 1 .. Len(pairs)
      BY <1>1, <2>2
    <3>2. IsValue(pairs[i \div 2][2])
      BY <1>1, <3>1
    <3>3. Entry(i) = Value(pairs[i \div 2][2])
      BY <2>2
    <3> HIDE DEF Entry, pairs
    <3> QED
      BY <3>2, <3>3, WorkKinds
  <2> QED
    BY <2>1, <2>2
<1>6. Dynamic(props) = s \o <<Close>>
  BY DEF Dynamic
<1> HIDE DEF s, n, Entry
<1>7. IsSeq(s) /\ Len(s) = n
  BY <1>2, <1>3, FunctionIsSeq
<1>8. IsBody(h, s)
  BY <1>4, <1>5, <1>7 DEF IsBody, IsStack
<1>9. IsBody(h, <<Close>>)
  BY WorkKinds, ShortBodies
<1> QED
  BY <1>6, <1>8, <1>9, ConcatBody

LEMMA EntriesPairs ==
    ASSUME IsHeap(heap), NEW props, IsProps(heap, props) PROVE IsPairs(Entries(props))
<1>1. CASE \E o \in Objects : props = Ref(o) /\ heap[o].kind = "hash"
  <2>1. PICK o \in Objects : props = Ref(o) /\ heap[o].kind = "hash"
    BY <1>1
  <2>2. Entries(props) = heap[o].pairs
    BY <2>1 DEF Entries, Is, Ref
  <2> QED
    BY <2>1, <2>2 DEF IsHeap, IsObject
<1>2. CASE \E pairs : IsPairs(pairs) /\ props = [pairs |-> pairs]
  <2>1. PICK pairs : IsPairs(pairs) /\ props = [pairs |-> pairs]
    BY <1>2
  <2>2. Entries(props) = pairs
    BY <2>1 DEF Entries, Is
  <2> QED
    BY <2>1, <2>2
<1> QED
  BY <1>1, <1>2 DEF IsProps

LEMMA PropertiesBody ==
    ASSUME IsHeap(heap), NEW props, IsProps(heap, props),
           NEW members, IsNames(members), MaySeal(heap, props, members), NEW dynamic
    PROVE  IsBody(heap, Properties(props, members, dynamic))
<1>1. CASE members # << >>
  <2> DEFINE c == Sealed(props, members, dynamic)
  <2>1. IsWork(heap, c) /\ c.op # "leave"
    BY <1>1 DEF Sealed, IsWork
  <2> HIDE DEF c
  <2>2. IsBody(heap, <<c>>)
    BY <2>1, ShortBodies
  <2> QED
    BY <1>1, <2>2 DEF Properties, c
<1>2. CASE members = << >>
  BY <1>2, EntriesPairs, DynamicBody, ShortBodies DEF Properties
<1> QED
  BY <1>1, <1>2

----------------------------------------------------------------------------
(* The steps of the innermost call.                                        *)
WorkStep == /\ Writes \/ UNCHANGED <<stream, cacheStrings>>
            /\ Leaves
            /\ KeysInv'
            /\ IsHeap(heap') /\ SameKinds(heap, heap')
            /\ UNCHANGED <<depth, sent, leaked>>

LEMMA SameHeap == ASSUME WorkInv, UNCHANGED heap
                  PROVE  IsHeap(heap') /\ SameKinds(heap, heap')
  BY DEF WorkInv, SameKinds

LEMMA HeadWork ==
    ASSUME WorkInv, NEW op, Pending(op)
    PROVE  todo # << >> /\ Head(todo).op = op /\ IsWork(heap, Head(todo))
<1>1. IsSeq(todo) /\ todo # << >> /\ \A i \in 1 .. Len(todo) : IsWork(heap, todo[i])
  BY DEF WorkInv, IsStack, Pending
<1>2. 1 \in 1 .. Len(todo) /\ Head(todo) = todo[1]
  BY <1>1, SeqFacts
<1> QED
  BY <1>1, <1>2 DEF Pending

LEMMA HeadValue ==
    ASSUME WorkInv, NEW tag, ValueIs(tag)
    PROVE  IsValue(Head(todo).value) /\ Is(tag, Head(todo).value)
<1>1. Pending("value") /\ Is(tag, Head(todo).value)
  BY DEF ValueIs
<1>2. Head(todo).op = "value" /\ IsWork(heap, Head(todo))
  BY <1>1, HeadWork
<1> QED
  BY <1>1, <1>2 DEF IsWork

LEMMA HeadCall ==
    ASSUME WorkInv, NEW name, Calls(name)
    PROVE  /\ IsCall(heap, Head(todo).call) /\ MayCall(heap, Head(todo).call)
           /\ Head(todo).call.name = name
<1>1. Pending("call") /\ Head(todo).call.name = name
  BY DEF Calls
<1>2. Head(todo).op = "call" /\ IsWork(heap, Head(todo))
  BY <1>1, HeadWork
<1> QED
  BY <1>1, <1>2 DEF IsWork

LEMMA HeadObject ==
    ASSUME WorkInv, NEW kinds, ObjectIs(kinds)
    PROVE  Head(todo).value.ref \in Objects /\ heap[Head(todo).value.ref].kind \in kinds
<1>1. IsValue(Head(todo).value) /\ Is("ref", Head(todo).value)
  BY HeadValue DEF ObjectIs
<1> QED
  BY <1>1, ValueTags DEF ObjectIs

LEMMA ReferenceStep ==
    ASSUME WorkInv, NEW marker, NEW o, WriteReference(marker, o) PROVE WorkStep
<1>1. IsTokens(<<Word(marker), Reference(cacheObjects.idx[o])>>)
  BY TokenFacts, TwoTokens DEF Reference
<1>2. Writes
  BY <1>1 DEF WriteReference, Writes, caches
<1>3. Leaves
  BY ShortBodies DEF WriteReference, Leaves
<1>4. KeysInv'
  BY DEF WriteReference, WorkInv, KeysInv, caches
<1>5. UNCHANGED <<heap, depth, sent, leaked>>
  BY DEF WriteReference
<1> QED
  BY <1>2, <1>3, <1>4, <1>5, SameHeap DEF WorkStep

LEMMA LeafStep ==
    ASSUME WorkInv, NEW marker, NEW o \in Objects, NEW body, IsTokens(body),
           WriteLeaf(marker, o, body)
    PROVE  WorkStep
<1>1. CASE WriteReference(marker, o)
  BY <1>1, ReferenceStep
<1>2. CASE ~WriteReference(marker, o)
  <2>1. /\ cacheObjects' = Add(cacheObjects, o)
        /\ Emit(<<Word(marker)>> \o body)
        /\ Do(<< >>)
        /\ UNCHANGED <<heap, depth, cacheStrings, cacheTraits, sent, leaked>>
    BY <1>2 DEF WriteLeaf
  <2>2. IsTokens(<<Word(marker)>> \o body)
    BY TokenFacts, OneToken, ConcatTokens
  <2>3. Writes
    BY <2>1, <2>2 DEF Writes
  <2>4. Leaves
    BY <2>1, ShortBodies DEF Leaves
  <2>5. KeysInv'
    BY <2>1, AddKeys DEF WorkInv, KeysInv
  <2> QED
    BY <2>1, <2>3, <2>4, <2>5, SameHeap DEF WorkStep
<1> QED
  BY <1>1, <1>2

LEMMA ArrayStep ==
    ASSUME WorkInv, NEW o \in Objects, heap[o].kind = "array", Array(o) PROVE WorkStep
<1>1. CASE WriteReference(ARRAY_MARKER, o)
  BY <1>1, ReferenceStep
<1>2. CASE ~WriteReference(ARRAY_MARKER, o)
  <2> DEFINE elems == heap[o].elems
             s == <<Word(ARRAY_MARKER), Header(Len(elems)), Word(EMPTY_STRING)>>
  <2>1. /\ cacheObjects' = Add(cacheObjects, o)
        /\ Emit(s)
        /\ Do([i \in 1 .. Len(elems) |-> Value(elems[i])])
        /\ UNCHANGED <<heap, depth, cacheStrings, cacheTraits, sent, leaked>>
    BY <1>2 DEF Array
  <2>2. IsTokens(s)
    <3> DEFINE first == <<Word(ARRAY_MARKER), Header(Len(elems))>>
    <3>1. IsTokens(first) /\ IsTokens(<<Word(EMPTY_STRING)>>)
      BY TokenFacts, OneToken, TwoTokens DEF Header
    <3>2. s = first \o <<Word(EMPTY_STRING)>>
      <4>1. \A x, y, z : <<x, y, z>> = <<x, y>> \o <<z>>
        OBVIOUS
      <4> QED
        BY <4>1
    <3> QED
      BY <3>1, <3>2, ConcatTokens
  <2>3. IsObject(heap, heap[o])
    BY DEF WorkInv, IsHeap
  <2>4. IsSeq(elems) /\ \A i \in 1 .. Len(elems) : IsValue(elems[i])
    BY <2>3, ListIsSeq, SeqFacts DEF IsObject
  <2>5. Writes
    BY <2>1, <2>2 DEF Writes
  <2>6. Leaves
    <3>1. IsBody(heap', [i \in 1 .. Len(elems) |-> Value(elems[i])])
      BY <2>4, ValuesBody
    <3> QED
      BY <2>1, <3>1 DEF Leaves
  <2>7. KeysInv'
    BY <2>1, AddKeys DEF WorkInv, KeysInv
  <2> QED
    BY <2>1, <2>5, <2>6, <2>7, SameHeap DEF WorkStep
<1> QED
  BY <1>1, <1>2

(* write_object: the properties and the traits that are given are those of *)
(* a call user code may make.                                              *)
IsGiven(o, given, givenTraits) ==
    /\ given = Nil \/ \E p \in Objects : given = Ref(p) /\ heap[p].kind = "hash"
    /\ given = Nil \/ givenTraits = Nil => heap[o].kind \in {"hash", "typed", "object"}
    /\ givenTraits # Nil => /\ givenTraits.class_name \in Texts \cup {NoName}
                            /\ IsNames(givenTraits.members)
                            /\ MaySeal(heap, given, givenTraits.members)

LEMMA ObjectBody ==
    ASSUME WorkInv, NEW o \in Objects, NEW given, NEW givenTraits,
           IsGiven(o, given, givenTraits), NEW traits,
           traits = IF givenTraits = Nil THEN Traits(o) ELSE givenTraits
    PROVE  /\ traits.class_name \in Texts \cup {NoName}
           /\ IsNames(traits.members)
           /\ IsBody(heap, Properties(PropertiesOf(o, given), traits.members, traits.dynamic))
<1>1. IsHeap(heap) /\ IsObject(heap, heap[o])
  BY DEF WorkInv, IsHeap
<1>2. traits.class_name \in Texts \cup {NoName} /\ IsNames(traits.members)
  <2>1. CASE givenTraits = Nil
    <3>1. RemoteName(Mappings, heap[o]) \in Texts \cup {NoName}
      BY <1>1, <2>1 DEF IsGiven, IsObject
    <3>2. traits.class_name = RemoteName(Mappings, heap[o]) /\ traits.members = << >>
      BY <2>1 DEF Traits
    <3>3. IsNames(<< >>)
      BY ShortSeqs, ListIsSeq, SeqFacts DEF IsNames
    <3> QED
      BY <3>1, <3>2, <3>3
  <2>2. CASE givenTraits # Nil
    BY <2>2 DEF IsGiven
  <2> QED
    BY <2>1, <2>2
<1>3. /\ IsProps(heap, PropertiesOf(o, given))
      /\ MaySeal(heap, PropertiesOf(o, given), traits.members)
  <2>1. CASE given = Nil
    <3>1. IsPairs(heap[o].pairs)
      BY <1>1, <2>1 DEF IsGiven, IsObject
    <3>2. IsPairs(ObjectSerialize(heap[o]))
      BY <3>1, SerializedPairs
    <3>3. PropertiesOf(o, given) = [pairs |-> ObjectSerialize(heap[o])]
      BY <2>1 DEF PropertiesOf
    <3>4. \A p : PropertiesOf(o, given) # Ref(p)
      BY <3>3 DEF Ref
    <3> QED
      BY <3>2, <3>3, <3>4 DEF IsProps, MaySeal
  <2>2. CASE given # Nil
    <3>1. PropertiesOf(o, given) = given /\ IsProps(heap, given)
      BY <2>2 DEF IsGiven, PropertiesOf, IsProps
    <3>2. CASE givenTraits = Nil
      <4>1. DOMAIN traits.members = {}
        BY <3>2 DEF Traits
      <4> QED
        BY <3>1, <4>1 DEF MaySeal
    <3>3. CASE givenTraits # Nil
      BY <3>1, <3>3 DEF IsGiven
    <3> QED
      BY <3>1, <3>2, <3>3
  <2> QED
    BY <2>1, <2>2
<1> QED
  BY <1>1, <1>2, <1>3, PropertiesBody

LEMMA ObjectStep ==
    ASSUME WorkInv, NEW o \in Objects, NEW given, NEW givenTraits,
           IsGiven(o, given, givenTraits), Object(o, given, givenTraits)
    PROVE  WorkStep
<1>1. CASE WriteReference(OBJECT_MARKER, o)
  BY <1>1, ReferenceStep
<1>2. CASE ~WriteReference(OBJECT_MARKER, o)
  <2> DEFINE traits == IF givenTraits = Nil THEN Traits(o) ELSE givenTraits
             default == givenTraits = Nil /\ traits.class_name = NoName
             name    == IF default THEN DefaultName ELSE traits.class_name
             names   == [i \in DOMAIN traits.members |-> StringOf(traits.members[i])]
             body    == Properties(PropertiesOf(o, given), traits.members, traits.dynamic)
             text    == IF name \in {DefaultName, NoName} THEN EmptyString ELSE name
             header  == <<Word(OBJECT_MARKER), TraitsHeader(traits)>>
             known   == <<Word(OBJECT_MARKER), Word((4 * cacheTraits.idx[name]) + 1)>>
  <2>1. /\ ~Cached(cacheObjects, o)
        /\ cacheObjects' = Add(cacheObjects, o)
        /\ UNCHANGED <<heap, depth, sent, leaked>>
        /\ \/ /\ Emit(known)
              /\ Do(body)
              /\ UNCHANGED <<cacheStrings, cacheTraits>>
           \/ /\ cacheTraits' = IF name = NoName THEN cacheTraits
                                                 ELSE Add(cacheTraits, name)
              /\ WriteStringInternal(text, header)
              /\ Do(names \o body)
    BY <1>2 DEF Object
  <2>2. /\ traits.class_name \in Texts \cup {NoName}
        /\ IsNames(traits.members)
        /\ IsBody(heap, body)
    <3> HIDE DEF traits
    <3> QED
      BY ObjectBody DEF traits
  <2>3. /\ name \in Strings \cup {NoName} /\ text \in Texts
    BY <2>2, SerializerAssumption, StringsAssumption DEF Texts
  <2>4. IsBody(heap, names)
    BY <2>2, NamesBody
  <2>5. IsTokens(known) /\ IsTokens(header)
    BY TokenFacts, TwoTokens DEF TraitsHeader
  <2> HIDE DEF traits, name, names, body, text, header, known
  <2>6. Leaves
    BY <2>1, <2>2, <2>4, ConcatBody DEF Leaves
  <2>7. Writes /\ DOMAIN cacheStrings'.idx \subseteq InlineTexts
    <3>1. CASE Emit(known) /\ UNCHANGED cacheStrings
      BY <2>5, <3>1 DEF Writes, WorkInv, KeysInv
    <3>2. CASE WriteStringInternal(text, header)
      BY <2>3, <2>5, <3>2, StringInternalWrites DEF WorkInv
    <3> QED
      BY <2>1, <3>1, <3>2
  <2>8. /\ DOMAIN cacheTraits'.idx \subseteq Strings
        /\ DOMAIN cacheObjects'.idx \subseteq Objects
    <3>1. \/ cacheTraits' = cacheTraits
          \/ name \in Strings /\ cacheTraits' = Add(cacheTraits, name)
      BY <2>1, <2>3
    <3> QED
      BY <2>1, <3>1, AddKeys DEF WorkInv, KeysInv
  <2> QED
    BY <2>1, <2>6, <2>7, <2>8, SameHeap DEF WorkStep, KeysInv
<1> QED
  BY <1>1, <1>2

(* Strings and keys:                                                       *)
LEMMA StringStep ==
    ASSUME WorkInv, WriteString \/ WriteKey PROVE WorkStep
<1>1. CASE WriteString
  <2> DEFINE s == Text(Head(todo).value)
             tokens == <<Word(STRING_MARKER)>>
  <2>1. /\ ValueIs("str") \/ ValueIs("sym")
        /\ WriteStringInternal(s, tokens)
        /\ Do(<< >>)
        /\ UNCHANGED <<heap, depth, cacheObjects, cacheTraits, sent, leaked>>
    BY <1>1 DEF WriteString
  <2>2. s \in Texts
    BY <2>1, HeadValue, ValueTags
  <2>3. IsTokens(tokens)
    BY TokenFacts, OneToken
  <2> HIDE DEF s, tokens
  <2>4. Writes /\ DOMAIN cacheStrings'.idx \subseteq InlineTexts
    BY <2>1, <2>2, <2>3, StringInternalWrites DEF WorkInv
  <2>5. KeysInv'
    BY <2>1, <2>4 DEF WorkInv, KeysInv
  <2>6. Leaves
    BY <2>1, ShortBodies DEF Leaves
  <2> QED
    BY <2>1, <2>4, <2>5, <2>6, SameHeap DEF WorkStep
<1>2. CASE WriteKey
  <2> DEFINE s == Head(todo).text
  <2>1. /\ Pending("string")
        /\ WriteStringInternal(s, << >>)
        /\ Do(<< >>)
        /\ UNCHANGED <<heap, depth, cacheObjects, cacheTraits, sent, leaked>>
    BY <1>2 DEF WriteKey
  <2>2. s \in Texts
    BY <2>1, HeadWork DEF IsWork
  <2> HIDE DEF s
  <2>4. Writes /\ DOMAIN cacheStrings'.idx \subseteq InlineTexts
    BY <2>1, <2>2, NoTokens, StringInternalWrites DEF WorkInv
  <2>5. KeysInv'
    BY <2>1, <2>4 DEF WorkInv, KeysInv
  <2>6. Leaves
    BY <2>1, ShortBodies DEF Leaves
  <2> QED
    BY <2>1, <2>4, <2>5, <2>6, SameHeap DEF WorkStep
<1> QED
  BY <1>1, <1>2

(* what writes tokens alone:                                               *)
LEMMA TokenStep ==
    ASSUME WorkInv, NEW tokens, IsTokens(tokens), Emit(tokens), Do(<< >>),
           UNCHANGED <<heap, depth, caches, sent, leaked>>
    PROVE  WorkStep
<1>1. Writes
  BY DEF Writes, caches
<1>2. Leaves
  BY ShortBodies DEF Leaves
<1>3. KeysInv'
  BY DEF WorkInv, KeysInv, caches
<1> QED
  BY <1>1, <1>2, <1>3, SameHeap DEF WorkStep

LEMMA ScalarStep ==
    ASSUME WorkInv, WriteConst \/ WriteNumeric \/ WriteClose PROVE WorkStep
<1>1. CASE WriteConst
  <2>1. \E n : Emit(<<Word(n)>>) /\ Do(<< >>)
    BY <1>1, Zenon DEF WriteConst
  <2> QED
    BY <1>1, <2>1, TokenFacts, OneToken, TokenStep DEF WriteConst
<1>2. CASE WriteNumeric
  <2> DEFINE v == Head(todo).value
             tokens == IF ~Is("num", v) \/ v.num < MIN_INTEGER \/ v.num > MAX_INTEGER
                       THEN <<Word(DOUBLE_MARKER), Double(v)>>
                       ELSE <<Word(INTEGER_MARKER), Word(v.num)>>
  <2>1. IsTokens(tokens)
    BY TokenFacts, TwoTokens
  <2>2. /\ Emit(tokens) /\ Do(<< >>)
        /\ UNCHANGED <<heap, depth, caches, sent, leaked>>
    BY <1>2 DEF WriteNumeric
  <2> HIDE DEF tokens
  <2> QED
    BY <2>1, <2>2, TokenStep
<1>3. CASE WriteClose
  BY <1>3, TokenFacts, OneToken, TokenStep DEF WriteClose
<1> QED
  BY <1>1, <1>2, <1>3

(* times, dates and byte arrays:                                           *)
LEMMA StampTokens == ASSUME NEW o PROVE IsTokens(Stamp(o))
  BY TokenFacts, TwoTokens DEF Stamp

LEMMA LeavesStep ==
    ASSUME WorkInv, WriteTime \/ WriteDate \/ WriteByteArray PROVE WorkStep
<1>1. CASE WriteTime
  BY <1>1, HeadObject, StampTokens, LeafStep DEF WriteTime
<1>2. CASE WriteDate
  BY <1>2, HeadObject, StampTokens, LeafStep DEF WriteDate
<1>3. CASE WriteByteArray
  <2> DEFINE o == Head(todo).value.ref
             s == heap[o].text
             content == IF s = EmptyString THEN << >> ELSE <<Raw(s)>>
             body == <<Header(ByteSize[s])>> \o content
  <2>1. o \in Objects /\ heap[o].kind = "bytes" /\ WriteLeaf(BYTE_ARRAY_MARKER, o, body)
    BY <1>3, HeadObject DEF WriteByteArray
  <2>2. s \in Blobs \cup {EmptyString}
    BY <2>1 DEF WorkInv, IsHeap, IsObject
  <2>3. IsTokens(content)
    BY <2>2, TokenFacts, OneToken, NoTokens
  <2> HIDE DEF content
  <2>4. IsTokens(body)
    BY <2>3, TokenFacts, OneToken, ConcatTokens DEF Header
  <2> HIDE DEF body, s, o
  <2> QED
    BY <2>1, <2>4, LeafStep
<1> QED
  BY <1>1, <1>2, <1>3

(* arrays and objects:                                                     *)
LEMMA ComplexStep ==
    ASSUME WorkInv, WriteArray \/ WriteObject \/ CallWriteArray \/ CallWriteObject
    PROVE  WorkStep
<1>1. CASE WriteArray
  BY <1>1, HeadObject, ArrayStep DEF WriteArray
<1>2. CASE WriteObject
  <2> DEFINE o == Head(todo).value.ref
  <2>1. o \in Objects /\ heap[o].kind \in {"hash", "typed", "object"} /\ Object(o, Nil, Nil)
    BY <1>2, HeadObject DEF WriteObject
  <2> HIDE DEF o
  <2>2. IsGiven(o, Nil, Nil)
    BY <2>1 DEF IsGiven
  <2> QED
    BY <2>1, <2>2, ObjectStep
<1>3. CASE CallWriteArray
  <2> DEFINE c == Head(todo).call
  <2>1. IsCall(heap, c) /\ c.name = "write_array" /\ Array(c.arg.ref)
    BY <1>3, HeadCall DEF CallWriteArray
  <2>2. PICK o \in Objects : c.arg = Ref(o) /\ heap[o].kind = "array"
    BY <2>1 DEF IsCall
  <2>3. c.arg.ref = o
    BY <2>2 DEF Ref
  <2> HIDE DEF c
  <2> QED
    BY <2>1, <2>2, <2>3, ArrayStep
<1>4. CASE CallWriteObject
  <2> DEFINE c == Head(todo).call
  <2>1. /\ IsCall(heap, c) /\ MayCall(heap, c) /\ c.name = "write_object"
        /\ Object(c.arg.ref, c.props, c.traits)
    BY <1>4, HeadCall DEF CallWriteObject
  <2> HIDE DEF c
  <2>2. /\ \E o \in Objects :
             /\ c.arg = Ref(o)
             /\ c.props = Nil \/ c.traits = Nil
                  => heap[o].kind \in {"hash", "typed", "object"}
        /\ c.props = Nil \/ \E o \in Objects : c.props = Ref(o) /\ heap[o].kind = "hash"
        /\ c.traits # Nil => /\ c.traits.class_name \in Texts \cup {NoName}
                             /\ IsNames(c.traits.members)
                             /\ MaySeal(heap, c.props, c.traits.members)
    BY <2>1 DEF IsCall, MayCall
  <2>3. PICK o \in Objects : /\ c.arg = Ref(o)
                             /\ c.props = Nil \/ c.traits = Nil
                                  => heap[o].kind \in {"hash", "typed", "object"}
    BY <2>2
  <2>4. c.arg.ref = o
    BY <2>3 DEF Ref
  <2>5. IsGiven(o, c.props, c.traits)
    BY <2>2, <2>3 DEF IsGiven
  <2> QED
    BY <2>1, <2>4, <2>5, ObjectStep
<1> QED
  BY <1>1, <1>2, <1>3, <1>4

(* user code starts:                                                       *)
LEMMA MadeMayCall ==
    ASSUME NEW h, NEW e \in Objects, Is("calls", h[e]), NEW i \in DOMAIN h[e].calls
    PROVE  MayCall(h, h[e].calls[i])
<1> SUFFICES ASSUME h[e].calls[i].name = "write_object", h[e].calls[i].traits # Nil,
                    NEW o \in Objects, h[e].calls[i].props = Ref(o),
                    NEW j \in DOMAIN h[e].calls[i].traits.members
             PROVE  Seals(h, o, Str(h[e].calls[i].traits.members[j]))
  BY DEF MayCall, MaySeal
<1> QED
  BY DEF Seals

LEMMA EncodeStep == ASSUME WorkInv, EncodeAmf PROVE WorkStep
<1> DEFINE o == Head(todo).value.ref
           made == heap[o].calls
<1>1. /\ ValueIs("ref") /\ Is("calls", heap[o])
      /\ Do([i \in DOMAIN made |-> Call(made[i])])
      /\ UNCHANGED <<heap, stream, depth, caches, sent, leaked>>
  BY DEF EncodeAmf, Encodes
<1>2. o \in Objects
  BY <1>1, HeadValue, ValueTags
<1>3. /\ IsList(made)
      /\ \A i \in DOMAIN made : IsCall(heap, made[i]) /\ MayCall(heap, made[i])
  BY <1>1, <1>2, MadeMayCall DEF WorkInv, IsHeap, IsObject
<1> HIDE DEF made, o
<1>4. Leaves
  BY <1>1, <1>3, ListIsSeq, CallsBody DEF Leaves
<1>5. KeysInv'
  BY <1>1 DEF WorkInv, KeysInv, caches
<1> QED
  BY <1>1, <1>4, <1>5, SameHeap DEF WorkStep, caches

(* a sealed property and its removal from the properties:                  *)
LEMMA SealedStep == ASSUME WorkInv, WriteSealed PROVE WorkStep
<1> DEFINE c == Head(todo)
           v == Value(Fetch(Entries(c.props), Str(Head(c.members))))
           d == Delete(c.props, c.members, c.dynamic)
<1>1. /\ Pending("sealed") /\ Do(<<v, d>>)
      /\ UNCHANGED <<heap, stream, depth, caches, sent, leaked>>
  BY DEF WriteSealed
<1>2. /\ IsProps(heap, c.props) /\ IsNames(c.members) /\ c.members # << >>
      /\ MaySeal(heap, c.props, c.members)
  BY <1>1, HeadWork DEF IsWork
<1>3. IsWork(heap, v) /\ v.op # "leave"
  <2>1. IsPairs(Entries(c.props))
    BY <1>2, EntriesPairs DEF WorkInv
  <2> QED
    BY <2>1, FetchValue, WorkKinds
<1>4. IsWork(heap, d) /\ d.op # "leave"
  BY <1>2 DEF Delete, IsWork
<1> HIDE DEF c, v, d
<1>5. Leaves
  BY <1>1, <1>3, <1>4, ShortBodies DEF Leaves
<1>6. KeysInv'
  BY <1>1 DEF WorkInv, KeysInv, caches
<1> QED
  BY <1>1, <1>5, <1>6, SameHeap DEF WorkStep, caches

LEMMA CallSame ==
    ASSUME NEW h, NEW later, SameKinds(h, later), NEW c, IsCall(h, c)
    PROVE  IsCall(later, c)
<1>1. CASE c.name = "raise" \/ (c.name = "serialize" /\ IsValue(c.arg))
  BY <1>1 DEF IsCall
<1>2. CASE /\ c.name = "write_array"
           /\ \E o \in Objects : c.arg = Ref(o) /\ h[o].kind = "array"
  BY <1>2 DEF IsCall, SameKinds
<1>3. CASE c.name = "write_object"
  <2>1. /\ \E o \in Objects :
             /\ c.arg = Ref(o)
             /\ c.props = Nil \/ c.traits = Nil
                  => h[o].kind \in {"hash", "typed", "object"}
        /\ c.props = Nil \/ \E o \in Objects : c.props = Ref(o) /\ h[o].kind = "hash"
        /\ c.traits # Nil => /\ c.traits.class_name \in Texts \cup {NoName}
                             /\ IsNames(c.traits.members)
    BY <1>3 DEF IsCall
  <2>2. \E o \in Objects :
             /\ c.arg = Ref(o)
             /\ c.props = Nil \/ c.traits = Nil
                  => later[o].kind \in {"hash", "typed", "object"}
    BY <2>1 DEF SameKinds
  <2>3. c.props = Nil \/ \E o \in Objects : c.props = Ref(o) /\ later[o].kind = "hash"
    BY <2>1 DEF SameKinds
  <2> QED
    BY <1>3, <2>1, <2>2, <2>3 DEF IsCall
<1> QED
  BY <1>1, <1>2, <1>3 DEF IsCall

LEMMA SealSame ==
    ASSUME NEW h, NEW later, SameKinds(h, later), NEW o, NEW key
    PROVE  Seals(h, o, key) <=> Seals(later, o, key)
  BY DEF Seals, SameKinds

LEMMA MaySealSame ==
    ASSUME NEW h, NEW later, SameKinds(h, later)
    PROVE  /\ \A props, members : MaySeal(h, props, members) => MaySeal(later, props, members)
           /\ \A c : MayCall(h, c) => MayCall(later, c)
<1>1. ASSUME NEW props, NEW members, MaySeal(h, props, members)
      PROVE  MaySeal(later, props, members)
  BY <1>1, SealSame DEF MaySeal
<1> QED
  BY <1>1 DEF MayCall

LEMMA WorkSame ==
    ASSUME NEW h, NEW later, SameKinds(h, later), NEW c, IsWork(h, c)
    PROVE  IsWork(later, c)
<1>1. CASE c.op = "call" /\ IsCall(h, c.call) /\ MayCall(h, c.call)
  BY <1>1, CallSame, MaySealSame DEF IsWork
<1>2. CASE /\ c.op \in {"sealed", "delete"}
           /\ IsProps(h, c.props)
           /\ IsNames(c.members) /\ c.members # << >>
           /\ MaySeal(h, c.props, c.members)
  <2>1. IsProps(later, c.props) /\ MaySeal(later, c.props, c.members)
    BY <1>2, MaySealSame DEF IsProps, SameKinds
  <2> QED
    BY <1>2, <2>1 DEF IsWork
<1> QED
  BY <1>1, <1>2 DEF IsWork

LEMMA DeletedHeap ==
    ASSUME NEW h, IsHeap(h), NEW o \in Objects, h[o].kind = "hash",
           NEW pairs, IsPairs(pairs), NEW later, later = [h EXCEPT ![o].pairs = pairs]
    PROVE  IsHeap(later) /\ SameKinds(h, later)
<1>1. /\ DOMAIN h = Objects
      /\ \A x \in Objects : IsObject(h, h[x])
  BY DEF IsHeap
<1>2. /\ DOMAIN later = Objects
      /\ \A x \in Objects : x # o => later[x] = h[x]
      /\ later[o] = [h[o] EXCEPT !.pairs = pairs]
  BY <1>1
<1>3. /\ "kind" \in DOMAIN h[o] /\ "pairs" \in DOMAIN h[o]
      /\ DOMAIN later[o] = DOMAIN h[o]
      /\ later[o].kind = "hash" /\ later[o].pairs = pairs
      /\ "calls" \in DOMAIN h[o] => later[o].calls = h[o].calls
  <2>1. "kind" \in DOMAIN h[o] /\ "pairs" \in DOMAIN h[o]
    BY <1>1 DEF IsObject, Is
  <2> QED
    BY <1>2, <2>1
<1>4. SameKinds(h, later)
  BY <1>2, <1>3 DEF SameKinds, Is
<1>5. ASSUME NEW x \in Objects, x # o PROVE IsObject(later, later[x])
  BY <1>1, <1>2, <1>4, <1>5, CallSame DEF IsObject
<1>6. IsObject(later, later[o])
  <2>1. RemoteName(Mappings, later[o]) = NoName
    BY <1>3 DEF RemoteName
  <2>2. "calls" \in DOMAIN h[o] =>
          /\ IsList(h[o].calls)
          /\ \A i \in DOMAIN h[o].calls : IsCall(later, h[o].calls[i])
    BY <1>1, <1>4, CallSame DEF IsObject, Is
  <2> QED
    BY <1>3, <2>1, <2>2 DEF IsObject, Is
<1> QED
  BY <1>2, <1>4, <1>5, <1>6 DEF IsHeap

LEMMA NamesTail ==
    ASSUME NEW names, IsNames(names), Len(names) > 1
    PROVE  IsNames(Tail(names)) /\ Tail(names) # << >>
<1>1. IsSeq(names) /\ \A i \in DOMAIN names : names[i] \in Texts
  BY ListIsSeq DEF IsNames
<1>2. Len(names) \in Nat /\ DOMAIN names = 1 .. Len(names) /\ names # << >>
  BY <1>1, SeqFacts
<1>3. /\ IsSeq(Tail(names)) /\ Len(Tail(names)) = Len(names) - 1
      /\ \A i \in 1 .. Len(names) - 1 : Tail(names)[i] = names[i + 1]
  BY <1>1, <1>2, SeqFacts
<1>4. DOMAIN Tail(names) = 1 .. Len(names) - 1
  BY <1>3, SeqFacts
<1>5. \A i \in 1 .. Len(names) - 1 : i + 1 \in 1 .. Len(names)
  BY <1>2
<1>6. IsNames(Tail(names))
  BY <1>1, <1>2, <1>3, <1>4, <1>5, ListIsSeq DEF IsNames
<1>7. Tail(names) # << >>
  <2>1. Len(Tail(names)) > 0
    BY <1>2, <1>3
  <2>2. Len(<< >>) = 0
    OBVIOUS
  <2> QED
    BY <2>1, <2>2
<1> QED
  BY <1>6, <1>7

LEMMA TailMaySeal ==
    ASSUME NEW h, NEW props, NEW names, IsNames(names), names # << >>,
           MaySeal(h, props, names)
    PROVE  MaySeal(h, props, Tail(names))
<1>1. IsSeq(names)
  BY ListIsSeq DEF IsNames
<1>2. /\ Len(names) \in Nat /\ DOMAIN names = 1 .. Len(names)
      /\ IsSeq(Tail(names)) /\ Len(Tail(names)) = Len(names) - 1
      /\ \A i \in 1 .. Len(names) - 1 : Tail(names)[i] = names[i + 1]
  BY <1>1, SeqFacts
<1>3. DOMAIN Tail(names) = 1 .. Len(names) - 1
  BY <1>2, SeqFacts
<1>4. \A i \in 1 .. Len(names) - 1 : i + 1 \in 1 .. Len(names)
  BY <1>2
<1> QED
  BY <1>2, <1>3, <1>4 DEF MaySeal

LEMMA DeleteStep == ASSUME WorkInv, DeleteSealed PROVE WorkStep
<1> DEFINE c    == Head(todo)
           rest == Without(Entries(c.props), Str(Head(c.members)))
           anew == [pairs |-> rest]
           on   == IF Is("ref", c.props) THEN c.props ELSE anew
           next == Sealed(on, Tail(c.members), c.dynamic)
           last == IF c.dynamic THEN Dynamic(anew) ELSE << >>
<1>1. /\ Pending("delete")
      /\ IF Is("ref", c.props)
         THEN heap' = [heap EXCEPT ![c.props.ref].pairs = rest]
         ELSE UNCHANGED heap
      /\ Do(IF Len(c.members) > 1 THEN <<next>> ELSE last)
      /\ UNCHANGED <<stream, depth, caches, sent, leaked>>
  BY DEF DeleteSealed
<1>2. /\ IsProps(heap, c.props) /\ IsNames(c.members) /\ c.members # << >>
      /\ MaySeal(heap, c.props, c.members)
  BY <1>1, HeadWork DEF IsWork
<1>3. IsPairs(rest) /\ IsHeap(heap)
  <2>1. IsPairs(Entries(c.props))
    BY <1>2, EntriesPairs DEF WorkInv
  <2> QED
    BY <2>1, WithoutPairs DEF WorkInv
<1>4. /\ IsHeap(heap') /\ SameKinds(heap, heap')
      /\ IsProps(heap', on) /\ MaySeal(heap', on, Tail(c.members))
  <2>1. CASE \E o \in Objects : c.props = Ref(o) /\ heap[o].kind = "hash"
    <3>1. PICK o \in Objects : c.props = Ref(o) /\ heap[o].kind = "hash"
      BY <2>1
    <3>2. Is("ref", c.props) /\ c.props.ref = o
      BY <3>1 DEF Is, Ref
    <3>3. heap' = [heap EXCEPT ![o].pairs = rest] /\ on = Ref(o)
      BY <1>1, <3>1, <3>2
    <3>4. MaySeal(heap, on, Tail(c.members))
      BY <1>2, <3>1, <3>3, TailMaySeal
    <3> HIDE DEF rest, on, c
    <3>5. IsHeap(heap') /\ SameKinds(heap, heap')
      BY <1>3, <3>1, <3>3, DeletedHeap
    <3>6. MaySeal(heap', on, Tail(c.members))
      BY <3>4, <3>5, MaySealSame
    <3>7. IsProps(heap', on)
      BY <3>1, <3>3, <3>5 DEF IsProps, SameKinds
    <3> QED
      BY <3>5, <3>6, <3>7
  <2>2. CASE \E pairs : IsPairs(pairs) /\ c.props = [pairs |-> pairs]
    <3>1. ~Is("ref", c.props)
      BY <2>2 DEF Is
    <3>2. UNCHANGED heap /\ on = [pairs |-> rest]
      BY <1>1, <3>1
    <3> HIDE DEF rest, on, c
    <3>3. \A o : on # Ref(o)
      BY <3>2 DEF Ref
    <3>4. MaySeal(heap', on, Tail(c.members))
      BY <3>3 DEF MaySeal
    <3> QED
      BY <1>3, <3>2, <3>4 DEF IsProps, SameKinds
  <2> QED
    BY <1>2, <2>1, <2>2 DEF IsProps
<1>5. IsBody(heap', last)
  <2>1. Entries(anew) = rest
    BY DEF Entries, Is
  <2> QED
    BY <1>3, <2>1, DynamicBody, ShortBodies
<1>6. ASSUME Len(c.members) > 1 PROVE IsBody(heap', <<next>>)
  <2>1. IsNames(Tail(c.members)) /\ Tail(c.members) # << >>
    BY <1>2, <1>6, NamesTail
  <2> HIDE DEF on
  <2>2. IsWork(heap', next) /\ next.op # "leave"
    BY <1>4, <2>1 DEF Sealed, IsWork
  <2> HIDE DEF next
  <2> QED
    BY <2>2, ShortBodies
<1> HIDE DEF c, rest, anew, on, next, last
<1>7. Leaves
  BY <1>1, <1>5, <1>6 DEF Leaves
<1>8. KeysInv'
  BY <1>1 DEF WorkInv, KeysInv, caches
<1> QED
  BY <1>1, <1>4, <1>7, <1>8 DEF WorkStep, caches

LEMMA AnyWorkStep ==
    ASSUME WorkInv,
           \/ WriteConst \/ WriteNumeric \/ WriteString \/ WriteKey
           \/ WriteTime \/ WriteDate \/ WriteByteArray \/ WriteArray \/ WriteObject
           \/ WriteSealed \/ DeleteSealed \/ WriteClose
           \/ EncodeAmf \/ CallWriteArray \/ CallWriteObject
    PROVE  WorkStep /\ todo # << >> /\ Head(todo).op # "leave"
<1>1. WorkStep
  BY StringStep, ScalarStep, LeavesStep, ComplexStep, EncodeStep, SealedStep, DeleteStep
<1>2. \E op : Pending(op) /\ op # "leave"
  <2>1. ASSUME \/ WriteConst \/ WriteNumeric \/ WriteString \/ WriteTime \/ WriteDate
               \/ WriteByteArray \/ WriteArray \/ WriteObject \/ EncodeAmf
        PROVE  Pending("value")
    BY <2>1 DEF WriteConst, WriteNumeric, WriteString, WriteTime, WriteDate,
                WriteByteArray, WriteArray, WriteObject, EncodeAmf, ObjectIs, ValueIs
  <2>2. WriteKey => Pending("string")
    BY DEF WriteKey
  <2>3. (WriteSealed => Pending("sealed")) /\ (DeleteSealed => Pending("delete"))
    BY DEF WriteSealed, DeleteSealed
  <2>4. WriteClose => Pending("close")
    BY DEF WriteClose
  <2>5. CallWriteArray \/ CallWriteObject => Pending("call")
    BY DEF CallWriteArray, CallWriteObject, Calls
  <2> QED
    BY <2>1, <2>2, <2>3, <2>4, <2>5
<1> QED
  BY <1>1, <1>2 DEF Pending

----------------------------------------------------------------------------
(* The stack through every step.                                           *)
LEMMA TailStack ==
    ASSUME NEW h, NEW s, IsStack(h, s), s # << >>
    PROVE  IsStack(h, Tail(s))
<1>1. /\ Len(s) \in Nat /\ IsSeq(Tail(s)) /\ Len(Tail(s)) = Len(s) - 1
      /\ \A i \in 1 .. Len(s) - 1 : Tail(s)[i] = s[i + 1]
  BY SeqFacts DEF IsStack
<1>2. \A i \in 1 .. Len(s) - 1 : i + 1 \in 1 .. Len(s)
  BY <1>1
<1> QED
  BY <1>1, <1>2 DEF IsStack

LEMMA StackSame ==
    ASSUME NEW h, NEW later, SameKinds(h, later), NEW s, IsStack(h, s)
    PROVE  IsStack(later, s)
  BY WorkSame DEF IsStack

LEMMA NoLeave == ASSUME NEW h, NEW s, IsBody(h, s) PROVE Count(s, "leave") = 0
<1>1. DOMAIN s = 1 .. Len(s)
  BY SeqFacts DEF IsBody, IsStack
<1> QED
  BY <1>1, CountNone DEF IsBody

LEMMA WorkStepKeeps ==
    ASSUME WorkInv, DepthInv, WorkStep, todo # << >>, Head(todo).op # "leave"
    PROVE  WorkInv' /\ DepthInv'
<1> DEFINE rest == Tail(todo)
<1>1. PICK calls : IsBody(heap', calls) /\ todo' = calls \o rest
  BY DEF WorkStep, Leaves, Do
<1>2. IsStack(heap, todo) /\ IsSeq(todo)
  BY DEF WorkInv, IsStack
<1>3. rest # << >>
  BY <1>2, TailLast DEF DepthInv
<1>4. /\ IsStack(heap, rest)
      /\ rest[Len(rest)] = todo[Len(todo)]
  BY <1>2, <1>3, TailStack, TailLast
<1>5. IsStack(heap', rest)
  BY <1>4, StackSame DEF WorkStep
<1>6. Count(todo, "leave") = Count(rest, "leave") /\ Count(rest, "leave") \in Nat
  <2>1. Count(rest, "leave") \in Nat
    BY <1>4, PositionsFinite DEF IsStack
  <2>2. Count(todo, "leave") = Count(rest, "leave") + (IF Head(todo).op = "leave" THEN 1 ELSE 0)
    BY <1>2, CountTail
  <2> QED
    BY <2>1, <2>2
<1> HIDE DEF rest
<1>7. IsStack(heap', calls) /\ Count(calls, "leave") = 0
  BY <1>1, NoLeave DEF IsBody
<1>8. /\ IsStack(heap', todo') /\ todo' # << >>
      /\ todo'[Len(todo')] = rest[Len(rest)]
      /\ Count(todo', "leave") = 0 + Count(rest, "leave")
  <2>1. IsSeq(calls) /\ IsSeq(rest)
    BY <1>5, <1>7 DEF IsStack
  <2> QED
    BY <1>1, <1>3, <1>5, <1>7, <2>1, ConcatStack, ConcatLast, CountConcat
<1>9. IsStream(stream')
  BY WritesStream DEF WorkStep, WorkInv
<1>10. WorkInv'
  BY <1>8, <1>9 DEF WorkStep, WorkInv
<1>11. DepthInv'
  BY <1>3, <1>4, <1>6, <1>8 DEF WorkStep, DepthInv
<1> QED
  BY <1>10, <1>11

(* serialize begins, for the program or for user code:                     *)
LEMMA EnterKeeps ==
    ASSUME WorkInv, DepthInv, NEW v, IsValue(v), NEW rest, IsStack(heap, rest),
           Count(rest, "leave") = Count(todo, "leave"),
           rest # << >> => rest[Len(rest)].op = "leave",
           Enter(v, rest), IsSeq(sent'), Len(sent') <= MaxMessages
    PROVE  WorkInv' /\ DepthInv'
<1> DEFINE calls == <<Value(v), Leave>>
<1>1. /\ todo' = calls \o rest
      /\ depth' = depth + 1
      /\ UNCHANGED <<heap, stream, leaked>>
      /\ NewCaches \/ UNCHANGED caches
  BY DEF Enter, EnterWith
<1>2. /\ IsSeq(calls) /\ Len(calls) = 2 /\ calls[1] = Value(v) /\ calls[2] = Leave
  BY ShortSeqs
<1>3. /\ IsWork(heap, Value(v)) /\ Value(v).op # "leave"
      /\ IsWork(heap, Leave) /\ Leave.op = "leave"
  BY WorkKinds
<1>4. IsStack(heap, calls)
  <2>1. \A i \in 1 .. 2 : i = 1 \/ i = 2
    OBVIOUS
  <2> HIDE DEF calls
  <2> QED
    BY <1>2, <1>3, <2>1 DEF IsStack
<1>5. Count(calls, "leave") = 1
  <2>1. Positions(calls, "leave") = {2}
    <3>1. DOMAIN calls = 1 .. 2
      BY <1>2, SeqFacts
    <3>2. 1 .. 2 = {1, 2}
      OBVIOUS
    <3> HIDE DEF calls
    <3> QED
      BY <1>2, <1>3, <3>1, <3>2 DEF Positions
  <2> QED
    BY <2>1, FS_Singleton DEF Count
<1>6. IsSeq(rest) /\ Count(rest, "leave") \in Nat
  BY PositionsFinite DEF IsStack
<1> HIDE DEF calls
<1>7. /\ IsStack(heap, todo') /\ todo' # << >>
      /\ todo'[Len(todo')].op = "leave"
      /\ Count(todo', "leave") = 1 + Count(rest, "leave")
  <2>1. CASE rest # << >>
    BY <1>1, <1>2, <1>4, <1>5, <1>6, <2>1, ConcatStack, ConcatLast, CountConcat
  <2>2. CASE rest = << >>
    <3>1. todo' = calls
      BY <1>1, <1>2, <2>2, EmptyConcat
    <3>2. Count(rest, "leave") = 0
      <4>1. DOMAIN rest = {}
        BY <2>2
      <4> QED
        BY <4>1, CountNone
    <3>3. calls # << >>
      <4>1. Len(<< >>) = 0
        OBVIOUS
      <4> QED
        BY <1>2, <4>1
    <3>4. Len(todo') = 2 /\ todo'[2] = Leave
      BY <1>2, <3>1
    <3>5. todo'[Len(todo')].op = "leave"
      BY <1>3, <3>4
    <3>6. Count(todo', "leave") = 1 + Count(rest, "leave")
      BY <1>5, <3>1, <3>2
    <3> QED
      BY <1>4, <3>1, <3>3, <3>5, <3>6
  <2> QED
    BY <2>1, <2>2
<1>8. KeysInv'
  BY <1>1 DEF NewCaches, EmptyCache, WorkInv, KeysInv, caches
<1>9. WorkInv'
  BY <1>1, <1>7, <1>8 DEF WorkInv
<1>10. DepthInv'
  BY <1>1, <1>6, <1>7 DEF DepthInv
<1> QED
  BY <1>9, <1>10
LEMMA SerializeKeeps ==
    ASSUME WorkInv, DepthInv, NEW v \in Roots, Serialize(v)
    PROVE  WorkInv' /\ DepthInv'
<1> DEFINE message == [root |-> v, heap |-> heap, from |-> Len(stream)]
<1>1. /\ todo = << >> /\ Len(sent) < MaxMessages
      /\ Enter(v, << >>) /\ sent' = Append(sent, message)
  BY DEF Serialize
<1> HIDE DEF message
<1>2. IsSeq(sent') /\ Len(sent') <= MaxMessages
  <2>1. PICK S : sent \in Seq(S)
    BY DEF WorkInv, IsSeq
  <2>2. sent \in Seq(S \cup {message})
    BY <2>1
  <2>3. sent' \in Seq(S \cup {message}) /\ Len(sent') = Len(sent) + 1 /\ Len(sent) \in Nat
    BY <1>1, <2>2
  <2> QED
    BY <1>1, <2>3, SerializerAssumption DEF IsSeq
<1>3. IsStack(heap, << >>)
  BY ShortSeqs, SeqFacts DEF IsStack
<1> QED
  BY <1>1, <1>2, <1>3, SerializerAssumption, EnterKeeps

LEMMA CallSerializeKeeps ==
    ASSUME WorkInv, DepthInv, CallSerialize PROVE WorkInv' /\ DepthInv'
<1> DEFINE c == Head(todo).call
           rest == Tail(todo)
<1>1. /\ Pending("call") /\ c.name = "serialize" /\ Enter(c.arg, rest) /\ UNCHANGED sent
  BY DEF CallSerialize, Calls
<1>2. IsValue(c.arg)
  <2>1. IsCall(heap, c)
    BY HeadCall DEF CallSerialize
  <2> QED
    BY <1>1, <2>1 DEF IsCall
<1>3. IsStack(heap, todo) /\ IsSeq(todo) /\ todo # << >> /\ Head(todo).op = "call"
  BY <1>1 DEF WorkInv, IsStack, Pending
<1>4. IsStack(heap, rest) /\ (rest # << >> => rest[Len(rest)].op = "leave")
  BY <1>3, TailStack, TailLast DEF DepthInv
<1>5. Count(rest, "leave") = Count(todo, "leave")
  <2>1. Count(rest, "leave") \in Nat
    BY <1>4, PositionsFinite DEF IsStack
  <2>2. Count(todo, "leave") = Count(rest, "leave") + (IF Head(todo).op = "leave" THEN 1 ELSE 0)
    BY <1>3, CountTail
  <2> QED
    BY <1>3, <2>1, <2>2
<1> HIDE DEF c, rest
<1>6. IsSeq(sent') /\ Len(sent') <= MaxMessages
  BY <1>1 DEF WorkInv
<1> QED
  BY <1>1, <1>2, <1>4, <1>5, <1>6, EnterKeeps

(* A call returns: the outermost one leaves stale caches only if an        *)
(* exception has ended another before.                                     *)
LEMMA EndKeeps ==
    ASSUME WorkInv, DepthInv, SerializeEnd PROVE WorkInv' /\ DepthInv'
<1> DEFINE rest == Tail(todo)
<1>1. /\ Pending("leave")
      /\ depth' = depth - 1
      /\ IF depth = 1 THEN NewCaches ELSE UNCHANGED caches
      /\ UNCHANGED <<heap, stream, sent, leaked>>
  BY DEF SerializeEnd, EndWith
<1>2. IsStack(heap, todo) /\ IsSeq(todo) /\ todo # << >> /\ Head(todo).op = "leave"
  BY <1>1 DEF WorkInv, IsStack, Pending
<1>3. /\ IsStack(heap, rest)
      /\ rest # << >> => rest[Len(rest)].op = "leave"
  BY <1>2, TailStack, TailLast DEF DepthInv
<1>4. Count(todo, "leave") = Count(rest, "leave") + 1 /\ Count(rest, "leave") \in Nat
  BY <1>2, <1>3, CountTail, PositionsFinite DEF IsStack
<1>5. todo' = rest
  <2>1. todo' = << >> \o rest
    BY DEF SerializeEnd, EndWith, Do
  <2> HIDE DEF rest
  <2> QED
    BY <1>3, <2>1, EmptyConcat DEF IsStack
<1> HIDE DEF rest
<1>6. KeysInv'
  BY <1>1 DEF NewCaches, EmptyCache, WorkInv, KeysInv, caches
<1>7. WorkInv'
  BY <1>1, <1>3, <1>5, <1>6 DEF WorkInv
<1>8. leaked' \in Nat /\ depth' = leaked' + Count(todo', "leave")
  BY <1>1, <1>4, <1>5 DEF DepthInv
<1>9. ASSUME todo' = << >>, \E c \in {cacheStrings', cacheObjects', cacheTraits'} : c # EmptyCache
      PROVE  leaked' > 0
  <2>1. Count(rest, "leave") = 0
    <3>1. DOMAIN rest = {}
      BY <1>5, <1>9
    <3> QED
      BY <3>1, CountNone
  <2>2. depth # 1
    BY <1>1, <1>9 DEF NewCaches
  <2> QED
    BY <1>1, <1>4, <2>1, <2>2 DEF DepthInv
<1>10. DepthInv'
  BY <1>3, <1>5, <1>8, <1>9 DEF DepthInv
<1> QED
  BY <1>7, <1>10

LEMMA PendingCounts ==
    ASSUME WorkInv, DepthInv, todo # << >> PROVE depth > leaked /\ leaked \in Nat
<1>1. IsSeq(todo)
  BY DEF WorkInv, IsStack
<1>2. DOMAIN todo = 1 .. Len(todo) /\ Len(todo) \in 1 .. Len(todo)
  BY <1>1, SeqFacts
<1>3. Len(todo) \in Positions(todo, "leave")
  BY <1>2 DEF Positions, DepthInv
<1>4. IsFiniteSet(Positions(todo, "leave")) /\ Count(todo, "leave") \in Nat
  BY <1>1, PositionsFinite
<1>5. Cardinality(Positions(todo, "leave")) # 0
  BY <1>3, <1>4, FS_EmptySet
<1>6. Count(todo, "leave") > 0
  BY <1>4, <1>5 DEF Count
<1> QED
  BY <1>4, <1>6 DEF DepthInv

(* An exception ends at least the outermost call.                          *)
LEMMA AbortKeeps ==
    ASSUME WorkInv, DepthInv, EncodingFails \/ CallRaises
    PROVE  WorkInv' /\ DepthInv'
<1>1. /\ todo # << >> /\ todo' = << >> /\ leaked' = depth
      /\ UNCHANGED <<heap, depth, caches, sent>>
  BY DEF EncodingFails, CallRaises, Abort, ValueIs, Calls, Pending
<1>2. IsStream(stream')
  <2>1. CASE UNCHANGED stream
    BY <2>1 DEF WorkInv
  <2>2. CASE Emit(<<Word(STRING_MARKER)>>)
    BY <2>2, TokenFacts, OneToken, ConcatStream DEF WorkInv, Emit
  <2> QED
    BY <2>1, <2>2 DEF EncodingFails, CallRaises
<1>3. depth > leaked /\ leaked \in Nat
  BY <1>1, PendingCounts
<1>4. depth \in Nat
  BY PositionsFinite DEF WorkInv, IsStack, DepthInv
<1>6. Count(todo', "leave") = 0
  <2>1. DOMAIN todo' = {}
    BY <1>1
  <2> QED
    BY <2>1, CountNone
<1>7. DepthInv'
  BY <1>1, <1>3, <1>4, <1>6 DEF DepthInv
<1>8. IsStack(heap', todo') /\ KeysInv'
  BY <1>1, ShortSeqs, SeqFacts DEF IsStack, WorkInv, KeysInv, caches
<1>9. WorkInv'
  BY <1>1, <1>2, <1>8 DEF WorkInv
<1> QED
  BY <1>7, <1>9

LEMMA InitWork == Init => WorkInv /\ DepthInv
<1> SUFFICES ASSUME Init PROVE WorkInv /\ DepthInv
  OBVIOUS
<1>1. IsSeq(<< >>) /\ Len(<< >>) = 0 /\ DOMAIN << >> = {}
  BY ShortSeqs
<1>2. Count(<< >>, "leave") = 0
  BY <1>1, CountNone
<1>3. IsHeap(heap)
  BY SerializerAssumption DEF Init
<1>4. IsStack(heap, todo) /\ IsStream(stream) /\ KeysInv
  BY <1>1 DEF Init, IsStack, IsStream, KeysInv, EmptyCache
<1>5. WorkInv
  BY <1>1, <1>3, <1>4, SerializerAssumption DEF Init, WorkInv
<1>6. DepthInv
  BY <1>2 DEF Init, DepthInv
<1> QED
  BY <1>5, <1>6

LEMMA NextWork == WorkInv /\ DepthInv /\ [Next]_vars => WorkInv' /\ DepthInv'
<1> SUFFICES ASSUME WorkInv, DepthInv, [Next]_vars PROVE WorkInv' /\ DepthInv'
  OBVIOUS
<1>1. CASE \E v \in Roots : Serialize(v)
  BY <1>1, SerializeKeeps
<1>2. CASE SerializeEnd
  BY <1>2, EndKeeps
<1>3. CASE EncodingFails \/ CallRaises
  BY <1>3, AbortKeeps
<1>4. CASE CallSerialize
  BY <1>4, CallSerializeKeeps
<1>5. CASE \/ WriteConst \/ WriteNumeric \/ WriteString \/ WriteKey
           \/ WriteTime \/ WriteDate \/ WriteByteArray \/ WriteArray \/ WriteObject
           \/ WriteSealed \/ DeleteSealed \/ WriteClose
           \/ EncodeAmf \/ CallWriteArray \/ CallWriteObject
  BY <1>5, AnyWorkStep, WorkStepKeeps
<1>6. CASE UNCHANGED vars
  BY <1>6 DEF vars, caches, WorkInv, KeysInv, DepthInv
<1> QED
  BY <1>1, <1>2, <1>3, <1>4, <1>5, <1>6 DEF Next, Step

LEMMA WorkAlways == Spec => [](WorkInv /\ DepthInv)
  BY InitWork, NextWork, PTL DEF Spec

LEMMA CacheType ==
    ASSUME NEW cache, IsNumbering(cache), NEW Keys, DOMAIN cache.idx \subseteq Keys
    PROVE  IsCache(cache, Keys)
<1>1. /\ cache = [idx |-> cache.idx, next |-> cache.next]
      /\ cache.next \in Nat
      /\ cache.idx = [k \in DOMAIN cache.idx |-> cache.idx[k]]
      /\ \A k \in DOMAIN cache.idx : cache.idx[k] \in 0 .. (cache.next - 1)
  BY DEF IsNumbering, Dense
<1>2. \A k \in DOMAIN cache.idx : cache.idx[k] \in Nat
  BY <1>1
<1>3. cache.idx \in [DOMAIN cache.idx -> Nat]
  BY <1>1, <1>2
<1>4. DOMAIN cache = {"idx", "next"}
  BY <1>1
<1> QED
  BY <1>1, <1>3, <1>4 DEF IsCache

(* TypeOK: the caches map strings, objects and names to numbers, the       *)
(* stream is made of tokens, and nothing but calls is pending.             *)
THEOREM TypeOKAlways == Spec => []TypeOK
<1>1. WorkInv /\ DepthInv /\ IInv => TypeOK
  <2> SUFFICES ASSUME WorkInv, DepthInv, IInv PROVE TypeOK
    OBVIOUS
  <2>1. /\ IsCache(cacheStrings, Strings \ {EmptyString})
        /\ IsCache(cacheObjects, Objects)
        /\ IsCache(cacheTraits, Strings)
    BY CacheType DEF WorkInv, KeysInv, IInv, InlineTexts, Texts
  <2>2. \A i \in DOMAIN stream :
          Is("word", stream[i]) \/ Is("double", stream[i])
            \/ stream[i] \in {Raw(t) : t \in Strings}
    BY SeqFacts, SerializerAssumption DEF WorkInv, IsStream, IsToken, InlineTexts, Texts, Is
  <2>3. \A i \in DOMAIN todo : IsWork(heap, todo[i])
    BY SeqFacts DEF WorkInv, IsStack
  <2>4. \A i \in DOMAIN todo : todo[i].op \in {"value", "string", "call", "close",
                                               "leave", "sealed", "delete"}
    BY <2>3 DEF IsWork
  <2>5. depth \in Nat
    BY PositionsFinite DEF WorkInv, IsStack, DepthInv
  <2> QED
    BY <2>1, <2>2, <2>4, <2>5 DEF TypeOK, WorkInv, IsHeap, DepthInv
<1> QED
  BY <1>1, IInvAlways, WorkAlways, PTL

(* @depth counts the running calls of serialize and those an exception     *)
(* ended, and caches outlive a message only after such an exception.       *)
THEOREM StaleOnlyAfterFailureAlways == Spec => []StaleOnlyAfterFailure
<1>1. WorkInv /\ DepthInv => StaleOnlyAfterFailure
  BY DEF DepthInv, StaleOnlyAfterFailure, Count, Positions
<1> QED
  BY <1>1, WorkAlways, PTL

----------------------------------------------------------------------------
(* The string table: a token other than an inline string leaves the        *)
(* strings of the message as they are, and a new one comes after them all. *)
InlineIn(s, from) == {i \in from + 1 .. Len(s) : IsInline(s[i])}

IsTable(s, from, cache) ==
    /\ Cardinality(InlineIn(s, from)) = cache.next
    /\ \A i \in InlineIn(s, from) :
         /\ Cached(cache, s[i].raw)
         /\ cache.idx[s[i].raw] = Cardinality({j \in InlineIn(s, from) : j < i})

From == sent[Len(sent)].from

TableInv ==
    /\ sent # << >> => From \in 0 .. Len(stream)
    /\ depth > 0 /\ leaked = 0 => sent # << >> /\ IsTable(stream, From, cacheStrings)

LEMMA NotInline == ASSUME NEW t, IsToken(t) PROVE ~IsInline(t)
  BY DEF IsToken, IsInline, Is, Raw

LEMMA RawIsInline == ASSUME NEW x \in InlineTexts PROVE IsInline(Raw(x)) /\ Raw(x).raw = x
  BY DEF InlineTexts, Texts, IsInline, Is, Raw

LEMMA TokensAreNoTable ==
    ASSUME NEW s, IsSeq(s), NEW t, IsTokens(t), NEW from \in 0 .. Len(s), NEW cache,
           IsTable(s, from, cache)
    PROVE  IsTable(s \o t, from, cache)
<1> DEFINE u == s \o t
<1>1. /\ Len(s) \in Nat /\ Len(t) \in Nat /\ Len(u) = Len(s) + Len(t)
      /\ \A i \in 1 .. Len(s) : u[i] = s[i]
      /\ \A i \in 1 .. Len(t) : u[Len(s) + i] = t[i]
  BY SeqFacts, ConcatFacts DEF IsTokens
<1> HIDE DEF u
<1>2. \A i \in InlineIn(s, from) : u[i] = s[i]
  BY <1>1 DEF InlineIn
<1>3. InlineIn(u, from) = InlineIn(s, from)
  <2>1. ASSUME NEW i \in from + 1 .. Len(u), i > Len(s) PROVE ~IsInline(u[i])
    <3>1. i - Len(s) \in 1 .. Len(t) /\ Len(s) + (i - Len(s)) = i
      BY <1>1, <2>1
    <3>2. u[i] = t[i - Len(s)] /\ IsToken(t[i - Len(s)])
      BY <1>1, <3>1 DEF IsTokens
    <3> QED
      BY <3>2, NotInline
  <2>2. \A i \in from + 1 .. Len(s) : i \in 1 .. Len(s) /\ i \in from + 1 .. Len(u)
    BY <1>1
  <2>3. \A i \in from + 1 .. Len(u) : i > Len(s) \/ i \in from + 1 .. Len(s)
    BY <1>1
  <2> QED
    BY <1>1, <2>1, <2>2, <2>3 DEF InlineIn
<1>4. IsTable(u, from, cache)
  BY <1>2, <1>3 DEF IsTable
<1> QED
  BY <1>4 DEF u

LEMMA NewStringInTable ==
    ASSUME NEW s, IsSeq(s), NEW from \in 0 .. Len(s), NEW cache, cache.next \in Nat,
           IsTable(s, from, cache), NEW x \in InlineTexts, ~Cached(cache, x)
    PROVE  IsTable(s \o <<Raw(x)>>, from, Add(cache, x))
<1> DEFINE u == s \o <<Raw(x)>>
           n == Len(s) + 1
           old == InlineIn(s, from)
           anew == InlineIn(u, from)
           later == Add(cache, x)
<1>1. /\ Len(s) \in Nat /\ Len(u) = n /\ u[n] = Raw(x)
      /\ \A i \in 1 .. Len(s) : u[i] = s[i]
  <2>1. IsSeq(<<Raw(x)>>) /\ Len(<<Raw(x)>>) = 1 /\ <<Raw(x)>>[1] = Raw(x)
    BY ShortSeqs
  <2> QED
    BY <2>1, SeqFacts, ConcatFacts
<1> HIDE DEF u
<1>2. /\ IsFiniteSet(old) /\ n \notin old
      /\ \A i \in old : i \in 1 .. Len(s) /\ i < n /\ u[i] = s[i]
  <2>1. old \subseteq from + 1 .. Len(s) /\ IsFiniteSet(from + 1 .. Len(s))
    BY <1>1, FS_Interval DEF InlineIn
  <2>2. IsFiniteSet(old)
    BY <2>1, FS_Subset
  <2> QED
    BY <1>1, <2>1, <2>2
<1>3. anew = old \cup {n}
  <2>1. IsInline(u[n])
    BY <1>1, RawIsInline
  <2>2. \A i \in from + 1 .. n : i = n \/ i \in from + 1 .. Len(s)
    BY <1>1
  <2>3. \A i \in from + 1 .. Len(s) : i \in from + 1 .. n /\ i \in 1 .. Len(s)
    BY <1>1
  <2>4. n \in from + 1 .. n
    BY <1>1
  <2> HIDE DEF n
  <2> QED
    BY <1>1, <2>1, <2>2, <2>3, <2>4 DEF InlineIn
<1>4. Cardinality(anew) = cache.next + 1
  <2>1. Cardinality(old) = cache.next
    BY DEF IsTable
  <2> HIDE DEF old, anew, n
  <2> QED
    BY <1>2, <1>3, <2>1, FS_AddElement
<1>5. /\ later.next = cache.next + 1
      /\ DOMAIN later.idx = DOMAIN cache.idx \cup {x}
      /\ later.idx[x] = cache.next
      /\ \A k \in DOMAIN cache.idx : k # x => later.idx[k] = cache.idx[k]
  BY DEF Add, Store
<1>6. ASSUME NEW i \in old
      PROVE  /\ Cached(later, u[i].raw)
             /\ later.idx[u[i].raw] = Cardinality({j \in anew : j < i})
  <2>1. {j \in anew : j < i} = {j \in old : j < i}
    <3>1. ~(n < i)
      BY <1>1, <1>2
    <3> HIDE DEF n, old, anew
    <3> QED
      BY <1>3, <3>1
  <2>2. /\ u[i] = s[i] /\ Cached(cache, s[i].raw)
        /\ cache.idx[s[i].raw] = Cardinality({j \in old : j < i})
    BY <1>2 DEF IsTable
  <2>3. s[i].raw # x
    BY <2>2
  <2> HIDE DEF later, old, anew
  <2> QED
    BY <1>5, <2>1, <2>2, <2>3 DEF Cached
<1>7. /\ Cached(later, u[n].raw)
      /\ later.idx[u[n].raw] = Cardinality({j \in anew : j < n})
  <2>1. {j \in anew : j < n} = old
    <3>1. ~(n < n) /\ \A i \in old : i < n
      BY <1>1, <1>2
    <3> HIDE DEF n, old, anew
    <3> QED
      BY <1>3, <3>1
  <2>2. u[n].raw = x /\ Cardinality(old) = cache.next
    BY <1>1, RawIsInline DEF IsTable
  <2> HIDE DEF later, old, anew, n
  <2> QED
    BY <1>5, <2>1, <2>2 DEF Cached
<1> HIDE DEF later
<1>8. IsTable(u, from, later)
  <2>1. \A i \in anew : i \in old \/ i = n
    BY <1>3
  <2> QED
    BY <1>4, <1>5, <1>6, <1>7, <2>1 DEF IsTable
<1> QED
  BY <1>8 DEF u, later

LEMMA LongerStream ==
    ASSUME IsStream(stream), TableInv, Writes \/ UNCHANGED <<stream, cacheStrings>>,
           IsNumbering(cacheStrings), sent # << >>
    PROVE  /\ From \in 0 .. Len(stream')
           /\ IsTable(stream, From, cacheStrings) => IsTable(stream', From, cacheStrings')
<1>1. IsSeq(stream) /\ From \in 0 .. Len(stream) /\ cacheStrings.next \in Nat
  BY DEF IsStream, TableInv, IsNumbering
<1> DEFINE from == From
<1> HIDE DEF from
<1>2. CASE UNCHANGED <<stream, cacheStrings>>
  BY <1>1, <1>2
<1>3. CASE \E t : IsTokens(t) /\ Emit(t) /\ UNCHANGED cacheStrings
  <2>1. PICK t : IsTokens(t) /\ stream' = stream \o t /\ UNCHANGED cacheStrings
    BY <1>3 DEF Emit
  <2>2. Len(stream') = Len(stream) + Len(t) /\ Len(stream) \in Nat /\ Len(t) \in Nat
    BY <1>1, <2>1, ConcatFacts, SeqFacts DEF IsTokens
  <2>3. from \in 0 .. Len(stream) /\ from \in 0 .. Len(stream')
    BY <1>1, <2>2 DEF from
  <2>4. IsTable(stream, from, cacheStrings) => IsTable(stream', from, cacheStrings)
    BY <1>1, <2>1, <2>3, TokensAreNoTable
  <2> QED
    BY <2>1, <2>3, <2>4 DEF from
<1>4. CASE \E t : \E x \in InlineTexts :
             /\ IsTokens(t) /\ ~Cached(cacheStrings, x)
             /\ cacheStrings' = Add(cacheStrings, x)
             /\ Emit(t \o <<Raw(x)>>)
  <2>1. PICK t : \E x \in InlineTexts :
             /\ IsTokens(t) /\ ~Cached(cacheStrings, x)
             /\ cacheStrings' = Add(cacheStrings, x)
             /\ Emit(t \o <<Raw(x)>>)
    BY <1>4
  <2>2. PICK x \in InlineTexts :
             /\ IsTokens(t) /\ ~Cached(cacheStrings, x)
             /\ cacheStrings' = Add(cacheStrings, x)
             /\ stream' = stream \o (t \o <<Raw(x)>>)
    BY <2>1 DEF Emit
  <2> DEFINE u == stream \o t
             v == <<Raw(x)>>
  <2>3. IsSeq(u) /\ Len(u) = Len(stream) + Len(t) /\ Len(stream) \in Nat /\ Len(t) \in Nat
    BY <1>1, <2>2, ConcatFacts, SeqFacts DEF IsTokens
  <2>4. stream' = u \o v /\ Len(stream') = Len(u) + 1
    <3>1. IsSeq(v) /\ Len(v) = 1
      BY ShortSeqs
    <3>2. stream' = u \o v
      BY <1>1, <2>2, <3>1, ConcatTwice DEF IsTokens
    <3>3. Len(u \o v) = Len(u) + Len(v)
      BY <2>3, <3>1, ConcatFacts
    <3> HIDE DEF u, v
    <3> QED
      BY <3>1, <3>2, <3>3
  <2>5. from \in 0 .. Len(stream) /\ from \in 0 .. Len(u) /\ from \in 0 .. Len(stream')
    <3> HIDE DEF u, v
    <3> QED
      BY <1>1, <2>3, <2>4 DEF from
  <2>6. IsTable(stream, from, cacheStrings) => IsTable(u, from, cacheStrings)
    BY <1>1, <2>2, <2>5, TokensAreNoTable
  <2> HIDE DEF u
  <2>7. IsTable(u, from, cacheStrings) => IsTable(u \o v, from, Add(cacheStrings, x))
    BY <1>1, <2>2, <2>3, <2>5, NewStringInTable
  <2> QED
    BY <2>2, <2>4, <2>5, <2>6, <2>7 DEF from
<1> QED
  BY <1>2, <1>3, <1>4 DEF Writes

LEMMA TableStep ==
    ASSUME WorkInv, DepthInv, IInv, TableInv, [Next]_vars PROVE TableInv'
<1>1. ASSUME NEW v \in Roots, Serialize(v) PROVE TableInv'
  <2> DEFINE message == [root |-> v, heap |-> heap, from |-> Len(stream)]
  <2>1. /\ todo = << >> /\ sent' = Append(sent, message)
        /\ IF depth = 0 THEN NewCaches ELSE UNCHANGED caches
        /\ UNCHANGED <<stream, leaked>>
    BY <1>1 DEF Serialize, Enter, EnterWith
  <2>2. sent' # << >> /\ sent'[Len(sent')].from = Len(stream) /\ Len(stream) \in Nat
    <3>1. PICK S : sent \in Seq(S)
      BY DEF WorkInv, IsSeq
    <3>2. message.from = Len(stream)
      OBVIOUS
    <3> HIDE DEF message
    <3>3. sent \in Seq(S \cup {message}) /\ message \in S \cup {message}
      BY <3>1
    <3>4. Len(sent') = Len(sent) + 1 /\ sent'[Len(sent')] = message /\ Len(sent) \in Nat
      BY <2>1, <3>3
    <3>5. Len(stream) \in Nat
      BY SeqFacts DEF WorkInv, IsStream
    <3>6. sent' # << >>
      <4>1. Len(<< >>) = 0
        OBVIOUS
      <4> QED
        BY <3>4, <4>1
    <3> QED
      BY <3>2, <3>4, <3>5, <3>6
  <2>3. leaked' = 0 => IsTable(stream', From', cacheStrings')
    <3> SUFFICES ASSUME leaked = 0 PROVE IsTable(stream, Len(stream), cacheStrings')
      BY <2>1, <2>2 DEF From
    <3>1. Count(todo, "leave") = 0
      <4>1. DOMAIN todo = {}
        BY <2>1
      <4> QED
        BY <4>1, CountNone
    <3>2. cacheStrings' = EmptyCache
      BY <2>1, <3>1 DEF DepthInv, NewCaches
    <3>3. InlineIn(stream, Len(stream)) = {}
      BY <2>2 DEF InlineIn
    <3> QED
      BY <3>2, <3>3, FS_EmptySet DEF IsTable, EmptyCache
  <2>4. From' \in 0 .. Len(stream')
    BY <2>1, <2>2 DEF From
  <2> QED
    BY <2>2, <2>3, <2>4 DEF TableInv
<1>2. CASE SerializeEnd
  <2>1. /\ depth' = depth - 1
        /\ IF depth = 1 THEN NewCaches ELSE UNCHANGED caches
        /\ UNCHANGED <<stream, sent, leaked>> /\ todo # << >>
    BY <1>2 DEF SerializeEnd, EndWith, Pending
  <2>2. From' = From
    BY <2>1 DEF From
  <2>3. depth \in Nat
    BY PositionsFinite DEF WorkInv, IsStack, DepthInv
  <2>4. depth' > 0 => depth > 0 /\ UNCHANGED cacheStrings
    BY <2>1, <2>3 DEF caches
  <2> QED
    BY <2>1, <2>2, <2>4 DEF TableInv
<1>3. CASE EncodingFails \/ CallRaises
  <2>1. todo # << >> /\ leaked' = depth /\ UNCHANGED <<sent, depth>>
    BY <1>3 DEF EncodingFails, CallRaises, Abort, ValueIs, Calls, Pending
  <2>2. leaked' # 0
    BY <2>1, PendingCounts
  <2>3. UNCHANGED stream \/ Emit(<<Word(STRING_MARKER)>>)
    BY <1>3 DEF EncodingFails, CallRaises
  <2>4. Writes \/ UNCHANGED <<stream, cacheStrings>>
    <3>1. UNCHANGED cacheStrings
      BY <1>3 DEF EncodingFails, CallRaises, caches
    <3> QED
      BY <2>3, <3>1, TokenFacts, OneToken DEF Writes
  <2>5. sent' # << >> => From' \in 0 .. Len(stream')
    BY <2>1, <2>4, LongerStream DEF WorkInv, IInv, From
  <2> QED
    BY <2>2, <2>5 DEF TableInv
<1>4. CASE CallSerialize
  <2>1. /\ todo # << >>
        /\ IF depth = 0 THEN NewCaches ELSE UNCHANGED caches
        /\ UNCHANGED <<stream, sent, leaked>>
    BY <1>4 DEF CallSerialize, Calls, Pending, Enter, EnterWith
  <2>2. depth > 0
    BY <2>1, PendingCounts, PositionsFinite DEF WorkInv, IsStack, DepthInv
  <2>3. UNCHANGED cacheStrings /\ From' = From
    BY <2>1, <2>2 DEF caches, From
  <2> QED
    BY <2>1, <2>2, <2>3 DEF TableInv
<1>5. CASE \/ WriteConst \/ WriteNumeric \/ WriteString \/ WriteKey
           \/ WriteTime \/ WriteDate \/ WriteByteArray \/ WriteArray \/ WriteObject
           \/ WriteSealed \/ DeleteSealed \/ WriteClose
           \/ EncodeAmf \/ CallWriteArray \/ CallWriteObject
  <2>1. WorkStep
    BY <1>5, AnyWorkStep
  <2>2. From' = From
    BY <2>1 DEF WorkStep, From
  <2>3. sent # << >> =>
          /\ From \in 0 .. Len(stream')
          /\ IsTable(stream, From, cacheStrings) => IsTable(stream', From, cacheStrings')
    BY <2>1, LongerStream DEF WorkStep, WorkInv, IInv
  <2> QED
    BY <2>1, <2>2, <2>3 DEF WorkStep, TableInv
<1>6. CASE UNCHANGED vars
  BY <1>6 DEF vars, caches, TableInv, From
<1> QED
  BY <1>1, <1>2, <1>3, <1>4, <1>5, <1>6 DEF Next, Step

(* The indices a reader gives the strings of a message are those of the    *)
(* writer's cache (amf3_write_string_internal), whatever user code writes  *)
(* in between, unless an exception has left a call of serialize uncounted. *)
THEOREM StringTableIsStreamAlways == Spec => []StringTableIsStream
<1>1. Init => TableInv
  BY DEF Init, TableInv
<1>2. WorkInv /\ DepthInv /\ IInv /\ TableInv /\ [Next]_vars => TableInv'
  BY TableStep
<1>3. TableInv => StringTableIsStream
  BY DEF TableInv, IsTable, From, InlineIn, Inlined, StringTableIsStream
<1> QED
  BY <1>1, <1>2, <1>3, WorkAlways, IInvAlways, PTL DEF Spec

----------------------------------------------------------------------------
(* What writing does to a Hash of the program: entries are taken out of it *)
(* one after the other.                                                    *)
LEMMA WithoutKeeps ==
    ASSUME NEW h, NEW o, NEW pairs, IsSeq(pairs), NEW key, Seals(h, o, key)
    PROVE  KeepsOthers(h, o, pairs, Without(pairs, key))
<1> DEFINE u == Without(pairs, key)
           n == Len(pairs)
<1>1. n \in Nat /\ DOMAIN pairs = 1 .. n
  BY SeqFacts
<1>2. CASE u = pairs
  <2> DEFINE at == [i \in 1 .. n |-> i]
  <2>1. /\ at \in [DOMAIN u -> DOMAIN pairs]
        /\ \A i \in DOMAIN u : u[i] = pairs[at[i]]
        /\ \A i, j \in DOMAIN u : i < j => at[i] < at[j]
        /\ \A k \in DOMAIN pairs : \E i \in DOMAIN u : at[i] = k
    BY <1>1, <1>2
  <2> HIDE DEF at, u
  <2> QED
    BY <2>1 DEF KeepsOthers, u
<1>3. CASE u # pairs
  <2>1. PICK k \in 1 .. n :
          /\ pairs[k][1] = key
          /\ IsSeq(u) /\ Len(u) = n - 1
          /\ \A j \in 1 .. n - 1 : u[j] = pairs[IF j < k THEN j ELSE j + 1]
    BY <1>3, WithoutEntries
  <2> HIDE DEF u
  <2>2. DOMAIN u = 1 .. n - 1
    BY <2>1, SeqFacts
  <2> DEFINE at == [j \in 1 .. n - 1 |-> IF j < k THEN j ELSE j + 1]
  <2> HIDE DEF n
  <2>3. at \in [1 .. n - 1 -> 1 .. n] /\ \A j \in 1 .. n - 1 : u[j] = pairs[at[j]]
    BY <1>1, <2>1
  <2>4. \A i, j \in 1 .. n - 1 : i < j => at[i] < at[j]
    BY <1>1
  <2>5. ASSUME NEW m \in 1 .. n
        PROVE  (\E i \in 1 .. n - 1 : at[i] = m) \/ Seals(h, o, pairs[m][1])
    <3>1. CASE m = k
      BY <2>1, <3>1
    <3>2. CASE m < k
      <4>1. m \in 1 .. n - 1 /\ at[m] = m
        BY <1>1, <3>2
      <4> QED
        BY <4>1
    <3>3. CASE m > k
      <4>1. m - 1 \in 1 .. n - 1 /\ at[m - 1] = m
        BY <1>1, <3>3
      <4> QED
        BY <4>1
    <3> QED
      BY <1>1, <3>1, <3>2, <3>3
  <2> HIDE DEF at
  <2>6. DOMAIN pairs = 1 .. n
    BY <1>1
  <2>7. at \in [DOMAIN u -> DOMAIN pairs] /\ \A i \in DOMAIN u : u[i] = pairs[at[i]]
    BY <2>2, <2>3, <2>6, Zenon
  <2>8. \A i, j \in DOMAIN u : i < j => at[i] < at[j]
    BY <2>2, <2>4, Zenon
  <2>9. \A m \in DOMAIN pairs : \/ \E i \in DOMAIN u : at[i] = m
                                \/ Seals(h, o, pairs[m][1])
    BY <2>2, <2>5, <2>6, Zenon
  <2>10. KeepsOthers(h, o, pairs, u)
    BY <2>7, <2>8, <2>9 DEF KeepsOthers
  <2> QED
    BY <2>10 DEF u
<1> QED
  BY <1>2, <1>3

LEMMA KeepsTwice ==
    ASSUME NEW h, NEW o, NEW first, NEW second, NEW third,
           KeepsOthers(h, o, first, second), KeepsOthers(h, o, second, third)
    PROVE  KeepsOthers(h, o, first, third)
<1>1. PICK f \in [DOMAIN second -> DOMAIN first] :
        /\ \A i \in DOMAIN second : second[i] = first[f[i]]
        /\ \A i, j \in DOMAIN second : i < j => f[i] < f[j]
        /\ \A k \in DOMAIN first : \/ \E i \in DOMAIN second : f[i] = k
                                   \/ Seals(h, o, first[k][1])
  BY DEF KeepsOthers
<1>2. PICK g \in [DOMAIN third -> DOMAIN second] :
        /\ \A i \in DOMAIN third : third[i] = second[g[i]]
        /\ \A i, j \in DOMAIN third : i < j => g[i] < g[j]
        /\ \A k \in DOMAIN second : \/ \E i \in DOMAIN third : g[i] = k
                                    \/ Seals(h, o, second[k][1])
  BY DEF KeepsOthers
<1> DEFINE at == [i \in DOMAIN third |-> f[g[i]]]
<1>3. at \in [DOMAIN third -> DOMAIN first]
  OBVIOUS
<1>4. \A i \in DOMAIN third : at[i] = f[g[i]] /\ g[i] \in DOMAIN second
  OBVIOUS
<1> HIDE DEF at
<1>5. \A i \in DOMAIN third : third[i] = first[at[i]]
  BY <1>1, <1>2, <1>4
<1>6. \A i, j \in DOMAIN third : i < j => at[i] < at[j]
  BY <1>1, <1>2, <1>4
<1>7. ASSUME NEW k \in DOMAIN first, ~Seals(h, o, first[k][1])
      PROVE  \E i \in DOMAIN third : at[i] = k
  <2>1. PICK j \in DOMAIN second : f[j] = k
    BY <1>1, <1>7
  <2>2. second[j] = first[k]
    BY <1>1, <2>1
  <2>3. PICK i \in DOMAIN third : g[i] = j
    BY <1>2, <1>7, <2>2
  <2> QED
    BY <1>4, <2>1, <2>3
<1> QED
  BY <1>3, <1>5, <1>6, <1>7 DEF KeepsOthers

LEMMA KeepsSame ==
    ASSUME NEW h, NEW later, SameKinds(h, later), NEW o, NEW was, NEW now,
           KeepsOthers(h, o, was, now)
    PROVE  KeepsOthers(later, o, was, now)
  BY SealSame DEF KeepsOthers

LEMMA LossStep ==
    ASSUME WorkInv, LosesOnlySealed, [Next]_vars PROVE LosesOnlySealed'
<1>1. ASSUME NEW v \in Roots, Serialize(v) PROVE LosesOnlySealed'
  <2> DEFINE message == [root |-> v, heap |-> heap, from |-> Len(stream)]
  <2>1. sent' = Append(sent, message) /\ UNCHANGED heap
    BY <1>1 DEF Serialize, Enter, EnterWith
  <2>2. message.heap = heap
    OBVIOUS
  <2> HIDE DEF message
  <2>3. sent'[Len(sent')] = message
    <3>1. PICK S : sent \in Seq(S)
      BY DEF WorkInv, IsSeq
    <3>2. sent \in Seq(S \cup {message}) /\ message \in S \cup {message}
      BY <3>1
    <3> QED
      BY <2>1, <3>2
  <2> QED
    BY <2>1, <2>2, <2>3 DEF LosesOnlySealed
<1>2. CASE DeleteSealed
  <2> DEFINE c    == Head(todo)
             key  == Str(Head(c.members))
             rest == Without(Entries(c.props), key)
  <2>1. /\ Pending("delete") /\ UNCHANGED sent
        /\ IF Is("ref", c.props)
           THEN heap' = [heap EXCEPT ![c.props.ref].pairs = rest]
           ELSE UNCHANGED heap
    BY <1>2 DEF DeleteSealed
  <2>2. /\ IsProps(heap, c.props) /\ IsNames(c.members) /\ c.members # << >>
        /\ MaySeal(heap, c.props, c.members)
    BY <2>1, HeadWork DEF IsWork
  <2>3. CASE UNCHANGED heap
    BY <2>1, <2>3 DEF LosesOnlySealed
  <2>4. CASE Is("ref", c.props)
    <3>1. PICK o \in Objects : c.props = Ref(o) /\ heap[o].kind = "hash"
      <4>1. \A pairs : ~Is("ref", [pairs |-> pairs])
        BY DEF Is
      <4> QED
        BY <2>2, <2>4, <4>1 DEF IsProps
    <3>2. c.props.ref = o /\ Entries(c.props) = heap[o].pairs
      BY <2>4, <3>1 DEF Ref, Entries
    <3>3. heap' = [heap EXCEPT ![o].pairs = rest]
      BY <2>1, <2>4, <3>2
    <3>4. Seals(heap, o, key)
      <4>1. 1 \in DOMAIN c.members /\ Head(c.members) = c.members[1]
        BY <2>2, ListIsSeq, SeqFacts DEF IsNames
      <4> QED
        BY <2>2, <3>1, <4>1 DEF MaySeal
    <3>5. IsHeap(heap) /\ IsPairs(heap[o].pairs) /\ "pairs" \in DOMAIN heap[o]
      BY <3>1 DEF WorkInv, IsHeap, IsObject, Is
    <3>6. rest = Without(heap[o].pairs, key)
      BY <3>2
    <3> HIDE DEF rest, key, c
    <3>7. IsPairs(rest)
      BY <3>5, <3>6, WithoutPairs
    <3>8. SameKinds(heap, heap')
      BY <3>1, <3>3, <3>5, <3>7, DeletedHeap
    <3>9. KeepsOthers(heap, o, heap[o].pairs, rest)
      BY <3>4, <3>5, <3>6, PairsFacts, WithoutKeeps
    <3>10. /\ \A x \in Objects : x # o => heap'[x] = heap[x]
           /\ heap'[o] = [heap[o] EXCEPT !.pairs = rest]
           /\ heap'[o].pairs = rest
      BY <3>3, <3>5 DEF IsHeap
    <3> SUFFICES ASSUME sent # << >>, NEW x \in Objects,
                        heap'[x] # sent[Len(sent)].heap[x]
                 PROVE  /\ heap'[x] = [sent[Len(sent)].heap[x] EXCEPT !.pairs = heap'[x].pairs]
                        /\ KeepsOthers(heap', x, sent[Len(sent)].heap[x].pairs, heap'[x].pairs)
      BY <2>1 DEF LosesOnlySealed
    <3> DEFINE was == sent[Len(sent)].heap[x]
    <3>11. heap[x] # was => /\ heap[x] = [was EXCEPT !.pairs = heap[x].pairs]
                            /\ KeepsOthers(heap, x, was.pairs, heap[x].pairs)
      BY DEF LosesOnlySealed
    <3> HIDE DEF was
    <3>12. CASE x # o
      BY <3>8, <3>10, <3>11, <3>12, KeepsSame DEF was
    <3>13. CASE x = o
      <4>1. KeepsOthers(heap, o, was.pairs, rest)
        BY <3>9, <3>11, <3>13, KeepsTwice
      <4>2. heap'[o] = [was EXCEPT !.pairs = rest]
        <5>1. CASE heap[o] = was
          BY <3>10, <5>1
        <5>2. CASE heap[o] = [was EXCEPT !.pairs = heap[o].pairs]
          <6> DEFINE now == heap[o].pairs
          <6>1. heap[o] = [was EXCEPT !.pairs = now]
            BY <5>2
          <6> HIDE DEF now
          <6>2. heap'[o] = [[was EXCEPT !.pairs = now] EXCEPT !.pairs = rest]
            BY <3>10, <6>1
          <6> QED
            BY <6>2
        <5> QED
          BY <3>11, <3>13, <5>1, <5>2
      <4>3. KeepsOthers(heap', o, was.pairs, rest)
        BY <3>8, <4>1, KeepsSame
      <4> QED
        BY <3>10, <3>13, <4>2, <4>3 DEF was
    <3> QED
      BY <3>12, <3>13
  <2> QED
    BY <2>1, <2>3, <2>4
<1>3. CASE UNCHANGED <<heap, sent>>
  BY <1>3 DEF LosesOnlySealed
<1>4. Step => DeleteSealed \/ UNCHANGED <<heap, sent>>
  BY DEF Step, SerializeEnd, EndWith, WriteConst, WriteNumeric, WriteString, WriteKey,
         EncodingFails, WriteTime, WriteDate, WriteByteArray, WriteArray, WriteObject,
         WriteSealed, WriteClose, EncodeAmf, CallSerialize, CallWriteArray,
         CallWriteObject, CallRaises, WriteLeaf, WriteReference, Array, Object,
         Enter, EnterWith
<1>5. UNCHANGED vars => UNCHANGED <<heap, sent>>
  BY DEF vars
<1> QED
  BY <1>1, <1>2, <1>3, <1>4, <1>5 DEF Next

(* Writing takes nothing from an object of the program but the members     *)
(* that encode_amf has passed traits for (amf3_write_object deletes them). *)
THEOREM LosesOnlySealedAlways == Spec => []LosesOnlySealed
<1>1. Init => LosesOnlySealed
  BY DEF Init, LosesOnlySealed
<1>2. WorkInv /\ LosesOnlySealed /\ [Next]_vars => LosesOnlySealed'
  BY LossStep
<1> QED
  BY <1>1, <1>2, WorkAlways, PTL DEF Spec

=============================================================================
