----------------------------- MODULE Serializer -----------------------------
(***************************************************************************)
(* The AMF3 writer: Serializer (lib/amf/pure/serializer.rb) with its       *)
(* caches (helpers/cache_objects.rb, cache_strings.rb).                    *)
(*                                                                         *)
(* The recursion of amf3_serialize is a stack, todo: its head is what the  *)
(* innermost call does next, the rest is what its callers do after it.  A  *)
(* step is one amf3_write_* call up to its first nested call.  Objects may *)
(* define encode_amf, which calls back into the serializer and may raise:  *)
(* such an object carries the calls it makes.  One serializer may be used  *)
(* for several messages, also after one of them has failed.  Class names   *)
(* and member names are taken to be encodable.                             *)
(***************************************************************************)
EXTENDS Mapper, FiniteSets

CONSTANTS
    Objects,        \* identities of heap objects
    Heaps,          \* the heaps a run starts from
    Roots,          \* the values serialize is called with
    Mappings,       \* the MappingSet of the serializer's mapper
    DefaultName,    \* '__default__'
    Blobs,          \* contents of byte arrays, which nothing compares with strings
    Unencodable,    \* strings that encode('UTF-8') rejects
    NaN,            \* Float::NAN
    MaxMessages     \* bound: calls of serialize by the program

(* What the program may hand over: values, and a heap whose arrays, hashes *)
(* and instances are made of them.  Calls of user code name objects that   *)
(* are what the method expects.                                            *)
Texts == Strings \ Blobs

IsList(s) == s \in Seq({s[i] : i \in DOMAIN s})

IsText(v)  == \E s \in Texts : v = Str(s) \/ v = Sym(s)
IsValue(v) == \/ v \in {Nil, True, False} \/ IsText(v)
              \/ DOMAIN v \in {{"num"}, {"float"}}
              \/ \E o \in Objects : v = Ref(o)

IsPairs(pairs) == /\ IsList(pairs)
                  /\ \A i \in DOMAIN pairs :
                       IsText(pairs[i][1]) /\ IsValue(pairs[i][2])

IsNames(names) == IsList(names) /\ \A i \in DOMAIN names : names[i] \in Texts

IsCall(h, c) ==
    \/ c.name = "raise"
    \/ c.name = "serialize" /\ IsValue(c.arg)
    \/ c.name = "write_array" /\ \E o \in Objects : c.arg = Ref(o) /\ h[o].kind = "array"
    \/ /\ c.name = "write_object"
       /\ \E o \in Objects :
            /\ c.arg = Ref(o)
            /\ c.props = Nil \/ c.traits = Nil => h[o].kind \in {"hash", "typed", "object"}
       /\ c.props = Nil \/ \E o \in Objects : c.props = Ref(o) /\ h[o].kind = "hash"
       /\ c.traits # Nil => /\ c.traits.class_name \in Texts \cup {NoName}
                            /\ IsNames(c.traits.members)

IsObject(h, x) ==
    /\ Is("kind", x)
    /\ x.kind = "array" => IsList(x.elems) /\ \A i \in DOMAIN x.elems : IsValue(x.elems[i])
    /\ x.kind = "bytes" => x.text \in Blobs \cup {EmptyString}
    /\ x.kind \in {"hash", "typed", "object"} =>
         Is("pairs", x) /\ IsPairs(x.pairs) /\ RemoteName(Mappings, x) \in Texts \cup {NoName}
    /\ Is("calls", x) => IsList(x.calls) /\ \A i \in DOMAIN x.calls : IsCall(h, x.calls[i])

IsHeap(h) == DOMAIN h = Objects /\ \A o \in Objects : IsObject(h, h[o])

ASSUME SerializerAssumption == /\ DefaultName \in Strings
                               /\ Blobs \subseteq Strings \ {EmptyString}
                               /\ Unencodable \subseteq Strings
                               /\ MaxMessages \in Nat
                               /\ \A h \in Heaps : IsHeap(h)
                               /\ \A v \in Roots : IsValue(v)

VARIABLES
    heap,           \* the program's objects
    stream,         \* @stream
    depth,          \* @depth
    cacheStrings,   \* @cache_strings
    cacheObjects,   \* @cache_objects
    cacheTraits,    \* @cache_traits
    todo,           \* the pending calls, innermost first
    sent,           \* history: the messages begun
    leaked          \* history: calls of serialize an exception has ended

caches == <<cacheStrings, cacheObjects, cacheTraits>>
vars == <<heap, stream, depth, caches, todo, sent, leaked>>

----------------------------------------------------------------------------
(* CacheStrings and CacheObjects: a key (the string, or the object's       *)
(* identity) to its index, and @cache_index.  Between messages they are    *)
(* nil, which is not told apart from empty.                                *)
EmptyCache == [idx |-> << >>, next |-> 0]

Cached(cache, key) == key \in DOMAIN cache.idx

(* A slip: @cache_index does not advance.                                  *)
AddSameIndex(cache, key) == [idx |-> Store(cache.idx, key, cache.next),
                             next |-> cache.next]

Add(cache, key) == [idx |-> Store(cache.idx, key, cache.next),
                    next |-> cache.next + 1]

(* Calls on the todo stack.                                                *)
Value(v)      == [op |-> "value", value |-> v]      \* amf3_serialize(v)
StringOf(s)   == [op |-> "string", text |-> s]      \* amf3_write_string_internal(s)
Call(c)       == [op |-> "call", call |-> c]        \* a call encode_amf makes
Close         == [op |-> "close"]                   \* the close marker
Leave         == [op |-> "leave"]                   \* serialize after its body
Sealed(p, ms, d) == [op |-> "sealed", props |-> p, members |-> ms, dynamic |-> d]
Delete(p, ms, d) == [op |-> "delete", props |-> p, members |-> ms, dynamic |-> d]

Emit(tokens) == stream' = stream \o tokens

Do(calls) == todo' = calls \o Tail(todo)    \* the head call becomes calls

(* An exception unwinds every pending call up to the program; none of them *)
(* restores @depth or the caches.                                          *)
Abort == /\ todo' = << >>
         /\ leaked' = depth

----------------------------------------------------------------------------
NewCaches == /\ cacheStrings' = EmptyCache
             /\ cacheObjects' = EmptyCache
             /\ cacheTraits' = EmptyCache

EnterWith(anew, v, rest) ==
    /\ IF anew THEN NewCaches ELSE UNCHANGED caches
    /\ depth' = depth + 1
    /\ todo' = <<Value(v), Leave>> \o rest
    /\ UNCHANGED <<heap, stream, leaked>>

(* A slip: every call of serialize makes new caches.                       *)
EnterAfresh(v, rest) == EnterWith(TRUE, v, rest)

(* serialize(obj): caches are made by the outermost call.                  *)
Enter(v, rest) == EnterWith(depth = 0, v, rest)

(* The program serializes a message.                                       *)
Serialize(v) == /\ todo = << >>
                /\ Len(sent) < MaxMessages
                /\ Enter(v, << >>)
                /\ sent' = Append(sent, [root |-> v, heap |-> heap,
                                         from |-> Len(stream)])

Pending(op) == todo # << >> /\ Head(todo).op = op

EndWith(cleanup) == /\ Pending("leave")
                    /\ depth' = depth - 1
                    /\ IF cleanup THEN NewCaches ELSE UNCHANGED caches
                    /\ Do(<< >>)
                    /\ UNCHANGED <<heap, stream, sent, leaked>>

(* A slip: the cleanup is dropped.                                         *)
SerializeEndKeepsCaches == EndWith(FALSE)

(* The end of a call, and of the message if it is the outermost.           *)
SerializeEnd == EndWith(depth = 1)

----------------------------------------------------------------------------
(* amf3_serialize: what it does with the head value.                       *)
ValueIs(tag) == Pending("value") /\ Is(tag, Head(todo).value)

WriteConst ==
    /\ ValueIs("const")
    /\ Emit(<<Word(CASE Head(todo).value = Nil   -> NULL_MARKER
                     [] Head(todo).value = True  -> TRUE_MARKER
                     [] Head(todo).value = False -> FALSE_MARKER)>>)
    /\ Do(<< >>)
    /\ UNCHANGED <<heap, depth, caches, sent, leaked>>

(* An integer of 29 bits is a word, any other number a double.             *)
WriteNumeric ==
    /\ ValueIs("num") \/ ValueIs("float")
    /\ LET v == Head(todo).value
       IN  Emit(IF ~Is("num", v) \/ v.num < MIN_INTEGER \/ v.num > MAX_INTEGER
                THEN <<Word(DOUBLE_MARKER), Double(v)>>
                ELSE <<Word(INTEGER_MARKER), Word(v.num)>>)
    /\ Do(<< >>)
    /\ UNCHANGED <<heap, depth, caches, sent, leaked>>

Header(length) == Word((2 * length) + 1)
Reference(index) == Word(2 * index)

(* amf3_write_string_internal, after the tokens already written: a bare    *)
(* string is never cached, a known one is a reference, a new one inline.   *)
StringWith(bare, known, added, s, tokens) ==
    \/ /\ bare
       /\ Emit(tokens \o <<Word(EMPTY_STRING)>>)
       /\ UNCHANGED cacheStrings
    \/ /\ ~bare /\ known
       /\ Emit(tokens \o <<Reference(cacheStrings.idx[s])>>)
       /\ UNCHANGED cacheStrings
    \/ /\ ~bare /\ ~known
       /\ Emit(tokens \o <<Header(ByteSize[s]), Raw(s)>>)
       /\ cacheStrings' = added

(* Slips: '' is cached like any string; a known string is written again.   *)
WriteStringCachingEmpty(s, tokens) ==
    StringWith(FALSE, Cached(cacheStrings, s), Add(cacheStrings, s), s, tokens)
WriteStringInline(s, tokens) ==
    StringWith(s = EmptyString, FALSE,
               IF Cached(cacheStrings, s) THEN cacheStrings ELSE Add(cacheStrings, s),
               s, tokens)

WriteStringInternal(s, tokens) ==
    StringWith(s = EmptyString, Cached(cacheStrings, s), Add(cacheStrings, s), s, tokens)

(* A String, or a Symbol by its to_s, as a value ...                       *)
WriteString ==
    /\ ValueIs("str") \/ ValueIs("sym")
    /\ LET s == Text(Head(todo).value)
       IN  /\ s \notin Unencodable
           /\ WriteStringInternal(s, <<Word(STRING_MARKER)>>)
    /\ Do(<< >>)
    /\ UNCHANGED <<heap, depth, cacheObjects, cacheTraits, sent, leaked>>

(* ... and a key or a member name, without a marker.                       *)
WriteKey ==
    /\ Pending("string")
    /\ Head(todo).text \notin Unencodable
    /\ WriteStringInternal(Head(todo).text, << >>)
    /\ Do(<< >>)
    /\ UNCHANGED <<heap, depth, cacheObjects, cacheTraits, sent, leaked>>

(* encode raises; of a value, the marker is on the stream already.         *)
EncodingFails ==
    /\ \/ /\ ValueIs("str") \/ ValueIs("sym")
          /\ Text(Head(todo).value) \in Unencodable
          /\ Emit(<<Word(STRING_MARKER)>>)
       \/ /\ Pending("string")
          /\ Head(todo).text \in Unencodable
          /\ UNCHANGED stream
    /\ Abort
    /\ UNCHANGED <<heap, depth, caches, sent>>

----------------------------------------------------------------------------
(* Complex values.  encode_amf takes precedence over the type.             *)
Encodes(o) == Is("calls", heap[o])

ObjectIs(kinds) == /\ ValueIs("ref")
                   /\ ~Encodes(Head(todo).value.ref)
                   /\ heap[Head(todo).value.ref].kind \in kinds

(* The marker and a reference to an object the message has already.        *)
WriteReference(marker, o) ==
    /\ Cached(cacheObjects, o)
    /\ Emit(<<Word(marker), Reference(cacheObjects.idx[o])>>)
    /\ Do(<< >>)
    /\ UNCHANGED <<heap, depth, caches, sent, leaked>>

(* amf3_write_time, amf3_write_date, amf3_write_byte_array: no nested call. *)
WriteLeaf(marker, o, body) ==
    \/ WriteReference(marker, o)
    \/ /\ ~Cached(cacheObjects, o)
       /\ cacheObjects' = Add(cacheObjects, o)
       /\ Emit(<<Word(marker)>> \o body)
       /\ Do(<< >>)
       /\ UNCHANGED <<heap, depth, cacheStrings, cacheTraits, sent, leaked>>

Stamp(o) == <<Word(NULL_MARKER), Double(Num(heap[o].at))>>

WriteTime == ObjectIs({"time"}) /\ LET o == Head(todo).value.ref
                                  IN  WriteLeaf(DATE_MARKER, o, Stamp(o))

WriteDate == ObjectIs({"date"}) /\ LET o == Head(todo).value.ref
                                  IN  WriteLeaf(DATE_MARKER, o, Stamp(o))

WriteByteArray ==
    /\ ObjectIs({"bytes"})
    /\ LET o == Head(todo).value.ref
           s == heap[o].text
           content == IF s = EmptyString THEN << >> ELSE <<Raw(s)>>
       IN  WriteLeaf(BYTE_ARRAY_MARKER, o, <<Header(ByteSize[s])>> \o content)

(* amf3_write_array: the length, an empty associative part, the elements.  *)
Array(o) ==
    \/ WriteReference(ARRAY_MARKER, o)
    \/ /\ ~Cached(cacheObjects, o)
       /\ cacheObjects' = Add(cacheObjects, o)
       /\ LET elems == heap[o].elems
          IN  /\ Emit(<<Word(ARRAY_MARKER), Header(Len(elems)), Word(EMPTY_STRING)>>)
              /\ Do([i \in 1 .. Len(elems) |-> Value(elems[i])])
       /\ UNCHANGED <<heap, depth, cacheStrings, cacheTraits, sent, leaked>>

WriteArray == ObjectIs({"array"}) /\ Array(Head(todo).value.ref)
----------------------------------------------------------------------------
(* The properties of an object: a Hash the caller of write_object passed,  *)
(* which it shares with the program, or one made by the mapper.            *)
Entries(props) == IF Is("ref", props) THEN heap[props.ref].pairs ELSE props.pairs

(* [] and delete of a Hash, which has a key once at most.                  *)
At(pairs, key) == {i \in DOMAIN pairs : pairs[i][1] = key}

Fetch(pairs, key) == IF At(pairs, key) = {} THEN Nil
                     ELSE pairs[CHOOSE i \in At(pairs, key) : TRUE][2]

Without(pairs, key) ==
    IF At(pairs, key) = {} THEN pairs
    ELSE LET i == CHOOSE i \in At(pairs, key) : TRUE
         IN  SubSeq(pairs, 1, i - 1) \o SubSeq(pairs, i + 1, Len(pairs))

(* Dynamic properties: the remaining entries, key and value in turn.       *)
Dynamic(props) ==
    LET pairs == Entries(props)
    IN  [i \in 1 .. 2 * Len(pairs) |->
           IF i % 2 = 1 THEN StringOf(Text(pairs[(i + 1) \div 2][1]))
                        ELSE Value(pairs[i \div 2][2])]
        \o <<Close>>

Properties(props, members, dynamic) ==
    IF members # << >> THEN <<Sealed(props, members, dynamic)>>
    ELSE IF dynamic THEN Dynamic(props) ELSE << >>

Traits(o) == [class_name |-> RemoteName(Mappings, heap[o]),
              members |-> << >>, dynamic |-> TRUE]

(* 0x03, the dynamic bit and the number of members.  No bit of it says     *)
(* externalizable, whatever the traits hold.                               *)
TraitsHeader(traits) ==
    Word(3 + (IF traits.dynamic THEN 8 ELSE 0) + (16 * Len(traits.members)))

(* A slip: the properties of a Hash are the Hash itself.                   *)
PropertiesShared(o, given) == IF given = Nil THEN Ref(o) ELSE given

PropertiesOf(o, given) == IF given = Nil THEN [pairs |-> ObjectSerialize(heap[o])]
                                         ELSE given

(* amf3_write_object(value, properties, traits): a known class name is     *)
(* taken for known traits.  Given traits without a name are never cached.  *)
Object(o, given, givenTraits) ==
    \/ WriteReference(OBJECT_MARKER, o)
    \/ /\ ~Cached(cacheObjects, o)
       /\ cacheObjects' = Add(cacheObjects, o)
       /\ LET traits == IF givenTraits = Nil THEN Traits(o) ELSE givenTraits
              default == givenTraits = Nil /\ traits.class_name = NoName
              name    == IF default THEN DefaultName ELSE traits.class_name
              names   == [i \in DOMAIN traits.members |->
                            StringOf(traits.members[i])]
              body    == Properties(PropertiesOf(o, given), traits.members, traits.dynamic)
          IN  IF name # NoName /\ Cached(cacheTraits, name)
              THEN /\ Emit(<<Word(OBJECT_MARKER),
                             Word((4 * cacheTraits.idx[name]) + 1)>>)
                   /\ Do(body)
                   /\ UNCHANGED <<cacheStrings, cacheTraits>>
              ELSE /\ cacheTraits' = IF name = NoName THEN cacheTraits
                                                      ELSE Add(cacheTraits, name)
                   /\ WriteStringInternal(
                         IF name \in {DefaultName, NoName} THEN EmptyString ELSE name,
                         <<Word(OBJECT_MARKER), TraitsHeader(traits)>>)
                   /\ Do(names \o body)
       /\ UNCHANGED <<heap, depth, sent, leaked>>

WriteObject == /\ ObjectIs({"hash", "typed", "object"})
               /\ Object(Head(todo).value.ref, Nil, Nil)

(* A sealed property: its value, and then it is deleted from properties.   *)
WriteSealed ==
    /\ Pending("sealed")
    /\ LET c == Head(todo)
       IN  Do(<<Value(Fetch(Entries(c.props), Str(Head(c.members)))),
                Delete(c.props, c.members, c.dynamic)>>)
    /\ UNCHANGED <<heap, stream, depth, caches, sent, leaked>>

DeleteSealed ==
    /\ Pending("delete")
    /\ LET c    == Head(todo)
           rest == Without(Entries(c.props), Str(Head(c.members)))
       IN  /\ IF Is("ref", c.props)
              THEN heap' = [heap EXCEPT ![c.props.ref].pairs = rest]
              ELSE UNCHANGED heap
           /\ Do(IF Len(c.members) > 1
                 THEN <<Sealed(IF Is("ref", c.props) THEN c.props
                               ELSE [pairs |-> rest],
                               Tail(c.members), c.dynamic)>>
                 ELSE IF c.dynamic THEN Dynamic([pairs |-> rest]) ELSE << >>)
    /\ UNCHANGED <<stream, depth, caches, sent, leaked>>

WriteClose == /\ Pending("close")
              /\ Emit(<<Word(EMPTY_STRING)>>)
              /\ Do(<< >>)
              /\ UNCHANGED <<heap, depth, caches, sent, leaked>>

----------------------------------------------------------------------------
(* encode_amf: user code, which makes its calls one after the other.       *)
EncodeAmf ==
    /\ ValueIs("ref")
    /\ Encodes(Head(todo).value.ref)
    /\ LET made == heap[Head(todo).value.ref].calls
       IN  Do([i \in DOMAIN made |-> Call(made[i])])
    /\ UNCHANGED <<heap, stream, depth, caches, sent, leaked>>

Calls(name) == Pending("call") /\ Head(todo).call.name = name

CallSerialize == /\ Calls("serialize")
                 /\ Enter(Head(todo).call.arg, Tail(todo))
                 /\ UNCHANGED sent

CallWriteArray == /\ Calls("write_array")
                  /\ Array(Head(todo).call.arg.ref)

(* A slip: write_object serializes the object like any value, so that its  *)
(* encode_amf is called again.                                             *)
CallWriteObjectAgain ==
    /\ Calls("write_object")
    /\ Do(<<Value(Head(todo).call.arg)>>)
    /\ UNCHANGED <<heap, stream, depth, caches, sent, leaked>>

CallWriteObject ==
    /\ Calls("write_object")
    /\ LET c == Head(todo).call IN Object(c.arg.ref, c.props, c.traits)

CallRaises == /\ Calls("raise")
              /\ Abort
              /\ UNCHANGED <<heap, stream, depth, caches, sent>>

----------------------------------------------------------------------------
Init == /\ heap \in Heaps
        /\ stream = << >>
        /\ depth = 0
        /\ cacheStrings = EmptyCache /\ cacheObjects = EmptyCache
        /\ cacheTraits = EmptyCache
        /\ todo = << >>
        /\ sent = << >>
        /\ leaked = 0

Step == \/ SerializeEnd
        \/ WriteConst \/ WriteNumeric \/ WriteString \/ WriteKey \/ EncodingFails
        \/ WriteTime \/ WriteDate \/ WriteByteArray \/ WriteArray \/ WriteObject
        \/ WriteSealed \/ DeleteSealed \/ WriteClose
        \/ EncodeAmf \/ CallSerialize \/ CallWriteArray \/ CallWriteObject
        \/ CallRaises

Next == (\E v \in Roots : Serialize(v)) \/ Step

(* A call of serialize runs; whether the program makes another is its own  *)
(* business.                                                               *)
Spec == Init /\ [][Next]_vars /\ WF_vars(Step)

----------------------------------------------------------------------------
IsCache(cache, Keys) == /\ DOMAIN cache = {"idx", "next"}
                        /\ cache.next \in Nat
                        /\ DOMAIN cache.idx \subseteq Keys
                        /\ cache.idx \in [DOMAIN cache.idx -> Nat]

TypeOK == /\ DOMAIN heap = Objects
          /\ \A i \in DOMAIN stream : \/ Is("word", stream[i])
                                      \/ Is("double", stream[i])
                                      \/ stream[i] \in {Raw(s) : s \in Strings}
          /\ depth \in Nat
          /\ IsCache(cacheStrings, Strings \ {EmptyString})
          /\ IsCache(cacheObjects, Objects)
          /\ IsCache(cacheTraits, Strings)
          /\ \A i \in DOMAIN todo : todo[i].op \in {"value", "string", "call",
                                     "close", "leave", "sealed", "delete"}
          /\ Len(sent) <= MaxMessages
          /\ leaked \in Nat

(* The indices handed out by a cache are those a reader counts: the first  *)
(* entry is 0, none is skipped, and no two entries share one.              *)
Dense(cache) ==
    /\ \A k \in DOMAIN cache.idx : cache.idx[k] \in 0 .. (cache.next - 1)
    /\ \A i \in 0 .. (cache.next - 1) : \E k \in DOMAIN cache.idx : cache.idx[k] = i
    /\ \A j, k \in DOMAIN cache.idx : cache.idx[j] = cache.idx[k] => j = k

CachesDense == Dense(cacheStrings) /\ Dense(cacheObjects) /\ Dense(cacheTraits)

(* Within a message, also across encode_amf and the nested serialize calls *)
(* it makes, nothing is given a second index: every string, object and     *)
(* trait set is written in full once, however the graph shares it.         *)
Keeps(cache, later) ==
    \A k \in DOMAIN cache.idx : /\ k \in DOMAIN later.idx
                                /\ later.idx[k] = cache.idx[k]

IndicesNeverChange ==
    [][depth # 0 /\ depth' # 0 => /\ Keeps(cacheStrings, cacheStrings')
                                  /\ Keeps(cacheObjects, cacheObjects')
                                  /\ Keeps(cacheTraits, cacheTraits')]_vars

(* @depth counts the calls of serialize that are running, and those that   *)
(* an exception ended, for good; and unless there is one of these, a       *)
(* message starts with empty caches: the serializer that raised keeps the  *)
(* entries of the broken message.                                          *)
StaleOnlyAfterFailure ==
    /\ depth = leaked + Cardinality({i \in DOMAIN todo : todo[i].op = "leave"})
    /\ todo = << >> /\ (\E c \in {cacheStrings, cacheObjects, cacheTraits} :
                            c # EmptyCache) => leaked > 0

(* The string table a reader builds from the current message is the cache  *)
(* of the writer: each inline string of the message is cached, with the    *)
(* number of those before it as its index, and there are as many as there  *)
(* are entries ("AMF3 not sending duplicate data", lib/amf.rb:55).         *)
IsInline(t) == Is("raw", t) /\ t.raw \notin Blobs

Inlined == {i \in sent[Len(sent)].from + 1 .. Len(stream) : IsInline(stream[i])}

StringTableIsStream ==
    depth > 0 /\ leaked = 0 =>
        /\ Cardinality(Inlined) = cacheStrings.next
        /\ \A i \in Inlined :
             LET s == stream[i].raw
             IN  /\ Cached(cacheStrings, s)
                 /\ cacheStrings.idx[s] = Cardinality({j \in Inlined : j < i})

(* A message leaves the objects of the program as they were, but for a     *)
(* Hash that user code passes to write_object together with traits: it     *)
(* loses entries of their members, and nothing else, and keeps its order.  *)
Seals(h, o, key) ==
    \E e \in Objects :
      /\ Is("calls", h[e])
      /\ \E i \in DOMAIN h[e].calls :
           LET c == h[e].calls[i]
           IN  /\ c.name = "write_object" /\ c.props = Ref(o) /\ c.traits # Nil
               /\ \E j \in DOMAIN c.traits.members : key = Str(c.traits.members[j])

KeepsOthers(h, o, was, now) ==
    \E at \in [DOMAIN now -> DOMAIN was] :
      /\ \A i \in DOMAIN now : now[i] = was[at[i]]
      /\ \A i, j \in DOMAIN now : i < j => at[i] < at[j]
      /\ \A k \in DOMAIN was : \/ \E i \in DOMAIN now : at[i] = k
                               \/ Seals(h, o, was[k][1])

LosesOnlySealed ==
    sent # << >> => \A o \in Objects :
        LET was == sent[Len(sent)].heap[o]
        IN  heap[o] # was =>
              /\ heap[o] = [was EXCEPT !.pairs = heap[o].pairs]
              /\ KeepsOthers(heap, o, was.pairs, heap[o].pairs)

(* Every call of serialize returns or raises, whatever cycles the graph    *)
(* has: each is cut by the reference to its first occurrence.  (An object  *)
(* whose encode_amf serializes it again does not end in Ruby either, and   *)
(* is in no heap of the run.)                                              *)
Terminates == todo # << >> ~> todo = << >>
============================================================================
