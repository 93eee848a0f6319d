--------------------------- MODULE FastSerializer ---------------------------
(***************************************************************************)
(* The AMF0 and AMF3 writer of the C extension: Serializer                 *)
(* (ext/rocketamf_ext/serializer.c).                                       *)
(*                                                                         *)
(* As in Serializer, the recursion is a stack of pending calls, todo.  The *)
(* version that was passed last is kept in the struct and decides what     *)
(* write_array and write_object do, while a call that is running goes on   *)
(* in its own version.  The program may call them itself, between calls of *)
(* serialize.  A table that is NULL and is looked into is the end of the   *)
(* process.  Class names are encodable.                                    *)
(***************************************************************************)
EXTENDS AMF0, MappingSet, FiniteSets

CONSTANTS
    Objects,            \* identities of heap objects
    Heaps,              \* the heaps a run starts from
    Calls,              \* the versions and values serialize is called with
    OutsideCalls,       \* the calls of write_array and write_object outside it
    AsClassNames,       \* the mapper: Ruby class name to AS class name
    UseArrayCollection, \* use_array_collection of the mapper
    DefaultName,        \* '__default__'
    Unencodable,        \* strings that rb_str_encode rejects
    MaxMessages,        \* bound: calls by the program
    MaxEndless          \* bound: how far a call that never ends is followed

(* What the program may hand over, as for Serializer; a key or a member    *)
(* name may be any value.                                                  *)
IsList(s) == s \in Seq({s[i] : i \in DOMAIN s})

IsText(v) == \E s \in Strings : v = Str(s) \/ v = Sym(s)
IsRuby(v) == \/ v \in {Nil, True, False} \/ IsText(v)
             \/ DOMAIN v \in {{"num"}, {"float"}}
             \/ \E o \in Objects : v = Ref(o)

IsValues(values) == IsList(values) /\ \A i \in DOMAIN values : IsRuby(values[i])
IsPairs(pairs) == /\ IsList(pairs)
                  /\ \A i \in DOMAIN pairs : IsRuby(pairs[i][1]) /\ IsRuby(pairs[i][2])

IsCall(h, c) ==
    \/ c.name = "raise"
    \/ c.name = "serialize" /\ c.ver \in {0, 3} /\ IsRuby(c.arg)
    \/ c.name = "write_array" /\ \E o \in Objects : c.arg = Ref(o) /\ h[o].kind = "array"
    \/ /\ c.name = "write_object"
       /\ \E o \in Objects : c.arg = Ref(o) /\ h[o].kind \in {"hash", "typed", "object"}
       /\ \/ c.props = Nil
          \/ \E o \in Objects : c.props = Ref(o) /\ h[o].kind = "hash"
          \/ DOMAIN c.props = {"pairs"} /\ IsPairs(c.props.pairs)
       /\ c.traits # Nil => /\ c.traits.class_name \in Strings \cup {NoName}
                            /\ IsValues(c.traits.members)

IsCalls(h, calls) == IsList(calls) /\ \A i \in DOMAIN calls : IsCall(h, calls[i])

IsStored(h, x) ==
    /\ x.kind = "array" => IsValues(x.elems)
    /\ x.kind = "bytes" => x.text \in Strings
    /\ x.kind \in {"hash", "typed", "object"} => IsPairs(x.pairs)
    /\ x.kind \in {"typed", "object"} => Lookup(AsClassNames, x.class) \in Strings \cup {NoName}
    /\ Is("calls", x) => IsCalls(h, x.calls)
    /\ Is("external", x) => IsCalls(h, x.external)

IsHeap(h) == \A o \in Objects : IsStored(h, h[o])

ASSUME FastSerializerAssumption ==
    /\ DefaultName \in Strings /\ Unencodable \subseteq Strings
    /\ NoName \notin Strings
    /\ UseArrayCollection \in BOOLEAN
    /\ MaxMessages \in Nat /\ MaxEndless \in Nat
    /\ \A h \in Heaps : IsHeap(h)
    /\ \A c \in Calls : c[1] \in {0, 3} /\ IsRuby(c[2])
    /\ \A c \in OutsideCalls : c.name \in {"write_array", "write_object"}

VARIABLES
    heap,           \* the program's objects
    stream, version, depth,
    strCache, traitCache, objCache,     \* with their counters
    todo,           \* the pending calls, innermost first
    failure,        \* how the last message ended: "none", "raised", "crashed"
    sent,           \* history: the calls the program has made
    leaked,         \* history: calls of serialize an exception has ended
    versions        \* history: those used since the tables were made

caches == <<strCache, traitCache, objCache>>
vars == <<heap, stream, version, depth, caches, todo, failure, sent, leaked, versions>>
history == <<sent, leaked, versions>>

----------------------------------------------------------------------------
(* A table with its counter; made = FALSE is a NULL pointer.               *)
NoTable  == [made |-> FALSE, idx |-> << >>, next |-> 0]
NewTable == [NoTable EXCEPT !.made = TRUE]

Known(table, key) == key \in DOMAIN table.idx

(* A slip: the counter is moved first.                                     *)
InsertCountingFirst(table, key, taken) ==
    [table EXCEPT !.idx = Store(@, key, table.next + taken), !.next = @ + taken]

Insert(table, key, taken) == [table EXCEPT !.idx = Store(@, key, table.next),
                                           !.next = @ + taken]

Value(ver, v) == [op |-> "value", ver |-> ver, value |-> v]     \* serN_serialize
Key(ver, k)   == [op |-> "key", ver |-> ver, key |-> k]
Close(ver)    == [op |-> "close", ver |-> ver]
Call(c)       == [op |-> "call", call |-> c]    \* a call user code makes
Leave         == [op |-> "leave"]               \* ser_serialize after its body

Emit(tokens) == stream' = stream \o tokens
Do(calls)    == todo' = calls \o Tail(todo)

(* An exception: nothing restores depth, frees a table or the version.     *)
Raise == /\ todo' = << >>
         /\ failure' = "raised"
         /\ leaked' = depth
         /\ UNCHANGED <<heap, version, depth, caches, sent, versions>>

(* What an ordinary step of a message leaves alone.                        *)
Steady == UNCHANGED <<heap, version, depth, failure, history>>
Same   == UNCHANGED caches /\ Steady

Pending(op) == todo # << >> /\ Head(todo).op = op

----------------------------------------------------------------------------
(* ser_serialize: the outermost call makes the tables of its version.      *)
EnterWith(ver, v, rest, traits) ==
    /\ version' = ver
    /\ IF depth = 0
       THEN /\ objCache' = NewTable
            /\ strCache' = IF ver = 3 THEN NewTable ELSE strCache
            /\ traitCache' = traits
            /\ versions' = {ver}
       ELSE UNCHANGED caches /\ versions' = versions \cup {ver}
    /\ depth' = depth + 1
    /\ todo' = <<Value(ver, v), Leave>> \o rest
    /\ UNCHANGED <<heap, stream, leaked>>

(* A slip: the table of traits is not made.                                *)
EnterWithoutTraits(ver, v, rest) == EnterWith(ver, v, rest, traitCache)

Enter(ver, v, rest) ==
    EnterWith(ver, v, rest, IF ver = 3 THEN NewTable ELSE traitCache)

Serialize(ver, v) == /\ todo = << >> /\ failure # "crashed"
                     /\ Len(sent) < MaxMessages
                     /\ Enter(ver, v, << >>)
                     /\ failure' = "none"
                     /\ sent' = Append(sent, [ver |-> ver, root |-> v,
                                              heap |-> heap, from |-> Len(stream)])

(* Traits are an argument too many in version 0.                           *)
WrongArgs(c) == c.name = "write_object" /\ version = 0 /\ c.traits # Nil

(* write_array or write_object outside serialize: into the tables a failed *)
(* message has left, or there are none.                                    *)
WriteOutside(c) ==
    /\ todo = << >> /\ failure # "crashed"
    /\ Len(sent) < MaxMessages
    /\ IsCall(heap, c)
    /\ sent' = Append(sent, [ver |-> version, root |-> c.arg,
                             heap |-> heap, from |-> Len(stream)])
    /\ \/ WrongArgs(c) /\ failure' = "raised" /\ todo' = << >>
       \/ ~WrongArgs(c) /\ ~objCache.made /\ failure' = "crashed" /\ todo' = << >>
       \/ ~WrongArgs(c) /\ objCache.made /\ failure' = "none" /\ todo' = <<Call(c)>>
    /\ UNCHANGED <<heap, stream, version, depth, caches, leaked, versions>>

EndFreeing(free) ==
    /\ Pending("leave")
    /\ depth' = depth - 1
    /\ IF free THEN strCache' = NoTable /\ traitCache' = NoTable /\ objCache' = NoTable
               ELSE UNCHANGED caches
    /\ Do(<< >>)
    /\ UNCHANGED <<heap, stream, version, failure, history>>

(* Slips: the tables are freed at the end of every call; of none.          *)
SerializeEndFreesAll  == EndFreeing(TRUE)
SerializeEndFreesNone == EndFreeing(FALSE)

SerializeEnd == EndFreeing(depth = 1)

----------------------------------------------------------------------------
(* The mapper: a Hash is written as it is and has no class name.           *)
AsClassName(o) == IF heap[o].kind = "hash" THEN NoName
                  ELSE Lookup(AsClassNames, heap[o].class)

(* ser_get_string: strings, which are encoded, symbols, up to a NUL, and   *)
(* nil.                                                                    *)
Writable(k) == \/ Is("str", k) /\ k.str \notin Unencodable
               \/ Is("sym", k) \/ k = Nil
TextOf(k) == IF k = Nil THEN EmptyString
             ELSE IF Is("sym", k) THEN CString[k.sym] ELSE k.str

(* The value at the head, of one version and kind.                         *)
IsValue(ver, tag) == /\ Pending("value") /\ Head(todo).ver = ver
                     /\ Is(tag, Head(todo).value)
V == Head(todo).value

(* encode_amf comes before every kind, but in AMF0 after a reference.      *)
Encodes(ver, o) == Is("calls", heap[o]) /\ (ver = 0 => ~Known(objCache, o))

IsObject(ver, kinds) == /\ IsValue(ver, "ref") /\ ~Encodes(ver, V.ref)
                        /\ heap[V.ref].kind \in kinds

----------------------------------------------------------------------------
(* AMF0.  Lengths have 16 bits, long strings 32.                           *)
Sized(s) == <<IF ByteSize[s] > MaxUint16 THEN U32(ByteSize[s]) ELSE U16(ByteSize[s])>>
            \o Content(s)

Write0Const ==
    /\ IsValue(0, "const")
    /\ Emit(IF V = Nil THEN <<Word(AMF0_NULL_MARKER)>>
            ELSE <<Word(AMF0_BOOLEAN_MARKER), Word(IF V = True THEN 1 ELSE 0)>>)
    /\ Do(<< >>) /\ Same

Write0Number == /\ IsValue(0, "num") \/ IsValue(0, "float")
                /\ Emit(<<Word(AMF0_NUMBER_MARKER), Double(V)>>)
                /\ Do(<< >>) /\ Same

Write0String ==
    /\ IsValue(0, "str") \/ IsValue(0, "sym")
    /\ Writable(V)
    /\ Emit(<<Word(IF ByteSize[TextOf(V)] > MaxUint16 THEN AMF0_LONG_STRING_MARKER
                                                    ELSE AMF0_STRING_MARKER)>>
            \o Sized(TextOf(V)))
    /\ Do(<< >>) /\ Same

Write0Key == /\ Pending("key") /\ Head(todo).ver = 0 /\ Writable(Head(todo).key)
             /\ Emit(Sized(TextOf(Head(todo).key)))
             /\ Do(<< >>) /\ Same

(* An object the message has already, of any type; the index has 16 bits.  *)
Write0Reference ==
    /\ IsValue(0, "ref") /\ Known(objCache, V.ref)
    /\ objCache.idx[V.ref] <= MaxUint16
    /\ Emit(<<Word(AMF0_REFERENCE_MARKER), U16(objCache.idx[V.ref])>>)
    /\ Do(<< >>) /\ Same

Reference0Fails == /\ IsValue(0, "ref") /\ Known(objCache, V.ref)
                   /\ objCache.idx[V.ref] > MaxUint16
                   /\ Emit(<<Word(AMF0_REFERENCE_MARKER)>>)
                   /\ Raise

IsNew0(kinds) == IsObject(0, kinds) /\ ~Known(objCache, V.ref)

(* Neither a time nor a date gets an index.                                *)
Write0Date == /\ IsNew0({"time", "date"})
              /\ Emit(<<Word(AMF0_DATE_MARKER), Double(Num(heap[V.ref].at)), U16(0)>>)
              /\ Do(<< >>) /\ Same

(* st_add_direct does not look for the key: of two entries made by calls   *)
(* of write_array or write_object, either may be found later.              *)
AddDirect(o) ==
    /\ \/ objCache' = Insert(objCache, o, 1)
       \/ Known(objCache, o) /\ objCache' = [objCache EXCEPT !.next = @ + 1]
    /\ UNCHANGED <<strCache, traitCache>>

Array0(o) ==
    /\ AddDirect(o)
    /\ Emit(<<Word(AMF0_STRICT_ARRAY_MARKER), U32(Len(heap[o].elems))>>)
    /\ Do([i \in DOMAIN heap[o].elems |-> Value(0, heap[o].elems[i])])
    /\ Steady

Write0Array == IsNew0({"array"}) /\ Array0(V.ref)

(* Entries, key and value in turn.                                         *)
Entries(ver, pairs) ==
    [i \in 1 .. 2 * Len(pairs) |->
       IF i % 2 = 1 THEN Key(ver, pairs[(i + 1) \div 2][1])
                    ELSE Value(ver, pairs[i \div 2][2])]
    \o <<Close(ver)>>

Props(o, given) == IF given = Nil THEN heap[o].pairs
                   ELSE IF Is("ref", given) THEN heap[given.ref].pairs
                   ELSE given.pairs

Object0(o, given) ==
    /\ AddDirect(o)
    /\ Emit(IF AsClassName(o) = NoName THEN <<Word(AMF0_OBJECT_MARKER)>>
            ELSE <<Word(AMF0_TYPED_OBJECT_MARKER)>> \o Sized(AsClassName(o)))
    /\ Do(Entries(0, Props(o, given)))
    /\ Steady

Write0Object == IsNew0({"hash", "typed", "object"}) /\ Object0(V.ref, Nil)

(* What is of no type AMF0 has is left out, a StringIO too.                *)
Write0Nothing == /\ IsNew0({"bytes", "opaque"})
                 /\ UNCHANGED stream
                 /\ Do(<< >>) /\ Same

----------------------------------------------------------------------------
(* AMF3.                                                                   *)
Header(length) == Word((2 * length) + 1)
Reference(table, key) == Word(2 * table.idx[key])

(* ser3_write_utf8vr, between other tokens: the table has C strings.       *)
WriteUtf8(s, prefix, suffix) ==
    IF s = EmptyString
    THEN /\ Emit(prefix \o <<Word(EMPTY_STRING)>> \o suffix)
         /\ UNCHANGED strCache
    ELSE IF Known(strCache, CString[s])
    THEN /\ Emit(prefix \o <<Reference(strCache, CString[s])>> \o suffix)
         /\ UNCHANGED strCache
    ELSE /\ Emit(prefix \o <<Header(ByteSize[s]), Raw(s)>> \o suffix)
         /\ strCache' = Insert(strCache, CString[s], 1)

(* A table that was never made is looked into.                             *)
NeedsStrings(s) == s # EmptyString /\ ~strCache.made

Write3Const ==
    /\ IsValue(3, "const")
    /\ Emit(<<Word(IF V = Nil THEN NULL_MARKER
                   ELSE IF V = True THEN TRUE_MARKER ELSE FALSE_MARKER)>>)
    /\ Do(<< >>) /\ Same

Write3Numeric ==
    /\ IsValue(3, "num") \/ IsValue(3, "float")
    /\ Emit(IF ~Is("num", V) \/ V.num < MIN_INTEGER \/ V.num > MAX_INTEGER
            THEN <<Word(DOUBLE_MARKER), Double(V)>>
            ELSE <<Word(INTEGER_MARKER), Word(V.num)>>)
    /\ Do(<< >>) /\ Same

Write3String ==
    /\ IsValue(3, "str") \/ IsValue(3, "sym")
    /\ Writable(V) /\ ~NeedsStrings(TextOf(V))
    /\ WriteUtf8(TextOf(V), <<Word(STRING_MARKER)>>, << >>)
    /\ Do(<< >>)
    /\ UNCHANGED <<objCache, traitCache>> /\ Steady

Write3Key ==
    /\ Pending("key") /\ Head(todo).ver = 3
    /\ Writable(Head(todo).key) /\ ~NeedsStrings(TextOf(Head(todo).key))
    /\ WriteUtf8(TextOf(Head(todo).key), << >>, << >>)
    /\ Do(<< >>)
    /\ UNCHANGED <<objCache, traitCache>> /\ Steady

(* A key that is no text, or a text that cannot be encoded.                *)
TextFails ==
    /\ \/ /\ IsValue(0, "str") \/ IsValue(0, "sym")
          /\ ~Writable(V) /\ UNCHANGED stream
       \/ /\ IsValue(3, "str") \/ IsValue(3, "sym")
          /\ ~Writable(V) /\ Emit(<<Word(STRING_MARKER)>>)
       \/ Pending("key") /\ ~Writable(Head(todo).key) /\ UNCHANGED stream
    /\ Raise

WriteReference(marker, o) ==
    /\ Known(objCache, o)
    /\ Emit(<<Word(marker), Reference(objCache, o)>>)
    /\ Do(<< >>) /\ Same

WriteLeaf(marker, o, body) ==
    \/ WriteReference(marker, o)
    \/ /\ ~Known(objCache, o)
       /\ objCache' = Insert(objCache, o, 1)
       /\ Emit(<<Word(marker)>> \o body)
       /\ Do(<< >>)
       /\ UNCHANGED <<strCache, traitCache>> /\ Steady

Write3Date == /\ IsObject(3, {"time", "date"})
              /\ WriteLeaf(DATE_MARKER, V.ref,
                           <<Word(NULL_MARKER), Double(Num(heap[V.ref].at))>>)

Write3ByteArray ==
    /\ IsObject(3, {"bytes"})
    /\ WriteLeaf(BYTE_ARRAY_MARKER, V.ref,
                 <<Header(ByteSize[heap[V.ref].text])>> \o Content(heap[V.ref].text))

(* An array says whether it is an ArrayCollection (to C nil is true), or   *)
(* the mapper does.                                                        *)
IsCollection(o) == IF heap[o].collection = "unset" THEN UseArrayCollection
                   ELSE heap[o].collection \in {"true", "nil"}

Array3Header(o) == <<Header(Len(heap[o].elems)), Word(EMPTY_STRING)>>
Elements3(o) == [i \in DOMAIN heap[o].elems |-> Value(3, heap[o].elems[i])]

PlainArray3(o) ==
    /\ ~IsCollection(o) /\ ~Known(objCache, o)
    /\ objCache' = Insert(objCache, o, 1)
    /\ Emit(<<Word(ARRAY_MARKER)>> \o Array3Header(o))
    /\ Do(Elements3(o))
    /\ UNCHANGED <<strCache, traitCache>> /\ Steady

(* An object with the array inside, which take indices in a row.           *)
CollectionTaking(slots, o) ==
    /\ IsCollection(o) /\ ~Known(objCache, o) /\ traitCache.made
    /\ objCache' = Insert(objCache, o, slots)
    /\ LET body == <<Word(ARRAY_MARKER)>> \o Array3Header(o)
       IN  IF Known(traitCache, CollectionName)
           THEN /\ Emit(<<Word(OBJECT_MARKER),
                          Word((4 * traitCache.idx[CollectionName]) + 1)>> \o body)
                /\ UNCHANGED <<strCache, traitCache>>
           ELSE /\ traitCache' = Insert(traitCache, CollectionName, 1)
                /\ WriteUtf8(CollectionName, <<Word(OBJECT_MARKER), Word(7)>>, body)
    /\ Do(Elements3(o))
    /\ Steady

(* A slip: the array inside takes no index.                                *)
Collection3OneIndex(o) == CollectionTaking(1, o)

Collection3(o) == CollectionTaking(2, o)

Array3(o) == \/ WriteReference(IF IsCollection(o) THEN OBJECT_MARKER
                                                  ELSE ARRAY_MARKER, o)
             \/ PlainArray3(o)
             \/ Collection3(o)

Write3Array == IsObject(3, {"array"}) /\ Array3(V.ref)

Fetch(pairs, key) ==
    LET at == {i \in DOMAIN pairs : pairs[i][1] = key}
    IN  IF at = {} THEN Nil ELSE pairs[CHOOSE i \in at : TRUE][2]

Traits(o) == [class_name |-> AsClassName(o), members |-> << >>,
              dynamic |-> TRUE, externalizable |-> FALSE]

TraitsHeader(traits) ==
    Word(3 + (IF traits.dynamic THEN 8 ELSE 0)
           + (IF traits.externalizable THEN 4 ELSE 0) + (16 * Len(traits.members)))

(* The properties but for the skipped members.                             *)
Dynamic(props, members) ==
    LET others[n \in 0 .. Len(props)] ==
          IF n = 0 THEN << >>
          ELSE IF \E i \in DOMAIN members : props[n][1] = members[i] THEN others[n - 1]
          ELSE Append(others[n - 1], props[n])
    IN  others[Len(props)]

(* After the traits: write_external, which is user code the object may     *)
(* lack, or the sealed members and the dynamic properties without them.    *)
Body3(o, props, traits) ==
    IF traits.externalizable
    THEN IF Is("external", heap[o])
         THEN [i \in DOMAIN heap[o].external |-> Call(heap[o].external[i])]
         ELSE <<Call([name |-> "raise"])>>
    ELSE [i \in DOMAIN traits.members |-> Value(3, Fetch(props, traits.members[i]))]
         \o (IF traits.dynamic THEN Entries(3, Dynamic(props, traits.members)) ELSE << >>)

(* Default traits, and traits with a class name, are cached by that name.  *)
TraitKey(given, traits) ==
    IF given = Nil /\ traits.class_name = NoName THEN DefaultName
    ELSE IF traits.class_name = NoName THEN NoName
    ELSE CString[traits.class_name]

Object3(o, given, givenTraits) ==
    \/ WriteReference(OBJECT_MARKER, o)
    \/ LET traits == IF givenTraits = Nil THEN Traits(o) ELSE givenTraits
           key    == TraitKey(givenTraits, traits)
           name   == IF traits.class_name = NoName THEN EmptyString
                                                   ELSE traits.class_name
           body   == Body3(o, Props(o, given), traits)
       IN  /\ ~Known(objCache, o)
           /\ key # NoName => traitCache.made
           /\ objCache' = Insert(objCache, o, 1)
           /\ IF key # NoName /\ Known(traitCache, key)
              THEN /\ Emit(<<Word(OBJECT_MARKER), Word((4 * traitCache.idx[key]) + 1)>>)
                   /\ Do(body)
                   /\ UNCHANGED <<strCache, traitCache>>
              ELSE /\ traitCache' = IF key = NoName THEN traitCache
                                    ELSE Insert(traitCache, key, 1)
                   /\ WriteUtf8(name, <<Word(OBJECT_MARKER), TraitsHeader(traits)>>, << >>)
                   /\ Do([i \in DOMAIN traits.members |-> Key(3, traits.members[i])]
                         \o body)
           /\ Steady

Write3Object == /\ IsObject(3, {"hash", "typed", "object"})
                /\ Object3(V.ref, Nil, Nil)

Write3Nothing == /\ IsObject(3, {"opaque"})
                 /\ UNCHANGED stream
                 /\ Do(<< >>) /\ Same

WriteClose ==
    /\ Pending("close")
    /\ Emit(IF Head(todo).ver = 0 THEN <<U16(0), Word(AMF0_OBJECT_END_MARKER)>>
                                  ELSE <<Word(EMPTY_STRING)>>)
    /\ Do(<< >>) /\ Same

----------------------------------------------------------------------------
(* encode_amf and write_external: user code.                               *)
Encoders == {o \in Objects : Is("calls", heap[o])}

(* encode_amf of one object leads to that of another without an object the *)
(* tables do not have yet: through serialize, or in AMF0 through an array  *)
(* or object it writes, which is not looked up.                            *)
Leads(f, g) ==
    \E i \in DOMAIN heap[f].calls :
      LET c == heap[f].calls[i]
      IN  \/ c.name = "serialize" /\ c.arg = Ref(g)
          \/ /\ 0 \in versions /\ c.name = "write_array" /\ c.arg # Ref(g)
             /\ \E j \in DOMAIN heap[c.arg.ref].elems : heap[c.arg.ref].elems[j] = Ref(g)
          \/ /\ 0 \in versions /\ c.name = "write_object" /\ c.arg # Ref(g) /\ c.traits = Nil
             /\ LET props == Props(c.arg.ref, c.props)
                IN  \E j \in DOMAIN props : props[j][2] = Ref(g)

(* User code that leads back to itself.                                    *)
Endless == \E loop \in SUBSET Encoders \ {{}} :
             \A f \in loop : \E g \in loop : Leads(f, g)

EncodeAmf ==
    /\ Endless => Len(stream) + Len(todo) < MaxEndless
    /\ Pending("value") /\ Is("ref", V) /\ Encodes(Head(todo).ver, V.ref)
    /\ UNCHANGED stream
    /\ Do([i \in DOMAIN heap[V.ref].calls |-> Call(heap[V.ref].calls[i])])
    /\ Same

Calling(name) == Pending("call") /\ Head(todo).call.name = name
C == Head(todo).call

CallSerialize == /\ Calling("serialize")
                 /\ Enter(C.ver, C.arg, Tail(todo))
                 /\ UNCHANGED <<failure, sent>>

CallWriteArray == /\ Calling("write_array")
                  /\ IF version = 0 THEN Array0(C.arg.ref) ELSE Array3(C.arg.ref)

(* A slip: write_object serializes the object like any value.              *)
CallWriteObjectAgain == /\ Calling("write_object") /\ ~WrongArgs(C)
                        /\ UNCHANGED stream
                        /\ Do(<<Value(version, C.arg)>>) /\ Same

CallWriteObject == /\ Calling("write_object") /\ ~WrongArgs(C)
                   /\ IF version = 0 THEN Object0(C.arg.ref, C.props)
                      ELSE Object3(C.arg.ref, C.props, C.traits)

CallRaises == /\ Calling("raise") \/ (Pending("call") /\ WrongArgs(C))
              /\ UNCHANGED stream /\ Raise

(* A text, an ArrayCollection or an object with traits to look up, and no  *)
(* table: the string and trait tables are made for version 3 only.         *)
Crash ==
    /\ \/ /\ IsValue(3, "str") \/ IsValue(3, "sym")
          /\ Writable(V) /\ NeedsStrings(TextOf(V))
       \/ /\ Pending("key") /\ Head(todo).ver = 3
          /\ Writable(Head(todo).key) /\ NeedsStrings(TextOf(Head(todo).key))
       \/ /\ IsObject(3, {"array"}) /\ ~Known(objCache, V.ref)
          /\ IsCollection(V.ref) /\ ~traitCache.made
       \/ /\ IsObject(3, {"hash", "typed", "object"}) /\ ~Known(objCache, V.ref)
          /\ ~traitCache.made
       \/ /\ Calling("write_array") /\ version = 3 /\ ~Known(objCache, C.arg.ref)
          /\ IsCollection(C.arg.ref) /\ ~traitCache.made
       \/ /\ Calling("write_object") /\ version = 3 /\ ~Known(objCache, C.arg.ref)
          /\ (C.traits # Nil => C.traits.class_name # NoName)
          /\ ~traitCache.made
    /\ failure' = "crashed"
    /\ todo' = << >>
    /\ UNCHANGED <<heap, stream, version, depth, caches, history>>

----------------------------------------------------------------------------
Init == /\ heap \in Heaps
        /\ stream = << >> /\ version = 0 /\ depth = 0
        /\ strCache = NoTable /\ traitCache = NoTable /\ objCache = NoTable
        /\ todo = << >> /\ failure = "none"
        /\ sent = << >> /\ leaked = 0 /\ versions = {}

Step == \/ SerializeEnd \/ TextFails \/ Crash \/ WriteClose
        \/ Write0Const \/ Write0Number \/ Write0String \/ Write0Key
        \/ Write0Reference \/ Reference0Fails
        \/ Write0Date \/ Write0Array \/ Write0Object \/ Write0Nothing
        \/ Write3Const \/ Write3Numeric \/ Write3String \/ Write3Key
        \/ Write3Date \/ Write3ByteArray \/ Write3Array \/ Write3Object \/ Write3Nothing
        \/ EncodeAmf \/ CallSerialize \/ CallWriteArray \/ CallWriteObject \/ CallRaises

Next == \/ \E c \in Calls : Serialize(c[1], c[2])
        \/ \E c \in OutsideCalls : WriteOutside(c)
        \/ Step

(* A call of serialize runs to its end.                                    *)
Spec == Init /\ [][Next]_vars /\ WF_vars(Step)

----------------------------------------------------------------------------
IsTable(table, Keys) == /\ table.made \in BOOLEAN /\ table.next \in Nat
                        /\ DOMAIN table.idx \subseteq Keys
                        /\ \A k \in DOMAIN table.idx : table.idx[k] < table.next
                        /\ ~table.made => table = NoTable

TypeOK == /\ heap \in Heaps
          /\ \A i \in DOMAIN stream :
               \/ Is("word", stream[i]) \/ Is("double", stream[i])
               \/ Is("u16", stream[i]) /\ stream[i].u16 \in 0 .. MaxUint16
               \/ Is("u32", stream[i])
               \/ Is("raw", stream[i]) /\ stream[i].raw \in Strings \ {EmptyString}
          /\ version \in {0, 3} /\ depth \in Nat /\ leaked \in 0 .. depth
          /\ IsTable(strCache, {CString[s] : s \in Strings})
          /\ IsTable(traitCache, Strings)
          /\ IsTable(objCache, Objects)
          /\ \A i \in DOMAIN todo : todo[i].op \in {"value", "key", "close", "call", "leave"}
          /\ failure \in {"none", "raised", "crashed"}
          /\ versions \subseteq {0, 3}

(* Every object of a message has indices of its own, two of them if it is  *)
(* an ArrayCollection: a reader counts the array inside it as well.        *)
Slots(o) == objCache.idx[o] ..
            objCache.idx[o] + (IF /\ versions = {3} /\ heap[o].kind = "array"
                                  /\ IsCollection(o) THEN 1 ELSE 0)

OwnIndices == /\ \A o \in DOMAIN objCache.idx : Slots(o) \subseteq 0 .. (objCache.next - 1)
              /\ \A o, r \in DOMAIN objCache.idx : o # r => Slots(o) \cap Slots(r) = {}

(* In an AMF3 message, across encode_amf and the serialize calls it makes, *)
(* nothing that has been written in full gets another index or loses it.   *)
Keeps(table, later) == \A k \in DOMAIN table.idx : /\ Known(later, k)
                                                   /\ later.idx[k] = table.idx[k]

IndicesNeverChange ==
    [][todo # << >> /\ todo' # << >> /\ versions' = {3}
          => /\ Keeps(strCache, strCache') /\ Keeps(traitCache, traitCache')
             /\ Keeps(objCache, objCache')]_vars

(* The depth is that of the calls that run and of those an exception has   *)
(* ended; between messages there are tables only if one has.               *)
StaleOnlyAfterFailure ==
    failure # "crashed" =>
        /\ depth = leaked + Cardinality({i \in DOMAIN todo : todo[i].op = "leave"})
        /\ todo = << >> /\ (\E table \in {strCache, traitCache, objCache} : table.made)
              => leaked > 0

(* The process ends only where write_array or write_object is called and   *)
(* there are no tables, or where both versions have used the same ones: in *)
(* a serialize call of encode_amf in the other version, or in a message    *)
(* after one of the other version that failed.                             *)
CrashesOnlyOutsideOrAcross == failure = "crashed" => depth = 0 \/ versions = {0, 3}

(* Every call returns or raises, whatever the graph, unless user code      *)
(* leads back to itself: an object whose encode_amf serializes it again,   *)
(* or in AMF0 writes an array that holds it.                               *)
Terminates == todo # << >> ~> todo = << >> \/ Endless
=============================================================================
