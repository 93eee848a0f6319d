-------------------------- MODULE FastDeserializer --------------------------
(***************************************************************************)
(* The AMF0 and AMF3 reader of the C extension: Deserializer               *)
(* (ext/rocketamf_ext/deserializer.c), with what its class mapper does to  *)
(* an object (class_mapping.c).                                            *)
(*                                                                         *)
(* As in Deserializer, the recursion is a stack, a read becomes the value  *)
(* it yields ("got"), and a token that is not what a read expects is not   *)
(* read ("garbled").  The struct has a position of its own, which is       *)
(* copied from and to the StringIO where user code may read it.  An access *)
(* beyond a table that C does not check, or to a table that was not made,  *)
(* is "undefined".  Vectors hold numbers below 2^31.                       *)
(***************************************************************************)
EXTENDS AMF0, MappingSet, HeapGraph

CONSTANTS
    Sources,        \* what the program passes to deserialize first,
    LaterSources,   \* and what afterwards
    RubyClasses,    \* the mapper: AS class name to Ruby class
    LoadableClasses,
    Externals,      \* what read_external of a class does
    HashClass,      \* Hash
    HashClasses,    \* classes of the mapper derived from it
    BeyondTime,     \* floats no time_t holds, NaN among them
    NoSource,       \* NULL
    MaxCalls        \* bound: calls of deserialize and read_object

(* The program gives a version, tokens, and where on them it starts; a     *)
(* double holds no object.                                                 *)
IsToken(t) == \/ DOMAIN t = {"word"} /\ t.word \in Nat
              \/ DOMAIN t = {"u16"} /\ t.u16 \in Nat
              \/ DOMAIN t = {"u32"} /\ t.u32 \in Nat
              \/ DOMAIN t = {"raw"} /\ t.raw \in Strings
              \/ DOMAIN t = {"double"} /\ DOMAIN t.double \in {{"num"}, {"float"}}

IsSource(src) == /\ src.ver \in {0, 3}
                 /\ src.tokens \in Seq({src.tokens[i] : i \in DOMAIN src.tokens})
                 /\ \A i \in DOMAIN src.tokens : IsToken(src.tokens[i])
                 /\ src.at \in 0 .. Len(src.tokens)

ASSUME FastDeserializerAssumption == /\ MaxCalls \in Nat
                                     /\ \A src \in Sources \cup LaterSources : IsSource(src)

VARIABLES
    source,         \* src: tokens, its version, and where its messages end
    srcPos,         \* pos of the StringIO
    pos, version,
    objTable, strTable, traitTable,     \* obj_cache, str_cache, trait_cache
    made,           \* str_cache and trait_cache are not NULL
    out,            \* the objects made, by identity
    stack,          \* what the running calls have still to do
    result, failure,
    calls,          \* calls so far
    broken          \* history: calls that failed on source or read another version

tables == <<objTable, strTable, traitTable, made>>
outcome == <<result, failure, calls, broken>>
vars == <<source, srcPos, pos, version, tables, out, stack, outcome>>

----------------------------------------------------------------------------
Reading(op) == stack # << >> /\ Head(stack).op = op
Taking(op)  == Reading("got") /\ stack[2].op = op
Taken       == Head(stack).value
Caller      == stack[2]

Read(op)         == [op |-> op]
Value(ver)       == [op |-> "value", ver |-> ver]
Octets(n, into)  == [op |-> "content", length |-> n, into |-> into]
Got(v)           == [op |-> "got", value |-> v]
Assign(id, field, key) == [op |-> "assign", id |-> id, field |-> field, key |-> key]
Props(id, field)       == [op |-> "props", id |-> id, field |-> field]
KeyOf(id)              == [op |-> "key", id |-> id]

Become(todo) == /\ stack' = todo \o Tail(stack)
                /\ UNCHANGED <<source, srcPos, outcome>>
Take(todo)   == /\ stack' = todo \o Tail(Tail(stack))
                /\ UNCHANGED <<source, srcPos, pos, version, outcome>>
NoTables     == UNCHANGED <<tables, version, out>>

(* An exception reaches the program; the source stays where it was.        *)
Raise(error) == /\ failure' = error
                /\ broken' = broken + 1
                /\ stack' = << >>
                /\ UNCHANGED <<source, srcPos, version, tables, out, result, calls>>

----------------------------------------------------------------------------
(* des_deserialize: new tables, those of strings and traits for version 3. *)
Begin(ver) ==
    /\ objTable' = << >>
    /\ IF ver = 3 THEN strTable' = << >> /\ traitTable' = << >> /\ made' = TRUE
                  ELSE UNCHANGED <<strTable, traitTable, made>>
    /\ stack' = <<Value(ver), Read("return")>>
    /\ failure' = "none" /\ result' = Nil
    /\ UNCHANGED out

CallOfProgram == stack = << >> /\ failure \notin {"undefined", "garbled"}

(* With a source; des_set_src refuses one that is at its end.              *)
Deserialize(src) ==
    /\ CallOfProgram
    /\ version' = src.ver
    /\ source' = src /\ srcPos' = src.at /\ pos' = src.at
    /\ IF src.at < Len(src.tokens) THEN Begin(src.ver) /\ broken' = 0
       ELSE /\ failure' = "RangeError" /\ broken' = 1
            /\ UNCHANGED <<tables, out, stack, result>>

(* With nil: on from pos, in any version.                                  *)
DeserializeMore(ver) ==
    /\ CallOfProgram /\ source # NoSource
    /\ version' = ver
    /\ Begin(ver)
    /\ broken' = broken + (IF ver = source.ver THEN 0 ELSE 1)
    /\ UNCHANGED <<source, srcPos, pos>>

(* With something else, or nil where there is no source: the version is    *)
(* that of the call.                                                       *)
DeserializeRejected(ver) ==
    /\ CallOfProgram
    /\ version' = ver
    /\ failure' = "refused"
    /\ UNCHANGED <<source, srcPos, pos, tables, out, stack, result, broken>>

(* des_read_object, from pos of the StringIO, in the version of the struct *)
(* and with the tables there are.                                          *)
ReadObject ==
    /\ CallOfProgram /\ source # NoSource
    /\ pos' = srcPos
    /\ stack' = <<Value(version), Read("return")>>
    /\ failure' = "none" /\ result' = Nil
    /\ broken' = broken + (IF version = source.ver THEN 0 ELSE 1)
    /\ UNCHANGED <<source, srcPos, version, tables, out>>

(* The end of either: the StringIO moves to pos.                           *)
ReturnAt(at) == /\ Taking("return")
                /\ srcPos' = at
                /\ stack' = Tail(Tail(stack))
                /\ result' = IF stack' = << >> THEN Taken ELSE result
                /\ UNCHANGED <<source, pos, version, tables, out, failure, calls, broken>>

(* A slip: the StringIO is left where it was.                              *)
ReturnWithoutSource == ReturnAt(srcPos)

Return == ReturnAt(pos)

----------------------------------------------------------------------------
(* What each read needs next on the source.                                *)
Headers == {"string", "xml", "array", "object", "time", "bytes", "dict", "vector"}

Words   == Headers \cup {"value", "integer", "boolean", "byte", "ahead"}
U16s    == {"u16", "size16", "reference0", "zone", "props"}
U32s    == {"size32", "array0", "hash0", "u32"}
Doubles == {"double", "stamp0", "stamp"}

Needs(op, kind) == \/ op \in Words /\ kind = "word"
                   \/ op \in U16s /\ kind = "u16"
                   \/ op \in U32s /\ kind = "u32"
                   \/ op \in Doubles /\ kind = "double"
                   \/ op = "content" /\ kind = "raw"

Waiting == /\ stack # << >>
           /\ Head(stack).op \in Words \cup U16s \cup U32s \cup Doubles \cup {"content"}

Token == source.tokens[pos + 1]

Fits == /\ \A kind \in DOMAIN Token : Needs(Head(stack).op, kind)
        /\ Is("word", Token) /\ Head(stack).op \in {"value", "boolean", "byte"}
              => Token.word < 128
        /\ Is("raw", Token) => ByteSize[Token.raw] = Head(stack).length

(* A byte read ahead may belong to anything.                               *)
Ready(op) == /\ Reading(op) /\ pos < Len(source.tokens)
             /\ Fits \/ op = "ahead"

Consume(op) == Ready(op) /\ pos' = pos + 1

(* DES_BOUNDS_CHECK                                                        *)
SourceEnds == /\ Waiting /\ pos >= Len(source.tokens)
              /\ UNCHANGED pos
              /\ Raise("RangeError")

Garbled == /\ Waiting /\ pos < Len(source.tokens) /\ ~Fits /\ ~Reading("ahead")
           /\ UNCHANGED pos
           /\ Raise("garbled")

----------------------------------------------------------------------------
(* An object is in the table from the moment it is made.                   *)
Fresh == Len(out) + 1

Make(object) == /\ out' = Append(out, object)
                /\ objTable' = Append(objTable, Ref(Fresh))
                /\ UNCHANGED <<strTable, traitTable, made, version>>

Array == [kind |-> "array", elems |-> << >>]
PlainHash == [kind |-> "hash", class |-> HashClass, pairs |-> << >>]

(* Each of the calls takes a value that is read for it.                    *)
Each(read, takers) ==
    [i \in 1 .. 2 * Len(takers) |-> IF i % 2 = 1 THEN read ELSE takers[i \div 2]]

Values(read, id, field, n) ==
    Each(read, [i \in 1 .. n |-> Assign(id, field, Num(i - 1))])

TakeAssign ==
    /\ Taking("assign")
    /\ LET c == Caller
       IN  out' = [out EXCEPT ![c.id][c.field] =
                     IF c.field = "elems" THEN Append(@, Taken)
                     ELSE StoredIn(out, @, c.key, Taken)]
    /\ Take(<< >>)
    /\ UNCHANGED tables

----------------------------------------------------------------------------
(* des0_deserialize, after the type.                                       *)
AfterMarker0 ==
    { <<AMF0_STRING_MARKER, <<Read("size16")>>>>,
      <<AMF0_LONG_STRING_MARKER, <<Read("size32")>>>>, <<AMF0_XML_MARKER, <<Read("size32")>>>>,
      <<AMF0_NUMBER_MARKER, <<Read("double")>>>>, <<AMF0_BOOLEAN_MARKER, <<Read("boolean")>>>>,
      <<AMF0_NULL_MARKER, <<Got(Nil)>>>>, <<AMF0_UNDEFINED_MARKER, <<Got(Nil)>>>>,
      <<AMF0_UNSUPPORTED_MARKER, <<Got(Nil)>>>>,
      <<AMF0_OBJECT_MARKER, <<Got(Str(EmptyString)), Read("typed")>>>>,
      <<AMF0_TYPED_OBJECT_MARKER, <<Read("size16"), Read("typed")>>>>,
      <<AMF0_HASH_MARKER, <<Read("hash0")>>>>, <<AMF0_STRICT_ARRAY_MARKER, <<Read("array0")>>>>,
      <<AMF0_REFERENCE_MARKER, <<Read("reference0")>>>>, <<AMF0_DATE_MARKER, <<Read("stamp0")>>>> }

(* The read that a marker stands for, in either version.                   *)
ReadMarker(ver, afterMarker) ==
    /\ Consume("value") /\ Head(stack).ver = ver
    /\ \E after \in afterMarker : after[1] = Token.word /\ Become(after[2])
    /\ NoTables

ReadValue0 == ReadMarker(0, AfterMarker0)

(* des0_read_amf3: the reader stays in version 3.                          *)
SwitchToAMF3 == /\ Consume("value") /\ Head(stack).ver = 0
                /\ Token.word = AMF0_AMF3_MARKER
                /\ version' = 3
                /\ strTable' = << >> /\ traitTable' = << >> /\ made' = TRUE
                /\ Become(<<Value(3)>>)
                /\ UNCHANGED <<objTable, out>>

(* des3_deserialize, after the type.                                       *)
AfterMarker3 ==
    { <<UNDEFINED_MARKER, <<Got(Nil)>>>>, <<NULL_MARKER, <<Got(Nil)>>>>,
      <<FALSE_MARKER, <<Got(False)>>>>, <<TRUE_MARKER, <<Got(True)>>>>,
      <<INTEGER_MARKER, <<Read("integer")>>>>, <<DOUBLE_MARKER, <<Read("double")>>>>,
      <<STRING_MARKER, <<Read("string")>>>>, <<ARRAY_MARKER, <<Read("array")>>>>,
      <<OBJECT_MARKER, <<Read("object")>>>>, <<DATE_MARKER, <<Read("time")>>>>,
      <<XML_DOC_MARKER, <<Read("xml")>>>>, <<XML_MARKER, <<Read("xml")>>>>,
      <<BYTE_ARRAY_MARKER, <<Read("bytes")>>>>, <<DICT_MARKER, <<Read("dict")>>>> }
    \cup {<<m, <<[op |-> "vector", of |-> m]>>>> : m \in VECTOR_MARKERS}

ReadValue3 == ReadMarker(3, AfterMarker3)

(* Not supported.                                                          *)
BadMarker == /\ Consume("value")
             /\ Head(stack).ver = 0 => Token.word # AMF0_AMF3_MARKER
             /\ \A after \in IF Head(stack).ver = 3 THEN AfterMarker3 ELSE AfterMarker0 :
                  after[1] # Token.word
             /\ Raise("RuntimeError")

----------------------------------------------------------------------------
(* Simple reads.                                                           *)
ReadSize(op, n) == /\ Consume(op)
                   /\ Become(IF n = 0 THEN <<Got(Str(EmptyString))>>
                                      ELSE <<Octets(n, "none")>>)
                   /\ NoTables

ReadBoolean == /\ Consume("boolean")
               /\ Become(<<Got(IF Token.word = 0 THEN False ELSE True)>>) /\ NoTables

ReadDouble == Consume("double") /\ Become(<<Got(Token.double)>>) /\ NoTables

ReadU32 == Consume("u32") /\ Become(<<Got(Num(Token.u32))>>) /\ NoTables

ReadInteger == /\ Consume("integer")
               /\ Become(<<Got(Num(Signed(Token.word)))>>) /\ NoTables

(* Weak keys, fixed length: not used.                                      *)
ReadByte == Consume("byte") /\ Become(<< >>) /\ NoTables

(* A date of AMF0 is not put into the table.                               *)
TimeOf(ms) == [kind |-> "time", at |-> IF Is("num", ms) THEN ms.num ELSE ms.float]

ReadStamp0 == /\ Consume("stamp0")
              /\ Become(<<[op |-> "zone", at |-> Token.double]>>) /\ NoTables

ReadZone == /\ Consume("zone")
            /\ out' = Append(out, TimeOf(Head(stack).at))
            /\ Become(<<Got(Ref(Fresh))>>)
            /\ UNCHANGED <<tables, version>>

ReadReference0 ==
    /\ Consume("reference0")
    /\ IF Token.u16 < Len(objTable)
       THEN Become(<<Got(objTable[Token.u16 + 1])>>) /\ NoTables
       ELSE Raise("RangeError")

ReadHash0 == /\ Consume("hash0")
             /\ Become(<<Props(Fresh, "pairs"), Got(Ref(Fresh))>>)
             /\ Make(PlainHash)

ReadArray0 == /\ Consume("array0")
              /\ Become(Values(Value(0), Fresh, "elems", Token.u32) \o <<Got(Ref(Fresh))>>)
              /\ Make(Array)

(* des0_read_props: the key has its length only; an empty key and an end   *)
(* marker end the properties, an empty key and anything else do not.       *)
ReadProps ==
    /\ Consume("props")
    /\ Become(IF Token.u16 = 0 THEN <<Read("ahead"), Head(stack)>>
              ELSE <<Octets(Token.u16, "none"), [Head(stack) EXCEPT !.op = "prop"]>>)
    /\ NoTables

AheadOr(at, todo) ==
    /\ Ready("ahead")
    /\ IF Token = Word(AMF0_OBJECT_END_MARKER)
       THEN pos' = pos + 1 /\ stack' = Tail(Tail(stack))
       ELSE pos' = at /\ stack' = todo \o Tail(Tail(stack))
    /\ UNCHANGED <<source, srcPos, outcome>> /\ NoTables

(* A slip: an empty key that is not the end is put back.                   *)
ReadAheadPuttingBack == AheadOr(pos - 1, <<Caller>>)

ReadAhead == AheadOr(pos, <<Got(Str(EmptyString)), [Caller EXCEPT !.op = "prop"]>>)

TakeProp == /\ Taking("prop")
            /\ LET c == Caller
               IN  Take(<<Value(0), Assign(c.id, c.field, Taken), [c EXCEPT !.op = "props"]>>)
            /\ UNCHANGED <<tables, out>>

----------------------------------------------------------------------------
(* AMF3: a header is a reference if its low bit is 0, or it has a length.  *)
Type == Signed(Token.word)
Length == Type \div 2
IsReference == Type % 2 = 0
Table(op) == IF op = "string" THEN strTable ELSE objTable

ReadReference(op) ==
    /\ Consume(op) /\ IsReference
    /\ op = "string" => made
    /\ IF Length >= Len(Table(op)) THEN Raise("RangeError")
       ELSE /\ Length >= 0
            /\ Become(<<Got(Table(op)[Length + 1])>>) /\ NoTables

Inline(op, todo) == Consume(op) /\ ~IsReference /\ Become(todo)

(* des3_read_string, des3_read_xml, des3_read_byte_array: the length is    *)
(* unsigned, and one that was negative is beyond the end.                  *)
TextHeader(op, into, afterEmpty) ==
    /\ Ready(op) /\ (~IsReference => Length >= 0)
    /\ Inline(op, IF Length = 0 THEN <<Got(Str(EmptyString))>>
                                ELSE <<Octets(Length, into)>>)
    /\ strTable' = IF Length = 0 THEN afterEmpty ELSE strTable
    /\ UNCHANGED <<objTable, traitTable, made, version, out>>

(* A slip: an empty string is put into the table as well.                  *)
ReadTextCachingEmpty(op, into) ==
    TextHeader(op, into, Append(strTable, Str(EmptyString)))

ReadText(op, into) == TextHeader(op, into, strTable)

ReadBytes == /\ Inline("bytes", IF Length = 0 THEN <<Got(Ref(Fresh))>>
                                               ELSE <<Octets(Length, "bytes")>>)
             /\ Length >= 0
             /\ IF Length = 0 THEN Make([kind |-> "bytes", text |-> EmptyString])
                              ELSE NoTables

(* des_read_string, and where the string goes.                             *)
ReadContent ==
    /\ Consume("content")
    /\ LET into == Head(stack).into
           s    == Token.raw
       IN  \/ /\ into = "none"
              /\ Become(<<Got(Str(s))>>) /\ NoTables
           \/ /\ into = "strings" /\ made
              /\ strTable' = Append(strTable, Str(s))
              /\ Become(<<Got(Str(s))>>)
              /\ UNCHANGED <<objTable, traitTable, made, version, out>>
           \/ /\ into = "objects"
              /\ objTable' = Append(objTable, Str(s))
              /\ Become(<<Got(Str(s))>>)
              /\ UNCHANGED <<strTable, traitTable, made, version, out>>
           \/ /\ into = "bytes"
              /\ Make([kind |-> "bytes", text |-> s])
              /\ Become(<<Got(Ref(Fresh))>>)

ReadTime == Inline("time", <<Read("stamp")>>) /\ NoTables

ReadStamp == /\ Consume("stamp")
             /\ Make(TimeOf(Token.double))
             /\ Become(<<Got(Ref(Fresh))>>)

(* A float that a time_t cannot hold is cast to one all the same, which C  *)
(* does not define: rb_time_new makes some time of it or refuses it.       *)
Untimely == {Float(f) : f \in BeyondTime}

StampFails == /\ \/ Consume("stamp") /\ Token.double \in Untimely
                 \/ Consume("zone") /\ Head(stack).at \in Untimely
              /\ Raise("RangeError")

ReadArray == /\ Inline("array", <<Read("string"), [op |-> "arrayStart", length |-> Length]>>)
             /\ NoTables

TakeArrayStart ==
    /\ Taking("arrayStart")
    /\ LET n == Caller.length
       IN  IF Taken.str # EmptyString
           THEN /\ Make(PlainHash)
                /\ Take(<<Head(stack), [KeyOf(Fresh) EXCEPT !.op = "pair"]>> \o
                        Values(Value(3), Fresh, "pairs", n) \o <<Got(Ref(Fresh))>>)
           ELSE IF n < 0 THEN UNCHANGED pos /\ Raise("ArgumentError")
           ELSE /\ Make(Array)
                /\ Take(Values(Value(3), Fresh, "elems", n) \o <<Got(Ref(Fresh))>>)

(* Keys and their values up to an empty key: of associative arrays and of  *)
(* dynamic objects.                                                        *)
TakeKey ==
    /\ Taking("key") \/ Taking("pair")
    /\ LET c == Caller
           field == IF c.op = "key" THEN "props" ELSE "pairs"
       IN  Take(IF Taken.str = EmptyString THEN << >>
                ELSE <<Value(3), Assign(c.id, field, Taken), Read("string"), c>>)
    /\ UNCHANGED <<tables, out>>

ReadDict == /\ Inline("dict", <<Read("byte")>>
                \o Each(Value(3), [i \in 1 .. Length |-> [op |-> "entry", id |-> Fresh]])
                \o <<Got(Ref(Fresh))>>)
            /\ Make(PlainHash)

TakeEntryKey == /\ Taking("entry")
                /\ Take(<<Value(3), Assign(Caller.id, "pairs", Taken)>>)
                /\ UNCHANGED <<tables, out>>

(* Integers, unsigned integers, doubles or objects, whose type is ignored. *)
Element(of) == IF of \in {13, 14} THEN Read("u32")
               ELSE IF of = 15 THEN Read("double") ELSE Value(3)

ReadVector ==
    /\ Ready("vector") /\ (~IsReference => Length >= 0)
    /\ Inline("vector", <<Read("byte")>>
         \o (IF Head(stack).of = 16 THEN <<Read("string"), Read("ignore")>> ELSE << >>)
         \o Values(Element(Head(stack).of), Fresh, "elems", Length) \o <<Got(Ref(Fresh))>>)
    /\ Make(Array)

TakeIgnored == Taking("ignore") /\ Take(<< >>) /\ UNCHANGED <<tables, out>>

NegativeLength ==
    \/ /\ \E op \in {"string", "xml", "bytes"} : Consume(op)
       /\ ~IsReference /\ Length < 0
       /\ Raise("RangeError")
    \/ /\ Consume("vector") /\ ~IsReference /\ Length < 0
       /\ Raise("ArgumentError")

----------------------------------------------------------------------------
(* des3_read_object: traits by reference, or inline.                       *)
ReadObjectHeader ==
    /\ Consume("object") /\ ~IsReference
    /\ IF Length % 2 = 1
       THEN /\ Become(<<Read("string"),
                        [op |-> "traits", external |-> (Length \div 2) % 2 = 1,
                         dynamic |-> (Length \div 4) % 2 = 1,
                         count |-> Length \div 8, names |-> << >>]>>)
            /\ NoTables
       ELSE /\ made
            /\ IF Length \div 2 >= Len(traitTable) THEN Raise("RangeError")
               ELSE /\ Length >= 0
                    /\ Become(<<[op |-> "create", ver |-> 3,
                                 traits |-> traitTable[(Length \div 2) + 1]]>>)
                    /\ NoTables

TakeTraitsCaching(cached) ==
    /\ Taking("traits")
    /\ LET names  == Append(Caller.names, Taken.str)
           traits == [class_name |-> names[1], members |-> Tail(names),
                      dynamic |-> Caller.dynamic, external |-> Caller.external]
       IN  \/ /\ Caller.count < 0
              /\ UNCHANGED pos /\ Raise("ArgumentError")
           \/ /\ Len(names) <= Caller.count
              /\ Take(<<Read("string"), [Caller EXCEPT !.names = names]>>)
              /\ UNCHANGED <<tables, out>>
           \/ /\ Len(names) = Caller.count + 1 /\ made
              /\ Take(<<[op |-> "create", ver |-> 3, traits |-> traits]>>)
              /\ traitTable' = IF cached THEN Append(traitTable, traits) ELSE traitTable
              /\ UNCHANGED <<objTable, strTable, made, out>>

(* A slip: traits are not put into the table.                              *)
TakeTraitsUncached == TakeTraitsCaching(FALSE)

TakeTraits == TakeTraitsCaching(TRUE)

(* AMF0: every object is as dynamic ones of AMF3.                          *)
TakeTyped == /\ Taking("typed")
             /\ Take(<<[op |-> "create", ver |-> 0,
                        traits |-> [class_name |-> Taken.str, members |-> << >>,
                                    dynamic |-> TRUE, external |-> FALSE]]>>)
             /\ UNCHANGED <<tables, out>>

Name == Head(stack).traits.class_name
IsCollectionHere == Head(stack).ver = 3 /\ CString[Name] = CollectionName

(* An ArrayCollection is the array in it, and gets its second index when   *)
(* the array has been read.                                                *)
ReadCollection == /\ Reading("create") /\ IsCollectionHere
                  /\ UNCHANGED pos
                  /\ Become(<<Value(3), Read("collection")>>) /\ NoTables

TakeCollection == /\ Taking("collection")
                  /\ objTable' = Append(objTable, Taken)
                  /\ Take(<<Head(stack)>>)
                  /\ UNCHANGED <<strTable, traitTable, made, out>>

(* mapping_get_ruby_obj: a name without a class makes a TypedHash of that  *)
(* type, also the empty name.                                              *)
RubyClass == Lookup(RubyClasses, CString[Name])

Created == [kind |-> IF RubyClass = NoName THEN "typed" ELSE "object",
            class |-> IF RubyClass = NoName THEN Name ELSE RubyClass,
            pairs |-> << >>, props |-> << >>]

CreateInstance ==
    /\ Reading("create") /\ ~IsCollectionHere
    /\ RubyClass \in LoadableClasses \cup {NoName}
    /\ UNCHANGED pos
    /\ Make(Created)
    /\ LET traits == Head(stack).traits
           Member(m) == Assign(Fresh, "props", Str(m))
           properties ==
             IF Head(stack).ver = 0 THEN <<Props(Fresh, "props")>>
             ELSE Each(Value(3), [i \in DOMAIN traits.members |-> Member(traits.members[i])])
                  \o (IF traits.dynamic THEN <<Read("string"), KeyOf(Fresh)>> ELSE << >>)
       IN  IF traits.external
           THEN /\ srcPos' = pos
                /\ stack' = <<[op |-> "external", id |-> Fresh,
                               calls |-> IF RubyClass \in DOMAIN Externals
                                         THEN Externals[RubyClass] ELSE <<"raise">>]>>
                            \o Tail(stack)
                /\ UNCHANGED <<source, outcome>>
           ELSE Become(properties \o <<[op |-> "populate", id |-> Fresh]>>)

CreateFails == /\ Reading("create") /\ ~IsCollectionHere
               /\ RubyClass \notin LoadableClasses \cup {NoName}
               /\ UNCHANGED pos
               /\ Raise("NameError")

(* mapping_populate: a Hash, and so a TypedHash, takes everything; the     *)
(* properties of any other object must have symbols for keys, and here     *)
(* they are strings.                                                       *)
TakesStrings(object) == object.kind = "typed" \/ object.class \in HashClasses

Populate ==
    /\ Reading("populate")
    /\ UNCHANGED pos
    /\ LET id == Head(stack).id
       IN  IF ~TakesStrings(out[id]) /\ out[id].props # << >>
           THEN Raise("ArgumentError")
           ELSE /\ out' = [out EXCEPT ![id].pairs = out[id].props, ![id].props = << >>]
                /\ Become(<<Got(Ref(id))>>)
                /\ UNCHANGED <<tables, version>>

----------------------------------------------------------------------------
(* read_external: user code, which reads objects, or bytes of the source,  *)
(* or raises (an object without the method raises NoMethodError).          *)
External(name) == Reading("external") /\ Head(stack).calls # << >>
                  /\ Head(Head(stack).calls) = name
Rest == [Head(stack) EXCEPT !.calls = Tail(@)]

ExternalReads == /\ External("read")
                 /\ pos' = srcPos
                 /\ Become(<<Value(version), Read("return"), Rest>>) /\ NoTables

ExternalSkips == /\ External("skip")
                 /\ srcPos' = IF srcPos < Len(source.tokens) THEN srcPos + 1 ELSE srcPos
                 /\ stack' = <<Rest>> \o Tail(stack)
                 /\ UNCHANGED <<source, pos, outcome>> /\ NoTables

ExternalRaises == External("raise") /\ UNCHANGED pos /\ Raise("raised")

ExternalReturns == /\ Reading("external") /\ Head(stack).calls = << >>
                   /\ pos' = srcPos
                   /\ Become(<<Got(Ref(Head(stack).id))>>) /\ NoTables

----------------------------------------------------------------------------
(* A negative index, or a table that was never made.                       *)
Undefined ==
    /\ \/ /\ \E op \in Headers : Ready(op)
          /\ IsReference
          /\ Length < 0 \/ (Reading("string") /\ ~made)
       \/ /\ Ready("object") /\ ~IsReference /\ Length % 2 = 0
          /\ Length < 0 \/ ~made
       \/ Ready("content") /\ Head(stack).into = "strings" /\ ~made
       \/ Taking("traits") /\ Len(Caller.names) = Caller.count /\ ~made
    /\ UNCHANGED pos
    /\ Raise("undefined")

----------------------------------------------------------------------------
Init == /\ source = NoSource /\ srcPos = 0 /\ pos = 0 /\ version = 0
        /\ objTable = << >> /\ strTable = << >> /\ traitTable = << >> /\ made = FALSE
        /\ out = << >> /\ stack = << >>
        /\ result = Nil /\ failure = "none" /\ calls = 0 /\ broken = 0

Step == \/ Return \/ SourceEnds \/ Garbled \/ Undefined
        \/ ReadValue0 \/ SwitchToAMF3 \/ ReadValue3 \/ BadMarker
        \/ ReadSize("size16", Token.u16) \/ ReadSize("size32", Token.u32)
        \/ ReadBoolean \/ ReadDouble \/ ReadU32 \/ ReadInteger \/ ReadByte
        \/ ReadStamp0 \/ ReadZone \/ ReadReference0 \/ ReadHash0 \/ ReadArray0
        \/ ReadProps \/ ReadAhead \/ TakeProp \/ TakeAssign
        \/ (\E op \in Headers : ReadReference(op))
        \/ ReadText("string", "strings") \/ ReadText("xml", "objects")
        \/ ReadBytes \/ ReadContent \/ ReadTime \/ ReadStamp \/ StampFails
        \/ ReadArray \/ TakeArrayStart \/ TakeKey \/ ReadDict \/ TakeEntryKey
        \/ ReadVector \/ TakeIgnored \/ NegativeLength
        \/ ReadObjectHeader \/ TakeTraits \/ TakeTyped
        \/ ReadCollection \/ TakeCollection \/ CreateInstance \/ CreateFails \/ Populate
        \/ ExternalReads \/ ExternalSkips \/ ExternalRaises \/ ExternalReturns

Call == /\ calls < MaxCalls /\ calls' = calls + 1
        /\ \/ \E src \in IF source = NoSource THEN Sources ELSE LaterSources : Deserialize(src)
           \/ ReadObject
           \/ \E ver \in {0, 3} : DeserializeMore(ver) \/ DeserializeRejected(ver)

Next == Call \/ Step

(* A call runs to its end.                                                 *)
Spec == Init /\ [][Next]_vars /\ WF_vars(Step)

----------------------------------------------------------------------------
TypeOK == /\ source = NoSource \/ srcPos \in 0 .. Len(source.tokens)
          /\ source = NoSource \/ pos \in 0 .. Len(source.tokens)
          /\ version \in {0, 3}
          /\ \A i \in DOMAIN strTable : strTable[i] \in {Str(s) : s \in Strings \ {EmptyString}}
          /\ \A i \in DOMAIN objTable : Is("ref", objTable[i]) => objTable[i].ref \in DOMAIN out
          /\ failure \in {"none", "RangeError", "RuntimeError", "ArgumentError",
                          "NameError", "raised", "refused", "garbled", "undefined"}
          /\ ~made => strTable = << >> /\ traitTable = << >>
          /\ calls \in 0 .. MaxCalls

(* Between calls the two positions are one and at the end of a message,    *)
(* also when read_external has read from the source itself.                *)
StopsAtMessages ==
    source # NoSource /\ stack = << >> /\ broken = 0
        => pos = srcPos /\ srcPos \in source.ends

(* Where the messages are what another writer wrote, the first call to     *)
(* fail leaves the source at the start of its message, unless              *)
(* read_external moved it; and it fails because no whole message is left,  *)
(* because a time_t cannot hold a date, or for what the program mapped: a  *)
(* class it does not have, a read_external that raises, or any class but a *)
(* Hash for an object with properties, whose keys are strings.             *)
Unpopulated == \E i \in DOMAIN out : /\ out[i].kind = "object" /\ ~TakesStrings(out[i])
                                     /\ out[i].props # << >>

OnlyCutsAndMappingsFail ==
    source # NoSource /\ stack = << >> /\ broken = 1
        /\ failure \notin {"none", "refused"} /\ source.valid
        => /\ failure \in {"RangeError", "ArgumentError", "NameError", "raised"}
           /\ failure = "RangeError" =>
                \/ \A end \in source.ends : end <= srcPos
                \/ \E i \in 1 .. pos : Is("double", source.tokens[i])
                                       /\ source.tokens[i].double \in Untimely
           /\ failure = "ArgumentError" => Unpopulated
           /\ ~source.external => srcPos \in source.ends

(* Every call ends, on any source.                                         *)
Terminates == stack # << >> ~> stack = << >>
============================================================================
