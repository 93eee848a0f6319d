---------------------------- MODULE Deserializer ----------------------------
(***************************************************************************)
(* The AMF3 reader: Deserializer (lib/amf/pure/deserializer.rb) with       *)
(* helpers/io_helper_read.rb.                                              *)
(*                                                                         *)
(* As in Serializer the recursion is a stack: its head is what happens     *)
(* next, the rest what the callers do afterwards.  A read replaces itself  *)
(* by the value it yields ("got"), which the call below it then takes.     *)
(* The source may end anywhere and hold several messages.                  *)
(*                                                                         *)
(* A token that is not of the kind a read expects leaves the reader inside *)
(* a token.  What it would make of the bytes is not modelled: the call is  *)
(* "garbled".                                                              *)
(***************************************************************************)
EXTENDS Mapper, HeapGraph, Framing

CONSTANTS
    Sources,        \* what the program passes to deserialize
    Mappings,       \* the MappingSet of the deserializer's mapper
    NaN,            \* Float::NAN
    Infinities,     \* Float::INFINITY and its negative
    MaxCalls        \* bound: calls of deserialize

(* A source is made of tokens; a double holds no object.                   *)
IsToken(t) == \/ DOMAIN t = {"word"} /\ t.word \in Nat
              \/ DOMAIN t = {"raw"} /\ t.raw \in Strings
              \/ DOMAIN t = {"double"} /\ DOMAIN t.double \in {{"num"}, {"float"}}

IsSource(src) == /\ src \in Seq({src[i] : i \in DOMAIN src})
                 /\ \A i \in DOMAIN src : IsToken(src[i])

ASSUME DeserializerAssumption == /\ MaxCalls \in Nat
                                 /\ \A src \in Sources : IsSource(src)

VARIABLES
    source,         \* @source: its tokens, or nil
    pos,            \* @source.pos
    start,          \* source_position
    stack,          \* what the running calls have still to do
    tableStrings,   \* @cache_strings
    tableObjects,   \* @cache_objects, by identity
    tableTraits,    \* @cache_traits
    out,            \* the objects made, by identity
    objects,        \* the result: objects, or what read_object returned
    incomplete,     \* the result: incomplete_objects
    failure,        \* the exception that ended the last message, or "none";
                    \* "mapper" is whatever came out of the class mapper
    pc,             \* "idle" | "reading" | "returned" | "read" | "raised" | "garbled"
    calls,          \* calls of deserialize so far
    before          \* history: the objects made before this message

tables == <<tableStrings, tableObjects, tableTraits>>
result == <<objects, incomplete, failure, pc, calls>>
NoSource == <<Nil>>         \* nil
vars == <<source, pos, start, stack, tables, out, result, before>>

----------------------------------------------------------------------------
Reading(op) == pc = "reading" /\ stack # << >> /\ Head(stack).op = op
Taking(op)  == Reading("got") /\ stack[2].op = op   \* a call takes its value
Taken       == Head(stack).value
Caller      == stack[2]

Read(op)      == [op |-> op]
Sized(op, n)  == [op |-> op, length |-> n]
Got(v)        == [op |-> "got", value |-> v]
Assign(id, field, key) == [op |-> "assign", id |-> id, field |-> field, key |-> key]
KeyOf(id, field)      == [op |-> "key", id |-> id, field |-> field]

(* The head, or the head value and its caller, become other calls.         *)
Become(todo) == /\ stack' = todo \o Tail(stack)
                /\ UNCHANGED <<source, start, result, before>>
Take(todo)   == /\ stack' = todo \o Tail(Tail(stack))
                /\ UNCHANGED <<source, pos, start, result, before>>

----------------------------------------------------------------------------
(* deserialize(source), of a new Deserializer: the source is read until    *)
(* eof ...  What the one before left half made is garbage.                 *)
Deserialize(src) ==
    /\ pc # "reading"
    /\ source' = src
    /\ pos' = 0
    /\ objects' = << >> /\ incomplete' = << >> /\ failure' = "none"
    /\ stack' = << >>
    /\ tableStrings' = << >> /\ tableObjects' = << >> /\ tableTraits' = << >>
    /\ out' = IF failure = "none" THEN out ELSE SubSeq(out, 1, before)
    /\ before' = Len(out')
    /\ pc' = "reading"
    /\ start' = 0

(* deserialize(nil)                                                        *)
DeserializeNil ==
    /\ pc # "reading"
    /\ failure' = "AMFError"
    /\ pc' = "raised"
    /\ UNCHANGED <<source, pos, start, stack, tables, out, objects, incomplete,
                   before>>

BeginMessage(objectTable) ==
    /\ pc = "reading" /\ stack = << >> /\ pos < Len(source)
    /\ tableStrings' = << >> /\ tableObjects' = objectTable /\ tableTraits' = << >>
    /\ start' = pos
    /\ before' = Len(out)
    /\ stack' = <<Read("value"), Read("message")>>
    /\ UNCHANGED <<source, pos, out, result>>

(* A slip: the object table is not made anew.                              *)
NextMessageSameTable == BeginMessage(tableObjects)

(* ... one message after the other, each with empty tables.                *)
NextMessage == BeginMessage(<< >>)

TakeMessage == /\ Taking("message")
               /\ objects' = Append(objects, Taken)
               /\ stack' = << >>
               /\ UNCHANGED <<source, pos, start, tables, out, incomplete, failure,
                              pc, calls, before>>

EndOfSource == /\ pc = "reading" /\ stack = << >> /\ pos = Len(source)
               /\ pc' = "returned"
               /\ UNCHANGED <<source, pos, start, stack, tables, out, objects,
                              incomplete, failure, calls, before>>

LeaveRest(from, error) ==
    /\ failure' = error
    /\ incomplete' = SubSeq(source, from + 1, Len(source))
    /\ pos' = Len(source)
    /\ stack' = << >>
    /\ pc' = "returned"
    /\ UNCHANGED <<source, start, tables, out, objects, calls, before>>

(* Slips: the rest is read from where the error was; the loop goes on      *)
(* after the rescue.                                                       *)
RescueInPlace(error) == LeaveRest(pos, error)
RescueAndRetry(error) == /\ pos' = start
                         /\ out' = SubSeq(out, 1, before)
                         /\ stack' = << >>
                         /\ UNCHANGED <<source, start, tables, objects, incomplete,
                                        failure, pc, calls, before>>

(* rescue AMFErrorIncomplete, AMFError: back to the start of the message,  *)
(* and what is there is returned unread.                                   *)
Rescue(error) == LeaveRest(start, error)

(* Any other exception reaches the program, which gets no result.  What    *)
(* was read of the source stays read.                                      *)
Raise(error, state) == /\ failure' = error
                       /\ stack' = << >>
                       /\ pc' = state
                       /\ UNCHANGED <<source, start, tables, objects, incomplete,
                                      calls, before>>

Escape(error)     == Raise(error, "raised") /\ UNCHANGED <<pos, out>>
EscapeRead(error) == Raise(error, "raised") /\ pos' = pos + 1 /\ UNCHANGED out

(* What runs is deserialize, with its rescue, or read_object.              *)
InMessage     == pc = "reading" /\ stack # << >> /\ stack[Len(stack)].op = "message"
InDeserialize == InMessage \/ (pc = "reading" /\ stack = << >>)

(* read_object of a deserializer the program holds on to: from where its   *)
(* source is, with the tables there are, and without a rescue.             *)
CallReadObject ==
    /\ pc \notin {"reading", "garbled"}
    /\ IF source = NoSource THEN Escape("NoMethodError")
       ELSE /\ stack' = <<Read("value"), Read("caller")>>
            /\ failure' = "none" /\ pc' = "reading"
            /\ UNCHANGED <<source, pos, start, tables, out, objects, incomplete,
                           calls, before>>

ReturnObject == /\ Taking("caller")
                /\ objects' = <<Taken>>
                /\ stack' = << >> /\ pc' = "read"
                /\ UNCHANGED <<source, pos, start, tables, out, incomplete, failure,
                               calls, before>>

----------------------------------------------------------------------------
(* What each read needs next on the source.                                *)
Octets  == {"content", "octets"}
Doubles == {"double", "stamp"}
Words   == {"value", "integer", "string", "date", "array", "object", "bytes", "dict", "weak"}

Needs == [op \in Words \cup Octets \cup Doubles |->
            IF op \in Words THEN "word" ELSE IF op \in Octets THEN "raw" ELSE "double"]

Waiting == pc = "reading" /\ stack # << >> /\ Head(stack).op \in DOMAIN Needs

Token == source[pos + 1]

(* The bytes of a string or byte array are as many as its header said;     *)
(* read_int8 takes a word of one byte.                                     *)
Fits == /\ Is(Needs[Head(stack).op], Token)
        /\ Is("raw", Token) => ByteSize[Token.raw] = Head(stack).length
        /\ Head(stack).op = "weak" => Token.word < 128

Ready(op) == Reading(op) /\ pos < Len(source) /\ Fits

Consume(op) == Ready(op) /\ pos' = pos + 1

(* eof, or fewer bytes than needed: io_helper_read and the length checks.  *)
SourceEnds == /\ Waiting /\ pos = Len(source)
              /\ IF InMessage THEN Rescue("AMFErrorIncomplete")
                              ELSE Escape("AMFErrorIncomplete")

Garbled == /\ Waiting /\ pos < Len(source) /\ ~Fits
           /\ pc' = "garbled"
           /\ stack' = << >>
           /\ UNCHANGED <<source, pos, start, tables, out, objects, incomplete,
                          failure, calls, before>>

----------------------------------------------------------------------------
(* amf3_deserialize: the marker, and the read it stands for.               *)
AfterMarker ==
    { <<UNDEFINED_MARKER, Got(Nil)>>, <<NULL_MARKER, Got(Nil)>>,
      <<FALSE_MARKER, Got(False)>>, <<TRUE_MARKER, Got(True)>>,
      <<INTEGER_MARKER, Read("integer")>>, <<DOUBLE_MARKER, Read("double")>>,
      <<STRING_MARKER, Read("string")>>, <<DATE_MARKER, Read("date")>>,
      <<ARRAY_MARKER, Read("array")>>, <<OBJECT_MARKER, Read("object")>>,
      <<BYTE_ARRAY_MARKER, Read("bytes")>>, <<DICT_MARKER, Read("dict")>> }

ReadMarker == /\ Consume("value")
              /\ \E after \in AfterMarker :
                   after[1] = Token.word /\ Become(<<after[2]>>)
              /\ UNCHANGED <<tables, out>>

(* A type that is unsupported or invalid.  A word of several bytes starts  *)
(* with a byte that is no marker; read_object then leaves the source       *)
(* behind that byte.                                                       *)
BadMarker == /\ Ready("value")
             /\ \A after \in AfterMarker : after[1] # Token.word
             /\ IF InMessage THEN Rescue("AMFError")
                ELSE IF Token.word < 128 THEN EscapeRead("AMFError")
                ELSE Raise("AMFError", "garbled") /\ UNCHANGED <<pos, out>>

ReadInteger == /\ Consume("integer")
               /\ Become(<<Got(Num(Signed(Token.word)))>>)
               /\ UNCHANGED <<tables, out>>

(* NaN becomes nil.                                                        *)
ReadNumber ==
    /\ Consume("double")
    /\ Become(<<Got(IF Token.double = Float(NaN) THEN Nil ELSE Token.double)>>)
    /\ UNCHANGED <<tables, out>>

----------------------------------------------------------------------------
(* A header is a reference when its low bit is 0 and the table has the     *)
(* entry; otherwise, even if it refers to nothing, it holds a length.      *)
(* Negative indices count from the end of the table.                       *)
Type == Signed(Token.word)
Length == Type \div 2
Entry(table, i) == IF i < 0 THEN Len(table) + i + 1 ELSE i + 1
IsReference(table) == Type % 2 = 0 /\ Entry(table, Length) \in DOMAIN table

StringHeader(strings) ==
    /\ Consume("string")
    /\ Become(<<IF IsReference(tableStrings) THEN Got(Str(tableStrings[Entry(tableStrings, Length)]))
                ELSE IF Length > 0 THEN Sized("content", Length)
                ELSE Got(Str(EmptyString))>>)
    /\ tableStrings' = strings
    /\ UNCHANGED <<tableObjects, tableTraits, out>>

(* A slip: '' is put into the table.                                       *)
ReadStringCachingEmpty ==
    StringHeader(IF IsReference(tableStrings) \/ Length > 0 THEN tableStrings
                 ELSE Append(tableStrings, EmptyString))

ReadString == StringHeader(tableStrings)

ReadContent == /\ Consume("content")
               /\ Become(<<Got(Str(Token.raw))>>)
               /\ tableStrings' = Append(tableStrings, Token.raw)
               /\ UNCHANGED <<tableObjects, tableTraits, out>>

(* An object is in the table from the moment it is made.                   *)
Fresh == Len(out) + 1

Make(object) == /\ out' = Append(out, object)
                /\ tableObjects' = Append(tableObjects, Fresh)
                /\ UNCHANGED <<tableStrings, tableTraits>>

ReadReference(op) == /\ Consume(op) /\ IsReference(tableObjects)
                     /\ Become(<<Got(Ref(tableObjects[Entry(tableObjects, Length)]))>>)
                     /\ UNCHANGED <<tables, out>>

ReadInline(op, todo) == /\ Consume(op) /\ ~IsReference(tableObjects)
                        /\ Become(todo)

ReadDate == \/ ReadReference("date")
            \/ ReadInline("date", <<Read("stamp")>>) /\ UNCHANGED <<tables, out>>

(* Milliseconds since 1970.  ReadStampUncached is a slip: the time is not  *)
(* put into the table.                                                     *)
NonFinite == {Float(f) : f \in {NaN} \cup Infinities}

TimeOf(ms) == [kind |-> "time", at |-> IF Is("num", ms) THEN ms.num ELSE ms.float]

ReadStampUncached == /\ Consume("stamp") /\ Token.double \notin NonFinite
                     /\ out' = Append(out, TimeOf(Token.double))
                     /\ Become(<<Got(Ref(Fresh))>>)
                     /\ UNCHANGED tables

ReadStamp == /\ Consume("stamp") /\ Token.double \notin NonFinite
             /\ Make(TimeOf(Token.double))
             /\ Become(<<Got(Ref(Fresh))>>)

(* Time.at of no finite number.                                            *)
StampFails == /\ Ready("stamp") /\ Token.double \in NonFinite
              /\ EscapeRead("FloatDomainError")

MakeBytes(s) == Make([kind |-> "bytes", text |-> s])

ReadByteArray ==
    \/ ReadReference("bytes")
    \/ /\ Ready("bytes") /\ Length >= 0
       /\ ReadInline("bytes", IF Length = 0 THEN <<Got(Ref(Fresh))>>
                                            ELSE <<Sized("octets", Length)>>)
       /\ IF Length = 0 THEN MakeBytes(EmptyString) ELSE UNCHANGED <<tables, out>>

(* IO#read of a negative length.                                           *)
NegativeLength == /\ Ready("bytes")
                  /\ ~IsReference(tableObjects) /\ Length < 0
                  /\ EscapeRead("ArgumentError")

ReadOctets == /\ Consume("octets")
              /\ MakeBytes(Token.raw)
              /\ Become(<<Got(Ref(Fresh))>>)

----------------------------------------------------------------------------
(* result[key] = value, for elements, entries and properties.              *)
Stored(pairs, key, value) == StoredIn(out, pairs, key, value)

TakeAssign ==
    /\ Taking("assign")
    /\ LET c == Caller
       IN  out' = [out EXCEPT ![c.id][c.field] =
                     IF c.field = "elems" THEN Append(@, Taken)
                                          ELSE Stored(@, c.key, Taken)]
    /\ Take(<< >>)
    /\ UNCHANGED tables

(* Keys and their values up to an empty key, of associative arrays and of  *)
(* dynamic objects.                                                        *)
TakeKey ==
    /\ Taking("key")
    /\ LET c == Caller
       IN  Take(IF Taken.str = EmptyString THEN << >>
                ELSE <<Read("value"), Assign(c.id, c.field, Taken), Read("string"), c>>)
    /\ UNCHANGED <<tables, out>>

(* A value for each of these calls, which takes it.                        *)
Each(takers) == [i \in 1 .. 2 * Len(takers) |->
                   IF i % 2 = 1 THEN Read("value") ELSE takers[i \div 2]]

(* n values, stored under keys made from their index.                      *)
Values(id, field, n) == Each([i \in 1 .. n |-> Assign(id, field, Num(i - 1))])

----------------------------------------------------------------------------
(* amf3_read_array: pairs up to an empty name, then the elements; if there *)
(* are pairs the result is a Hash, with the index as the elements' key.    *)
ReadArray ==
    \/ ReadReference("array")
    \/ /\ ReadInline("array", <<Read("string"), Sized("arrayStart", Length)>>)
       /\ UNCHANGED <<tables, out>>

PlainHash == [kind |-> "hash", class |-> HashClass, pairs |-> << >>]

TakeArrayStart ==
    /\ Taking("arrayStart")
    /\ LET n == Caller.length
       IN  IF Taken.str = EmptyString
           THEN /\ Make([kind |-> "array", elems |-> << >>])
                /\ Take(Values(Fresh, "elems", n) \o <<Got(Ref(Fresh))>>)
           ELSE /\ Make(PlainHash)
                /\ Take(<<Head(stack), KeyOf(Fresh, "pairs")>> \o
                        Values(Fresh, "pairs", n) \o <<Got(Ref(Fresh))>>)

(* amf3_read_dictionary: any value is a key; the byte that says weak keys  *)
(* is ignored.                                                             *)
ReadDictionary ==
    \/ ReadReference("dict")
    \/ /\ ReadInline("dict",
            <<Read("weak")>>
            \o Each([i \in 1 .. Length |-> [op |-> "entry", id |-> Fresh]])
            \o <<Got(Ref(Fresh))>>)
       /\ Make(PlainHash)

ReadWeak == /\ Consume("weak")
            /\ Become(<< >>)
            /\ UNCHANGED <<tables, out>>

TakeEntryKey == /\ Taking("entry")
                /\ Take(<<Read("value"), Assign(Caller.id, "pairs", Taken)>>)
                /\ UNCHANGED <<tables, out>>

----------------------------------------------------------------------------
(* amf3_read_object: a known object, known traits, or traits inline.  The  *)
(* bit that says externalizable is not looked at.                          *)
KnownTraits == Entry(tableTraits, Length \div 2)

ReadObject ==
    \/ ReadReference("object")
    \/ /\ Ready("object")
       /\ Length % 2 = 1 \/ KnownTraits \in DOMAIN tableTraits
       /\ ReadInline("object",
            IF Length % 2 = 0 THEN <<[op |-> "create", traits |-> tableTraits[KnownTraits]]>>
            ELSE <<Read("string"),
                   [op |-> "traits", dynamic |-> (Length \div 4) % 2 = 1,
                    count |-> Length \div 8, names |-> << >>]>>)
       /\ UNCHANGED <<tables, out>>

(* traits is nil: NoMethodError, which deserialize does not rescue.        *)
UnknownTraits == /\ Ready("object")
                 /\ ~IsReference(tableObjects)
                 /\ Length % 2 = 0 /\ KnownTraits \notin DOMAIN tableTraits
                 /\ EscapeRead("NoMethodError")

(* The class name, then as many member names as the header counts.         *)
TakeTraitsCaching(cached) ==
    /\ Taking("traits")
    /\ LET names  == Append(Caller.names, Taken.str)
           traits == [class_name |-> names[1], members |-> Tail(names),
                      dynamic |-> Caller.dynamic]
       IN  IF Len(names) <= Caller.count
           THEN /\ Take(<<Read("string"), [Caller EXCEPT !.names = names]>>)
                /\ UNCHANGED tableTraits
           ELSE /\ Take(<<[op |-> "create", traits |-> traits]>>)
                /\ tableTraits' = IF cached THEN Append(tableTraits, traits) ELSE tableTraits
    /\ UNCHANGED <<tableStrings, tableObjects, out>>

(* A slip: traits are not put into the table.                              *)
TakeTraitsUncached == TakeTraitsCaching(FALSE)

TakeTraits == TakeTraitsCaching(TRUE)

(* create_object, then the values of the members, then the dynamic         *)
(* properties.  They are collected in props, the object stays empty.       *)
CreateInstance ==
    /\ Reading("create")
    /\ UNCHANGED pos
    /\ LET traits == Head(stack).traits
           made   == CreateObject(Mappings, traits.class_name)
       IN  /\ Creatable(Mappings, traits.class_name)
           /\ Make([kind |-> made.kind, class |-> made.class,
                    pairs |-> << >>, props |-> << >>])
           /\ Become(Each([i \in DOMAIN traits.members |->
                             Assign(Fresh, "props", Str(traits.members[i]))])
                     \o (IF traits.dynamic
                         THEN <<Read("string"), KeyOf(Fresh, "props")>> ELSE << >>)
                     \o <<[op |-> "populate", id |-> Fresh]>>)

(* The mapper has no such class, or cannot make an instance.               *)
CreateFails == /\ Reading("create")
               /\ ~Creatable(Mappings, Head(stack).traits.class_name)
               /\ Escape("mapper")

(* object_deserialize, once all properties are read.                       *)
Populate ==
    /\ Reading("populate")
    /\ LET id == Head(stack).id
       IN  /\ Refusals(out[id], out[id].props) = {}
           /\ out' = [out EXCEPT ![id] =
                       [ObjectDeserialize(@, @.props) EXCEPT !.props = << >>]]
           /\ Become(<<Got(Ref(id))>>)
    /\ UNCHANGED <<pos, tables>>

(* The object keeps what it was given before.                              *)
PopulateFails ==
    /\ Reading("populate")
    /\ LET id == Head(stack).id
           refused == Refusals(out[id], out[id].props)
       IN  \E i \in refused :
             /\ \A j \in refused : i <= j
             /\ out' = [out EXCEPT ![id] =
                  [ObjectDeserialize(@, SubSeq(@.props, 1, i - 1)) EXCEPT !.props = << >>]]
    /\ Raise("mapper", "raised")
    /\ UNCHANGED pos

----------------------------------------------------------------------------
Init == /\ source = NoSource /\ pos = 0 /\ start = 0
        /\ stack = << >>
        /\ tableStrings = << >> /\ tableObjects = << >> /\ tableTraits = << >>
        /\ out = << >>
        /\ objects = << >> /\ incomplete = << >> /\ failure = "none"
        /\ pc = "idle" /\ calls = 0 /\ before = 0

Step == \/ NextMessage \/ TakeMessage \/ EndOfSource \/ ReturnObject
        \/ SourceEnds \/ Garbled
        \/ ReadMarker \/ BadMarker \/ ReadInteger \/ ReadNumber
        \/ ReadString \/ ReadContent \/ ReadDate \/ ReadStamp \/ StampFails
        \/ ReadByteArray \/ NegativeLength \/ ReadOctets
        \/ ReadArray \/ TakeArrayStart \/ TakeKey \/ TakeAssign
        \/ ReadDictionary \/ ReadWeak \/ TakeEntryKey
        \/ ReadObject \/ UnknownTraits \/ TakeTraits
        \/ CreateInstance \/ CreateFails \/ Populate \/ PopulateFails

Call == /\ calls < MaxCalls
        /\ calls' = calls + 1
        /\ (\E src \in Sources : Deserialize(src)) \/ DeserializeNil

Next == Call \/ CallReadObject \/ Step

Spec == Init /\ [][Next]_vars /\ WF_vars(Step)

----------------------------------------------------------------------------
Kinds == {"time", "bytes", "array", "hash", "typed", "object"}

TypeOK == /\ pos \in 0 .. Len(source)
          /\ start \in 0 .. Len(source)
          /\ \A i \in DOMAIN tableStrings : tableStrings[i] \in Strings \ {EmptyString}
          /\ \A i \in DOMAIN tableObjects : tableObjects[i] \in DOMAIN out
          /\ \A i \in DOMAIN out : out[i].kind \in Kinds
          /\ failure \in {"none", "AMFError", "AMFErrorIncomplete",
                          "NoMethodError", "ArgumentError", "FloatDomainError",
                          "mapper"}
          /\ pc \in {"idle", "reading", "returned", "read", "raised", "garbled"}
          /\ pc # "reading" => stack = << >>
          /\ calls \in 0 .. MaxCalls

(* What an object holds.                                                   *)
Contents(object) ==
    IF object.kind = "array" THEN Range(object.elems)
    ELSE IF object.kind \in {"hash", "typed", "object"}
    THEN UNION {{p[1], p[2]} : p \in Range(object.pairs)}
    ELSE {}

Refers(object) == {v.ref : v \in {v \in Contents(object) : Is("ref", v)}}

(* The graph of a message is its own: no reference in it, read before or   *)
(* after the object it means, reaches an object of another message.        *)
MessagesAreClosed ==
    \A i \in before + 1 .. Len(out) : Refers(out[i]) \subseteq before + 1 .. Len(out)

(* The table counts objects in the order their headers are read, as the    *)
(* writer does, whatever is read between the header and the last property. *)
TableInReadingOrder ==
    tableObjects = [i \in 1 .. Len(out) - before |-> before + i]

(* A stream of messages is split where the messages are: wherever it is    *)
(* cut, the result has one object for each that is whole, and              *)
(* incomplete_objects is what there is behind the last of them ("return    *)
(* hash {objects: [], incomplete_objects: String}").                       *)
SplitsAtMessages ==
    pc = "returned" /\ WellFramed(source) =>
        /\ Len(objects) = Cardinality(Ends(source))
        /\ \E n \in {0} \cup Ends(source) :
             /\ \A m \in Ends(source) : m <= n
             /\ incomplete = SubSeq(source, n + 1, Len(source))

(* A stream of messages is read without an error of the reader's own: what *)
(* stops deserialize in it is the cut, the mapper, which makes objects of  *)
(* the program's classes, or a time no Time can hold.                      *)
OnlyTheCutStopsTheReader ==
    [][WellFramed(source) /\ InDeserialize =>
         /\ pc' # "garbled"
         /\ failure' \in {"none", "AMFErrorIncomplete", "mapper", "FloatDomainError"}
         /\ failure' = "AMFErrorIncomplete" => Len(source) \notin Ends(source)]_vars

(* "raise AMFError if error appeared in deserialize" (deserializer.rb:32): *)
(* what deserialize raises, unless it comes from the mapper, is one of the *)
(* library's own two errors.                                               *)
RaisesAMFErrors ==
    [][InDeserialize /\ pc' = "raised" =>
         failure' \in {"AMFError", "AMFErrorIncomplete", "mapper"}]_vars

(* Every call of deserialize ends, on any source.                          *)
Terminates == pc = "reading" ~> pc # "reading"
============================================================================
