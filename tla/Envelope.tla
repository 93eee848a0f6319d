------------------------------ MODULE Envelope ------------------------------
(***************************************************************************)
(* A remoting envelope (ext/rocketamf_ext/remoting.c): one program writes  *)
(* it with a new Serializer, another populates its own from what has       *)
(* arrived of it with a new Deserializer, and does so again when more has. *)
(* FastSerializer is the writer and FastDeserializer the reader; together  *)
(* they implement Transfer for an envelope as a whole.                     *)
(***************************************************************************)
EXTENDS AMF0, MappingSet, HeapGraph

LOCAL INSTANCE SequencesExt

CONSTANTS
    Objects, Heaps, AsClassNames, UseArrayCollection, DefaultName, Unencodable,
    RubyClasses, LoadableClasses, Externals, HashClass, HashClasses,
    NoSource,
    Envelopes,          \* what may be sent: version, headers and messages
    AbstractMessages,   \* the Ruby classes derived from AbstractMessage
    MaxData             \* bound: headers and messages of an envelope

VARIABLES
    \* the writer (FastSerializer)
    heap, stream, writeVersion, depth, strCache, traitCache, objCache, todo,
    writeFailure, sent, leaked, versions,
    \* the reader (FastDeserializer)
    source, srcPos, pos, version, objTable, strTable, traitTable, made, out, stack,
    result, failure, broken,
    \* env_serialize
    envelope,           \* self
    parts,              \* what is still to be written
    \* env_populate_from_stream
    given,              \* how much of the stream has arrived
    fields, values,     \* what is still to be read, and what has been
    populated           \* self: NoSource until it is populated

Writer == INSTANCE FastSerializer WITH
            version <- writeVersion, failure <- writeFailure,
            Calls <- {}, OutsideCalls <- {}, MaxMessages <- MaxData, MaxEndless <- MaxData
Reader == INSTANCE FastDeserializer WITH
            Sources <- {}, LaterSources <- {}, BeyondTime <- {}, MaxCalls <- 0, calls <- 0

writer == <<heap, stream, writeVersion, depth, strCache, traitCache, objCache, todo,
            writeFailure, sent, leaked, versions, envelope, parts>>
reader == <<source, srcPos, pos, version, objTable, strTable, traitTable, made, out,
            stack, result, failure, broken, given, fields, values, populated>>
vars   == <<writer, reader>>

----------------------------------------------------------------------------
(* env_serialize.  A part is a string, plain tokens or data to serialize.  *)
Text16(s)  == [text |-> s]
Plain(ts)  == [tokens |-> ts]
Data(n, v) == [ver |-> n, data |-> v]

Unknown == U32(-1)      \* the length of data

HeaderParts(h) == <<Text16(h.name), Plain(<<Word(IF h.must_understand = True THEN 1 ELSE 0),
                                            Unknown>>), Data(0, h.data)>>

MessageWith(marker, e, m) ==
    <<Text16(m.target_uri), Text16(m.response_uri), Plain(<<Unknown>> \o marker),
      Data(IF e.version = 3 THEN 3 ELSE 0, m.data)>>

(* A slip: the marker is left out.                                         *)
MessagePartsUnmarked(e, m) == MessageWith(<< >>, e, m)

(* Data of version 3 is an AMF0 value of its own.                          *)
MessageParts(e, m) ==
    MessageWith(IF e.version = 3 THEN <<Word(AMF0_AMF3_MARKER)>> ELSE << >>, e, m)

PartsOf(e) ==
    <<Plain(<<U16(e.version), U16(Len(e.headers))>>)>>
    \o FlattenSeq([i \in DOMAIN e.headers |-> HeaderParts(e.headers[i])])
    \o <<Plain(<<U16(Len(e.messages))>>)>>
    \o FlattenSeq([i \in DOMAIN e.messages |-> MessageParts(e, e.messages[i])])

Writing(kind) == /\ todo = << >> /\ writeFailure = "none"
                 /\ parts # << >> /\ Is(kind, Head(parts))

Emits(tokens) == /\ stream' = stream \o tokens
                 /\ parts' = Tail(parts)
                 /\ UNCHANGED <<heap, writeVersion, depth, strCache, traitCache, objCache,
                                todo, writeFailure, sent, leaked, versions, envelope>>

WritePlain == Writing("tokens") /\ Emits(Head(parts).tokens)

(* A text that cannot be encoded, or of 2^16 bytes or more, ends it.       *)
Fits16(t) == Writer!Writable(t) /\ ByteSize[Writer!TextOf(t)] <= MaxUint16

WriteText ==
    /\ Writing("text") /\ Fits16(Head(parts).text)
    /\ LET s == Writer!TextOf(Head(parts).text)
       IN  Emits(<<U16(ByteSize[s])>> \o Content(s))

WriteTextFails == /\ Writing("text") /\ ~Fits16(Head(parts).text)
                  /\ Writer!Raise
                  /\ UNCHANGED <<stream, envelope, parts>>

WriteData == /\ Writing("data")
             /\ Writer!Serialize(Head(parts).ver, Head(parts).data)
             /\ parts' = Tail(parts)
             /\ UNCHANGED envelope

Written == parts = << >> /\ todo = << >> /\ writeFailure = "none"

----------------------------------------------------------------------------
(* env_populate_from_stream.  A field is what the reader is to read, data  *)
(* included; the counts say which fields come next.                        *)
HeaderFields  == <<"size16", "boolean", "u32", "data">>
MessageFields == <<"size16", "size16", "u32", "data">>

HeaderCnt  == values[2].num
MessageCnt == values[3 + 4 * HeaderCnt].num

Times(n, kind) == FlattenSeq([i \in 1 .. n |-> kind])

PopulateWith(new) ==
    /\ Written /\ populated = NoSource /\ Reader!CallOfProgram
    /\ source = NoSource \/ failure # "none"
    /\ \E upTo \in given + 1 .. Len(stream) :
         /\ given' = upTo
         /\ source' = [ver |-> 0, tokens |-> SubSeq(stream, 1, upTo)]
    /\ IF new
       THEN /\ srcPos' = 0 /\ pos' = 0 /\ version' = 0 /\ out' = << >>
            /\ objTable' = << >> /\ strTable' = << >> /\ traitTable' = << >> /\ made' = FALSE
       ELSE UNCHANGED <<srcPos, pos, version, out, objTable, strTable, traitTable, made>>
    /\ stack' = << >> /\ result' = Nil /\ failure' = "none" /\ broken' = 0
    /\ fields' = <<"u16", "u16">> /\ values' = << >>
    /\ UNCHANGED populated

(* A slip: the deserializer of the last call is taken again.               *)
PopulateOn == PopulateWith(FALSE)

(* A new deserializer; after one that failed, with more of the stream.     *)
Populate == PopulateWith(TRUE)

Populating == source # NoSource /\ populated = NoSource /\ failure = "none"
Reading(field) == Populating /\ stack = << >> /\ fields # << >> /\ Head(fields) = field

ReadField ==
    /\ \E field \in {"u16", "size16", "boolean", "u32"} : Reading(field)
    /\ stack' = <<Reader!Read(Head(fields)), Reader!Read("field")>>
    /\ UNCHANGED <<source, srcPos, pos, version, objTable, strTable, traitTable, made,
                   out, result, failure, broken, given, fields, values, populated>>

(* The version and the counts.                                             *)
ReadU16 == /\ Reader!Consume("u16")
           /\ Reader!Become(<<Reader!Got(Num(Reader!Token.u16))>>)
           /\ Reader!NoTables
           /\ UNCHANGED <<given, fields, values, populated>>

(* Once the headers or the messages are counted, their fields follow.      *)
TakeField ==
    /\ Reader!Taking("field")
    /\ stack' = << >>
    /\ values' = Append(values, Reader!Taken)
    /\ fields' = Tail(fields) \o
         LET n == Len(values')
         IN  IF n = 2 THEN Times(values'[2].num, HeaderFields) \o <<"u16">>
             ELSE IF n > 2 /\ n = 3 + 4 * HeaderCnt THEN Times(values'[n].num, MessageFields)
             ELSE << >>
    /\ UNCHANGED <<source, srcPos, pos, version, objTable, strTable, traitTable, made,
                   out, result, failure, broken, given, populated>>

ReadData == /\ Reading("data")
            /\ Reader!DeserializeMore(0)
            /\ fields' = <<"result">> \o Tail(fields)
            /\ UNCHANGED <<given, values, populated>>

(* A slip: the array is removed whatever is in it.                         *)
UnwrappedAlways(v) ==
    IF Is("ref", v) /\ out[v.ref].kind = "array" /\ Len(out[v.ref].elems) = 1
    THEN out[v.ref].elems[1] ELSE v

(* The flex remoting API's array around a message is removed.              *)
Unwrapped(v) ==
    IF /\ Is("ref", v) /\ out[v.ref].kind = "array" /\ Len(out[v.ref].elems) = 1
       /\ LET e == out[v.ref].elems[1]
          IN  Is("ref", e) /\ out[e.ref].kind = "object" /\ out[e.ref].class \in AbstractMessages
    THEN out[v.ref].elems[1] ELSE v

InMessages == Len(values) > 2 + 4 * HeaderCnt

TakeData == /\ Reading("result")
            /\ values' = Append(values, IF InMessages THEN Unwrapped(result) ELSE result)
            /\ fields' = Tail(fields)
            /\ UNCHANGED <<source, srcPos, pos, version, objTable, strTable, traitTable,
                           made, out, stack, result, failure, broken, given, populated>>

(* The headers are a Hash by name.                                         *)
ReadHeaders ==
    LET header(i) == <<values[4 * i - 1],
                       [name |-> values[4 * i - 1], must_understand |-> values[4 * i],
                        data |-> values[4 * i + 2]]>>
    IN  FoldLeft(LAMBDA hash, i : PutPair(hash, header(i)[1], header(i)[2]),
                 << >>, [i \in 1 .. HeaderCnt |-> i])

ReadMessages ==
    [i \in 1 .. MessageCnt |->
       LET at == 4 * (HeaderCnt + i) - 1
       IN  [target_uri |-> values[at + 1], response_uri |-> values[at + 2],
            data |-> values[at + 4]]]

(* Nothing of self is set before all has been read.                        *)
SetSelf == /\ Populating /\ stack = << >> /\ fields = << >>
           /\ populated' = [version |-> values[1].num, headers |-> ReadHeaders,
                            messages |-> ReadMessages]
           /\ UNCHANGED <<source, srcPos, pos, version, objTable, strTable, traitTable,
                          made, out, stack, result, failure, broken, given, fields, values>>

----------------------------------------------------------------------------
Init == /\ Writer!Init /\ Reader!Init
        /\ envelope \in Envelopes /\ parts = PartsOf(envelope)
        /\ given = 0 /\ fields = << >> /\ values = << >> /\ populated = NoSource

Write == /\ UNCHANGED reader
         /\ \/ WritePlain \/ WriteText \/ WriteTextFails \/ WriteData
            \/ Writer!Step /\ UNCHANGED <<envelope, parts>>

Read == /\ UNCHANGED writer
        /\ \/ ReadField \/ ReadU16 \/ TakeField \/ ReadData \/ TakeData \/ SetSelf
           \/ Reader!Step /\ UNCHANGED <<given, fields, values, populated>>

Next == Write \/ Read \/ (Populate /\ UNCHANGED writer)

(* Both methods run to their end, and all that was written arrives.        *)
Spec == Init /\ [][Next]_vars /\ WF_vars(Write) /\ WF_vars(Read)
             /\ WF_vars(Populate /\ UNCHANGED writer)

----------------------------------------------------------------------------
(* An envelope as one value of Transfer: each piece of data is a graph.    *)
AsGraphs(e, h) ==
    LET withGraph(r) == [r EXCEPT !.data = Graph(h, @)]
    IN  [e EXCEPT !.headers  = [i \in DOMAIN @ |-> withGraph(@[i])],
                  !.messages = [i \in DOMAIN @ |-> withGraph(@[i])]]

Original == AsGraphs(envelope, heap)
Copy     == AsGraphs([populated EXCEPT !.headers = [i \in DOMAIN @ |-> @[i][2]]], out)

(* Symbols come back as strings, keys and class names as well; a Date as a *)
(* Time; an object of a class the reader has no mapping for as typed.      *)
CopyOf(v, image) == IF Is("sym", v) THEN Str(Writer!TextOf(v))
                    ELSE IF Is("ref", v) THEN Ref(image[v.ref]) ELSE v

RemoteName(object) ==
    LET name == Lookup(AsClassNames, object.class)
    IN  IF object.kind = "hash" \/ name = NoName THEN EmptyString ELSE name

RubyClass(object) == Lookup(RubyClasses, CString[RemoteName(object)])

IsCopy(object, copy, image) ==
    IF object.kind \in {"time", "date"} THEN copy = [kind |-> "time", at |-> object.at]
    ELSE IF object.kind = "bytes" THEN copy = object
    ELSE IF object.kind = "array"
    THEN /\ copy.kind = "array"
         /\ copy.elems = [i \in DOMAIN object.elems |-> CopyOf(object.elems[i], image)]
    ELSE /\ <<copy.kind, copy.class>> =
               IF RubyClass(object) = NoName THEN <<"typed", RemoteName(object)>>
                                             ELSE <<"object", RubyClass(object)>>
         /\ copy.pairs = [i \in DOMAIN object.pairs |->
                            <<Str(Writer!TextOf(object.pairs[i][1])),
                              CopyOf(object.pairs[i][2], image)>>]

Faithful(original, copy) == IsFaithful(CopyOf, IsCopy, original, copy)

(* The one element of an array is the message if it is an AbstractMessage. *)
MessageIn(graph) ==
    LET o == graph.root.ref
    IN  IF /\ Is("ref", graph.root) /\ graph.heap[o].kind = "array"
           /\ Len(graph.heap[o].elems) = 1 /\ Is("ref", graph.heap[o].elems[1])
           /\ LET e == graph.heap[graph.heap[o].elems[1].ref]
              IN  e.kind = "object" /\ RubyClass(e) \in AbstractMessages
        THEN Graph(graph.heap, graph.heap[o].elems[1]) ELSE graph

(* Of headers with one name the last remains.                              *)
SameHeaders(e, copy) ==
    LET name(i)   == Str(Writer!TextOf(e.headers[i].name))
        IsLast(i) == \A j \in DOMAIN e.headers : name(j) = name(i) => j <= i
    IN  /\ Len(copy.headers) = Cardinality({i \in DOMAIN e.headers : IsLast(i)})
        /\ \A i \in {i \in DOMAIN e.headers : IsLast(i)} :
             \E h \in Range(copy.headers) :
               /\ h.name = name(i)
               /\ (h.must_understand = True) = (e.headers[i].must_understand = True)
               /\ Faithful(e.headers[i].data, h.data)

SameEnvelope(e, copy) ==
    /\ copy.version = e.version
    /\ SameHeaders(e, copy)
    /\ Len(copy.messages) = Len(e.messages)
    /\ \A i \in DOMAIN e.messages :
         LET m == e.messages[i]
         IN  /\ copy.messages[i].target_uri = Str(Writer!TextOf(m.target_uri))
             /\ copy.messages[i].response_uri = Str(Writer!TextOf(m.response_uri))
             /\ Faithful(MessageIn(m.data), copy.messages[i].data)

----------------------------------------------------------------------------
(* What the extension carries: it cannot read everything it writes.        *)
ValuesOf(object) == IF object.kind = "array" THEN object.elems
                  ELSE IF object.kind \in {"hash", "typed", "object"}
                  THEN [i \in DOMAIN object.pairs |-> object.pairs[i][2]] ELSE << >>

KeyTexts(object) == IF object.kind \in {"hash", "typed", "object"}
                    THEN [i \in DOMAIN object.pairs |-> Writer!TextOf(object.pairs[i][1])]
                    ELSE << >>

Shared(graph, o) ==
    LET refers(vs) == Cardinality({i \in DOMAIN vs : vs[i] = Ref(o)})
    IN  refers(<<graph.root>>)
        + MapThenSumSet(LAMBDA r : refers(ValuesOf(graph.heap[r])), DOMAIN graph.heap) > 1

Texts(graph) ==
    LET objects == Range(graph.heap)
        texts(vs) == {Writer!TextOf(v) : v \in {v \in vs : Is("str", v) \/ Is("sym", v)}}
    IN  texts({graph.root}) \cup UNION {texts(Range(ValuesOf(o))) \cup Range(KeyTexts(o))
                                          \cup {RemoteName(o)} : o \in {o \in objects : Is("pairs", o)}}

(* In any version: what has a type, and objects the reader maps, but to    *)
(* a Hash, have no property.                                               *)
Readable(object) ==
    /\ object.kind # "opaque" /\ ~Is("calls", object)
    /\ IsInjective(KeyTexts(object))
    /\ Is("class", object) /\ RubyClass(object) \notin HashClasses \cup {NoName}
          => object.pairs = << >>

(* AMF0 has no byte arrays, and no references to times.                    *)
Carried0(graph) ==
    \A o \in DOMAIN graph.heap :
      /\ graph.heap[o].kind # "bytes"
      /\ graph.heap[o].kind \in {"time", "date"} => ~Shared(graph, o)

(* In AMF3 an empty key ends an object, a text is known by what stands     *)
(* before its first NUL, and of an ArrayCollection only the array itself   *)
(* has the same index on both sides.                                       *)
Carried3(graph) ==
    /\ \A o \in Range(graph.heap) : EmptyString \notin Range(KeyTexts(o))
    /\ \A s, t \in Texts(graph) : CString[s] = CString[t] => s = t
    /\ \A o \in DOMAIN graph.heap :
         graph.heap[o].kind = "array" /\ Writer!IsCollection(o) =>
           \A r \in Reached(graph.heap, Ref(o)) \ {o} : ~Shared(graph, r)

Carried(ver, graph) == /\ \A o \in Range(graph.heap) : Readable(o)
                       /\ IF ver = 3 THEN Carried3(graph) ELSE Carried0(graph)

Promised == /\ \A i \in DOMAIN envelope.headers : Carried(0, Original.headers[i].data)
            /\ \A i \in DOMAIN envelope.messages :
                 Carried(envelope.version, Original.messages[i].data)

----------------------------------------------------------------------------
Sent     == IF Written /\ Promised THEN <<Original>> ELSE << >>
Received == IF populated # NoSource /\ Promised THEN <<Copy>> ELSE << >>

Abstract == INSTANCE Transfer WITH
                Values <- {AsGraphs(e, h) : e \in Envelopes, h \in Heaps},
                Same <- SameEnvelope, sent <- Sent, received <- Received,
                MaxMessages <- 1

(* What populate_from_stream makes of an envelope is that envelope: its    *)
(* headers by name, its messages in order, without the array around a flex *)
(* message, each piece of data a faithful copy of its own.                 *)
ImplementsTransfer == Abstract!Safety

(* An envelope that was written is populated in the end, however it came.  *)
EverythingArrives == Abstract!Delivery

(* Nothing but the missing rest makes populate_from_stream raise, and no   *)
(* part of an envelope is ever taken for the whole.                        *)
FailsExactlyWhenCut ==
    Written /\ Promised =>
        /\ failure \in {"none", "RangeError"}
        /\ failure = "RangeError" => given < Len(stream)
        /\ populated # NoSource => given = Len(stream)
=============================================================================
