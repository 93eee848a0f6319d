----------------------------- MODULE RoundTrip ------------------------------
(***************************************************************************)
(* A program that serializes values one after the other into one stream,   *)
(* and a program that reads the stream in chunks of any size, as they      *)
(* arrive, and passes what a call of deserialize left (incomplete_objects) *)
(* to the next call, before the next chunk.                                *)
(*                                                                         *)
(* Serializer is the writer and Deserializer the reader; together they     *)
(* implement Transfer.                                                     *)
(***************************************************************************)
EXTENDS Mapper, HeapGraph

CONSTANTS
    Objects, Heaps, Roots, DefaultName, Unencodable, NaN,
    MaxMessages,        \* bound: messages
    WriterMappings,     \* the MappingSet of the program that writes
    ReaderMappings      \* and of the one that reads

VARIABLES
    \* the writer (Serializer)
    heap, stream, depth, cacheStrings, cacheObjects, cacheTraits, todo, sent, leaked,
    \* the reader (Deserializer)
    source, pos, start, stack, tableStrings, tableObjects, tableTraits, out,
    objects, incomplete, failure, pc, before,
    \* between them
    arrived,            \* how much of the stream the reader was given
    delivered           \* the objects earlier calls of deserialize returned

Writer == INSTANCE Serializer WITH Mappings <- WriterMappings, Blobs <- {}
Reader == INSTANCE Deserializer WITH Mappings <- ReaderMappings,
                                     Sources <- {}, MaxCalls <- 0, calls <- 0,
                                     Infinities <- {}

writer  == <<heap, stream, depth, cacheStrings, cacheObjects, cacheTraits, todo,
             sent, leaked>>
reader  == <<source, pos, start, stack, tableStrings, tableObjects, tableTraits,
             out, objects, incomplete, failure, pc, before>>
between == <<arrived, delivered>>
vars    == <<writer, reader, between>>

----------------------------------------------------------------------------
(* serialize returns the stream when a message is complete.                *)
Flushed == IF todo = << >> THEN Len(stream) ELSE sent[Len(sent)].from

(* A slip: the program drops incomplete_objects.                           *)
ReceiveWithoutCarry ==
    /\ pc # "reading" /\ todo = << >>
    /\ \E upTo \in arrived + 1 .. Flushed :
         /\ Reader!Deserialize(SubSeq(stream, arrived + 1, upTo))
         /\ arrived' = upTo
    /\ delivered' = delivered \o objects
    /\ UNCHANGED writer

(* Some of what was returned arrives, and deserialize is called with it.   *)
Receive == /\ pc # "reading" /\ todo = << >>
           /\ \E upTo \in arrived + 1 .. Flushed :
                /\ Reader!Deserialize(incomplete \o SubSeq(stream, arrived + 1, upTo))
                /\ arrived' = upTo
           /\ delivered' = delivered \o objects
           /\ UNCHANGED writer

(* A step of the writer and a step of the reader commute; they are taken   *)
(* one call at a time.                                                     *)
Send == /\ pc # "reading"
        /\ \E v \in Roots : Writer!Serialize(v)
        /\ UNCHANGED <<reader, between>>

Write == Writer!Step /\ UNCHANGED <<reader, between>>

Read == Reader!Step /\ UNCHANGED <<writer, between>>

Init == /\ Writer!Init /\ Reader!Init
        /\ arrived = 0 /\ delivered = << >>

Next == Send \/ Write \/ Receive \/ Read

(* Calls end, and what was written arrives in the end.                     *)
Spec == /\ Init /\ [][Next]_vars
        /\ WF_vars(Write) /\ WF_vars(Read) /\ WF_vars(Receive)

----------------------------------------------------------------------------
(* A value that was sent is a root in a heap, a value that was received is *)
(* a root among the objects made.                                          *)

(* What becomes of a value: symbols come back as strings, NaN as nil, a    *)
(* Date as a Time, an integer of more than 29 bits as an equal float.      *)
CopyOf(v, image) == IF Is("sym", v) THEN Str(v.sym)
                    ELSE IF v = Float(NaN) THEN Nil
                    ELSE IF Is("ref", v) THEN Ref(image[v.ref])
                    ELSE v

CopyOfPairs(pairs, image) ==
    [i \in DOMAIN pairs |-> <<Str(Text(pairs[i][1])), CopyOf(pairs[i][2], image)>>]

(* An object comes back as the class its remote name is mapped to, a       *)
(* HashWithType if to none, and a Hash if it had no remote name.           *)
IsCopy(object, copy, image) ==
    IF object.kind \in {"time", "date"} THEN copy = [kind |-> "time", at |-> object.at]
    ELSE IF object.kind = "bytes" THEN copy = object
    ELSE IF object.kind = "array"
    THEN copy = [object EXCEPT !.elems =
                   [i \in DOMAIN @ |-> CopyOf(@[i], image)]]
    ELSE LET made == CreateObject(ReaderMappings, RemoteName(WriterMappings, object))
         IN  /\ copy.kind = made.kind
             /\ copy.class = made.class
             /\ copy.pairs = CopyOfPairs(object.pairs, image)

Faithful(original, copy) == IsFaithful(CopyOf, IsCopy, original, copy)

----------------------------------------------------------------------------
(* A Hash comes back without the entries that Hash has a setter for, which *)
(* are its default then; nothing else is any different for it.             *)
Kept(object) ==
    IF object.kind # "hash" THEN object
    ELSE [object EXCEPT !.pairs =
            SelectSeq(@, LAMBDA p : Text(p[1]) \notin Setters[HashClass])]

Sendable(h, v) == Graph([o \in DOMAIN h |-> Kept(h[o])], v)

(* Transfer, as these two programs implement it.  A message counts as sent *)
(* once the writer has returned it.                                        *)
Originals == [i \in 1 .. Len(sent) - (IF todo = << >> THEN 0 ELSE 1) |->
                Sendable(sent[i].heap, sent[i].root)]

Received == LET roots == delivered \o objects
            IN  [i \in DOMAIN roots |-> Graph(out, roots[i])]

Abstract == INSTANCE Transfer WITH
                Values <- {Sendable(h, v) : h \in Heaps, v \in Roots},
                Same <- Faithful, sent <- Originals, received <- Received

(* Every value that arrives is the next one that was sent, as a faithful   *)
(* copy, wherever the stream is cut: no object is doubled or confused with *)
(* another, within a message or between two.                               *)
ImplementsTransfer == Abstract!Safety

(* Every message arrives: what a call of deserialize leaves undone, the    *)
(* call with the rest of it completes.                                     *)
EverythingArrives == Abstract!Delivery

(* What was left undone is never more than the last message, and nothing   *)
(* once the reader has everything: no token is read twice or dropped.      *)
LeavesOnlyTheLast ==
    pc = "returned" =>
        LET n == Len(Received)
        IN  IF n = Len(sent) THEN incomplete = << >> /\ arrived = Len(stream)
            ELSE Len(incomplete) = arrived - sent[n + 1].from

(* Traits that encode_amf passes reduce the data (serializer.rb:94-95) and  *)
(* nothing else: what is written with them arrives like anything.          *)
TraitsOnlyReduceData ==
    \A i \in DOMAIN Received :
        i \in DOMAIN Originals /\ Faithful(Originals[i], Received[i])
=============================================================================
