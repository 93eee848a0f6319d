# A verification development for mrpin-amf

mrpin-amf is a Ruby library that serializes Ruby values to AMF3 and back, with a
C extension that also knows AMF0. `AMF.serialize` and `AMF.deserialize` (lib/amf.rb) are its whole public use:
a message is one value with everything it reaches, written with references
instead of copies, and a source may hold several messages and end in the middle
of one. This directory holds TLA+ models of that code, the TLC configurations
that check them, and TLAPS proofs about them. Paths below are relative to the
repository (`src/` here).

## 1. Inventory

| Component | Code | State | Operations |
|---|---|---|---|
| 29-bit integers | `pure/helpers/io_helper_write.rb`, `io_helper_read.rb`, `amf3_read_integer` | position in the source | `pack_integer`, `read_word8`, the byte loop |
| Mapping tables | `pure/mapping/mapping_set.rb` | two Hashes | `register_class_alias`, two lookups |
| Class mapper | `pure/mapping/class_mapper.rb` | class level: the current MappingSet; instance: the one it captured | `register_class_alias`, `register_classes`, `reset`, `new`, `create_object`, `object_deserialize`, `object_serialize`, `get_class_name_remote` |
| Writer caches | `pure/helpers/cache_objects.rb`, `cache_strings.rb` | a Hash and a counter | lookup, add |
| Serializer | `pure/serializer.rb` | stream, depth, three caches | `serialize`, `write_array`, `write_object`, `amf3_write_*`, calls of user `encode_amf` |
| Deserializer | `pure/deserializer.rb` | source, position, three tables, result | `deserialize`, `read_object`, `amf3_read_*`, rescue |
| HashWithType | `common/hash_with_type.rb` | a Hash and its type | none of its own |
| Errors | `pure/errors/*.rb` | none | AMFError, AMFErrorIncomplete |
| Facade | `lib/amf.rb` | the current ClassMapper class | `AMF.serialize`, `AMF.deserialize` |
| C class mapping | `ext/rocketamf_ext/class_mapping.c` | class level: the FastMappingSet, made when it is first asked for, `use_array_collection`; instance: what it captured, property lists | `map_defaults`, `map`, `define`, `reset`, `new`, `get_ruby_obj`, `populate_ruby_obj`, `get_as_class_name`, `props_for_serialization` |
| C serializer | `ext/rocketamf_ext/serializer.c` | stream, version, depth, three tables with counters of their own, or NULL | `serialize`, `write_array`, `write_object` in AMF0 and AMF3, calls of user `encode_amf` and `write_external` |
| C deserializer | `ext/rocketamf_ext/deserializer.c` | StringIO and a position of its own, version, three tables | `deserialize`, `read_object`, `des0_*`, `des3_*`, calls of user `read_external` |
| C envelope | `ext/rocketamf_ext/remoting.c` | version, headers, messages | `populate_from_stream`, `serialize` |

`lib/amf.rb` loads the Ruby implementation only. The extension is code of the
repository that is built by `rake compile` and has specs, but a program has to
load it itself, and it looks for classes (`RocketAMF::Types::TypedHash`) that
this repository has under other names; the models of it take a program that has
them.

**Interaction.** The facade makes one Serializer or Deserializer per call, with a
new ClassMapper instance that captures the class-level MappingSet of that moment.
The serializer asks the mapper for names and properties, and calls user code
(`encode_amf`) that calls it back. The deserializer asks the mapper to make
objects and to fill them. Writer and reader share nothing but the stream; that
their tables agree is a protocol between two programs that never compare them.
What is left of a source (`incomplete_objects`) goes through the calling program
back into the next source. The parts of the extension interact in the same way;
there the deserializer also shares the StringIO with user code (`read_external`),
and its position has to be carried back and forth. An envelope is where the writer
and the reader of the extension meet: `env_serialize` calls the one and
`env_populate_from_stream` the other for each piece of data, and both change
version in between.

**What is hard here.** There are no threads. The difficulty is agreement over
long sequences of steps: the reader must number strings, objects and traits in
exactly the order in which the writer numbered them, over recursion, cycles,
call-backs, several messages, exceptions in the middle, and sources cut at any
byte. A mistake in one number appears far away, as a wrong object. The list of
these hazards, each with its line, is in `PROJECT.json`.

**What makes each component correct.**
- Integers: what is read is what was packed, no byte of what follows is looked
  at, and a cut is noticed exactly when there is one.
- Mapping: the tables hold what was registered since the reset; lookups are
  inverse to one another if the registrations are; a running call is not touched
  by a reset.
- Serializer: caches number without gaps, an entry never changes within a
  message, the string cache is the list of inline strings of the stream, `@depth`
  counts calls, a message begins with empty caches, every call ends.
- Deserializer: objects are numbered in the order of their headers, messages are
  split where they end, the rest is exactly the incomplete message, messages
  share nothing, every call ends.
- C class mapping: a lookup leaves the tables as they are, although it writes
  over the names in them; what is mapped is listed; property lists are those of
  the class.
- C serializer: as the serializer, and an ArrayCollection has two numbers; no
  message of one version looks into a table that was not made.
- C deserializer: between calls both positions are at the end of a message; a
  call fails only where no whole message is left, or where the message holds what
  this reader or the program's mapping does not take.
- C envelope: what is populated is what was serialized, each piece of data with
  tables of its own; a part that has arrived is never taken for the whole, and
  populating can be tried again.
- Together: the same graphs, one after the other, none lost or doubled.

## 2. Modules

| Module | Models | Extends / instantiates |
|---|---|---|
| `U29` | `pack_integer` as a function, the reader byte by byte | |
| `MappingSet` | the tables and lookups, as operators | |
| `ClassMapper` | registration, batches, reset, mappers in use | `MappingSet` |
| `AMF3` | values, tokens, markers | |
| `Mapper` | the instance methods of ClassMapper, as operators | `AMF3`, `MappingSet` |
| `Serializer` | the AMF3 writer | `Mapper` |
| `HeapGraph` | graphs of objects: equal keys, reachability, faithful copies | `AMF3` |
| `Framing` | what a stream of AMF3 messages is: what it wants next, and where messages end | `AMF3` |
| `Deserializer` | the AMF3 reader | `Mapper`, `HeapGraph`, `Framing` |
| `Transfer` | the abstract specification: values go across as faithful copies | |
| `RoundTrip` | writer, stream in chunks, reader, program | instances of `Serializer`, `Deserializer`, `Transfer` |
| `AMF0` | markers and tokens of AMF0, C strings | `AMF3` |
| `FastClassMapping` | the class mapping of the extension | `MappingSet` |
| `FastSerializer` | the AMF0 and AMF3 writer of the extension | `AMF0`, `MappingSet` |
| `FastDeserializer` | the AMF0 and AMF3 reader of the extension | `AMF0`, `MappingSet`, `HeapGraph` |
| `Envelope` | a remoting envelope, written and populated | instances of `FastSerializer`, `FastDeserializer`, `Transfer` |
| `U29Proofs`, `ClassMapperProofs`, `SerializerProofs`, `DeserializerProofs`, `FastClassMappingProofs`, `FastSerializerProofs`, `FastDeserializerProofs` | theorems and proofs | the module named, `TLAPS` or `StackLemmas` |
| `StackLemmas` | lemmas the proofs share: recursion, sequences used as stacks | `TLAPS` and the library's theorems |
| `MC...` | constants for TLC | |

### Correspondence

*Tokens.* A stream is a sequence of tokens: a packed integer or a marker byte
(one constructor, because a marker and a small integer are the same byte), the
bytes of a string or byte array, a double. Names, keys and contents are members
of a small set with a length each. `U29` is where a packed integer is made of
bytes; the other modules take from it that an integer is read back and is
delimited, which is what its theorems say.

*Recursion.* `Serializer!todo` and `Deserializer!stack` are the Ruby call stack:
the head is what the innermost call does next, the rest what its callers do
afterwards. One step is one `amf3_write_*` or `amf3_read_*` method up to its
first nested call, so that all the code does before that call, such as the entry
it makes in the object cache, is in the same action. An exception empties the
stack. In the serializer nothing is restored (`Abort`); in the deserializer
`Rescue` is the rescue clause and `Escape` any other exception, `EscapeRead` one
that is raised when a token has been read. `CallReadObject`
is `read_object` of a deserializer that the program holds on to: it has no rescue,
and it goes on in the source and with the tables as the last call left them, which
after an `Escape` is inside a message.

*User code.* An object with `encode_amf` carries the calls its method makes
(`serialize`, `write_array`, `write_object` with or without properties and
traits, or raising), which become actions of their own. A setter that
`object_deserialize` calls is user code as well, or a method of Hash: `Refuses`
says which keys and values it raises for (`Hash#default_proc=` takes no number,
for one), and the object keeps what it was given before (`PopulateFails`). What
comes out of the mapper in any way is the failure `"mapper"`.

*Objects.* `heap` and `out` map identities to objects, so that sharing, cycles and
`eql?` on dictionary keys (`SameKey`) can be told apart. `before` is a history
variable: how many objects existed when this message began. `sent`, `leaked` and
`registrations` are history variables too; no guard reads them except the bound
on the number of messages.

*Streams.* `Framing` is no model of code. It says what the AMF3 format calls a
stream of messages, for the properties that speak of valid streams: a sequence of
items that are still wanted, of which each token takes the first and puts what it
announces in its place (a header of an array with n elements announces n values),
and the numbers of strings, objects and traits the message has sent, which say
what references mean something. A message is over when nothing is wanted.

*Reader and bytes.* A read that finds a token of another kind leaves the model in
`pc = "garbled"`: what Ruby would make of those bytes is not modelled, and runs
check, and a theorem shows, that no valid stream leads there
(`OnlyTheCutStopsTheReader`; in `RoundTrip` nothing would arrive behind it).

*RoundTrip.* The program calls `serialize` and `deserialize` one call at a time.
Since the two sides share only the flushed part of the stream, a step of the
writer and a step of the reader commute, and every interleaving of them leads to
a state that is also reached this way. A receiver gets any non-empty piece of
what has been returned by `serialize` and has not arrived, prepends
`incomplete_objects`, and calls `deserialize`.

*The extension.* `FastSerializer` and `FastDeserializer` are built like their Ruby
counterparts. Each pending call has the version it runs in, beside the `version`
of the struct, which a nested call changes. A table has its counter apart, since
an ArrayCollection moves it by two, and a table can be NULL (`made`). Where C
looks into a NULL table the process ends: `failure = "crashed"` in the writer,
`"undefined"` in the reader, which also stands for an index below 0. `WriteOutside`
is `write_array` or `write_object` called by the program itself: outside a message
there are tables only if an earlier one has failed. `CString`
is what C sees of a string with a NUL in it. In `FastClassMapping` a Ruby class
name is a sequence of segments, because `get_ruby_obj` puts a NUL between them
while it resolves the name; what is read behind the end of the array of default
classes is a choice (`Strays`, or an exception). An object whose class has
`read_external` carries what that method does: read an object, read bytes from
the StringIO, or raise.

*Envelope.* `env_serialize` is a list of `parts`: strings, plain tokens, and data,
for which the writer is called. `env_populate_from_stream` is a list of `fields`
to read; the two counts say how many follow. `stream` is the whole envelope, and
a receiver has the first `given` tokens of it. `Populate` makes a new deserializer
for them; when it has failed, it is called again with more. Nothing of `self`
(`populated`) is set before the last field has been read.

*Slips.* A definition whose comment begins "A slip" or "Slips" is no part of the
model: it is the following definition as a plausible mistake would have it, and
is there to see that the properties notice. Where the two have a body in common,
a definition in front of them has it, with what differs as a parameter
(`EnterWith`, `EndFreeing`, `TakeTraitsCaching`). `PROJECT.json` pairs each property
with a slip.

## 3. Runs

| Run | Question | Bounds |
|---|---|---|
| `u29` | Are integers read back from any cut? | both sides of every border of width and sign, the extremes beyond 29 bits; three kinds of following bytes; every cut |
| `classmapper` | Do registrations, a batch, a reset and running calls get in each other's way? | 2 classes, 2 remote names, 2 mappers, 2 MappingSets |
| `serializer` | Do the caches stay right over cycles, call-backs, failures and a second message on the same serializer? | 99 heaps of 3 objects, 2 roots, 2 messages |
| `deserializer` | Is any valid stream read and split right, cut anywhere, and how does it fail? What does `read_object` find afterwards? | 7 messages in all pairs, and 2 followed by one of 5 well formed ones that fail and 5 others, every cut; one call of `deserialize`, one of `read_object` |
| `roundtrip` | Does what is written arrive, whatever the chunks? | 14 heaps of 3 objects, one with a key that has a setter in Hash; 2 messages, every partition into chunks |
| `fast_class_mapping` | What do lookups that fail, resets and changes of classes do to mappings and property lists? | 1 AS name besides 3 of the default pairs, Ruby names of 1 or 2 segments, 1 mapper, `MaxSets`, `MaxChanges` 2 |
| `fast_serializer` | Do tables and versions stay right over shared and cyclic objects, call-backs of both versions, failures, a second message, and calls outside any message? | 370 heaps of 3 objects, calls in both versions, 2 of them; `MaxUint16` 1, `MaxEndless` 20 |
| `fast_deserializer` | Is every source read and left at a message, cut anywhere or broken, whatever is called next? | 10 messages of both versions followed by another and 6 that the extension cannot read, every cut; 13 broken ones; 3 calls |
| `envelope` | Is an envelope populated as it was serialized, whatever part of it arrives first? | 10 heaps of 3 objects in each of 5 envelopes of both versions, every cut; `MaxData` 4 |
| `doc_errors`, `traits_by_name`, `fast_names` | see Findings | as above |

*Why the bounds are enough.* Every rule of the protocol concerns the first and the
second occurrence of something, so two messages, a shared and a self-referring
object, and two strings of which one repeats make each rule matter. Three
objects give the shortest cycle through an object that is shared as well. Shapes
of the first object go over every branch of `amf3_serialize`, shapes of the
second over every kind of shared object. Two MappingSets are one reset; a second
reset does nothing the first did not, since a MappingSet that is not current is
only read. A new call of `deserialize` makes a new Deserializer, so one call is
enough in `deserializer`; `roundtrip` has as many calls as there are chunks.
`MaxMessages`, `MaxCalls`, `MaxSets` and `MaxChanges` are the named bounds.
`MaxEndless` is how far a call is followed whose user code leads back to itself
(`Endless`), which would go on until the stack of the process is used up.
`MaxData` bounds the headers and messages of an envelope and is more than any of
them has. `MaxUint16` is a constant of the code (65535), which `MCFastSerializer` makes 1 so
that its heaps have strings and references beyond it; in `MCEnvelope` it is what it is in
the code, and one string is longer. A third call in
`fast_deserializer` is one after a call that failed and one that went on behind
it; sources after the first are a StringIO that is not at its start and an AMF0
message (`LaterSources`), which are what a later call can find different. `MCDeserializer`
takes messages from `spec/fixtures` in shortened form and adds what this
serializer never writes: dictionaries, associative arrays, shared traits,
references to an array from within it.

*Deadlock.* `MCSerializer`, `MCDeserializer`, `MCRoundTrip`, `MCFastSerializer`,
`MCFastDeserializer` and `MCEnvelope` turn the deadlock
check off, because the program may stop after its last message; that calls do
not get stuck on the way is the liveness property `Terminates`. `u29` has a
stuttering end action and is checked for deadlock; `classmapper` and
`fast_class_mapping` always have a next step.

*Fairness.* `WF` is on the steps of a call that is running: these are statements of
one Ruby method after another, and nothing but an exception, which is a step,
stops them. New calls of the program are not fair. In `RoundTrip` there is also
`WF` on `Receive`: bytes that `serialize` returned are delivered in the end, and
the program reads them. It is weak and says nothing of how they are cut. In
`Envelope` it is on the steps of the two methods and on `Populate`: a receiver whose
attempt failed tries again when more has arrived.

### Properties beyond types

- `U29`: `ReadsBack`, `SelfDelimiting`, `IncompleteIffCut`.
- `ClassMapper`: `TablesHoldRegistrations`, `BiDirectionalIfOneToOne`,
  `CallsKeepTheirMappings` (an action property).
- `Serializer`: `CachesDense`, `IndicesNeverChange` (action property),
  `StaleOnlyAfterFailure` (what `@depth` counts, and what an exception leaves), `StringTableIsStream`, `LosesOnlySealed`
  (what writing does to the objects of the program), `Terminates`.
- `Deserializer`: `TableInReadingOrder`, `MessagesAreClosed`, `SplitsAtMessages`,
  `OnlyTheCutStopsTheReader` (action property), `Terminates`.
- `RoundTrip`: `ImplementsTransfer` (refinement of `Transfer!Safety`),
  `EverythingArrives` (its liveness), `LeavesOnlyTheLast`.
- `FastClassMapping`: `LoadedNamespacesStayWhole`, `PropsExactUnlessChanged`.
- `FastSerializer`: `OwnIndices`, `IndicesNeverChange` (action property),
  `StaleOnlyAfterFailure`, `CrashesOnlyOutsideOrAcross`, `Terminates`.
- `FastDeserializer`: `StopsAtMessages`, `OnlyCutsAndMappingsFail`, `Terminates`.
- `Envelope`: `ImplementsTransfer` and `EverythingArrives` (an envelope as one value
  of `Transfer`), `FailsExactlyWhenCut`.

The refinement mapping takes a message as sent when the outermost `serialize`
has returned, and as received when `deserialize` has appended it to `objects`.
A received graph is a faithful copy if a one-to-one map of the objects relates
the roots and the contents of all objects reached. So sharing and cycles have to
be the same on both sides, and two objects may not become one. A Hash's "default"
entry does not arrive as an entry (`Hash#default=` takes it, `Sendable`), but what
it refers to keeps its number.

`OnlyTheCutStopsTheReader` does not say that a valid stream is read to its end. A
setter that raises, a class that is not there, and a date that is no finite number
(`Time.at` raises FloatDomainError) end `deserialize` in the middle of one, and the
messages before it are lost to the program. It says that nothing else does: the
tables always have what a reference asks for, and every token is one the read
expects. In the same way `OnlyCutsAndMappingsFail` names all that makes the reader of the
extension fail on a message another writer has written in full: a date no time_t
holds, a class that is mapped and not there, a `read_external` that raises, and
any property of a mapped class that is no Hash, whose keys are strings where the mapper wants
symbols. `Terminates` of `FastSerializer` leaves out user code that leads back to
itself: an `encode_amf` that serializes its own object again, or, in AMF0, that
writes an array which holds it.

The extension cannot read all that it writes, and nothing in the repository says
that it can. `Promised` says what an envelope may hold for its properties to
apply: no objects that write nothing or encode themselves; no properties in an
object whose class the reader maps; no two keys alike. In AMF0 no byte arrays and
no time that is referred to twice. In AMF3 no empty key, no two texts that differ
only behind a NUL, and nothing inside an ArrayCollection that is referred to
twice. Envelopes beyond that are in the run too, and only their writing and
reading is left open.

### Findings

Three runs find a statement of the repository violated by its code:
1. `doc_errors`: the comment above `deserialize` (`deserializer.rb:32-33`) says
   "raise AMFError if error appeared in deserialize, source is nil" and "raise
   AMFErrorIncomplete if source is incomplete". It rescues both, and what it raises
   is something else: for an object whose traits are in no table, NoMethodError.
2. `traits_by_name`: traits are cached by class name alone. When one instance is
   written with traits that `encode_amf` passed and another without, the second
   is written against the traits of the first and the reader misreads it.
3. `fast_names`: `get_ruby_obj` puts a NUL into the registered class name and
   `rb_const_get` may raise before "Restore correct char" is reached. The name
   stays cut, and when the namespace has been loaded, instances of the namespace
   itself are made.

Seen while modelling, and in the models, without a run of their own:
- `deserialize` returns `incomplete_objects` for invalid data as for incomplete
  data (`Rescue`), so a program that waits for the rest waits for ever.
- A HashWithType ("used to preserve type information for unmapped objects after
  deserialization", `hash_with_type.rb:2-3`) has its type after it was read; when it
  is serialized again, its type is looked up among the Ruby classes
  (`class_mapper.rb:82`), and unless it is one of them the object is written
  without a type (`RemoteName`; `roundtrip` has such a heap).
- Registering a name again leaves its old partner in the other table
  (`mapping_set.rb:30`), so the mapping is bi-directional, as `lib/amf.rb:21-22`
  says, only for registrations that are one to one (`BiDirectionalIfOneToOne`).
- `map_defaults` (`class_mapping.c:89`) counts 9 mappings and lists 8 Ruby classes:
  all from AcknowledgeMessage on are shifted and the last is read from behind the
  array.
- The reader of the extension numbers the array inside an ArrayCollection before
  its contents and again after them (`deserializer.c:386`), the writer both times
  before (`serializer.c:366`): references to what is inside go astray.
- In the extension a `serialize` call of version 3 inside a message of version 0,
  or in one after a message of version 0 that failed, looks into a NULL table and
  ends the process. So does `write_array` or `write_object` that is called outside a
  message (`serializer.c:772-811`), in any version. `CrashesOnlyOutsideOrAcross`
  shows that there is no other way there.
- In AMF0 an `encode_amf` that passes `write_array` an array with its own object
  in it never ends: the array is written without being looked up
  (`serializer.c:119-133`), and the object is in no table (`Endless`).
- The extension casts a date to a `time_t` (`deserializer.c:239-247`, `471-473`); C does
  not define what becomes of NaN, or of a number that is too large (`StampFails`).
- The deserializer of the extension passes properties with String keys
  (`deserializer.c:415`) to a mapper that raises for keys that are no Symbols
  (`class_mapping.c:349`), so an object of a mapped class with any property
  cannot be read.

## 4. Proofs

TLC finds each of these formulas true on the instances above; the theorems hold
for all values of the constants that satisfy the named assumptions.

- `U29Proofs` (from `ValuesAssumption`, `FollowersAssumption`): for any set of
  integers and any following bytes, `TypeOK`, `ReadsBack`, `SelfDelimiting` and
  `IncompleteIffCut`. None of them is inductive: they say nothing of a reader in
  the middle of an integer. The invariant proved is `IInv`, with the relation
  `Progress` between the bytes consumed, the number of turns and the bits
  accumulated: after n turns the result is the leading 7n bits of what
  `PackInteger` wrote. The arithmetic (that four pieces of a number make the
  number) is in lemmas of its own.
- `ClassMapperProofs` (from `BatchesAssumption`, `MaxSetsAssumption`): `TypeOK`,
  `TablesHoldRegistrations`, from it `BiDirectionalIfOneToOne`, and
  `CallsKeepTheirMappings`. `TypeOK /\ TablesHoldRegistrations` is inductive:
  the type invariant says that the current MappingSet is the last one and every
  mapper in use holds one that exists. The third theorem is a lemma about one
  MappingSet: if the registrations are one to one, tables that hold exactly them
  are inverse to one another.
- `SerializerProofs`. `CachesDense` and `IndicesNeverChange` hold without any
  assumption: each action leaves a cache alone, adds one new key to it, or empties
  it, and a cache whose indices are a numbering of its keys stays one under each
  (the strengthening: the indices are a bijection to `0 .. next - 1`). A cache is
  emptied only where `depth` is 0 before or after. `TypeOK` and
  `StaleOnlyAfterFailure` are from `SerializerAssumption`: heaps are heaps and
  roots are values (`IsHeap`, `IsValue`). The invariant is `WorkInv`, the type of
  every pending call, and `DepthInv`: `depth` is the number of pending `leave`s
  plus the calls that exceptions have left uncounted (`leaked`), and a message
  that is being written has a `leave` at the bottom of the stack. `WriteSealed`
  and `DeleteSealed`, which change an object of the program while others are
  pending, need that all pending calls remain calls on the changed heap.
  `StringTableIsStream` follows from `TableInv`: an inline string's index is the number of
  inline strings before it in the message. What each step may emit (`Writes`) is
  any number of tokens that are no inline strings and, behind them, at most one
  string, which is new to the cache; or a string that has no entry is never
  referred to. The contents of byte arrays are labels apart from the strings
  (`Blobs`): no code compares the two, and a reader does not number them.
  `LosesOnlySealed` is relative to the heap the message began with. A pending call deletes a
  member only where `encode_amf` has passed traits that seal it (`MaySeal`,
  `MayCall`, in `WorkInv`), taking one member out keeps the others in their order
  (`WithoutKeeps`), and what keeps the others twice keeps them (`KeepsTwice`).
- `DeserializerProofs` (from `DeserializerAssumption`: a source is a sequence of
  tokens; valid or not, cut or not, for any MappingSet): `TypeOK`,
  `TableInReadingOrder`, `MessagesAreClosed`, `SplitsAtMessages` and
  `OnlyTheCutStopsTheReader`. The invariant of the first three is `IInv`.
  `SourceInv` has the bounds of both positions. `HeapInv` says that `tableObjects`
  is exactly the objects made since `before`, in order, and that each of these
  refers to objects of the same message only. That is inductive with `StackInv`
  alone: every value held by a pending call (`got`, `assign`, `populate` and so
  on) is of this message too, and objects that a pending call will write into
  exist and have that field. `TextInv` has the types of the string and traits tables. A
  message begins with `before' = Len(out')`, whether its tables are emptied or the
  deserializer is new, and an `Escape` leaves the tables as they are, so
  `read_object` after it goes on in the same message.

  The last two say something of every stream of messages `Framing` admits and every
  place where it may be cut. Their invariant, `ReaderInv`, joins two pictures of a
  message that is half read. `Frame` is what the stream wants at `pos`. What the
  reader wants is on its stack: `Related` takes the items each call waits for, one
  call after the other (a `create` wants the members of its traits, a `key` wants
  pairs up to an empty key), and `Match` adds that the tables are as long as what
  the message has sent, where an object counts from its header on (`Pending`).
  `ReadInv` says that both agree while `pos` is inside a message, that there are as
  many objects as messages behind `start`, and that the result is split there. It is
  inductive only with the shape of the stack (`IsShaped`: which calls may lie on
  which) and with `InnerInv`, that above the program's own call there is nothing but
  calls of the reader. Each read then has one lemma (`...Follows`), that what it
  puts on the stack is what the token announces; a token the stream admits is one
  the reader expects, so that no read is garbled and no reference misses its table.
  `OnlyTheCutStopsTheReader` is then a statement about each step from such a state:
  no action that refuses a token is enabled, the source ends only inside a message
  that is not whole, and the exceptions that are left are those of the mapper and of
  `Time.at`.
- `FastClassMappingProofs` (from `FastClassMappingAssumption`: names are not empty and
  the mark for no name is none): `TypeOK`, `LoadedNamespacesStayWhole` and
  `PropsExactUnlessChanged`. The types need more than is stated: a MappingSet may
  hold names that have been cut, so its names are any non-empty sequences. The
  strengthening for the second (`SetsInv`) is that each name in a table is a registered one of
  which the part in front of the cut is left (`Remains`); that a name whose namespaces are loaded is never cut
  takes what `Resolved` finds for every name, by induction over its segments.
  `FreshProps` adds to the third that a class that has not changed has the list it had.
- `FastSerializerProofs` (from `FastSerializerAssumption`, as for the serializer):
  `TypeOK`, `OwnIndices`, `StaleOnlyAfterFailure`, `CrashesOnlyOutsideOrAcross` and
  `IndicesNeverChange`. `WorkInv` has the types of pending calls, each of which
  runs in a version that the message has used (`versions`). `TablesInv` says that
  inside a message the object table is made, and that the string and traits
  tables are made, too, when the message has used version 3 alone; so no step of such a
  message meets a NULL table. `DepthInv` is as in `Serializer`. `IndexInv` says that no two
  objects share an index and that in a message of version 3 alone an ArrayCollection
  has the next index as well, below the counter. The second half is not claimed for messages of both
  versions, since a nested call of version 0 counts an ArrayCollection once.
- `FastDeserializerProofs` (from `FastDeserializerAssumption`, that a source is a
  sequence of tokens with a version, and `StringsAssumption`): `TypeOK`, for any
  source and anything `read_external` does. The invariant is `IInv`. `SourceInv` keeps
  both positions inside the source, also where they part, between a read of the
  struct and one of user code. `StackInv` says that what is left to do ends with a
  `return`, so that a value is always taken by a call below it, and that a byte is
  read ahead only above the `props` that will go on behind it. Every value that a pending call or a table
  holds refers to an object that was made; a new object only adds to these
  (`ExtendedTodo`). That the table of strings has no empty one needs that a `content` that
  will be put into it has a length other than 0.
- `StackLemmas`: what `\o`, `Append`, `Tail` and counting do to a stack of calls, and
  `SetInduction` and `RecursionSolved`. The induction theorems of the library
  have the formula as a parameter, which the provers cannot instantiate; with a
  set in its place, induction follows from the well-foundedness of `<` on `Nat`.

*Only model-checked.* Liveness (`Terminates`, `EverythingArrives`), which the prover
does not reach. `StopsAtMessages` and `OnlyCutsAndMappingsFail` of `FastDeserializer`,
whose sources say themselves where their messages end: the proof for
`Deserializer` would have to be done again for two versions at once, for tables
that can be NULL, and for user code that reads from the StringIO.
`ImplementsTransfer` of `RoundTrip` and `Envelope`, and `LeavesOnlyTheLast` and
`FailsExactlyWhenCut` with it: that what one recursion writes is what the other
reads back, object for object, is a statement about both together, for every graph.
The reader's half of it is proved: given that the writer writes a stream of
messages, `SplitsAtMessages` is what `LeavesOnlyTheLast` says.

## 5. Not modelled

- In the extension: the setter cache, sorted properties (`SORT_PROPS`), the GC
  marks, vectors of integers of 2^31 and more, class
  names that cannot be encoded, a source String that user code changes while it
  is read.
- In the Ruby Serializer: `write_array` and `write_object` called outside
  `serialize`, where the caches are nil and NoMethodError is raised, or are those of a
  message that failed; and user code that serializes itself again without end
  (`Serializer!Terminates` is about heaps without it).
- A program that maps classes whose setters raise, in `RoundTrip`: there they refuse
  nothing.
- Garbage collection: `CacheObjects` keys entries by `object_id`, which may be
  given to another object once a temporary is collected.
- Floating point (time is truncated to milliseconds from a float product),
  encodings beyond "can be encoded or not", the bytes a garbled read consumes.
- A Hash that user code changes while it is being written (deletion during `each`).
- Reflection: a class is its set of setters, an instance its list of properties.
- The helpers of `io_helper_*` that nothing in `lib/` calls.
- Keys that are empty: in the model (`WriteKey`), in no run of the Ruby side. A
  writer that meets one ends the object with it, as AMF3 has it.
- The bytes of an envelope's integers, and of the integers of the extension
  (`ser_write_int`, `des_read_int`): the same code in C as what `U29` models.

## 6. Plan

Done, in this order: `U29`; `MappingSet` and `ClassMapper`; `AMF3`, `Mapper`,
`Serializer`; `Deserializer`; `Transfer` and `RoundTrip`; the first theorems;
`FastClassMapping`, `AMF0`, `FastSerializer`, `FastDeserializer`; `Envelope`;
`read_object` and the "default" entry; the
invariants of `Serializer`, `Deserializer`, `FastClassMapping` and `FastSerializer`
and the types of `FastDeserializer` as theorems; `Framing`, and the theorems about
streams of messages.

Next:
1. Proofs: that `Serializer` writes what `Framing` admits, so that
   `LeavesOnlyTheLast` follows; then `StopsAtMessages`, with a `Framing` of both versions.
2. A model of `object_id` reuse.
3. Registrations and resets during a call of `serialize` or `deserialize`, by
   composing `ClassMapper` with `RoundTrip`.
