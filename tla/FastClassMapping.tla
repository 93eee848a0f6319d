-------------------------- MODULE FastClassMapping --------------------------
(***************************************************************************)
(* The class mapping of the C extension: FastMappingSet and                *)
(* FastClassMapping (ext/rocketamf_ext/class_mapping.c).                   *)
(*                                                                         *)
(* The name of a Ruby class is a C string inside a Ruby string, given here *)
(* by the segments between its "::".  While get_ruby_obj resolves a name   *)
(* it writes a NUL over the "::" it has come to, so that to C the string   *)
(* ends there, and puts the colon back afterwards.                         *)
(*                                                                         *)
(* The extension is taken to be loaded into a program that has the classes *)
(* it looks for when it starts (RocketAMF::Types::TypedHash).  A namespace *)
(* is a class here, as it may be in Ruby.                                  *)
(***************************************************************************)
EXTENDS Integers, Sequences, MappingSet

CONSTANTS
    AsNames,        \* class names of the other language that are asked for
    RubyNames,      \* names of Ruby classes, as sequences of segments
    Loaded,         \* the constants that are defined at the start
    Classes,        \* the classes whose instances are serialized
    Getters,        \* names of methods without parameters
    Mappers,        \* FastClassMapping instances that may be in use
    AsDefaults,     \* the arrays of map_defaults: as_classes
    RubyDefaults,   \* and ruby_classes
    Strays,         \* names that may be read behind the end of ruby_classes
    MaxSets,        \* bound: FastMappingSets made
    MaxChanges      \* bound: classes loaded or changed by the program

ASSUME FastClassMappingAssumption ==
    /\ RubyNames \cup Strays \subseteq Seq(STRING) \ {<< >>}
    /\ RubyDefaults \in Seq(Seq(STRING) \ {<< >>}) /\ AsDefaults \in Seq(STRING)
    /\ NoName \notin Seq(STRING)
    /\ MaxSets \in Nat /\ MaxChanges \in Nat

VARIABLES
    sets,           \* every FastMappingSet: as_mappings and rb_mappings
    mappings,       \* @mappings of the class, 0 for nil
    useAC,          \* @use_array_collection of the class
    handle,         \* the set the running define block was given, or 0
    mappers,        \* per instance: mapset (0: not in use), its useAC, prop_cache
    constants,      \* the constants that are defined
    getters,        \* the public getters of each class
    answer,         \* what the last step returned to the program
    changes,        \* loads and changes so far
    given,          \* history: per set, the name each AS name was mapped to
    changed         \* history: classes changed since the instance was made

registry == <<sets, mappings, useAC, handle, given>>
program == <<constants, getters, changes>>
vars == <<registry, mappers, program, answer, changed>>

Nothing == [kind |-> "none"]

----------------------------------------------------------------------------
(* map: an entry in each table.                                            *)
Mapped(set, as, ruby) == [as |-> Store(set.as, as, ruby),
                          rb |-> Store(set.rb, ruby, as)]

(* map_defaults counts as_classes, which is longer than ruby_classes.      *)
NUM_MAPPINGS == Len(AsDefaults)

Defaults(stray) ==
    LET ruby == RubyDefaults \o [i \in 1 .. NUM_MAPPINGS - Len(RubyDefaults) |-> stray]
        after[i \in 0 .. NUM_MAPPINGS] ==
          IF i = 0 THEN [as |-> NoEntries, rb |-> NoEntries]
                   ELSE Mapped(after[i - 1], AsDefaults[i], ruby[i])
    IN  after[NUM_MAPPINGS]

(* mapping_s_mappings makes the FastMappingSet when there is none.         *)
Mappings ==
    IF mappings # 0 THEN UNCHANGED <<sets, mappings, given>>
    ELSE /\ Len(sets) < MaxSets
         /\ \E stray \in Strays :
              /\ sets' = Append(sets, Defaults(stray))
              /\ given' = Append(given, Defaults(stray).as)
         /\ mappings' = Len(sets) + 1

(* What is behind ruby_classes may also be no string: the FastMappingSet   *)
(* is not made and the caller gets an exception.                           *)
MappingsRaise == /\ mappings = 0
                 /\ answer' = [kind |-> "raised"]
                 /\ UNCHANGED <<registry, mappers, program, changed>>

(* define: the block has the set until it ends, whatever becomes of it.    *)
Define == /\ handle = 0
          /\ Mappings
          /\ handle' = mappings'
          /\ answer' = Nothing
          /\ UNCHANGED <<useAC, mappers, program, changed>>

Map(as, ruby) ==
    /\ handle # 0
    /\ sets' = [sets EXCEPT ![handle] = Mapped(@, as, ruby)]
    /\ given' = [given EXCEPT ![handle] = Store(@, as, ruby)]
    /\ answer' = Nothing
    /\ UNCHANGED <<mappings, useAC, handle, mappers, program, changed>>

EndDefine == /\ handle # 0
             /\ handle' = 0
             /\ answer' = Nothing
             /\ UNCHANGED <<sets, mappings, useAC, given, mappers, program, changed>>

Reset == /\ mappings' = 0
         /\ useAC' = FALSE
         /\ answer' = Nothing
         /\ UNCHANGED <<sets, handle, given, mappers, program, changed>>

UseArrayCollection(b) ==
    /\ useAC' = b
    /\ answer' = Nothing
    /\ UNCHANGED <<sets, mappings, handle, given, mappers, program, changed>>

----------------------------------------------------------------------------
Unused == [set |-> 0, useAC |-> FALSE, props |-> NoEntries]

(* FastClassMapping.new, and the end of its use.                           *)
NewWith(m, lists) ==
    /\ mappers[m].set = 0
    /\ Mappings
    /\ mappers' = [mappers EXCEPT ![m] = [set |-> mappings', useAC |-> useAC,
                                          props |-> lists]]
    /\ changed' = [changed EXCEPT ![m] = {}]
    /\ answer' = Nothing
    /\ UNCHANGED <<useAC, handle, program>>

(* A slip: instances go on with the lists of the one before.               *)
NewSharingProps(m) == NewWith(m, mappers[m].props)

New(m) == NewWith(m, NoEntries)

Drop(m) == /\ mappers[m].set # 0
           /\ mappers' = [mappers EXCEPT ![m].set = 0]
           /\ answer' = Nothing
           /\ UNCHANGED <<registry, program, changed>>

(* rb_const_get, segment by segment: in the scope so far, or at top level. *)
Resolved(name) ==
    [i \in 1 .. Len(name) |->
       LET at[j \in 0 .. i] ==
             IF j = 0 THEN << >>
             ELSE IF at[j - 1] = NoName THEN NoName
             ELSE IF Append(at[j - 1], name[j]) \in constants
             THEN Append(at[j - 1], name[j])
             ELSE IF <<name[j]>> \in constants THEN <<name[j]>> ELSE NoName
       IN  at[i]]

ClassOf(name) == Resolved(name)[Len(name)]

(* get_ruby_obj: a TypedHash when there is no mapping ...                  *)
GetTypedHash(m, as) ==
    /\ Lookup(sets[mappers[m].set].as, as) = NoName
    /\ answer' = [kind |-> "typed", as |-> as]
    /\ UNCHANGED <<registry, mappers, program, changed>>

(* ... an instance when every segment of the name is found: the colons are *)
(* put back ...                                                            *)
InstanceLeaving(m, as, restored) ==
    LET s    == mappers[m].set
        name == Lookup(sets[s].as, as)
    IN  /\ name # NoName
        /\ ClassOf(name) # NoName
        /\ sets' = [sets EXCEPT ![s].as[as] = IF restored THEN name ELSE SubSeq(name, 1, 1)]
        /\ answer' = [kind |-> "instance", class |-> ClassOf(name),
                      wanted |-> ClassOf(given[s][as])]
        /\ UNCHANGED <<mappings, useAC, handle, given, mappers, program, changed>>

(* A slip: the colon is not put back after a segment that is found.        *)
GetInstanceUnrestored(m, as) == InstanceLeaving(m, as, FALSE)

GetInstance(m, as) == InstanceLeaving(m, as, TRUE)

(* ... and otherwise a NameError out of rb_const_get, which leaves the NUL *)
(* behind the segment in place, if another one follows it.                 *)
RaisesLeaving(m, as, n) ==
    LET s    == mappers[m].set
        name == Lookup(sets[s].as, as)
    IN  /\ name # NoName
        /\ ClassOf(name) = NoName
        /\ \E k \in 1 .. Len(name) :
             /\ Resolved(name)[k] = NoName
             /\ \A j \in 1 .. k - 1 : Resolved(name)[j] # NoName
             /\ sets' = [sets EXCEPT ![s].as[as] = SubSeq(name, 1, k - n)]
        /\ answer' = [kind |-> "raised"]
        /\ UNCHANGED <<mappings, useAC, handle, given, mappers, program, changed>>

(* A slip: the "::" in front of the segment stays a NUL, not the one       *)
(* behind it.                                                              *)
GetRaisesLosingSegment(m, as) == RaisesLeaving(m, as, 1)

GetRaises(m, as) == RaisesLeaving(m, as, 0)

GetRubyObj(m, as) == /\ mappers[m].set # 0
                     /\ \/ GetTypedHash(m, as)
                        \/ GetInstance(m, as)
                        \/ GetRaises(m, as)

(* props_for_serialization: the getters an instance of the class had the   *)
(* first time; one that is gone raises.                                    *)
PropsForSerialization(m, class) ==
    LET known == mappers[m].props
        props == IF class \in DOMAIN known THEN known[class] ELSE getters[class]
    IN  /\ mappers[m].set # 0
        /\ mappers' = [mappers EXCEPT ![m].props = Store(@, class, props)]
        /\ answer' = IF props \subseteq getters[class]
                     THEN [kind |-> "props", class |-> class, changed |-> changed[m],
                           exact |-> props = getters[class]]
                     ELSE [kind |-> "lost", class |-> class, changed |-> changed[m]]
        /\ UNCHANGED <<registry, program, changed>>

----------------------------------------------------------------------------
(* The program loads a class or module, in one that is loaded, and changes *)
(* classes.                                                                *)
Load(name) ==
    /\ changes < MaxChanges
    /\ name \notin constants
    /\ Len(name) > 1 => SubSeq(name, 1, Len(name) - 1) \in constants
    /\ constants' = constants \cup {name}
    /\ changes' = changes + 1
    /\ answer' = Nothing
    /\ UNCHANGED <<registry, mappers, getters, changed>>

Change(class, methods) ==
    /\ changes < MaxChanges
    /\ methods # getters[class]
    /\ getters' = [getters EXCEPT ![class] = methods]
    /\ changes' = changes + 1
    /\ changed' = [m \in Mappers |-> changed[m] \cup {class}]
    /\ answer' = Nothing
    /\ UNCHANGED <<registry, mappers, constants>>

Init == /\ sets = << >> /\ given = << >>
        /\ mappings = 0 /\ useAC = FALSE /\ handle = 0
        /\ mappers = [m \in Mappers |-> Unused]
        /\ changed = [m \in Mappers |-> {}]
        /\ constants = Loaded
        /\ getters \in [Classes -> SUBSET Getters]
        /\ answer = Nothing /\ changes = 0

Next == \/ MappingsRaise \/ Define \/ EndDefine \/ Reset
        \/ \E as \in AsNames, ruby \in RubyNames : Map(as, ruby)
        \/ \E b \in BOOLEAN : UseArrayCollection(b)
        \/ \E m \in Mappers : \/ New(m) \/ Drop(m)
                              \/ \E as \in AsNames : GetRubyObj(m, as)
                              \/ \E c \in Classes : PropsForSerialization(m, c)
        \/ \E name \in RubyNames : Load(name)
        \/ \E c \in Classes, ms \in SUBSET Getters : Change(c, ms)

Spec == Init /\ [][Next]_vars

----------------------------------------------------------------------------
(* Types of the state.                                                     *)
Names == RubyNames \cup Strays \cup {RubyDefaults[i] : i \in DOMAIN RubyDefaults}
ASNames == AsNames \cup {AsDefaults[i] : i \in DOMAIN AsDefaults}
Cut(name) == {SubSeq(name, 1, k) : k \in 1 .. Len(name)}

TypeOK ==
    /\ mappings \in 0 .. Len(sets) /\ handle \in 0 .. Len(sets)
    /\ useAC \in BOOLEAN
    /\ DOMAIN given = DOMAIN sets
    /\ \A i \in DOMAIN sets :
         /\ DOMAIN sets[i].as = DOMAIN given[i]
         /\ DOMAIN given[i] \subseteq ASNames
         /\ \A as \in DOMAIN given[i] : sets[i].as[as] \in Cut(given[i][as])
         /\ \A ruby \in DOMAIN sets[i].rb : ruby \in Names /\ sets[i].rb[ruby] \in ASNames
    /\ \A m \in Mappers : /\ mappers[m].set \in 0 .. Len(sets)
                          /\ DOMAIN mappers[m].props \subseteq Classes
                          /\ changed[m] \subseteq Classes
    /\ constants \subseteq Loaded \cup RubyNames
    /\ changes \in 0 .. MaxChanges

(* Writing over a name while it is resolved does no lasting harm to names  *)
(* whose namespaces were loaded from the start: whatever else is looked up *)
(* and fails, before and after, they stay whole.                           *)
LoadedNamespacesStayWhole ==
    \A i \in DOMAIN sets : \A as \in DOMAIN given[i] :
      (\A k \in 1 .. Len(given[i][as]) - 1 : SubSeq(given[i][as], 1, k) \in Loaded)
        => sets[i].as[as] = given[i][as]

(* The cached lists are those of a class as it is, unless the class was    *)
(* changed while the instance was in use.                                  *)
PropsExactUnlessChanged ==
    answer.kind = "lost" \/ (answer.kind = "props" /\ ~answer.exact)
      => answer.class \in answer.changed

(* Mapped to a class that is loaded, an AS name gives instances of that    *)
(* class (see "Restore correct char", and "should properly instantiate     *)
(* namespaced classes" of spec/fast_class_mapping_spec.rb).  It does not   *)
(* once a lookup has failed before the namespace was loaded.               *)
GetsMappedClass == answer.kind = "instance" /\ answer.wanted # NoName
                     => answer.class = answer.wanted
============================================================================
