---------------------------- MODULE ClassMapper ----------------------------
(***************************************************************************)
(* The mapping between Ruby classes and the class names of the other       *)
(* language: MappingSet (lib/amf/pure/mapping/mapping_set.rb) and          *)
(* ClassMapper (class_mapper.rb).                                          *)
(*                                                                         *)
(* The class ClassMapper holds one current MappingSet, which registrations *)
(* write and reset replaces.  Every (de)serialization makes a mapper,      *)
(* which captures the MappingSet that is current at that moment and keeps  *)
(* it.  Registration, reset and the mappers of running calls interleave.   *)
(***************************************************************************)
EXTENDS Naturals, Sequences, MappingSet

CONSTANTS
    Locals,     \* Ruby class names
    Remotes,    \* class names of the other language
    Mappers,    \* mapper instances that may be in use at the same time
    Batches,    \* the maps a program passes to register_classes
    MaxSets     \* bound: MappingSets made, that is resets + 1

ASSUME BatchesAssumption == Batches \subseteq Seq(Locals \X Remotes)
ASSUME MaxSetsAssumption == MaxSets \in Nat \ {0}

VARIABLES
    sets,           \* every MappingSet made: its two tables
    map,            \* the current one, @map of the class
    captured,       \* @map of each mapper; 0 when the mapper is not in use
    batch,          \* what register_classes has still to register
    registrations   \* history: the pairs registered in each MappingSet

vars == <<sets, map, captured, batch, registrations>>

----------------------------------------------------------------------------
Init == /\ sets = <<NoMappings>>
        /\ map = 1
        /\ captured = [m \in Mappers |-> 0]
        /\ batch = << >>
        /\ registrations = <<{}>>

(* The current MappingSet gains an alias.                                  *)
Register(class_local, class_remote) ==
    /\ sets' = [sets EXCEPT ![map] = WithAlias(@, class_local, class_remote)]
    /\ registrations' = [registrations EXCEPT
                            ![map] = @ \cup {<<class_local, class_remote>>}]

RegisterClassAlias(class_local, class_remote) ==
    /\ Register(class_local, class_remote)
    /\ UNCHANGED <<map, captured, batch>>

(* register_classes: a loop over its map.  Each turn reads @map again.     *)
RegisterClasses(pairs) ==
    /\ batch = << >>
    /\ batch' = pairs
    /\ UNCHANGED <<sets, map, captured, registrations>>

RegisterNext ==
    /\ batch # << >>
    /\ Register(Head(batch)[1], Head(batch)[2])
    /\ batch' = Tail(batch)
    /\ UNCHANGED <<map, captured>>

(* Slips: reset does not replace @map; reset clears it in place.           *)
ResetKeepsMap == /\ Len(sets) < MaxSets
                 /\ sets' = Append(sets, NoMappings)
                 /\ registrations' = Append(registrations, {})
                 /\ UNCHANGED <<map, captured, batch>>
ResetInPlace == /\ sets' = [sets EXCEPT ![map] = NoMappings]
                /\ registrations' = [registrations EXCEPT ![map] = {}]
                /\ UNCHANGED <<map, captured, batch>>

Reset == /\ Len(sets) < MaxSets
         /\ sets' = Append(sets, NoMappings)
         /\ map' = Len(sets) + 1
         /\ registrations' = Append(registrations, {})
         /\ UNCHANGED <<captured, batch>>

(* ClassMapper.new, in AMF.serialize and AMF.deserialize; and the end of   *)
(* the call the mapper was made for.                                       *)
NewMapper(m) == /\ captured[m] = 0
                /\ captured' = [captured EXCEPT ![m] = map]
                /\ UNCHANGED <<sets, map, batch, registrations>>

DropMapper(m) == /\ captured[m] # 0
                 /\ captured' = [captured EXCEPT ![m] = 0]
                 /\ UNCHANGED <<sets, map, batch, registrations>>

Next == \/ \E l \in Locals, r \in Remotes : RegisterClassAlias(l, r)
        \/ \E pairs \in Batches : RegisterClasses(pairs)
        \/ RegisterNext
        \/ Reset
        \/ \E m \in Mappers : NewMapper(m) \/ DropMapper(m)

Spec == Init /\ [][Next]_vars

----------------------------------------------------------------------------
Table(Keys, Values) == UNION {[known -> Values] : known \in SUBSET Keys}

MappingSets == [remote : Table(Remotes, Locals), local : Table(Locals, Remotes)]

TypeOK == /\ sets \in Seq(MappingSets)
          /\ map = Len(sets)
          /\ map \in 1 .. MaxSets
          /\ captured \in [Mappers -> 0 .. Len(sets)]
          /\ batch \in Seq(Locals \X Remotes)
          /\ registrations \in Seq(SUBSET (Locals \X Remotes))
          /\ Len(registrations) = Len(sets)

(* The tables hold what was registered in their own MappingSet and nothing *)
(* else: every name registered since the reset is found in its table, and  *)
(* under a name it was registered with.  In particular no lookup in one    *)
(* table ever yields a name that the other table does not know, however    *)
(* often names are registered again.                                       *)
TablesHoldRegistrations ==
    \A i \in 1 .. Len(sets) :
        LET pairs == registrations[i]
        IN  /\ DOMAIN sets[i].local = {p[1] : p \in pairs}
            /\ DOMAIN sets[i].remote = {p[2] : p \in pairs}
            /\ \A l \in DOMAIN sets[i].local : <<l, sets[i].local[l]>> \in pairs
            /\ \A r \in DOMAIN sets[i].remote : <<sets[i].remote[r], r>> \in pairs

(* No class and no remote name was registered with two partners.           *)
OneToOne(pairs) == \A p, q \in pairs : p[1] = q[1] <=> p[2] = q[2]

RoundTrips(set) ==
    /\ \A l \in DOMAIN set.local : /\ set.local[l] \in DOMAIN set.remote
                                   /\ set.remote[set.local[l]] = l
    /\ \A r \in DOMAIN set.remote : /\ set.remote[r] \in DOMAIN set.local
                                    /\ set.local[set.remote[r]] = r

(* The mapping is bi-directional (lib/amf.rb:21-22) wherever the program   *)
(* registered its aliases one to one: what a class is written as is read   *)
(* back as that class.                                                     *)
BiDirectionalIfOneToOne ==
    \A i \in 1 .. Len(sets) :
        OneToOne(registrations[i]) => RoundTrips(sets[i])

Visible(m) == IF captured[m] = 0 THEN NoMappings ELSE sets[captured[m]]

(* What a running call sees of the mappings changes only by a registration *)
(* in the set it captured, while that set is current, and then by growing: *)
(* a reset takes no mapping from it, and nothing registered after a reset  *)
(* reaches it.                                                             *)
CallsKeepTheirMappings ==
    [][\A m \in Mappers :
          LET seen == Visible(m)
          IN  captured[m] # 0 /\ captured'[m] # 0 /\ seen # Visible(m)' =>
                /\ captured[m] = map /\ map' = map
                /\ DOMAIN seen.local \subseteq DOMAIN Visible(m)'.local
                /\ DOMAIN seen.remote \subseteq DOMAIN Visible(m)'.remote]_vars
============================================================================
