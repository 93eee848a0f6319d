------------------------- MODULE ClassMapperProofs --------------------------
(***************************************************************************)
(* Proofs about ClassMapper, for any names, mappers and batches.           *)
(*                                                                         *)
(* TypeOK and TablesHoldRegistrations are inductive together; what         *)
(* lib/amf.rb calls bi-directional follows from them wherever the          *)
(* registrations are one to one.                                           *)
(***************************************************************************)
EXTENDS ClassMapper, TLAPS, SequenceTheorems

(* A table stays one after Store, the []= of a Hash.                       *)
LEMMA StoreType ==
    ASSUME NEW K, NEW V, NEW hash \in Table(K, V), NEW k \in K, NEW v \in V
    PROVE  Store(hash, k, v) \in Table(K, V)
<1>1. PICK D \in SUBSET K : hash \in [D -> V]
  BY DEF Table
<1>2. Store(hash, k, v) \in [D \cup {k} -> V]
  BY <1>1 DEF Store
<1>3. D \cup {k} \in SUBSET K
  BY <1>1
<1> QED
  BY <1>2, <1>3 DEF Table

(* The tables of a new MappingSet.                                         *)
LEMMA EmptyTable == ASSUME NEW K, NEW V PROVE NoEntries \in Table(K, V)
<1>1. NoEntries \in [{} -> V] /\ {} \in SUBSET K
  BY DEF NoEntries
<1> QED
  BY <1>1 DEF Table

(* An alias leaves a MappingSet a MappingSet.                              *)
LEMMA WithAliasType ==
    ASSUME NEW set \in MappingSets, NEW l \in Locals, NEW r \in Remotes
    PROVE  WithAlias(set, l, r) \in MappingSets
<1>1. Store(set.remote, r, l) \in Table(Remotes, Locals)
  BY StoreType DEF MappingSets
<1>2. Store(set.local, l, r) \in Table(Locals, Remotes)
  BY StoreType DEF MappingSets
<1> QED
  BY <1>1, <1>2 DEF WithAlias, MappingSets

(* The part of TablesHoldRegistrations about one MappingSet.               *)
Holds(set, pairs) ==
    /\ DOMAIN set.local = {p[1] : p \in pairs}
    /\ DOMAIN set.remote = {p[2] : p \in pairs}
    /\ \A l \in DOMAIN set.local : <<l, set.local[l]>> \in pairs
    /\ \A r \in DOMAIN set.remote : <<set.remote[r], r>> \in pairs

(* register_class_alias keeps the tables those of the registrations.       *)
LEMMA WithAliasHolds ==
    ASSUME NEW set \in MappingSets, NEW pairs \in SUBSET (Locals \X Remotes),
           NEW l \in Locals, NEW r \in Remotes, Holds(set, pairs)
    PROVE  Holds(WithAlias(set, l, r), pairs \cup {<<l, r>>})
<1> DEFINE new == WithAlias(set, l, r)
           all == pairs \cup {<<l, r>>}
<1>0. /\ set.remote \in Table(Remotes, Locals) /\ set.local \in Table(Locals, Remotes)
      /\ new.remote = Store(set.remote, r, l) /\ new.local = Store(set.local, l, r)
  BY DEF WithAlias, MappingSets
<1>1. /\ DOMAIN new.local = DOMAIN set.local \cup {l}
      /\ new.local[l] = r
      /\ \A x \in DOMAIN set.local : x # l => new.local[x] = set.local[x]
  <2> DEFINE made == Store(set.local, l, r)
  <2>1. /\ DOMAIN made = DOMAIN set.local \cup {l}
        /\ made[l] = r
        /\ \A x \in DOMAIN set.local : x # l => made[x] = set.local[x]
    BY DEF Store
  <2> HIDE DEF made
  <2>2. new.local = made
    BY <1>0 DEF made
  <2> QED
    BY <2>1, <2>2
<1>2. /\ DOMAIN new.remote = DOMAIN set.remote \cup {r}
      /\ new.remote[r] = l
      /\ \A x \in DOMAIN set.remote : x # r => new.remote[x] = set.remote[x]
  <2> DEFINE made == Store(set.remote, r, l)
  <2>1. /\ DOMAIN made = DOMAIN set.remote \cup {r}
        /\ made[r] = l
        /\ \A x \in DOMAIN set.remote : x # r => made[x] = set.remote[x]
    BY DEF Store
  <2> HIDE DEF made
  <2>2. new.remote = made
    BY <1>0 DEF made
  <2> QED
    BY <2>1, <2>2
<1> HIDE DEF new
<1>3. DOMAIN new.local = {p[1] : p \in all}
  <2>1. {p[1] : p \in all} = {p[1] : p \in pairs} \cup {<<l, r>>[1]}
    OBVIOUS
  <2> QED
    BY <1>1, <2>1 DEF Holds
<1>4. DOMAIN new.remote = {p[2] : p \in all}
  <2>1. {p[2] : p \in all} = {p[2] : p \in pairs} \cup {<<l, r>>[2]}
    OBVIOUS
  <2> QED
    BY <1>2, <2>1 DEF Holds
<1>5. \A x \in DOMAIN new.local : <<x, new.local[x]>> \in all
  BY <1>1 DEF Holds
<1>6. \A x \in DOMAIN new.remote : <<new.remote[x], x>> \in all
  BY <1>2 DEF Holds
<1> QED
  BY <1>3, <1>4, <1>5, <1>6 DEF Holds, new

IInv == TypeOK /\ TablesHoldRegistrations

(* TablesHoldRegistrations, set by set.                                    *)
LEMMA HoldsEach ==
    TablesHoldRegistrations <=> \A i \in 1 .. Len(sets) : Holds(sets[i], registrations[i])
  BY DEF TablesHoldRegistrations, Holds

LEMMA InitIInv == Init => IInv
<1> SUFFICES ASSUME Init PROVE IInv
  OBVIOUS
<1>0. NoEntries \in Table(Remotes, Locals) /\ NoEntries \in Table(Locals, Remotes)
  BY EmptyTable
<1>1. NoMappings \in MappingSets
  BY <1>0 DEF NoMappings, MappingSets
<1>2. TypeOK
  BY <1>1, MaxSetsAssumption DEF Init, TypeOK
<1>3. TablesHoldRegistrations
  BY DEF Init, TablesHoldRegistrations, NoMappings, NoEntries
<1> QED
  BY <1>2, <1>3 DEF IInv

(* A registration in the current MappingSet.                               *)
LEMMA RegisterIInv ==
    ASSUME IInv, NEW l \in Locals, NEW r \in Remotes, Register(l, r),
           UNCHANGED <<map, captured>>, batch' \in Seq(Locals \X Remotes)
    PROVE  IInv'
<1>1. map \in 1 .. Len(sets) /\ sets[map] \in MappingSets
  BY DEF IInv, TypeOK
<1>2. registrations[map] \in SUBSET (Locals \X Remotes)
  BY <1>1 DEF IInv, TypeOK
<1>3. /\ sets' = [sets EXCEPT ![map] = WithAlias(sets[map], l, r)]
      /\ registrations' = [registrations EXCEPT
                             ![map] = registrations[map] \cup {<<l, r>>}]
  BY DEF Register
<1>4. WithAlias(sets[map], l, r) \in MappingSets
  BY <1>1, WithAliasType
<1>5. sets' \in Seq(MappingSets) /\ Len(sets') = Len(sets)
  BY <1>1, <1>3, <1>4 DEF IInv, TypeOK
<1>6. /\ registrations' \in Seq(SUBSET (Locals \X Remotes))
      /\ Len(registrations') = Len(registrations)
  BY <1>1, <1>2, <1>3 DEF IInv, TypeOK
<1>7. TypeOK'
  BY <1>5, <1>6 DEF IInv, TypeOK
<1>8. ASSUME NEW i \in 1 .. Len(sets') PROVE Holds(sets'[i], registrations'[i])
  <2>0. i \in 1 .. Len(sets) /\ Holds(sets[i], registrations[i])
    BY <1>5, HoldsEach DEF IInv
  <2>1. CASE i = map
    <3>1. Holds(WithAlias(sets[i], l, r), registrations[i] \cup {<<l, r>>})
      BY <1>1, <1>2, <2>0, <2>1, WithAliasHolds
    <3>2. /\ sets'[i] = WithAlias(sets[i], l, r)
          /\ registrations'[i] = registrations[i] \cup {<<l, r>>}
      BY <1>1, <1>3, <2>1 DEF IInv, TypeOK
    <3> QED
      BY <3>1, <3>2
  <2>2. CASE i # map
    <3>1. sets'[i] = sets[i] /\ registrations'[i] = registrations[i]
      BY <1>3, <2>0, <2>2 DEF IInv, TypeOK
    <3> QED
      BY <2>0, <3>1
  <2> QED
    BY <2>1, <2>2
<1>9. TablesHoldRegistrations'
  BY <1>8 DEF TablesHoldRegistrations, Holds
<1> QED
  BY <1>7, <1>9 DEF IInv

LEMMA NextIInv == IInv /\ [Next]_vars => IInv'
<1> SUFFICES ASSUME IInv, [Next]_vars PROVE IInv'
  OBVIOUS
<1>1. CASE \E l \in Locals, r \in Remotes : RegisterClassAlias(l, r)
  <2>1. PICK l \in Locals, r \in Remotes : RegisterClassAlias(l, r)
    BY <1>1
  <2>2. batch' \in Seq(Locals \X Remotes)
    BY <2>1 DEF RegisterClassAlias, IInv, TypeOK
  <2> QED
    BY <2>1, <2>2, RegisterIInv DEF RegisterClassAlias
<1>2. CASE \E pairs \in Batches : RegisterClasses(pairs)
  <2>1. batch' \in Seq(Locals \X Remotes)
    BY <1>2, BatchesAssumption DEF RegisterClasses
  <2> QED
    BY <1>2, <2>1 DEF RegisterClasses, IInv, TypeOK, TablesHoldRegistrations
<1>3. CASE RegisterNext
  <2>1. /\ Head(batch) \in Locals \X Remotes
        /\ batch' \in Seq(Locals \X Remotes)
    BY <1>3 DEF RegisterNext, IInv, TypeOK
  <2>2. Head(batch)[1] \in Locals /\ Head(batch)[2] \in Remotes
    BY <2>1
  <2> QED
    BY <1>3, <2>1, <2>2, RegisterIInv DEF RegisterNext
<1>4. CASE Reset
  <2>0. NoEntries \in Table(Remotes, Locals) /\ NoEntries \in Table(Locals, Remotes)
    BY EmptyTable
  <2>1. NoMappings \in MappingSets
    BY <2>0 DEF NoMappings, MappingSets
  <2>2. /\ sets' = Append(sets, NoMappings)
        /\ registrations' = Append(registrations, {})
        /\ Len(sets) \in Nat /\ Len(registrations) = Len(sets)
    BY <1>4 DEF Reset, IInv, TypeOK
  <2>3. /\ sets' \in Seq(MappingSets) /\ Len(sets') = Len(sets) + 1
        /\ \A i \in 1 .. Len(sets) : sets'[i] = sets[i]
        /\ sets'[Len(sets) + 1] = NoMappings
    BY <2>1, <2>2 DEF IInv, TypeOK
  <2>4. /\ registrations' \in Seq(SUBSET (Locals \X Remotes))
        /\ Len(registrations') = Len(sets) + 1
        /\ \A i \in 1 .. Len(sets) : registrations'[i] = registrations[i]
        /\ registrations'[Len(sets) + 1] = {}
    BY <2>2 DEF IInv, TypeOK
  <2>5. TypeOK'
    BY <1>4, <2>3, <2>4, MaxSetsAssumption DEF Reset, IInv, TypeOK
  <2>6. ASSUME NEW i \in 1 .. Len(sets') PROVE Holds(sets'[i], registrations'[i])
    <3>1. CASE i \in 1 .. Len(sets)
      BY <2>3, <2>4, <3>1, HoldsEach DEF IInv
    <3>2. CASE i = Len(sets) + 1
      BY <2>3, <2>4, <3>2 DEF Holds, NoMappings, NoEntries
    <3> QED
      BY <2>2, <2>3, <3>1, <3>2
  <2>7. TablesHoldRegistrations'
    BY <2>6 DEF TablesHoldRegistrations, Holds
  <2> QED
    BY <2>5, <2>7 DEF IInv
<1>5. CASE \E m \in Mappers : NewMapper(m) \/ DropMapper(m)
  BY <1>5 DEF NewMapper, DropMapper, IInv, TypeOK, TablesHoldRegistrations
<1>6. CASE UNCHANGED vars
  BY <1>6 DEF vars, IInv, TypeOK, TablesHoldRegistrations
<1> QED
  BY <1>1, <1>2, <1>3, <1>4, <1>5, <1>6 DEF Next

LEMMA IInvAlways == Spec => []IInv
  BY InitIInv, NextIInv, PTL DEF Spec

(* The variables keep their types: in particular a mapper never captures a *)
(* MappingSet that does not exist.                                         *)
THEOREM TypeOKAlways == Spec => []TypeOK
  BY IInvAlways, PTL DEF IInv

(* The two tables hold the registrations made since their own reset.       *)
THEOREM TablesHoldRegistrationsAlways == Spec => []TablesHoldRegistrations
  BY IInvAlways, PTL DEF IInv

(* One-to-one registrations are looked up alike in both directions.        *)
LEMMA HoldsRoundTrips ==
    ASSUME NEW set \in MappingSets, NEW pairs \in SUBSET (Locals \X Remotes),
           Holds(set, pairs), OneToOne(pairs)
    PROVE  RoundTrips(set)
<1>1. ASSUME NEW l \in DOMAIN set.local
      PROVE  set.local[l] \in DOMAIN set.remote /\ set.remote[set.local[l]] = l
  <2> DEFINE r == set.local[l]
  <2>1. <<l, r>> \in pairs
    BY DEF Holds
  <2>2. r \in DOMAIN set.remote
    BY <2>1 DEF Holds
  <2>3. <<set.remote[r], r>> \in pairs
    BY <2>2 DEF Holds
  <2>4. set.remote[r] = l
    BY <2>1, <2>3 DEF OneToOne
  <2> QED
    BY <2>2, <2>4
<1>2. ASSUME NEW r \in DOMAIN set.remote
      PROVE  set.remote[r] \in DOMAIN set.local /\ set.local[set.remote[r]] = r
  <2> DEFINE l == set.remote[r]
  <2>1. <<l, r>> \in pairs
    BY DEF Holds
  <2>2. l \in DOMAIN set.local
    BY <2>1 DEF Holds
  <2>3. <<l, set.local[l]>> \in pairs
    BY <2>2 DEF Holds
  <2>4. set.local[l] = r
    BY <2>1, <2>3 DEF OneToOne
  <2> QED
    BY <2>2, <2>4
<1> QED
  BY <1>1, <1>2 DEF RoundTrips

(* The mapping is bi-directional for every one-to-one registration, in     *)
(* every MappingSet, whenever it is looked up.                             *)
THEOREM BiDirectionalIfOneToOneAlways == Spec => []BiDirectionalIfOneToOne
<1>1. ASSUME IInv PROVE BiDirectionalIfOneToOne
  <2>1. ASSUME NEW i \in 1 .. Len(sets), OneToOne(registrations[i])
        PROVE  RoundTrips(sets[i])
    <3>1. Holds(sets[i], registrations[i])
      BY <1>1, HoldsEach DEF IInv
    <3>2. sets[i] \in MappingSets /\ registrations[i] \in SUBSET (Locals \X Remotes)
      BY <1>1 DEF IInv, TypeOK
    <3> QED
      BY <2>1, <3>1, <3>2, HoldsRoundTrips
  <2> QED
    BY <2>1 DEF BiDirectionalIfOneToOne
<1> QED
  BY <1>1, IInvAlways, PTL

(* What a running call sees changes only by growing, while its set is the  *)
(* current one.                                                            *)
LEMMA RegisterGrows ==
    ASSUME IInv, NEW l \in Locals, NEW r \in Remotes, Register(l, r),
           UNCHANGED <<map, captured>>, NEW m \in Mappers, captured[m] # 0,
           Visible(m) # Visible(m)'
    PROVE  /\ captured[m] = map
           /\ DOMAIN Visible(m).local \subseteq DOMAIN Visible(m)'.local
           /\ DOMAIN Visible(m).remote \subseteq DOMAIN Visible(m)'.remote
<1> DEFINE i == captured[m]
<1>1. /\ i \in 1 .. Len(sets) /\ map \in 1 .. Len(sets) /\ captured'[m] = i
      /\ sets' = [sets EXCEPT ![map] = WithAlias(sets[map], l, r)]
  BY DEF IInv, TypeOK, Register
<1>2. Visible(m) = sets[i] /\ Visible(m)' = sets'[i]
  BY <1>1 DEF Visible
<1>3. i = map
  BY <1>1, <1>2 DEF IInv, TypeOK
<1>4. sets'[i] = WithAlias(sets[i], l, r)
  BY <1>1, <1>3 DEF IInv, TypeOK
<1>5. /\ DOMAIN sets[i].local \subseteq DOMAIN WithAlias(sets[i], l, r).local
      /\ DOMAIN sets[i].remote \subseteq DOMAIN WithAlias(sets[i], l, r).remote
  BY DEF WithAlias, Store
<1> QED
  BY <1>2, <1>3, <1>4, <1>5

(* Nothing else changes a set that was captured.                           *)
LEMMA OthersKeep ==
    ASSUME IInv, NEW m \in Mappers, captured[m] # 0, captured'[m] = captured[m],
           sets' = sets \/ sets' = Append(sets, NoMappings)
    PROVE  Visible(m)' = Visible(m)
<1>1. captured[m] \in 1 .. Len(sets)
  BY DEF IInv, TypeOK
<1>2. sets'[captured[m]] = sets[captured[m]]
  BY <1>1 DEF IInv, TypeOK
<1> QED
  BY <1>2 DEF Visible

(* A reset never reaches the mapper of a running call, nor does what is    *)
(* registered after it.                                                    *)
THEOREM CallsKeepTheirMappingsAlways == Spec => CallsKeepTheirMappings
<1> DEFINE Kept(m) ==
        /\ captured[m] = map /\ map' = map
        /\ DOMAIN Visible(m).local \subseteq DOMAIN Visible(m)'.local
        /\ DOMAIN Visible(m).remote \subseteq DOMAIN Visible(m)'.remote
           Keeps == \A m \in Mappers :
        captured[m] # 0 /\ captured'[m] # 0 /\ Visible(m) # Visible(m)' => Kept(m)
<1>1. ASSUME IInv, Next PROVE Keeps
  <2> SUFFICES ASSUME NEW m \in Mappers, captured[m] # 0, captured'[m] # 0,
                      Visible(m) # Visible(m)'
               PROVE  Kept(m)
    OBVIOUS
  <2>1. CASE \E l \in Locals, r \in Remotes : RegisterClassAlias(l, r)
    BY <1>1, <2>1, RegisterGrows DEF RegisterClassAlias
  <2>2. CASE \E pairs \in Batches : RegisterClasses(pairs)
    BY <1>1, <2>2, OthersKeep DEF RegisterClasses
  <2>3. CASE RegisterNext
    <3>1. Head(batch)[1] \in Locals /\ Head(batch)[2] \in Remotes
      BY <1>1, <2>3 DEF RegisterNext, IInv, TypeOK
    <3> QED
      BY <1>1, <2>3, <3>1, RegisterGrows DEF RegisterNext
  <2>4. CASE Reset
    BY <1>1, <2>4, OthersKeep DEF Reset
  <2>5. CASE \E n \in Mappers : NewMapper(n) \/ DropMapper(n)
    <3>1. PICK n \in Mappers : NewMapper(n) \/ DropMapper(n)
      BY <2>5
    <3>2. sets' = sets
      BY <3>1 DEF NewMapper, DropMapper
    <3>3. captured'[m] = captured[m]
      BY <1>1, <3>1 DEF NewMapper, DropMapper, IInv, TypeOK
    <3> QED
      BY <1>1, <3>2, <3>3, OthersKeep
  <2> QED
    BY <1>1, <2>1, <2>2, <2>3, <2>4, <2>5 DEF Next
<1>2. Keeps <=> \A m \in Mappers :
          LET seen == Visible(m)
          IN  captured[m] # 0 /\ captured'[m] # 0 /\ seen # Visible(m)' =>
                /\ captured[m] = map /\ map' = map
                /\ DOMAIN seen.local \subseteq DOMAIN Visible(m)'.local
                /\ DOMAIN seen.remote \subseteq DOMAIN Visible(m)'.remote
  OBVIOUS
<1> HIDE DEF Keeps
<1>3. IInv /\ [Next]_vars => [Keeps]_vars
  BY <1>1
<1> QED
  BY <1>2, <1>3, IInvAlways, PTL DEF Spec, CallsKeepTheirMappings
=============================================================================
