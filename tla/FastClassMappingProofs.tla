----------------------- MODULE FastClassMappingProofs -----------------------
(***************************************************************************)
(* Proofs about FastClassMapping, for any names, classes and defaults.     *)
(*                                                                         *)
(* A lookup that fails cuts a name where its first missing segment ends.   *)
(* That this is the end of the name when its namespaces are loaded needs   *)
(* what Resolved computes for every name, hence induction over the         *)
(* segments.                                                               *)
(***************************************************************************)
EXTENDS FastClassMapping, StackLemmas

----------------------------------------------------------------------------
(* The tables of a FastMappingSet.                                         *)
Name == Seq(STRING) \ {<< >>}
Table(K, V) == UNION {[known -> V] : known \in SUBSET K}
MappingSets(V) == [as : Table(ASNames, V), rb : Table(Names, ASNames)]

LEMMA StoreType ==
    ASSUME NEW K, NEW V, NEW hash \in Table(K, V), NEW k \in K, NEW v \in V
    PROVE  Store(hash, k, v) \in Table(K, V)
<1>1. PICK D \in SUBSET K : hash \in [D -> V]
  BY DEF Table
<1>2. Store(hash, k, v) \in [D \cup {k} -> V]
  BY <1>1 DEF Store
<1>3. D \cup {k} \in SUBSET K
  BY <1>1
<1> QED
  BY <1>2, <1>3 DEF Table

LEMMA EmptyTable == ASSUME NEW K, NEW V PROVE NoEntries \in Table(K, V)
<1>1. NoEntries \in [{} -> V] /\ {} \in SUBSET K
  BY DEF NoEntries
<1> QED
  BY <1>1 DEF Table

LEMMA MappedType ==
    ASSUME NEW V, NEW set \in MappingSets(V), NEW as \in ASNames, NEW ruby \in Names,
           ruby \in V
    PROVE  Mapped(set, as, ruby) \in MappingSets(V)
<1>1. Store(set.as, as, ruby) \in Table(ASNames, V)
  BY StoreType DEF MappingSets
<1>2. Store(set.rb, ruby, as) \in Table(Names, ASNames)
  BY StoreType DEF MappingSets
<1> QED
  BY <1>1, <1>2 DEF Mapped, MappingSets

LEMMA NamesAreNames == Names \subseteq Name
  BY FastClassMappingAssumption DEF Names, Name

(* The Ruby names map_defaults runs through, stray ones included.          *)
LEMMA DefaultNames ==
    ASSUME NEW stray \in Strays, NEW i \in 1 .. NUM_MAPPINGS
    PROVE  (RubyDefaults \o [j \in 1 .. NUM_MAPPINGS - Len(RubyDefaults) |-> stray])[i] \in Names
<1> DEFINE n == NUM_MAPPINGS - Len(RubyDefaults)
           pad == [j \in 1 .. n |-> stray]
<1>1. /\ Len(RubyDefaults) \in Nat /\ NUM_MAPPINGS \in Nat
      /\ RubyDefaults \in Seq(Name)
      /\ stray \in Name /\ stray \in Names
  BY FastClassMappingAssumption DEF Name, Names, NUM_MAPPINGS
<1>2. n \in Int /\ \A j \in 1 .. n : pad[j] = stray
  BY <1>1
<1>3. pad \in Seq(Name) /\ (Len(pad) = n \/ (n < 0 /\ Len(pad) = 0))
  <2>1. CASE n >= 0
    <3> HIDE DEF n
    <3> QED
      BY <1>1, <1>2, <2>1
  <2>2. CASE n < 0
    <3>1. pad = << >>
      <4> HIDE DEF n
      <4> QED
        BY <1>2, <2>2
    <3> HIDE DEF pad
    <3> QED
      BY <2>2, <3>1
  <2> HIDE DEF pad, n
  <2> QED
    BY <1>2, <2>1, <2>2
<1> HIDE DEF pad
<1>4. CASE i <= Len(RubyDefaults)
  <2>1. i \in DOMAIN RubyDefaults
    BY <1>1, <1>4
  <2>2. (RubyDefaults \o pad)[i] = RubyDefaults[i]
    BY <1>1, <1>3, <1>4
  <2> QED
    BY <2>1, <2>2 DEF Names, pad
<1>5. CASE ~(i <= Len(RubyDefaults))
  <2>1. i - Len(RubyDefaults) \in 1 .. Len(pad)
    BY <1>1, <1>3, <1>5
  <2>2. (RubyDefaults \o pad)[i] = pad[i - Len(RubyDefaults)]
    BY <1>1, <1>3, <1>5, <2>1
  <2>3. pad[i - Len(RubyDefaults)] = stray
    BY <1>1, <1>2, <1>3, <2>1
  <2> QED
    BY <1>1, <2>2, <2>3 DEF pad
<1> QED
  BY <1>4, <1>5

(* A new FastMappingSet maps the default names to names.                   *)
LEMMA DefaultsType ==
    ASSUME NEW stray \in Strays
    PROVE  Defaults(stray) \in MappingSets(Names)
<1> DEFINE T == MappingSets(Names)
           n == NUM_MAPPINGS
           ruby == RubyDefaults \o [j \in 1 .. n - Len(RubyDefaults) |-> stray]
           none == [as |-> NoEntries, rb |-> NoEntries]
           After(set, i) == Mapped(set, AsDefaults[i], ruby[i])
           F == [p \in T \X (1 .. n) |-> After(p[1], p[2])]
           after == CHOOSE after : after = [i \in 0 .. n |-> IF i = 0 THEN none
                                                             ELSE After(after[i - 1], i)]
<1>1. n \in Nat /\ none \in T
  <2>1. NoEntries \in Table(ASNames, Names) /\ NoEntries \in Table(Names, ASNames)
    BY EmptyTable
  <2> QED
    BY <2>1, FastClassMappingAssumption DEF NUM_MAPPINGS, MappingSets
<1>2. F \in StepOver(n, T)
  <2>1. ASSUME NEW set \in T, NEW i \in 1 .. n PROVE After(set, i) \in T
    <3>1. ruby[i] \in Names
      BY DefaultNames
    <3>2. AsDefaults[i] \in ASNames
      BY FastClassMappingAssumption DEF ASNames, NUM_MAPPINGS
    <3> HIDE DEF ruby
    <3> QED
      BY <3>1, <3>2, MappedType
  <2> HIDE DEF After, T
  <2> QED
    BY <2>1 DEF StepOver
<1>3. PICK h \in [0 .. n -> T] : Solves(h, n, none, F)
  <2> HIDE DEF T, F, none, n
  <2> QED
    BY <1>1, <1>2, RecursionSolved
<1> HIDE DEF After, none, T, n
<1>4. \A i \in 0 .. n : h[i] = IF i = 0 THEN none ELSE After(h[i - 1], i)
  <2>1. ASSUME NEW i \in 1 .. n PROVE h[i] = After(h[i - 1], i)
    <3>1. i - 1 \in 0 .. n
      BY <1>1
    <3>2. F[<<h[i - 1], i>>] = After(h[i - 1], i)
      BY <3>1
    <3> HIDE DEF F
    <3> QED
      BY <1>3, <3>2 DEF Solves
  <2> HIDE DEF F
  <2> QED
    BY <1>1, <1>3, <2>1 DEF Solves
<1> HIDE DEF F
<1>5. h = [i \in 0 .. n |-> IF i = 0 THEN none ELSE After(h[i - 1], i)]
  BY <1>4
<1>6. after = [i \in 0 .. n |-> IF i = 0 THEN none ELSE After(after[i - 1], i)]
  BY <1>5
<1> HIDE DEF after
<1> DEFINE S == {i \in Nat : i <= n => after[i] \in T}
<1>7. 0 \in S
  BY <1>1, <1>6
<1>8. ASSUME NEW i \in Nat, i \in S PROVE i + 1 \in S
  <2> SUFFICES ASSUME i + 1 <= n PROVE after[i + 1] \in T
    OBVIOUS
  <2>1. i + 1 \in 1 .. n /\ (i + 1) - 1 = i /\ i \in 0 .. n
    BY <1>1
  <2>2. after[i] \in T /\ after[i + 1] = After(after[i], i + 1)
    BY <1>1, <1>6, <1>8, <2>1
  <2>3. F[<<after[i], i + 1>>] \in T
    BY <1>2, <2>1, <2>2 DEF StepOver
  <2> QED
    BY <2>1, <2>2, <2>3 DEF F
<1>9. after[n] \in T
  <2>1. Nat \subseteq S
    BY <1>7, <1>8, SetInduction
  <2> QED
    BY <1>1, <2>1
<1>10. Defaults(stray) = after[n]
  BY DEF Defaults, after, After, none, n
<1> QED
  BY <1>9, <1>10 DEF T

----------------------------------------------------------------------------
(* Names whose namespaces are defined at the start.                        *)
InLoaded(name) == \A k \in 1 .. Len(name) - 1 : SubSeq(name, 1, k) \in Loaded

(* rb_const_get finds every segment as long as the scopes so far, up to    *)
(* and with this one, are defined.                                         *)
LEMMA ResolvedDefined ==
    ASSUME NEW name \in Name, NEW k \in 1 .. Len(name),
           \A j \in 1 .. k : SubSeq(name, 1, j) \in constants
    PROVE  Resolved(name)[k] = SubSeq(name, 1, k)
<1> DEFINE T == Seq(STRING) \cup {NoName}
           After(v, j) == IF v = NoName THEN NoName
                          ELSE IF Append(v, name[j]) \in constants
                          THEN Append(v, name[j])
                          ELSE IF <<name[j]>> \in constants THEN <<name[j]>> ELSE NoName
           F == [p \in T \X (1 .. k) |-> After(p[1], p[2])]
           at == CHOOSE at : at = [j \in 0 .. k |-> IF j = 0 THEN << >>
                                                    ELSE After(at[j - 1], j)]
<1>1. \A j \in 1 .. k : name[j] \in STRING
  BY DEF Name
<1>2. F \in StepOver(k, T)
  <2>1. ASSUME NEW v \in T, NEW j \in 1 .. k PROVE After(v, j) \in T
    BY <1>1
  <2> QED
    BY <2>1 DEF StepOver
<1>3. << >> \in T /\ k \in Nat
  OBVIOUS
<1>4. PICK h \in [0 .. k -> T] : Solves(h, k, << >>, F)
  <2> HIDE DEF T, F
  <2> QED
    BY <1>2, <1>3, RecursionSolved
<1>5. ASSUME NEW j \in 1 .. k PROVE h[j] = After(h[j - 1], j)
  <2>1. j - 1 \in 0 .. k
    OBVIOUS
  <2>2. F[<<h[j - 1], j>>] = After(h[j - 1], j)
    BY <2>1
  <2> QED
    BY <1>4, <2>2 DEF Solves
<1> HIDE DEF After, F
<1>6. h = [j \in 0 .. k |-> IF j = 0 THEN << >> ELSE After(h[j - 1], j)]
  <2>1. \A j \in 0 .. k : h[j] = IF j = 0 THEN << >> ELSE After(h[j - 1], j)
    BY <1>4, <1>5 DEF Solves
  <2> QED
    BY <2>1
<1>7. at = [j \in 0 .. k |-> IF j = 0 THEN << >> ELSE After(at[j - 1], j)]
  BY <1>6
<1> HIDE DEF at
<1>8. at[0] = << >> /\ \A j \in 1 .. k : at[j] = After(at[j - 1], j)
  BY <1>7
<1> DEFINE S == {j \in Nat : j <= k => at[j] = SubSeq(name, 1, j)}
<1>9. 0 \in S
  <2>1. SubSeq(name, 1, 0) = << >>
    BY SubSeqEmpty
  <2> QED
    BY <1>8, <2>1
<1>10. ASSUME NEW j \in Nat, j \in S PROVE j + 1 \in S
  <2> SUFFICES ASSUME j + 1 <= k PROVE at[j + 1] = SubSeq(name, 1, j + 1)
    OBVIOUS
  <2>1. j + 1 \in 1 .. k /\ (j + 1) - 1 = j
    OBVIOUS
  <2>2. at[j] = SubSeq(name, 1, j) /\ at[j + 1] = After(at[j], j + 1)
    BY <1>8, <1>10, <2>1
  <2>3. SubSeq(name, 1, j) \in Seq(STRING)
    BY <2>1 DEF Name
  <2>4. Append(SubSeq(name, 1, j), name[j + 1]) = SubSeq(name, 1, j + 1)
    BY <2>1 DEF Name
  <2>5. SubSeq(name, 1, j + 1) \in constants
    BY <2>1
  <2> QED
    BY <2>2, <2>3, <2>4, <2>5, FastClassMappingAssumption DEF After
<1>12. at[k] = SubSeq(name, 1, k)
  <2>1. Nat \subseteq S
    BY <1>9, <1>10, SetInduction
  <2> QED
    BY <2>1
<1>11. Resolved(name)[k] = at[k]
  BY DEF Resolved, at, After
<1> QED
  BY <1>11, <1>12

(* What is left of a name that lookups may have cut.                       *)
Remains(left, name) == left \in Cut(name) /\ (InLoaded(name) => left = name)

NamesWhole(as, names) ==
    DOMAIN as = DOMAIN names /\ \A n \in DOMAIN names : Remains(as[n], names[n])

SetsInv ==
    /\ sets \in Seq(MappingSets(Name))
    /\ given \in Seq(Table(ASNames, Names)) /\ Len(given) = Len(sets)
    /\ \A i \in 1 .. Len(sets) : NamesWhole(sets[i].as, given[i])

UsesInv ==
    /\ mappings \in 0 .. Len(sets) /\ handle \in 0 .. Len(sets) /\ useAC \in BOOLEAN
    /\ mappers \in [Mappers -> [set : 0 .. Len(sets), useAC : BOOLEAN,
                                props : Table(Classes, SUBSET Getters)]]
    /\ changed \in [Mappers -> SUBSET Classes]
    /\ Loaded \subseteq constants /\ constants \subseteq Loaded \cup RubyNames
    /\ getters \in [Classes -> SUBSET Getters]
    /\ changes \in 0 .. MaxChanges

(* The lists an instance holds are those of its classes, but for changes.  *)
FreshProps ==
    \A m \in Mappers : \A c \in DOMAIN mappers[m].props \ changed[m] :
      mappers[m].props[c] = getters[c]

IInv == SetsInv /\ UsesInv /\ FreshProps /\ PropsExactUnlessChanged

LEMMA TableParts ==
    ASSUME NEW K, NEW V, NEW hash \in Table(K, V)
    PROVE  DOMAIN hash \subseteq K /\ \A k \in DOMAIN hash : hash[k] \in V
  BY DEF Table

LEMMA TableMonotone ==
    ASSUME NEW K, NEW V, NEW W, V \subseteq W
    PROVE  Table(K, V) \subseteq Table(K, W)
<1> SUFFICES ASSUME NEW D \in SUBSET K, NEW hash \in [D -> V] PROVE hash \in Table(K, W)
  BY DEF Table
<1>1. hash \in [D -> W]
  OBVIOUS
<1> QED
  BY <1>1 DEF Table

LEMMA MappingSetsMonotone == MappingSets(Names) \subseteq MappingSets(Name)
  BY TableMonotone, NamesAreNames DEF MappingSets

(* A name that was not cut.                                                *)
LEMMA WholeRemains == ASSUME NEW name \in Name PROVE Remains(name, name)
<1>1. Len(name) \in 1 .. Len(name) /\ SubSeq(name, 1, Len(name)) = name
  BY DEF Name
<1> QED
  BY <1>1 DEF Remains, Cut

LEMMA StoredWhole ==
    ASSUME NEW as, NEW names, NEW n, NEW name \in Name, NamesWhole(as, names)
    PROVE  NamesWhole(Store(as, n, name), Store(names, n, name))
<1> DEFINE f == Store(as, n, name)
           g == Store(names, n, name)
<1>1. /\ DOMAIN f = DOMAIN as \cup {n} /\ f[n] = name
      /\ \A x \in DOMAIN as : x # n => f[x] = as[x]
  BY DEF Store
<1>2. /\ DOMAIN g = DOMAIN names \cup {n} /\ g[n] = name
      /\ \A x \in DOMAIN names : x # n => g[x] = names[x]
  BY DEF Store
<1> HIDE DEF f, g
<1>3. NamesWhole(f, g)
  BY <1>1, <1>2, WholeRemains DEF NamesWhole
<1> QED
  BY <1>3 DEF f, g

(* What is left of a name may be cut again, behind a segment.              *)
LEMMA CutRemains ==
    ASSUME NEW name \in Name, NEW left \in Cut(name)
    PROVE  left \in Name /\ Cut(left) \subseteq Cut(name)
<1>1. PICK n \in 1 .. Len(name) : left = SubSeq(name, 1, n)
  BY DEF Cut
<1>2. left \in Seq(STRING) /\ Len(left) = n
  BY <1>1 DEF Name
<1>3. ASSUME NEW k \in 1 .. Len(left) PROVE SubSeq(left, 1, k) = SubSeq(name, 1, k)
  BY <1>1, <1>2 DEF Name
<1> QED
  BY <1>1, <1>2, <1>3 DEF Cut, Name

----------------------------------------------------------------------------
(* The steps.  One set is written:                                         *)
LEMMA SetWritten ==
    ASSUME SetsInv, NEW i \in 1 .. Len(sets),
           NEW set \in MappingSets(Name), NEW names \in Table(ASNames, Names),
           NamesWhole(set.as, names),
           sets' = [sets EXCEPT ![i] = set], given' = [given EXCEPT ![i] = names]
    PROVE  SetsInv' /\ Len(sets') = Len(sets)
<1>1. /\ sets' \in Seq(MappingSets(Name)) /\ Len(sets') = Len(sets)
      /\ sets'[i] = set
      /\ \A j \in 1 .. Len(sets) : j # i => sets'[j] = sets[j]
  BY DEF SetsInv
<1>2. /\ given' \in Seq(Table(ASNames, Names)) /\ Len(given') = Len(given)
      /\ given'[i] = names
      /\ \A j \in 1 .. Len(sets) : j # i => given'[j] = given[j]
  BY DEF SetsInv
<1> QED
  BY <1>1, <1>2 DEF SetsInv

(* a set is made, or there is one:                                         *)
LEMMA MappingsStep ==
    ASSUME SetsInv, mappings \in 0 .. Len(sets), Mappings
    PROVE  SetsInv' /\ Len(sets) <= Len(sets') /\ mappings' \in 1 .. Len(sets')
<1>1. CASE mappings # 0
  BY <1>1 DEF Mappings, SetsInv
<1>2. CASE mappings = 0
  <2>1. PICK stray \in Strays : /\ sets' = Append(sets, Defaults(stray))
                                /\ given' = Append(given, Defaults(stray).as)
                                /\ mappings' = Len(sets) + 1
    BY <1>2 DEF Mappings
  <2> DEFINE set == Defaults(stray)
  <2>2. set \in MappingSets(Names) /\ set \in MappingSets(Name)
    BY DefaultsType, MappingSetsMonotone
  <2>3. set.as \in Table(ASNames, Names)
    BY <2>2 DEF MappingSets
  <2>4. NamesWhole(set.as, set.as)
    BY <2>3, TableParts, WholeRemains, NamesAreNames DEF NamesWhole
  <2> HIDE DEF set
  <2>5. /\ sets' \in Seq(MappingSets(Name)) /\ Len(sets') = Len(sets) + 1
        /\ sets'[Len(sets) + 1] = set
        /\ \A j \in 1 .. Len(sets) : sets'[j] = sets[j]
    BY <2>1, <2>2 DEF SetsInv, set
  <2>6. /\ given' \in Seq(Table(ASNames, Names)) /\ Len(given') = Len(sets) + 1
        /\ given'[Len(sets) + 1] = set.as
        /\ \A j \in 1 .. Len(sets) : given'[j] = given[j]
    BY <2>1, <2>3 DEF SetsInv, set
  <2>7. Len(sets) \in Nat
    BY DEF SetsInv
  <2>8. ASSUME NEW j \in 1 .. Len(sets') PROVE NamesWhole(sets'[j].as, given'[j])
    <3>1. j \in 1 .. Len(sets) \/ j = Len(sets) + 1
      BY <2>5, <2>7
    <3> QED
      BY <3>1, <2>4, <2>5, <2>6 DEF SetsInv
  <2> QED
    BY <2>1, <2>5, <2>6, <2>7, <2>8 DEF SetsInv
<1> QED
  BY <1>1, <1>2

(* a set gains an entry:                                                   *)
LEMMA MapStep ==
    ASSUME SetsInv, UsesInv, NEW as \in AsNames, NEW ruby \in RubyNames, Map(as, ruby)
    PROVE  SetsInv' /\ Len(sets') = Len(sets)
<1>1. /\ handle \in 1 .. Len(sets) /\ as \in ASNames
      /\ ruby \in Names /\ ruby \in Name
  <2>1. handle # 0 /\ handle \in 0 .. Len(sets) /\ Len(sets) \in Nat
    BY DEF Map, UsesInv, SetsInv
  <2>2. handle \in 1 .. Len(sets)
    BY <2>1
  <2>3. as \in ASNames /\ ruby \in Names
    BY DEF ASNames, Names
  <2>4. ruby \in Name
    BY <2>3, NamesAreNames
  <2> QED
    BY <2>2, <2>3, <2>4
<1> DEFINE set == sets[handle]
           names == given[handle]
           later == Mapped(set, as, ruby)
<1>2. /\ set \in MappingSets(Name) /\ names \in Table(ASNames, Names)
      /\ NamesWhole(set.as, names)
  BY <1>1 DEF SetsInv
<1>3. later \in MappingSets(Name)
  BY <1>1, <1>2, MappedType
<1>4. Store(names, as, ruby) \in Table(ASNames, Names)
  BY <1>1, <1>2, StoreType
<1>5. later.as = Store(set.as, as, ruby)
  BY DEF Mapped
<1>6. NamesWhole(later.as, Store(names, as, ruby))
  <2> HIDE DEF later, set, names
  <2> QED
    BY <1>1, <1>2, <1>5, StoredWhole
<1>7. /\ sets' = [sets EXCEPT ![handle] = later]
      /\ given' = [given EXCEPT ![handle] = Store(names, as, ruby)]
  BY DEF Map
<1> HIDE DEF later, set, names
<1> QED
  BY <1>1, <1>3, <1>4, <1>6, <1>7, SetWritten

(* one name of a set is cut, or stays:                                     *)
LEMMA NameCut ==
    ASSUME SetsInv, NEW s \in 1 .. Len(sets), NEW as \in DOMAIN given[s],
           NEW left, left \in Cut(sets[s].as[as]),
           InLoaded(sets[s].as[as]) => left = sets[s].as[as],
           sets' = [sets EXCEPT ![s].as[as] = left], given' = given
    PROVE  SetsInv' /\ Len(sets') = Len(sets)
<1> DEFINE set == sets[s]
           names == given[s]
           later == [set EXCEPT !.as = [set.as EXCEPT ![as] = left]]
<1>1. /\ set \in MappingSets(Name) /\ names \in Table(ASNames, Names)
      /\ NamesWhole(set.as, names)
  BY DEF SetsInv
<1>2. names[as] \in Name /\ as \in DOMAIN set.as /\ as \in ASNames
  BY <1>1, TableParts, NamesAreNames DEF NamesWhole
<1>3. set.as[as] \in Cut(names[as]) /\ (InLoaded(names[as]) => set.as[as] = names[as])
  BY <1>1 DEF NamesWhole, Remains
<1>4. left \in Name /\ Remains(left, names[as])
  <2>1. left \in Name /\ left \in Cut(names[as])
    BY <1>2, <1>3, CutRemains
  <2> QED
    BY <2>1, <1>3 DEF Remains
<1>5. set.as \in Table(ASNames, Name) /\ later.as = [set.as EXCEPT ![as] = left]
  BY <1>1 DEF MappingSets
<1>6. later.as \in Table(ASNames, Name)
  <2>1. PICK D \in SUBSET ASNames : set.as \in [D -> Name]
    BY <1>5 DEF Table
  <2>2. later.as \in [D -> Name]
    BY <2>1, <1>4, <1>5
  <2> QED
    BY <2>2 DEF Table
<1>7. later \in MappingSets(Name)
  BY <1>1, <1>6 DEF MappingSets
<1>8. NamesWhole(later.as, names)
  BY <1>1, <1>4, <1>5 DEF NamesWhole
<1>9. /\ sets' = [sets EXCEPT ![s] = later]
      /\ given' = [given EXCEPT ![s] = names]
  BY <1>1 DEF SetsInv
<1> HIDE DEF later, set, names
<1> QED
  BY <1>1, <1>7, <1>8, <1>9, SetWritten

(* The name that is looked up is one that was given, whole or cut.         *)
LEMMA LookedUp ==
    ASSUME SetsInv, UsesInv, NEW m \in Mappers, mappers[m].set # 0, NEW as,
           Lookup(sets[mappers[m].set].as, as) # NoName
    PROVE  LET s == mappers[m].set
               name == sets[s].as[as]
           IN  /\ s \in 1 .. Len(sets) /\ as \in DOMAIN given[s]
               /\ name = Lookup(sets[s].as, as) /\ name \in Name
<1> DEFINE s == mappers[m].set
           name == sets[s].as[as]
<1>1. s \in 1 .. Len(sets)
  <2>1. s \in 0 .. Len(sets) /\ Len(sets) \in Nat
    BY DEF UsesInv, SetsInv
  <2> QED
    BY <2>1
<1> HIDE DEF s
<1>2. as \in DOMAIN sets[s].as /\ name = Lookup(sets[s].as, as)
  BY DEF Lookup, s
<1>3. sets[s].as \in Table(ASNames, Name) /\ DOMAIN sets[s].as = DOMAIN given[s]
  <2>1. sets[s] \in MappingSets(Name) /\ NamesWhole(sets[s].as, given[s])
    BY <1>1 DEF SetsInv
  <2> QED
    BY <2>1 DEF MappingSets, NamesWhole
<1>4. name \in Name
  BY <1>2, <1>3, TableParts
<1> HIDE DEF name
<1> QED
  BY <1>1, <1>2, <1>3, <1>4 DEF s, name

(* Where a lookup fails: behind the namespaces that are loaded.            *)
LEMMA FailedSegment ==
    ASSUME NEW name \in Name, NEW k \in 1 .. Len(name), Resolved(name)[k] = NoName,
           Loaded \subseteq constants
    PROVE  /\ SubSeq(name, 1, k) \in Cut(name)
           /\ InLoaded(name) => SubSeq(name, 1, k) = name
<1>1. SubSeq(name, 1, k) \in Cut(name)
  BY DEF Cut
<1>2. /\ SubSeq(name, 1, k) \in Seq(STRING) /\ Len(name) \in Nat
      /\ SubSeq(name, 1, Len(name)) = name
  BY DEF Name
<1>3. ASSUME InLoaded(name) PROVE k = Len(name)
  <2> SUFFICES ASSUME k # Len(name) PROVE FALSE
    OBVIOUS
  <2>0. Len(name) \in Nat
    BY <1>2
  <2>1. \A j \in 1 .. k : j \in 1 .. Len(name) - 1
    BY <2>0
  <2>2. \A j \in 1 .. k : SubSeq(name, 1, j) \in constants
    BY <1>3, <2>1 DEF InLoaded
  <2>3. Resolved(name)[k] = SubSeq(name, 1, k)
    BY <2>2, ResolvedDefined
  <2> QED
    BY <1>2, <2>3, FastClassMappingAssumption
<1> QED
  BY <1>1, <1>2, <1>3

(* get_ruby_obj.                                                           *)
LEMMA GetRubyObjStep ==
    ASSUME SetsInv, UsesInv, NEW m \in Mappers, NEW as, GetRubyObj(m, as)
    PROVE  SetsInv' /\ Len(sets') = Len(sets)
<1> DEFINE s == mappers[m].set
           name == Lookup(sets[s].as, as)
<1>1. CASE GetTypedHash(m, as)
  BY <1>1 DEF GetTypedHash, registry, SetsInv
<1>2. CASE GetInstance(m, as)
  <2>1. name # NoName /\ sets' = [sets EXCEPT ![s].as[as] = name] /\ given' = given
    BY <1>2 DEF GetInstance, InstanceLeaving
  <2>2. /\ s \in 1 .. Len(sets) /\ as \in DOMAIN given[s]
        /\ name = sets[s].as[as] /\ name \in Name
    BY <2>1, LookedUp DEF GetRubyObj
  <2>3. name \in Cut(name)
    BY <2>2, WholeRemains DEF Remains
  <2> HIDE DEF name, s
  <2> QED
    BY <2>1, <2>2, <2>3, NameCut
<1>3. CASE GetRaises(m, as)
  <2>1. PICK k \in 1 .. Len(name) :
          /\ Resolved(name)[k] = NoName
          /\ sets' = [sets EXCEPT ![s].as[as] = SubSeq(name, 1, k - 0)]
    BY <1>3 DEF GetRaises, RaisesLeaving
  <2>2. name # NoName /\ given' = given
    BY <1>3 DEF GetRaises, RaisesLeaving
  <2>3. /\ s \in 1 .. Len(sets) /\ as \in DOMAIN given[s]
        /\ name = sets[s].as[as] /\ name \in Name
    BY <2>2, LookedUp DEF GetRubyObj
  <2> HIDE DEF name, s
  <2> DEFINE left == SubSeq(name, 1, k - 0)
  <2>4. k - 0 = k
    OBVIOUS
  <2>5. Resolved(name)[k] = NoName /\ Loaded \subseteq constants
    BY <2>1 DEF UsesInv
  <2>6. left \in Cut(name) /\ (InLoaded(name) => left = name)
    BY <2>3, <2>4, <2>5, FailedSegment
  <2> HIDE DEF left
  <2>7. sets' = [sets EXCEPT ![s].as[as] = left]
    BY <2>1 DEF left
  <2> QED
    BY <2>2, <2>3, <2>6, <2>7, NameCut
<1> QED
  BY <1>1, <1>2, <1>3 DEF GetRubyObj

(* Every step keeps the names whole.                                       *)
LEMMA StepSets ==
    ASSUME SetsInv, UsesInv, [Next]_vars
    PROVE  SetsInv' /\ Len(sets) \in Nat /\ Len(sets) <= Len(sets')
<1>0. Len(sets) \in Nat /\ mappings \in 0 .. Len(sets)
  BY DEF SetsInv, UsesInv
<1>1. CASE UNCHANGED <<sets, given>>
  BY <1>0, <1>1 DEF SetsInv
<1>2. CASE Mappings
  BY <1>0, <1>2, MappingsStep
<1>3. CASE \E as \in AsNames, ruby \in RubyNames : Map(as, ruby)
  <2>1. SetsInv' /\ Len(sets') = Len(sets)
    BY <1>3, MapStep
  <2> QED
    BY <1>0, <2>1
<1>4. CASE \E m \in Mappers : \E as \in AsNames : GetRubyObj(m, as)
  <2>1. SetsInv' /\ Len(sets') = Len(sets)
    BY <1>4, GetRubyObjStep
  <2> QED
    BY <1>0, <2>1
<1>5. Define => Mappings
  BY DEF Define
<1>6. ASSUME NEW m \in Mappers, New(m) PROVE Mappings
  BY <1>6 DEF New, NewWith
<1>7. CASE MappingsRaise \/ EndDefine \/ Reset
  BY <1>1, <1>7 DEF MappingsRaise, EndDefine, Reset, registry
<1>8. CASE \E b \in BOOLEAN : UseArrayCollection(b)
  BY <1>1, <1>8 DEF UseArrayCollection
<1>9. CASE \E m \in Mappers : Drop(m) \/ \E c \in Classes : PropsForSerialization(m, c)
  BY <1>1, <1>9 DEF Drop, PropsForSerialization, registry
<1>10. CASE \E name \in RubyNames : Load(name)
  BY <1>1, <1>10 DEF Load, registry
<1>11. CASE \E c \in Classes, ms \in SUBSET Getters : Change(c, ms)
  BY <1>1, <1>11 DEF Change, registry
<1>12. CASE UNCHANGED vars
  BY <1>1, <1>12 DEF vars, registry
<1> QED
  BY <1>2, <1>3, <1>4, <1>5, <1>6, <1>7, <1>8, <1>9, <1>10, <1>11, <1>12 DEF Next

Instances(n) == [set : 0 .. n, useAC : BOOLEAN, props : Table(Classes, SUBSET Getters)]

(* The rest of the state keeps its types.                                  *)
LEMMA StepUses ==
    ASSUME SetsInv, UsesInv, [Next]_vars
    PROVE  UsesInv'
<1>0. /\ Len(sets) \in Nat /\ Len(sets') \in Nat /\ Len(sets) <= Len(sets')
      /\ 0 .. Len(sets) \subseteq 0 .. Len(sets')
  <2>1. SetsInv' /\ Len(sets) \in Nat /\ Len(sets) <= Len(sets')
    BY StepSets
  <2>2. Len(sets') \in Nat
    BY <2>1 DEF SetsInv
  <2> QED
    BY <2>1, <2>2
<1>1. /\ mappings \in 0 .. Len(sets') /\ handle \in 0 .. Len(sets')
      /\ mappers \in [Mappers -> Instances(Len(sets))]
      /\ mappers \in [Mappers -> Instances(Len(sets'))]
  BY <1>0 DEF UsesInv, Instances
<1>2. ASSUME mappings' \in 0 .. Len(sets'), handle' \in 0 .. Len(sets'), useAC' \in BOOLEAN,
             mappers' \in [Mappers -> Instances(Len(sets'))],
             changed' \in [Mappers -> SUBSET Classes], UNCHANGED program
      PROVE  UsesInv'
  BY <1>2 DEF UsesInv, Instances, program
<1>3. ASSUME UNCHANGED <<mappers, changed, program>>, useAC' \in BOOLEAN,
             mappings' \in 0 .. Len(sets'), handle' \in 0 .. Len(sets')
      PROVE  UsesInv'
  BY <1>1, <1>2, <1>3 DEF UsesInv
<1>4. 0 \in 0 .. Len(sets')
  BY <1>0
<1>5. CASE MappingsRaise
  BY <1>1, <1>3, <1>5 DEF MappingsRaise, registry, UsesInv
<1>6. CASE Define
  <2>1. mappings' \in 0 .. Len(sets')
    BY <1>0, <1>6, MappingsStep DEF Define, UsesInv
  <2> QED
    BY <1>3, <1>6, <2>1 DEF Define, UsesInv
<1>7. CASE EndDefine
  BY <1>1, <1>3, <1>7, <1>4 DEF EndDefine, UsesInv
<1>8. CASE Reset
  BY <1>1, <1>3, <1>8, <1>4 DEF Reset, UsesInv
<1>9. CASE \E as \in AsNames, ruby \in RubyNames : Map(as, ruby)
  BY <1>1, <1>3, <1>9 DEF Map, UsesInv
<1>10. CASE \E b \in BOOLEAN : UseArrayCollection(b)
  BY <1>1, <1>3, <1>10 DEF UseArrayCollection, UsesInv
<1>11. ASSUME NEW m \in Mappers, New(m) PROVE UsesInv'
  <2>1. mappings' \in 0 .. Len(sets')
    BY <1>0, <1>11, MappingsStep DEF New, NewWith, UsesInv
  <2>2. NoEntries \in Table(Classes, SUBSET Getters)
    BY EmptyTable
  <2> DEFINE made == [set |-> mappings', useAC |-> useAC, props |-> NoEntries]
  <2>3. made \in Instances(Len(sets'))
    BY <2>1, <2>2 DEF Instances, UsesInv
  <2>4. mappers' = [mappers EXCEPT ![m] = made] /\ changed' = [changed EXCEPT ![m] = {}]
    BY <1>11 DEF New, NewWith
  <2> HIDE DEF made
  <2>5. mappers' \in [Mappers -> Instances(Len(sets'))]
    BY <1>1, <2>3, <2>4
  <2>6. changed' \in [Mappers -> SUBSET Classes]
    BY <2>4 DEF UsesInv
  <2>7. handle' = handle /\ useAC' = useAC /\ UNCHANGED program
    BY <1>11 DEF New, NewWith
  <2> QED
    BY <1>1, <1>2, <2>1, <2>5, <2>6, <2>7 DEF UsesInv
<1>12. ASSUME NEW m \in Mappers, Drop(m) PROVE UsesInv'
  <2>1. mappers' = [mappers EXCEPT ![m].set = 0]
    BY <1>12 DEF Drop
  <2>2. mappers[m] \in Instances(Len(sets'))
    BY <1>1
  <2>3. [mappers[m] EXCEPT !.set = 0] \in Instances(Len(sets'))
    BY <1>0, <2>2 DEF Instances
  <2>4. mappers' \in [Mappers -> Instances(Len(sets'))]
    BY <1>1, <2>1, <2>3
  <2> QED
    BY <1>1, <1>2, <1>12, <2>4 DEF Drop, registry, UsesInv
<1>13. ASSUME NEW m \in Mappers, NEW as \in AsNames, GetRubyObj(m, as) PROVE UsesInv'
  <2>1. UNCHANGED <<mappings, useAC, handle, mappers, program, changed>>
    BY <1>13 DEF GetRubyObj, GetTypedHash, GetInstance, InstanceLeaving,
                 GetRaises, RaisesLeaving, registry
  <2> QED
    BY <1>1, <1>3, <2>1 DEF UsesInv
<1>14. ASSUME NEW m \in Mappers, NEW c \in Classes, PropsForSerialization(m, c)
       PROVE  UsesInv'
  <2> DEFINE known == mappers[m].props
             props == IF c \in DOMAIN known THEN known[c] ELSE getters[c]
  <2>1. mappers' = [mappers EXCEPT ![m].props = Store(known, c, props)]
    BY <1>14 DEF PropsForSerialization
  <2>2. known \in Table(Classes, SUBSET Getters) /\ mappers[m] \in Instances(Len(sets'))
    BY <1>1 DEF Instances
  <2>3. props \in SUBSET Getters
    BY <2>2, TableParts DEF UsesInv
  <2> HIDE DEF props
  <2>4. Store(known, c, props) \in Table(Classes, SUBSET Getters)
    BY <2>2, <2>3, StoreType
  <2> HIDE DEF known
  <2>5. [mappers[m] EXCEPT !.props = Store(known, c, props)] \in Instances(Len(sets'))
    BY <2>2, <2>4 DEF Instances
  <2>6. mappers' \in [Mappers -> Instances(Len(sets'))]
    BY <1>1, <2>1, <2>5
  <2> QED
    BY <1>1, <1>2, <1>14, <2>6 DEF PropsForSerialization, registry, UsesInv
<1>15. ASSUME NEW name \in RubyNames, Load(name) PROVE UsesInv'
  <2>1. UNCHANGED <<registry, mappers, getters, changed>>
    BY <1>15 DEF Load
  <2>2. constants' = constants \cup {name} /\ changes' \in 0 .. MaxChanges
    BY <1>15, FastClassMappingAssumption DEF Load, UsesInv
  <2> QED
    BY <2>1, <2>2 DEF UsesInv, registry
<1>16. ASSUME NEW c \in Classes, NEW ms \in SUBSET Getters, Change(c, ms) PROVE UsesInv'
  <2>1. UNCHANGED <<registry, mappers, constants>>
    BY <1>16 DEF Change
  <2>2. changes' \in 0 .. MaxChanges
    BY <1>16, FastClassMappingAssumption DEF Change, UsesInv
  <2>3. getters' \in [Classes -> SUBSET Getters] /\ changed' \in [Mappers -> SUBSET Classes]
    BY <1>16 DEF Change, UsesInv
  <2> QED
    BY <2>1, <2>2, <2>3 DEF UsesInv, registry
<1>17. CASE UNCHANGED vars
  BY <1>1, <1>3, <1>17 DEF vars, registry, UsesInv
<1> QED
  BY <1>5, <1>6, <1>7, <1>8, <1>9, <1>10, <1>11, <1>12, <1>13, <1>14, <1>15, <1>16, <1>17 DEF Next

(* The lists are those of the classes, but for changes, and what is        *)
(* answered from them.                                                     *)
LEMMA StepProps ==
    ASSUME IInv, [Next]_vars
    PROVE  FreshProps' /\ PropsExactUnlessChanged'
<1>0. /\ FreshProps /\ PropsExactUnlessChanged
      /\ mappers \in [Mappers -> Instances(Len(sets))]
      /\ changed \in [Mappers -> SUBSET Classes] /\ getters \in [Classes -> SUBSET Getters]
  BY DEF IInv, UsesInv, Instances
<1>1. ASSUME answer'.kind \notin {"props", "lost"} PROVE PropsExactUnlessChanged'
  BY <1>1 DEF PropsExactUnlessChanged
<1>2. ASSUME UNCHANGED <<mappers, changed, getters>>, answer'.kind \notin {"props", "lost"}
      PROVE  FreshProps' /\ PropsExactUnlessChanged'
  BY <1>0, <1>1, <1>2 DEF FreshProps
<1>3. CASE MappingsRaise \/ Define \/ EndDefine \/ Reset
  BY <1>2, <1>3 DEF MappingsRaise, Define, EndDefine, Reset, registry, program, Nothing
<1>4. CASE \E as \in AsNames, ruby \in RubyNames : Map(as, ruby)
  BY <1>2, <1>4 DEF Map, program, Nothing
<1>5. CASE \E b \in BOOLEAN : UseArrayCollection(b)
  BY <1>2, <1>5 DEF UseArrayCollection, program, Nothing
<1>6. ASSUME NEW m \in Mappers, New(m) PROVE FreshProps' /\ PropsExactUnlessChanged'
  <2> DEFINE made == [set |-> mappings', useAC |-> useAC, props |-> NoEntries]
  <2>1. /\ mappers' = [mappers EXCEPT ![m] = made] /\ answer'.kind = "none"
        /\ changed' = [changed EXCEPT ![m] = {}] /\ getters' = getters
    BY <1>6 DEF New, NewWith, Nothing, program
  <2>2. DOMAIN made.props = {}
    BY DEF NoEntries
  <2> HIDE DEF made
  <2>3. mappers'[m] = made /\ \A n \in Mappers : n # m => mappers'[n] = mappers[n]
    BY <1>0, <2>1
  <2>4. \A n \in Mappers : n # m => changed'[n] = changed[n]
    BY <1>0, <2>1
  <2>5. FreshProps'
    BY <1>0, <2>1, <2>2, <2>3, <2>4 DEF FreshProps
  <2> QED
    BY <1>1, <2>1, <2>5
<1>7. ASSUME NEW m \in Mappers, Drop(m) PROVE FreshProps' /\ PropsExactUnlessChanged'
  <2>1. /\ mappers' = [mappers EXCEPT ![m].set = 0] /\ answer'.kind = "none"
        /\ changed' = changed /\ getters' = getters
    BY <1>7 DEF Drop, Nothing, program
  <2>2. \A n \in Mappers : mappers'[n].props = mappers[n].props
    BY <1>0, <2>1 DEF Instances
  <2>3. FreshProps'
    BY <1>0, <2>1, <2>2 DEF FreshProps
  <2> QED
    BY <1>1, <2>1, <2>3
<1>8. ASSUME NEW m \in Mappers, NEW as \in AsNames, GetRubyObj(m, as)
      PROVE  FreshProps' /\ PropsExactUnlessChanged'
  <2>1. UNCHANGED <<mappers, changed, getters>>
    BY <1>8 DEF GetRubyObj, GetTypedHash, GetInstance, InstanceLeaving,
                GetRaises, RaisesLeaving, program
  <2>2. answer'.kind \in {"typed", "instance", "raised"}
    <3>1. GetTypedHash(m, as) => answer'.kind = "typed"
      BY DEF GetTypedHash
    <3>2. GetInstance(m, as) => answer'.kind = "instance"
      <4>1. GetInstance(m, as) => \E c, w : answer' = [kind |-> "instance", class |-> c, wanted |-> w]
        BY Zenon DEF GetInstance, InstanceLeaving
      <4> QED
        BY <4>1
    <3>3. GetRaises(m, as) => answer'.kind = "raised"
      <4>1. GetRaises(m, as) => answer' = [kind |-> "raised"]
        BY Zenon DEF GetRaises, RaisesLeaving
      <4> QED
        BY <4>1
    <3> QED
      BY <1>8, <3>1, <3>2, <3>3 DEF GetRubyObj
  <2> QED
    BY <1>2, <2>1, <2>2
<1>9. ASSUME NEW m \in Mappers, NEW c \in Classes, PropsForSerialization(m, c)
      PROVE  FreshProps' /\ PropsExactUnlessChanged'
  <2> DEFINE known == mappers[m].props
             props == IF c \in DOMAIN known THEN known[c] ELSE getters[c]
             kept == Store(known, c, props)
  <2>1. /\ mappers' = [mappers EXCEPT ![m].props = kept]
        /\ changed' = changed /\ getters' = getters
    BY <1>9 DEF PropsForSerialization, program
  <2>2. answer' = IF props \subseteq getters[c]
                  THEN [kind |-> "props", class |-> c, changed |-> changed[m],
                        exact |-> props = getters[c]]
                  ELSE [kind |-> "lost", class |-> c, changed |-> changed[m]]
    BY <1>9 DEF PropsForSerialization
  <2>3. c \notin changed[m] => props = getters[c]
    BY <1>0 DEF FreshProps
  <2>4. /\ DOMAIN kept = DOMAIN known \cup {c} /\ kept[c] = props
        /\ \A x \in DOMAIN known : x # c => kept[x] = known[x]
    BY DEF Store
  <2>5. /\ mappers'[m].props = kept
        /\ \A n \in Mappers : n # m => mappers'[n].props = mappers[n].props
    <3> HIDE DEF kept
    <3> QED
      BY <1>0, <2>1 DEF Instances
  <2> HIDE DEF kept, props
  <2>6. FreshProps'
    BY <1>0, <2>1, <2>3, <2>4, <2>5 DEF FreshProps
  <2>7. PropsExactUnlessChanged'
    BY <2>2, <2>3 DEF PropsExactUnlessChanged
  <2> QED
    BY <2>6, <2>7
<1>10. CASE \E name \in RubyNames : Load(name)
  BY <1>2, <1>10 DEF Load, Nothing
<1>11. ASSUME NEW c \in Classes, NEW ms \in SUBSET Getters, Change(c, ms)
       PROVE  FreshProps' /\ PropsExactUnlessChanged'
  <2>1. /\ getters' = [getters EXCEPT ![c] = ms] /\ mappers' = mappers
        /\ changed' = [m \in Mappers |-> changed[m] \cup {c}] /\ answer'.kind = "none"
    BY <1>11 DEF Change, Nothing
  <2>2. \A d : d # c => getters'[d] = getters[d]
    BY <1>0, <2>1
  <2>3. \A m \in Mappers : changed'[m] = changed[m] \cup {c}
    BY <2>1
  <2>4. FreshProps'
    BY <1>0, <2>1, <2>2, <2>3 DEF FreshProps
  <2> QED
    BY <1>1, <2>1, <2>4
<1>12. CASE UNCHANGED vars
  BY <1>0, <1>12 DEF vars, program, FreshProps, PropsExactUnlessChanged
<1> QED
  BY <1>3, <1>4, <1>5, <1>6, <1>7, <1>8, <1>9, <1>10, <1>11, <1>12 DEF Next

----------------------------------------------------------------------------
LEMMA InitIInv == Init => IInv
<1> SUFFICES ASSUME Init PROVE IInv
  OBVIOUS
<1>1. SetsInv
  BY DEF Init, SetsInv
<1>2. NoEntries \in Table(Classes, SUBSET Getters)
  BY EmptyTable
<1>3. Unused \in Instances(0)
  BY <1>2 DEF Unused, Instances
<1>4. mappers \in [Mappers -> Instances(0)] /\ Len(sets) = 0
  BY <1>3 DEF Init
<1>5. UsesInv
  <2>1. mappers \in [Mappers -> Instances(Len(sets))]
    BY <1>4
  <2>2. mappings \in 0 .. Len(sets) /\ handle \in 0 .. Len(sets) /\ changes \in 0 .. MaxChanges
    BY <1>4, FastClassMappingAssumption DEF Init
  <2> QED
    BY <2>1, <2>2 DEF Init, UsesInv, Instances
<1>6. DOMAIN Unused.props = {}
  BY DEF Unused, NoEntries
<1>7. FreshProps
  BY <1>6 DEF Init, FreshProps
<1>8. PropsExactUnlessChanged
  BY DEF Init, Nothing, PropsExactUnlessChanged
<1> QED
  BY <1>1, <1>5, <1>7, <1>8 DEF IInv

LEMMA NextIInv == IInv /\ [Next]_vars => IInv'
  BY StepSets, StepUses, StepProps DEF IInv

LEMMA IInvAlways == Spec => []IInv
  BY InitIInv, NextIInv, PTL DEF Spec

(* The state keeps its types: in particular no reset, no lookup and no     *)
(* default pair leaves a table with a key or value that is no name.        *)
THEOREM TypeOKAlways == Spec => []TypeOK
<1>1. ASSUME IInv PROVE TypeOK
  <2>1. mappings \in 0 .. Len(sets) /\ handle \in 0 .. Len(sets) /\ useAC \in BOOLEAN
    BY <1>1 DEF IInv, UsesInv
  <2>2. DOMAIN given = DOMAIN sets /\ DOMAIN sets = 1 .. Len(sets)
    BY <1>1 DEF IInv, SetsInv
  <2>3. ASSUME NEW i \in 1 .. Len(sets)
        PROVE  /\ DOMAIN sets[i].as = DOMAIN given[i]
               /\ DOMAIN given[i] \subseteq ASNames
               /\ \A as \in DOMAIN given[i] : sets[i].as[as] \in Cut(given[i][as])
               /\ \A ruby \in DOMAIN sets[i].rb :
                    ruby \in Names /\ sets[i].rb[ruby] \in ASNames
    <3>1. /\ sets[i] \in MappingSets(Name) /\ given[i] \in Table(ASNames, Names)
          /\ NamesWhole(sets[i].as, given[i])
      BY <1>1 DEF IInv, SetsInv
    <3>2. sets[i].rb \in Table(Names, ASNames)
      BY <3>1 DEF MappingSets
    <3>3. DOMAIN given[i] \subseteq ASNames
      BY <3>1, TableParts
    <3>4. \A ruby \in DOMAIN sets[i].rb : ruby \in Names /\ sets[i].rb[ruby] \in ASNames
      BY <3>2, TableParts
    <3> QED
      BY <3>1, <3>3, <3>4 DEF NamesWhole, Remains
  <2>4. ASSUME NEW m \in Mappers
        PROVE  /\ mappers[m].set \in 0 .. Len(sets)
               /\ DOMAIN mappers[m].props \subseteq Classes
               /\ changed[m] \subseteq Classes
    <3>1. mappers[m] \in Instances(Len(sets)) /\ changed[m] \subseteq Classes
      BY <1>1 DEF IInv, UsesInv, Instances
    <3>2. /\ mappers[m].props \in Table(Classes, SUBSET Getters)
          /\ mappers[m].set \in 0 .. Len(sets)
      BY <3>1 DEF Instances
    <3> QED
      BY <3>1, <3>2, TableParts
  <2>5. constants \subseteq Loaded \cup RubyNames /\ changes \in 0 .. MaxChanges
    BY <1>1 DEF IInv, UsesInv
  <2> QED
    BY <2>1, <2>2, <2>3, <2>4, <2>5 DEF TypeOK
<1> QED
  BY <1>1, IInvAlways, PTL

(* Names in namespaces that are loaded are never lost to a failed lookup.  *)
THEOREM LoadedNamespacesStayWholeAlways == Spec => []LoadedNamespacesStayWhole
<1>1. ASSUME IInv PROVE LoadedNamespacesStayWhole
  <2>1. DOMAIN sets = 1 .. Len(sets)
    BY <1>1 DEF IInv, SetsInv
  <2>2. ASSUME NEW i \in 1 .. Len(sets), NEW as \in DOMAIN given[i], InLoaded(given[i][as])
        PROVE  sets[i].as[as] = given[i][as]
    BY <1>1, <2>2 DEF IInv, SetsInv, NamesWhole, Remains
  <2> QED
    BY <2>1, <2>2 DEF LoadedNamespacesStayWhole, InLoaded
<1> QED
  BY <1>1, IInvAlways, PTL

(* A list of getters that is not that of its class is of one that was      *)
(* changed while the instance was in use.                                  *)
THEOREM PropsExactUnlessChangedAlways == Spec => []PropsExactUnlessChanged
  BY IInvAlways, PTL DEF IInv
=============================================================================
