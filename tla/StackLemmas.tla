---------------------------- MODULE StackLemmas ----------------------------
(***************************************************************************)
(* Facts about recursion, and about sequences used as stacks of calls,     *)
(* that the proofs share.                                                  *)
(*                                                                         *)
(* The library's induction theorems have an operator for the formula to    *)
(* prove, which the provers cannot instantiate.  Here it is a set, and the *)
(* theorem follows from the well-foundedness of <.                         *)
(***************************************************************************)
EXTENDS Integers, Sequences, FiniteSets, FiniteSetTheorems, FunctionTheorems,
        SequenceTheorems, WellFoundedInduction, TLAPS

(* Induction over the natural numbers in a set.                            *)
LEMMA SetInduction ==
    ASSUME NEW S, 0 \in S, \A n \in Nat : n \in S => n + 1 \in S
    PROVE  Nat \subseteq S
<1> SUFFICES ASSUME Nat \ S # {} PROVE FALSE
  OBVIOUS
<1>1. IsWellFoundedOn(OpToRel(<, Nat), Nat)
  BY NatLessThanWellFounded
<1>2. PICK x \in Nat \ S : \A y \in Nat \ S : ~(<<y, x>> \in OpToRel(<, Nat))
  BY <1>1, WFMin, Nat \ S \subseteq Nat
<1>3. \A y \in Nat \ S : ~(y < x)
  BY <1>2 DEF OpToRel
<1>4. x - 1 \in Nat /\ x - 1 < x
  OBVIOUS
<1> QED
  BY <1>3, <1>4

(* A recursion over 0 .. n has a solution; F gives its step.               *)
Solves(h, n, b, F) == h[0] = b /\ \A i \in 1 .. n : h[i] = F[<<h[i - 1], i>>]
StepOver(n, T) == [T \X (1 .. n) -> T]

LEMMA RecursionSolved ==
    ASSUME NEW n \in Nat, NEW T, NEW b \in T, NEW F \in StepOver(n, T)
    PROVE  \E h \in [0 .. n -> T] : Solves(h, n, b, F)
<1> USE DEF Solves, StepOver
<1> DEFINE S == {m \in Nat : m <= n => \E h \in [0 .. m -> T] : Solves(h, m, b, F)}
<1>1. 0 \in S
  <2>1. [i \in 0 .. 0 |-> b] \in [0 .. 0 -> T] /\ Solves([i \in 0 .. 0 |-> b], 0, b, F)
    OBVIOUS
  <2> QED
    BY <2>1
<1>2. ASSUME NEW m \in Nat, m \in S PROVE m + 1 \in S
  <2> SUFFICES ASSUME m + 1 <= n
               PROVE  \E h \in [0 .. m + 1 -> T] : Solves(h, m + 1, b, F)
    OBVIOUS
  <2>1. PICK h \in [0 .. m -> T] : Solves(h, m, b, F)
    BY <1>2
  <2>2. h[m] \in T /\ m + 1 \in 1 .. n /\ m \in 0 .. m
    OBVIOUS
  <2> DEFINE last == F[<<h[m], m + 1>>]
             g == [i \in 0 .. m + 1 |-> IF i = m + 1 THEN last ELSE h[i]]
  <2>3. last \in T
    BY <2>2
  <2> HIDE DEF last
  <2>4. g \in [0 .. m + 1 -> T]
    BY <2>3
  <2>5. g[m + 1] = last /\ \A i \in 0 .. m : g[i] = h[i]
    OBVIOUS
  <2> HIDE DEF g
  <2>6. g[0] = b
    BY <2>1, <2>5
  <2>7. ASSUME NEW i \in 1 .. m + 1 PROVE g[i] = F[<<g[i - 1], i>>]
    <3>1. CASE i = m + 1
      <4>1. i - 1 = m
        BY <3>1
      <4> QED
        BY <2>2, <2>5, <3>1, <4>1 DEF last
    <3>2. CASE i # m + 1
      <4>1. i \in 1 .. m /\ i \in 0 .. m /\ i - 1 \in 0 .. m
        BY <3>2
      <4> QED
        BY <2>1, <2>5, <4>1
    <3> QED
      BY <3>1, <3>2
  <2> QED
    BY <2>4, <2>6, <2>7
<1>3. n \in S
  BY <1>1, <1>2, SetInduction
<1> QED
  BY <1>3

----------------------------------------------------------------------------
(* Sequences of anything.                                                  *)
IsSeq(s) == \E S : s \in Seq(S)

LEMMA SeqFacts ==
    ASSUME NEW s, IsSeq(s)
    PROVE  /\ Len(s) \in Nat /\ DOMAIN s = 1 .. Len(s)
           /\ s # << >> => /\ Len(s) > 0 /\ 1 \in DOMAIN s /\ Head(s) = s[1]
                           /\ IsSeq(Tail(s)) /\ Len(Tail(s)) = Len(s) - 1
                           /\ \A i \in 1 .. Len(s) - 1 : Tail(s)[i] = s[i + 1]
<1>1. PICK S : s \in Seq(S)
  BY DEF IsSeq
<1>2. Len(s) \in Nat /\ DOMAIN s = 1 .. Len(s)
  BY <1>1
<1>3. ASSUME s # << >>
      PROVE  /\ Len(s) > 0 /\ 1 \in DOMAIN s /\ Head(s) = s[1]
             /\ Tail(s) \in Seq(S) /\ Len(Tail(s)) = Len(s) - 1
             /\ \A i \in 1 .. Len(s) - 1 : Tail(s)[i] = s[i + 1]
  BY <1>1, <1>3
<1> QED
  BY <1>2, <1>3 DEF IsSeq

LEMMA ConcatFacts ==
    ASSUME NEW s, IsSeq(s), NEW t, IsSeq(t)
    PROVE  /\ IsSeq(s \o t) /\ Len(s \o t) = Len(s) + Len(t)
           /\ \A i \in 1 .. Len(s) : (s \o t)[i] = s[i]
           /\ \A i \in 1 .. Len(t) : (s \o t)[Len(s) + i] = t[i]
<1>1. PICK S : s \in Seq(S)
  BY DEF IsSeq
<1>2. PICK T : t \in Seq(T)
  BY DEF IsSeq
<1>3. s \in Seq(S \cup T) /\ t \in Seq(S \cup T)
  BY <1>1, <1>2
<1>4. s \o t \in Seq(S \cup T)
  BY <1>3
<1> QED
  BY <1>3, <1>4 DEF IsSeq

(* Its entries are those of its parts.                                     *)
LEMMA ConcatEntries ==
    ASSUME NEW s, IsSeq(s), NEW t, IsSeq(t), NEW i \in 1 .. Len(s \o t)
    PROVE  \/ \E j \in 1 .. Len(s) : (s \o t)[i] = s[j]
           \/ \E j \in 1 .. Len(t) : (s \o t)[i] = t[j]
<1>1. /\ Len(s \o t) = Len(s) + Len(t)
      /\ \A j \in 1 .. Len(s) : (s \o t)[j] = s[j]
      /\ \A j \in 1 .. Len(t) : (s \o t)[Len(s) + j] = t[j]
  BY ConcatFacts
<1>2. Len(s) \in Nat /\ Len(t) \in Nat
  BY SeqFacts
<1> DEFINE u == s \o t
<1> HIDE DEF u
<1>3. CASE i \in 1 .. Len(s)
  BY <1>1, <1>3 DEF u
<1>4. CASE i \notin 1 .. Len(s)
  <2>1. i - Len(s) \in 1 .. Len(t) /\ Len(s) + (i - Len(s)) = i
    BY <1>1, <1>2, <1>4
  <2>2. u[i] = t[i - Len(s)]
    BY <1>1, <2>1 DEF u
  <2> QED
    BY <2>1, <2>2 DEF u
<1> QED
  BY <1>3, <1>4

LEMMA RangeSeq == ASSUME NEW s PROVE s \in Seq({s[i] : i \in DOMAIN s}) <=> IsSeq(s)
<1>1. s \in Seq({s[i] : i \in DOMAIN s}) => IsSeq(s)
  BY DEF IsSeq
<1>2. ASSUME IsSeq(s) PROVE s \in Seq({s[i] : i \in DOMAIN s})
  <2> DEFINE S == {s[i] : i \in DOMAIN s}
  <2>1. PICK R : s \in Seq(R)
    BY <1>2 DEF IsSeq
  <2>2. s \in [1 .. Len(s) -> S] /\ Len(s) \in Nat
    BY <2>1
  <2> HIDE DEF S
  <2>3. s \in Seq(S)
    BY <2>2
  <2> QED
    BY <2>3 DEF S
<1> QED
  BY <1>1, <1>2

(* The last entry of a stack: what is done at its top leaves it alone.     *)
LEMMA TailLast ==
    ASSUME NEW s, IsSeq(s), s # << >>
    PROVE  /\ Tail(s) # << >> => Len(s) > 1 /\ Tail(s)[Len(Tail(s))] = s[Len(s)]
           /\ Tail(s) = << >> => Len(s) = 1 /\ Head(s) = s[Len(s)]
<1>1. /\ Len(s) \in Nat /\ Len(s) > 0 /\ Head(s) = s[1]
      /\ IsSeq(Tail(s)) /\ Len(Tail(s)) = Len(s) - 1
      /\ \A i \in 1 .. Len(s) - 1 : Tail(s)[i] = s[i + 1]
  BY SeqFacts
<1>2. ASSUME Tail(s) # << >> PROVE Len(s) > 1 /\ Tail(s)[Len(Tail(s))] = s[Len(s)]
  <2>1. Len(Tail(s)) > 0
    BY <1>1, <1>2, SeqFacts
  <2>2. Len(s) - 1 \in 1 .. Len(s) - 1 /\ (Len(s) - 1) + 1 = Len(s) /\ Len(s) > 1
    BY <1>1, <2>1
  <2> QED
    BY <1>1, <2>2
<1>3. ASSUME Tail(s) = << >> PROVE Len(s) = 1 /\ Head(s) = s[Len(s)]
  <2>1. Len(<< >>) = 0
    OBVIOUS
  <2> QED
    BY <1>1, <1>3, <2>1
<1> QED
  BY <1>2, <1>3

LEMMA ConcatLast ==
    ASSUME NEW s, IsSeq(s), NEW t, IsSeq(t), t # << >>
    PROVE  s \o t # << >> /\ (s \o t)[Len(s \o t)] = t[Len(t)]
<1>1. Len(s) \in Nat /\ Len(t) \in Nat /\ Len(t) > 0
  BY SeqFacts
<1>2. Len(t) \in 1 .. Len(t)
  BY <1>1
<1>3. Len(s \o t) = Len(s) + Len(t) /\ (s \o t)[Len(s) + Len(t)] = t[Len(t)]
  BY <1>1, <1>2, ConcatFacts
<1>4. s \o t # << >>
  <2>1. Len(s \o t) > 0
    BY <1>1, <1>3
  <2>2. Len(<< >>) = 0
    OBVIOUS
  <2> QED
    BY <2>1, <2>2
<1> QED
  BY <1>3, <1>4

LEMMA EmptyConcat == ASSUME NEW s, IsSeq(s) PROVE << >> \o s = s /\ s \o << >> = s
<1>1. PICK S : s \in Seq(S)
  BY DEF IsSeq
<1> QED
  BY <1>1

LEMMA FunctionIsSeq ==
    ASSUME NEW n \in Nat, NEW s, DOMAIN s = 1 .. n, s = [i \in 1 .. n |-> s[i]]
    PROVE  IsSeq(s) /\ Len(s) = n
<1>1. s \in Seq({s[i] : i \in 1 .. n}) /\ Len(s) = n
  <2> DEFINE S == {s[i] : i \in 1 .. n}
  <2>1. s \in [1 .. n -> S]
    OBVIOUS
  <2> HIDE DEF S
  <2> QED
    BY <2>1
<1> QED
  BY <1>1 DEF IsSeq

LEMMA ShortSeqs ==
    /\ IsSeq(<< >>)
    /\ \A x : IsSeq(<<x>>) /\ Len(<<x>>) = 1 /\ <<x>>[1] = x
    /\ \A x, y : /\ IsSeq(<<x, y>>) /\ Len(<<x, y>>) = 2
                 /\ <<x, y>>[1] = x /\ <<x, y>>[2] = y
<1>1. << >> \in Seq({})
  OBVIOUS
<1>2. \A x : <<x>> \in Seq({x})
  OBVIOUS
<1>3. \A x, y : <<x, y>> \in Seq({x, y})
  OBVIOUS
<1> QED
  BY <1>1, <1>2, <1>3 DEF IsSeq

LEMMA AppendFacts ==
    ASSUME NEW s, IsSeq(s), NEW x
    PROVE  /\ IsSeq(Append(s, x)) /\ Len(Append(s, x)) = Len(s) + 1
           /\ Append(s, x) # << >>
           /\ \A i \in 1 .. Len(s) : Append(s, x)[i] = s[i]
           /\ Append(s, x)[Len(s) + 1] = x
<1>1. PICK S : s \in Seq(S)
  BY DEF IsSeq
<1>2. s \in Seq(S \cup {x}) /\ x \in S \cup {x}
  BY <1>1
<1> DEFINE T == S \cup {x}
<1> HIDE DEF T
<1>3. s \in Seq(T) /\ x \in T
  BY <1>2 DEF T
<1>4. Append(s, x) \in Seq(T) /\ Len(Append(s, x)) = Len(s) + 1 /\ Len(s) \in Nat
      /\ \A i \in 1 .. Len(s) : Append(s, x)[i] = s[i]
      /\ Append(s, x)[Len(s) + 1] = x
  BY <1>3
<1>5. Append(s, x) # << >>
  <2>1. Len(<< >>) = 0
    OBVIOUS
  <2> QED
    BY <1>4, <2>1
<1> QED
  BY <1>4, <1>5 DEF IsSeq

----------------------------------------------------------------------------
(* The positions of an operation on a stack of calls, and their number.    *)
Positions(s, op) == {i \in DOMAIN s : s[i].op = op}

Count(s, op) == Cardinality(Positions(s, op))

(* Numbers moved up together are as many as before.                        *)
LEMMA ShiftedCardinality ==
    ASSUME NEW S \in SUBSET Nat, IsFiniteSet(S), NEW n \in Nat
    PROVE  LET T == {i + n : i \in S}
           IN  IsFiniteSet(T) /\ Cardinality(T) = Cardinality(S)
<1> DEFINE T == {i + n : i \in S}
           f == [i \in S |-> i + n]
<1>1. f \in [S -> T]
  OBVIOUS
<1>2. \A i, j \in S : f[i] = f[j] => i = j
  OBVIOUS
<1>3. \A t \in T : \E i \in S : f[i] = t
  OBVIOUS
<1> HIDE DEF T, f
<1>4. ExistsBijection(S, T)
  <2>1. f \in Bijection(S, T)
    BY <1>1, <1>2, <1>3 DEF Bijection, Injection, Surjection, IsInjective
  <2> QED
    BY <2>1 DEF ExistsBijection
<1>5. IsFiniteSet(T) /\ Cardinality(T) = Cardinality(S)
  BY <1>4, FS_Bijection
<1> QED
  BY <1>5 DEF T

LEMMA PositionsFinite ==
    ASSUME NEW s, IsSeq(s), NEW op
    PROVE  /\ Positions(s, op) \in SUBSET Nat /\ IsFiniteSet(Positions(s, op))
           /\ Count(s, op) \in Nat
<1>1. Len(s) \in Nat /\ DOMAIN s = 1 .. Len(s)
  BY SeqFacts
<1>2. Positions(s, op) \in SUBSET (1 .. Len(s)) /\ IsFiniteSet(1 .. Len(s))
  BY <1>1, FS_Interval DEF Positions
<1>3. IsFiniteSet(Positions(s, op))
  BY <1>2, FS_Subset
<1>4. Positions(s, op) \in SUBSET Nat
  BY <1>2
<1> QED
  BY <1>3, <1>4, FS_CardinalityType DEF Count

LEMMA CountConcat ==
    ASSUME NEW s, IsSeq(s), NEW t, IsSeq(t), NEW op
    PROVE  Count(s \o t, op) = Count(s, op) + Count(t, op)
<1> DEFINE n == Len(s)
           P == Positions(s, op)
           Q == Positions(t, op)
           Moved == {i + n : i \in Q}
<1>1. n \in Nat /\ Len(t) \in Nat /\ DOMAIN s = 1 .. n /\ DOMAIN t = 1 .. Len(t)
  BY SeqFacts
<1>2. /\ DOMAIN (s \o t) = 1 .. n + Len(t)
      /\ \A i \in 1 .. n : (s \o t)[i] = s[i]
      /\ \A i \in 1 .. Len(t) : (s \o t)[n + i] = t[i]
  BY ConcatFacts, SeqFacts
<1>3. Positions(s \o t, op) = P \cup Moved
  <2> DEFINE u == s \o t
  <2> HIDE DEF u
  <2>1. ASSUME NEW i \in 1 .. n + Len(t) PROVE (u[i].op = op) <=> (i \in P \cup Moved)
    <3>1. CASE i \in 1 .. n
      <4>1. i \notin Moved
        BY <1>1, <3>1 DEF Positions
      <4> QED
        BY <1>1, <1>2, <3>1, <4>1 DEF Positions, u
    <3>2. CASE i \notin 1 .. n
      <4>1. i - n \in 1 .. Len(t) /\ n + (i - n) = i
        BY <1>1, <3>2
      <4>2. u[i] = t[i - n]
        BY <1>2, <4>1 DEF u
      <4>3. i \in Moved <=> i - n \in Q
        <5>1. ASSUME NEW j \in Q, i = j + n PROVE i - n = j
          BY <1>1, <5>1 DEF Positions
        <5>2. (i - n) + n = i
          BY <1>1
        <5> QED
          BY <5>1, <5>2
      <4>4. i \notin P
        BY <1>1, <3>2 DEF Positions
      <4> QED
        BY <1>1, <4>1, <4>2, <4>3, <4>4 DEF Positions
    <3> QED
      BY <3>1, <3>2
  <2>2. P \cup Moved \subseteq 1 .. n + Len(t)
    BY <1>1 DEF Positions
  <2>3. Positions(u, op) = {i \in 1 .. n + Len(t) : u[i].op = op}
    BY <1>2 DEF Positions, u
  <2> QED
    BY <2>1, <2>2, <2>3 DEF u
<1>4. /\ IsFiniteSet(P) /\ IsFiniteSet(Q) /\ Q \in SUBSET Nat /\ P \subseteq 1 .. n
      /\ Q \subseteq 1 .. Len(t) /\ Cardinality(P) \in Nat /\ Cardinality(Q) \in Nat
  BY <1>1, PositionsFinite DEF Positions, Count
<1>5. IsFiniteSet(Moved) /\ Cardinality(Moved) = Cardinality(Q)
  BY <1>1, <1>4, ShiftedCardinality
<1>6. P \cap Moved = {}
  BY <1>1, <1>4
<1> HIDE DEF P, Q, Moved
<1>7. Cardinality(P \cup Moved) = Cardinality(P) + Cardinality(Moved) - Cardinality({})
  BY <1>4, <1>5, <1>6, FS_Union
<1> QED
  BY <1>3, <1>4, <1>5, <1>7, FS_EmptySet DEF Count, P, Q

LEMMA CountNone ==
    ASSUME NEW s, NEW op, \A i \in DOMAIN s : s[i].op # op
    PROVE  Count(s, op) = 0
<1>1. Positions(s, op) = {}
  BY DEF Positions
<1> QED
  BY <1>1, FS_EmptySet DEF Count

LEMMA CountOne ==
    ASSUME NEW x, NEW op
    PROVE  Count(<<x>>, op) = IF x.op = op THEN 1 ELSE 0
<1>1. Positions(<<x>>, op) = IF x.op = op THEN {1} ELSE {}
  BY DEF Positions
<1> QED
  BY <1>1, FS_Singleton, FS_EmptySet DEF Count

LEMMA CountTail ==
    ASSUME NEW s, IsSeq(s), s # << >>, NEW op
    PROVE  Count(s, op) = Count(Tail(s), op) + (IF Head(s).op = op THEN 1 ELSE 0)
<1>1. PICK S : s \in Seq(S)
  BY DEF IsSeq
<1>2. s = <<Head(s)>> \o Tail(s)
  BY <1>1
<1>3. IsSeq(Tail(s)) /\ IsSeq(<<Head(s)>>)
  BY SeqFacts, ShortSeqs
<1>4. Count(s, op) = Count(<<Head(s)>>, op) + Count(Tail(s), op)
  BY <1>2, <1>3, CountConcat
<1>5. Count(Tail(s), op) \in Nat
  BY <1>3, PositionsFinite
<1> QED
  BY <1>4, <1>5, CountOne

----------------------------------------------------------------------------
(* The sequences of p one behind the other are w; r has what is left of w  *)
(* from each of them on.                                                   *)
Joins(p, w) ==
    \E r : /\ r[1] = w /\ r[Len(p) + 1] = << >>
           /\ \A i \in 1 .. Len(p) + 1 : IsSeq(r[i])
           /\ \A i \in 1 .. Len(p) : IsSeq(p[i]) /\ r[i] = p[i] \o r[i + 1]

LEMMA ConcatAssociates ==
    ASSUME NEW s, IsSeq(s), NEW t, IsSeq(t), NEW u, IsSeq(u)
    PROVE  (s \o t) \o u = s \o (t \o u)
<1>1. PICK S, T, U : s \in Seq(S) /\ t \in Seq(T) /\ u \in Seq(U)
  BY DEF IsSeq
<1> DEFINE V == S \cup T \cup U
<1>2. s \in Seq(V) /\ t \in Seq(V) /\ u \in Seq(V)
  BY <1>1
<1> HIDE DEF V
<1> QED
  BY <1>2

LEMMA JoinsSeq == ASSUME NEW p, IsSeq(p), NEW w, Joins(p, w) PROVE IsSeq(w)
<1>1. Len(p) \in Nat /\ 1 \in 1 .. Len(p) + 1
  BY SeqFacts
<1> QED
  BY <1>1 DEF Joins

LEMMA JoinsEmpty == ASSUME NEW w PROVE Joins(<< >>, w) <=> w = << >>
<1>1. Len(<< >>) = 0 /\ IsSeq(<< >>)
  BY ShortSeqs
<1>2. ASSUME Joins(<< >>, w) PROVE w = << >>
  BY <1>1, <1>2 DEF Joins
<1>3. ASSUME w = << >> PROVE Joins(<< >>, w)
  <2> DEFINE r == [i \in 1 .. 1 |-> << >>]
  <2>1. r[1] = << >> /\ 0 + 1 = 1 /\ \A i \in 1 .. 0 + 1 : r[i] = << >>
    OBVIOUS
  <2> HIDE DEF r
  <2> QED
    BY <1>1, <1>3, <2>1 DEF Joins
<1> QED
  BY <1>2, <1>3

LEMMA JoinsConcat ==
    ASSUME NEW p, IsSeq(p), NEW u, Joins(p, u), NEW q, IsSeq(q), NEW v, Joins(q, v)
    PROVE  Joins(p \o q, u \o v)
<1> DEFINE m == Len(p)
           n == Len(q)
<1>1. m \in Nat /\ n \in Nat
  BY SeqFacts
<1>2. /\ Len(p \o q) = m + n
      /\ \A i \in 1 .. m : (p \o q)[i] = p[i]
      /\ \A i \in 1 .. n : (p \o q)[m + i] = q[i]
  BY ConcatFacts
<1>3. PICK r : /\ r[1] = u /\ r[m + 1] = << >>
               /\ \A i \in 1 .. m + 1 : IsSeq(r[i])
               /\ \A i \in 1 .. m : IsSeq(p[i]) /\ r[i] = p[i] \o r[i + 1]
  BY DEF Joins
<1>4. PICK t : /\ t[1] = v /\ t[n + 1] = << >>
               /\ \A i \in 1 .. n + 1 : IsSeq(t[i])
               /\ \A i \in 1 .. n : IsSeq(q[i]) /\ t[i] = q[i] \o t[i + 1]
  BY DEF Joins
<1>5. IsSeq(v)
  BY JoinsSeq
<1> DEFINE x == [i \in 1 .. m + n + 1 |-> IF i <= m THEN r[i] \o v ELSE t[i - m]]
           pq == p \o q
<1> HIDE DEF m, n, pq
<1>6. /\ \A i \in 1 .. m : x[i] = r[i] \o v
      /\ \A i \in 1 .. n + 1 : x[m + i] = t[i]
  <2>1. ASSUME NEW i \in 1 .. m PROVE x[i] = r[i] \o v
    BY <1>1
  <2>2. ASSUME NEW i \in 1 .. n + 1 PROVE x[m + i] = t[i]
    <3>1. m + i \in 1 .. m + n + 1 /\ ~(m + i <= m) /\ (m + i) - m = i
      BY <1>1
    <3> QED
      BY <3>1
  <2> QED
    BY <2>1, <2>2
<1>7. \A i \in 1 .. m + n + 1 : i \in 1 .. m \/ \E j \in 1 .. n + 1 : i = m + j
  <2>1. ASSUME NEW i \in 1 .. m + n + 1, i \notin 1 .. m PROVE i - m \in 1 .. n + 1 /\ i = m + (i - m)
    BY <1>1, <2>1
  <2> QED
    BY <2>1
<1> HIDE DEF x
<1>8. x[1] = u \o v
  <2>1. CASE m = 0
    <3>1. u = << >> /\ 1 \in 1 .. n + 1 /\ x[0 + 1] = t[1]
      BY <1>1, <1>3, <1>6, <2>1
    <3> QED
      BY <1>4, <1>5, <3>1, EmptyConcat
  <2>2. CASE m # 0
    <3>1. 1 \in 1 .. m
      BY <1>1, <2>2
    <3> QED
      BY <1>3, <1>6, <3>1
  <2> QED
    BY <2>1, <2>2
<1>9. x[m + n + 1] = << >>
  <2>1. n + 1 \in 1 .. n + 1 /\ m + (n + 1) = m + n + 1
    BY <1>1
  <2> QED
    BY <1>4, <1>6, <2>1
<1>10. ASSUME NEW i \in 1 .. m + n + 1 PROVE IsSeq(x[i])
  <2>1. CASE i \in 1 .. m
    <3>1. i \in 1 .. m + 1
      BY <1>1, <2>1
    <3>2. IsSeq(r[i] \o v)
      BY <1>3, <1>5, <3>1, ConcatFacts
    <3> QED
      BY <1>6, <2>1, <3>2
  <2>2. CASE \E j \in 1 .. n + 1 : i = m + j
    BY <1>4, <1>6, <2>2
  <2> QED
    BY <1>7, <2>1, <2>2
<1>11. ASSUME NEW i \in 1 .. m + n PROVE IsSeq(pq[i]) /\ x[i] = pq[i] \o x[i + 1]
  <2>1. CASE i \in 1 .. m
    <3>0. i + 1 \in 1 .. m + 1 /\ pq[i] = p[i]
      BY <1>1, <1>2, <2>1 DEF pq
    <3>1. IsSeq(r[i + 1]) /\ IsSeq(p[i]) /\ r[i] = p[i] \o r[i + 1] /\ pq[i] = p[i]
      BY <1>3, <2>1, <3>0
    <3>2. x[i + 1] = r[i + 1] \o v
      <4>1. CASE i = m
        <5>1. 1 \in 1 .. n + 1 /\ i + 1 = m + 1
          BY <1>1, <4>1
        <5>2. x[i + 1] = v /\ r[i + 1] = << >>
          BY <1>3, <1>4, <1>6, <5>1
        <5> QED
          BY <1>5, <5>2, EmptyConcat
      <4>2. CASE i # m
        <5>1. i + 1 \in 1 .. m
          BY <1>1, <2>1, <4>2
        <5> QED
          BY <1>6, <5>1
      <4> QED
        BY <4>1, <4>2
    <3>4. (p[i] \o r[i + 1]) \o v = p[i] \o (r[i + 1] \o v)
      <4> DEFINE a == p[i]
                 b == r[i + 1]
      <4>1. IsSeq(a) /\ IsSeq(b)
        BY <3>1
      <4> HIDE DEF a, b
      <4>2. (a \o b) \o v = a \o (b \o v)
        BY <1>5, <4>1, ConcatAssociates
      <4> QED
        BY <4>2 DEF a, b
    <3> QED
      BY <1>6, <2>1, <3>1, <3>2, <3>4
  <2>2. CASE i \notin 1 .. m
    <3> DEFINE j == i - m
    <3>1. j \in 1 .. n /\ j + 1 \in 1 .. n + 1 /\ i = m + j /\ i + 1 = m + (j + 1) /\ j \in 1 .. n + 1
      BY <1>1, <2>2
    <3> HIDE DEF j
    <3>2. x[i] = t[j] /\ x[i + 1] = t[j + 1] /\ pq[i] = q[j] /\ IsSeq(q[j])
          /\ t[j] = q[j] \o t[j + 1]
      BY <1>2, <1>4, <1>6, <3>1 DEF pq
    <3> QED
      BY <3>2
  <2> QED
    BY <2>1, <2>2
<1> QED
  BY <1>1, <1>2, <1>8, <1>9, <1>10, <1>11 DEF Joins, pq

LEMMA JoinsOne == ASSUME NEW x, IsSeq(x) PROVE Joins(<<x>>, x)
<1> DEFINE r == [i \in 1 .. 2 |-> IF i = 1 THEN x ELSE << >>]
           p == <<x>>
<1>1. Len(p) = 1 /\ p[1] = x
  BY ShortSeqs
<1>2. r[1] = x /\ r[2] = << >> /\ 1 + 1 = 2 /\ \A i \in 1 .. 2 : i = 1 \/ i = 2
  OBVIOUS
<1>3. IsSeq(x) /\ IsSeq(<< >>) /\ x \o << >> = x
  BY ShortSeqs, EmptyConcat
<1> HIDE DEF r, p
<1>4. /\ \A i \in 1 .. 1 + 1 : IsSeq(r[i])
      /\ \A i \in 1 .. 1 : IsSeq(p[i]) /\ r[i] = p[i] \o r[i + 1]
  <2>1. \A i \in 1 .. 1 + 1 : IsSeq(r[i])
    BY <1>2, <1>3
  <2>2. ASSUME NEW i \in 1 .. 1 PROVE IsSeq(p[i]) /\ r[i] = p[i] \o r[i + 1]
    <3>1. i = 1 /\ i + 1 = 2
      OBVIOUS
    <3>2. r[i] = x /\ r[i + 1] = << >> /\ p[i] = x
      BY <1>1, <1>2, <3>1
    <3> QED
      BY <1>3, <3>2
  <2> QED
    BY <2>1, <2>2
<1>5. Joins(p, x)
  BY <1>1, <1>2, <1>4 DEF Joins
<1> QED
  BY <1>5 DEF p

LEMMA JoinsTail ==
    ASSUME NEW p, IsSeq(p), p # << >>, NEW w, Joins(p, w)
    PROVE  \E v : w = Head(p) \o v /\ Joins(Tail(p), v) /\ IsSeq(Head(p)) /\ IsSeq(v)
<1> DEFINE m == Len(p)
<1>1. /\ m \in Nat /\ m > 0 /\ Head(p) = p[1] /\ Len(Tail(p)) = m - 1
      /\ \A i \in 1 .. m - 1 : Tail(p)[i] = p[i + 1]
  BY SeqFacts
<1>2. PICK r : /\ r[1] = w /\ r[m + 1] = << >>
               /\ \A i \in 1 .. m + 1 : IsSeq(r[i])
               /\ \A i \in 1 .. m : IsSeq(p[i]) /\ r[i] = p[i] \o r[i + 1]
  BY DEF Joins
<1> DEFINE x == [i \in 1 .. m |-> r[i + 1]]
<1> HIDE DEF m
<1>3. \A i \in 1 .. m : x[i] = r[i + 1]
  OBVIOUS
<1> HIDE DEF x
<1>4. x[1] = r[2] /\ x[(m - 1) + 1] = << >>
  <2>1. 1 \in 1 .. m /\ m \in 1 .. m /\ 1 + 1 = 2 /\ (m - 1) + 1 = m
    BY <1>1
  <2> QED
    BY <1>2, <1>3, <2>1
<1>5. ASSUME NEW i \in 1 .. (m - 1) + 1 PROVE IsSeq(x[i])
  <2>1. i \in 1 .. m /\ i + 1 \in 1 .. m + 1
    BY <1>1
  <2> QED
    BY <1>2, <1>3, <2>1
<1>6. ASSUME NEW i \in 1 .. m - 1 PROVE IsSeq(Tail(p)[i]) /\ x[i] = Tail(p)[i] \o x[i + 1]
  <2>1. i \in 1 .. m /\ i + 1 \in 1 .. m
    BY <1>1
  <2>2. x[i] = r[i + 1] /\ x[i + 1] = r[(i + 1) + 1] /\ Tail(p)[i] = p[i + 1]
    BY <1>1, <1>3, <2>1
  <2> QED
    BY <1>2, <2>1, <2>2
<1>7. Joins(Tail(p), r[2])
  BY <1>1, <1>4, <1>5, <1>6 DEF Joins
<1>8. w = Head(p) \o r[2] /\ IsSeq(Head(p)) /\ IsSeq(r[2])
  <2>1. 1 \in 1 .. m /\ 2 \in 1 .. m + 1 /\ 1 + 1 = 2
    BY <1>1
  <2> QED
    BY <1>1, <1>2, <2>1
<1> QED
  BY <1>7, <1>8
=============================================================================
