----------------------------- MODULE U29Proofs -----------------------------
(***************************************************************************)
(* Proofs that a packed integer reads back, for every integer, every cut   *)
(* and every continuation of the stream.                                   *)
(*                                                                         *)
(* The literals of U29 are too large for Zenon, so every leaf that         *)
(* expands one names SMT.                                                  *)
(***************************************************************************)
EXTENDS U29, TLAPS

(* How many bytes the packed integer takes.                                *)
Width(u) == IF u < 128 THEN 1 ELSE IF u < 16384 THEN 2
            ELSE IF u < 2097152 THEN 3 ELSE 4

(* The number whose bits its first k bytes carry, the last one excepted.   *)
Carried(u, k) ==
    IF k = 0 THEN 0
    ELSE IF k = 1 THEN IF u < 16384 THEN u \div 128
                       ELSE IF u < 2097152 THEN u \div 16384
                       ELSE u \div 4194304
    ELSE IF k = 2 THEN IF u < 2097152 THEN u \div 128 ELSE u \div 32768
    ELSE u \div 256

(* The loop, byte by byte: pos bytes are consumed, the last of them is in  *)
(* b, and the bits of the others are in result.                            *)
Progress ==
    LET u == Truncate(integer)
    IN  /\ \A k \in 1 .. Width(u) :
             k <= Len(source) => source[k] = PackInteger(integer)[k]
        /\ pos <= Width(u)
        /\ pc = "first" => pos = 0 /\ n = 0 /\ result = 0
        /\ pc = "loop" => /\ pos = n + 1
                          /\ b = PackInteger(integer)[pos]
                          /\ result = Carried(u, n)
        /\ pc = "done" => pos = Width(u) /\ result = Signed(u)
        /\ pc = "incomplete" => Len(source) < Width(u)

IInv == TypeOK /\ Progress

----------------------------------------------------------------------------
LEMMA TruncateRange ==
    ASSUME NEW i \in Int
    PROVE  Truncate(i) \in Nat /\ Truncate(i) < Modulus
  BY SMT DEF Truncate, Modulus

LEMMA SignedTruncate ==
    ASSUME NEW i \in Int, MIN_INTEGER <= i, i <= MAX_INTEGER
    PROVE  Signed(Truncate(i)) = i
  BY SMT DEF Signed, Truncate, Modulus, MIN_INTEGER, MAX_INTEGER

LEMMA LastByte ==
    ASSUME NEW x \in Bytes
    PROVE  ~(x >= 128 /\ x < 128)
  BY SMT DEF Bytes

(* The bytes of a packed integer: as many as Width says, each with the     *)
(* continuation bit but the last, and each adding its bits to what the     *)
(* bytes before it carry.                                                  *)
LEMMA PackedBytes ==
    ASSUME NEW i \in Int
    PROVE  LET u == Truncate(i)
               p == PackInteger(i)
           IN  /\ p \in Seq(Bytes)
               /\ Len(p) = Width(u)
               /\ Width(u) \in 1 .. 4
               /\ \A k \in 1 .. 3 : k < Width(u) =>
                    /\ p[k] >= 128
                    /\ Carried(u, k) = (Carried(u, k - 1) * 128) + (p[k] % 128)
               /\ Width(u) < 4 =>
                    /\ p[Width(u)] < 128
                    /\ u = (Carried(u, Width(u) - 1) * 128) + p[Width(u)]
                    /\ Signed(u) = u
               /\ Width(u) = 4 => u = (Carried(u, 3) * 256) + p[4]
  <1> DEFINE u == Truncate(i)
             p == PackInteger(i)
  <1>1. u \in Nat /\ u < 536870912
    BY TruncateRange, SMT DEF Modulus
  <1>2. p = IF u < 128 THEN <<u>>
            ELSE IF u < 16384 THEN <<128 + ((u \div 128) % 128), u % 128>>
            ELSE IF u < 2097152 THEN <<128 + ((u \div 16384) % 128),
                                       128 + ((u \div 128) % 128), u % 128>>
            ELSE <<128 + ((u \div 4194304) % 128), 128 + ((u \div 32768) % 128),
                   128 + ((u \div 256) % 128), u % 256>>
    BY SMT DEF PackInteger
  <1> HIDE DEF u, p
  <1>3. \A x \in Nat : x % 128 \in 0 .. 127 /\ x % 256 \in 0 .. 255
    BY SMT
  <1>4. /\ u \div 128 \in Nat /\ u \div 16384 \in Nat /\ u \div 4194304 \in Nat
        /\ u \div 32768 \in Nat /\ u \div 256 \in Nat
    BY <1>1, SMT
  <1>5. CASE u < 128
    <2>1. p = <<u>> /\ Width(u) = 1
      BY <1>1, <1>2, <1>5, SMT DEF Width
    <2>2. p \in Seq(Bytes) /\ Len(p) = 1 /\ p[1] = u
      BY <1>1, <1>5, <2>1, SMT DEF Bytes
    <2> QED
      BY <1>1, <1>5, <2>1, <2>2, SMT DEF Carried, Signed, MAX_INTEGER, u, p
  <1>6. CASE u >= 128 /\ u < 16384
    <2>1. p = <<128 + ((u \div 128) % 128), u % 128>> /\ Width(u) = 2
      BY <1>1, <1>2, <1>6, SMT DEF Width
    <2>2. /\ p \in Seq(Bytes) /\ Len(p) = 2
          /\ p[1] = 128 + ((u \div 128) % 128) /\ p[2] = u % 128
      BY <1>1, <1>3, <1>4, <1>6, <2>1, SMT DEF Bytes
    <2> QED
      BY <1>1, <1>6, <2>1, <2>2, SMT DEF Carried, Signed, MAX_INTEGER, u, p
  <1>7. CASE u >= 16384 /\ u < 2097152
    <2>1. /\ p = <<128 + ((u \div 16384) % 128), 128 + ((u \div 128) % 128),
                   u % 128>>
          /\ Width(u) = 3
      BY <1>1, <1>2, <1>7, SMT DEF Width
    <2>2. /\ p \in Seq(Bytes) /\ Len(p) = 3
          /\ p[1] = 128 + ((u \div 16384) % 128)
          /\ p[2] = 128 + ((u \div 128) % 128) /\ p[3] = u % 128
      BY <1>1, <1>3, <1>4, <1>7, <2>1, SMT DEF Bytes
    <2> QED
      BY <1>1, <1>7, <2>1, <2>2, SMT DEF Carried, Signed, MAX_INTEGER, u, p
  <1>8. CASE u >= 2097152
    <2> DEFINE b1 == 128 + ((u \div 4194304) % 128)
               b2 == 128 + ((u \div 32768) % 128)
               b3 == 128 + ((u \div 256) % 128)
               b4 == u % 256
               c1 == u \div 4194304
               c2 == u \div 32768
               c3 == u \div 256
    <2>1. p = <<b1, b2, b3, b4>> /\ Width(u) = 4
      BY <1>1, <1>2, <1>8, SMT DEF Width
    <2>2. /\ b1 \in 128 .. 255 /\ b2 \in 128 .. 255 /\ b3 \in 128 .. 255
          /\ b4 \in 0 .. 255
      BY <1>1, SMT
    <2>3. /\ c1 = (0 * 128) + (b1 % 128)
          /\ c2 = (c1 * 128) + (b2 % 128)
          /\ c3 = (c2 * 128) + (b3 % 128)
          /\ u = (c3 * 256) + b4
      BY <1>1, SMT
    <2>4. /\ Carried(u, 0) = 0 /\ Carried(u, 1) = c1
          /\ Carried(u, 2) = c2 /\ Carried(u, 3) = c3
      BY <1>1, <1>8, SMT DEF Carried
    <2> HIDE DEF b1, b2, b3, b4, c1, c2, c3
    <2>5. /\ b1 \in Bytes /\ b2 \in Bytes /\ b3 \in Bytes /\ b4 \in Bytes
          /\ b1 >= 128 /\ b2 >= 128 /\ b3 >= 128
      BY <2>2, SMT DEF Bytes
    <2>6. /\ p \in Seq(Bytes) /\ Len(p) = 4
          /\ p[1] = b1 /\ p[2] = b2 /\ p[3] = b3 /\ p[4] = b4
      BY <2>1, <2>5
    <2>7. \A k \in 1 .. 3 :
            /\ p[k] >= 128
            /\ Carried(u, k) = (Carried(u, k - 1) * 128) + (p[k] % 128)
      <3>1. TAKE k \in 1 .. 3
      <3>2. k = 1 \/ k = 2 \/ k = 3
        BY <3>1
      <3> QED
        BY <2>3, <2>4, <2>5, <2>6, <3>2
    <2> QED
      BY <2>1, <2>3, <2>4, <2>6, <2>7 DEF u, p
  <1> QED
    BY <1>1, <1>5, <1>6, <1>7, <1>8, SMT

LEMMA PackedLength ==
    ASSUME NEW i \in Int
    PROVE  /\ Len(PackInteger(i)) = Width(Truncate(i))
           /\ Width(Truncate(i)) \in 1 .. 4
  BY PackedBytes

----------------------------------------------------------------------------
(* A source that is a cut of the packed integer and its continuation holds *)
(* the integer's own bytes at its start.                                   *)
LEMMA InitIInv == Init => IInv
  <1> SUFFICES ASSUME Init PROVE IInv
    OBVIOUS
  <1> DEFINE p == PackInteger(integer)
  <1>1. integer \in Int
    BY ValuesAssumption DEF Init
  <1>2. p \in Seq(Bytes) /\ Len(p) = Width(Truncate(integer))
        /\ Width(Truncate(integer)) \in 1 .. 4
    BY <1>1, PackedBytes
  <1>3. PICK tail \in Followers :
          \E cut \in 0 .. Len(p \o tail) : source = SubSeq(p \o tail, 1, cut)
    BY DEF Init
  <1>4. tail \in Seq(Bytes)
    BY FollowersAssumption
  <1> HIDE DEF p
  <1>cut. PICK cut \in 0 .. Len(p \o tail) : source = SubSeq(p \o tail, 1, cut)
    BY <1>3
  <1>5. /\ p \o tail \in Seq(Bytes)
        /\ \A k \in 1 .. Len(p) : (p \o tail)[k] = p[k]
    BY <1>2, <1>4
  <1>6. /\ source \in Seq(Bytes)
        /\ \A k \in 1 .. Len(p) : k <= Len(source) => source[k] = p[k]
    BY <1>2, <1>cut, <1>4, <1>5
  <1>7. /\ integer \in Values
        /\ pos = 0 /\ b = 0 /\ n = 0 /\ result = 0 /\ pc = "first"
    BY DEF Init
  <1>8. Len(source) \in Nat
    BY <1>6
  <1>9. TypeOK
    BY <1>6, <1>7, <1>8 DEF TypeOK, Bytes
  <1>10. Progress
    BY <1>2, <1>6, <1>7 DEF Progress, p
  <1> QED
    BY <1>9, <1>10 DEF IInv

(* Each action reads one byte more, or ends the loop.                      *)
LEMMA NextIInv == IInv /\ [Next]_vars => IInv'
  <1> SUFFICES ASSUME IInv, [Next]_vars PROVE IInv'
    OBVIOUS
  <1> USE DEF IInv
  <1> DEFINE u == Truncate(integer)
             p == PackInteger(integer)
             w == Width(u)
  <1>1. integer \in Int
    BY ValuesAssumption DEF TypeOK
  <1>2. /\ p \in Seq(Bytes) /\ Len(p) = w /\ w \in 1 .. 4
        /\ \A k \in 1 .. 3 : k < w =>
             /\ p[k] >= 128
             /\ Carried(u, k) = (Carried(u, k - 1) * 128) + (p[k] % 128)
        /\ w < 4 => /\ p[w] < 128
                    /\ u = (Carried(u, w - 1) * 128) + p[w]
                    /\ Signed(u) = u
        /\ w = 4 => u = (Carried(u, 3) * 256) + p[4]
    BY <1>1, PackedBytes
  <1>3. Carried(u, 0) = 0
    BY DEF Carried
  <1>4. u \in Nat /\ Signed(u) \in Int
    BY <1>1, TruncateRange, SMT DEF Signed, MAX_INTEGER, Modulus
  <1> HIDE DEF u, p, w
  <1>5. /\ \A k \in 1 .. w : k <= Len(source) => source[k] = p[k]
        /\ pos <= w
        /\ pc = "first" => pos = 0 /\ n = 0 /\ result = 0
        /\ pc = "loop" => pos = n + 1 /\ b = p[pos] /\ result = Carried(u, n)
        /\ pc = "done" => pos = w /\ result = Signed(u)
        /\ pc = "incomplete" => Len(source) < w
    BY DEF Progress, u, p, w
  <1> DEFINE Goal == /\ pos' \in 0 .. Len(source) /\ b' \in Bytes
                     /\ n' \in 0 .. 3 /\ result' \in Int
                     /\ pc' \in {"first", "loop", "done", "incomplete"}
                     /\ pos' <= w
                     /\ pc' = "first" => pos' = 0 /\ n' = 0 /\ result' = 0
                     /\ pc' = "loop" => /\ pos' = n' + 1 /\ b' = p[pos']
                                        /\ result' = Carried(u, n')
                     /\ pc' = "done" => pos' = w /\ result' = Signed(u)
                     /\ pc' = "incomplete" => Len(source) < w
  <1>6. SUFFICES Goal
    <2>1. UNCHANGED <<integer, source>>
      BY DEF Next, ReadFirst, ReadNext, Finish, Terminated, vars
    <2> QED
      BY <2>1, <1>5, Zenon DEF TypeOK, Progress, u, p, w
  <1> USE DEF TypeOK
  <1>7. ASSUME ReadFirst PROVE Goal
    BY <1>2, <1>3, <1>5, <1>7, SMT DEF ReadFirst, ReadWord8
  <1>8. ASSUME ReadNext PROVE Goal
    <2>0. n \in 0 .. 2 /\ pos = n + 1 /\ pos <= w /\ p[pos] >= 128
      BY <1>5, <1>8, SMT DEF ReadNext, More
    <2>a. pos # w
      <3>1. SUFFICES ASSUME pos = w PROVE FALSE
        OBVIOUS
      <3>2. w < 4 /\ p[w] >= 128 /\ p[w] \in Bytes
        BY <1>2, <2>0, <3>1
      <3>3. p[w] < 128
        BY <1>2, <3>2
      <3> QED
        BY <3>2, <3>3, LastByte
    <2>1. pos < w /\ n + 1 \in 1 .. 3 /\ pos = n + 1
      BY <1>2, <2>0, <2>a, SMT
    <2>2. result' = Carried(u, n + 1)
      BY <1>2, <1>5, <1>8, <2>1, SMT DEF ReadNext
    <2>3. result' \in Int
      BY <1>8, SMT DEF ReadNext, Bytes
    <2>4. CASE pos < Len(source)
      BY <1>2, <1>5, <1>8, <2>1, <2>2, <2>3, <2>4, SMT DEF ReadNext, ReadWord8
    <2>5. CASE ~(pos < Len(source))
      BY <1>2, <1>5, <1>8, <2>1, <2>3, <2>5, SMT DEF ReadNext, ReadWord8
    <2> QED
      BY <2>4, <2>5
  <1>9. ASSUME Finish PROVE Goal
    <2>1. pos = w /\ result' = Signed(u)
      BY <1>2, <1>5, <1>9, SMT DEF Finish, More, Bytes
    <2> QED
      BY <1>4, <1>9, <2>1, SMT DEF Finish
  <1>10. ASSUME UNCHANGED vars PROVE Goal
    BY <1>5, <1>10 DEF vars
  <1> QED
    BY <1>7, <1>8, <1>9, <1>10 DEF Next, Terminated

(* The types, and the strengthening they need, hold throughout.            *)
LEMMA IInvAlways == Spec => []IInv
  BY InitIInv, NextIInv, PTL DEF Spec

(* The reader keeps its types: four bytes at most, and none beyond the     *)
(* source.                                                                 *)
THEOREM TypeOKAlways == Spec => []TypeOK
  BY IInvAlways, PTL DEF IInv

(* amf3_read_integer returns what pack_integer was given: for every        *)
(* integer reduced to 29 bits, and exactly for those that fit.             *)
THEOREM ReadsBackAlways == Spec => []ReadsBack
  <1>1. IInv => ReadsBack
    <2>1. ASSUME IInv
          PROVE  integer \in Int /\ pc = "done" => result = Signed(Truncate(integer))
      BY <2>1, ValuesAssumption DEF IInv, TypeOK, Progress
    <2>2. IInv => integer \in Int
      BY ValuesAssumption DEF IInv, TypeOK
    <2> QED
      BY <2>1, <2>2, SignedTruncate DEF ReadsBack
  <1> QED
    BY <1>1, IInvAlways, PTL

(* The reader never looks past the integer, whatever follows it.           *)
THEOREM SelfDelimitingAlways == Spec => []SelfDelimiting
  <1>1. IInv => SelfDelimiting
    <2>1. ASSUME IInv
          PROVE  /\ integer \in Int
                 /\ pos <= Width(Truncate(integer))
                 /\ pc = "done" => pos = Width(Truncate(integer))
      BY <2>1, ValuesAssumption DEF IInv, TypeOK, Progress
    <2> QED
      BY <2>1, PackedLength DEF SelfDelimiting
  <1> QED
    BY <1>1, IInvAlways, PTL

(* AMFErrorIncomplete if and only if bytes of the integer are missing.     *)
THEOREM IncompleteIffCutAlways == Spec => []IncompleteIffCut
  <1>1. IInv => IncompleteIffCut
    <2>1. ASSUME IInv
          PROVE  /\ integer \in Int
                 /\ pos \in 0 .. Len(source) /\ Len(source) \in Nat
                 /\ pc = "incomplete" => Len(source) < Width(Truncate(integer))
                 /\ pc = "done" => pos = Width(Truncate(integer))
      BY <2>1, ValuesAssumption DEF IInv, TypeOK, Progress
    <2> QED
      BY <2>1, PackedLength DEF IncompleteIffCut
  <1> QED
    BY <1>1, IInvAlways, PTL
============================================================================
