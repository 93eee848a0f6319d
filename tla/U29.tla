-------------------------------- MODULE U29 --------------------------------
(***************************************************************************)
(* The variable-length 29-bit integer every AMF3 header and integer is     *)
(* written with: pack_integer (lib/amf/pure/helpers/io_helper_write.rb)    *)
(* and the byte loop of amf3_read_integer (lib/amf/pure/deserializer.rb).  *)
(*                                                                         *)
(* The writer is a function; the reader is a machine that takes one byte   *)
(* per step, because the bytes may end anywhere: a source is a prefix, cut *)
(* at any byte, of the packed integer followed by whatever comes next on   *)
(* the stream.                                                             *)
(***************************************************************************)
EXTENDS Integers, Sequences

CONSTANTS
    Values,     \* the integers the program packs
    Followers   \* the byte sequences that may follow them on the stream

MAX_INTEGER == 268435455        \* 2^28 - 1
MIN_INTEGER == -268435456       \* -2^28
Modulus     == 536870912        \* 2^29
Bytes       == 0 .. 255

ASSUME ValuesAssumption    == Values \subseteq Int
ASSUME FollowersAssumption == Followers \subseteq Seq(Bytes)

VARIABLES
    integer,    \* the integer that was packed
    source,     \* the bytes the reader has
    pos,        \* bytes consumed so far
    b,          \* the byte read last
    n,          \* turns of the loop
    result,     \* bits accumulated so far
    pc          \* "first" | "loop" | "done" | "incomplete"

vars == <<integer, source, pos, b, n, result, pc>>

----------------------------------------------------------------------------
(* integer & 0x1fffffff, then 7 bits a byte; the fourth byte holds 8.      *)
Truncate(i) == i % Modulus

PackInteger(i) ==
    LET u == Truncate(i)
        More7(k) == 128 + ((u \div k) % 128)   \* 7 bits, another byte follows
    IN  IF u < 128 THEN <<u>>
        ELSE IF u < 16384 THEN <<More7(128), u % 128>>
        ELSE IF u < 2097152 THEN <<More7(16384), More7(128), u % 128>>
        ELSE <<More7(4194304), More7(32768), More7(256), u % 256>>

(* A slip: the sign is forgotten.                                          *)
Unsigned(u) == u

(* What a reader of the packed integer gets back: the 29 bits read as a    *)
(* two's complement number.                                                *)
Signed(u) == IF u > MAX_INTEGER THEN u - Modulus ELSE u

----------------------------------------------------------------------------
Init == /\ integer \in Values
        /\ \E tail \in Followers :
             LET whole == PackInteger(integer) \o tail
             IN  \E cut \in 0 .. Len(whole) : source = SubSeq(whole, 1, cut)
        /\ pos = 0
        /\ b = 0
        /\ n = 0
        /\ result = 0
        /\ pc = "first"

(* A slip: a missing byte counts as 0.                                     *)
ReadWord8OrZero(next) ==
    /\ b' = IF pos < Len(source) THEN source[pos + 1] ELSE 0
    /\ pos' = IF pos < Len(source) THEN pos + 1 ELSE pos
    /\ pc' = next

(* read_word8: the next byte, or AMFErrorIncomplete when there is none.    *)
ReadWord8(next) ==
    IF pos < Len(source)
    THEN /\ b' = source[pos + 1]
         /\ pos' = pos + 1
         /\ pc' = next
    ELSE /\ pc' = "incomplete"
         /\ UNCHANGED <<b, pos>>

ReadFirst == /\ pc = "first"
             /\ ReadWord8("loop")
             /\ UNCHANGED <<integer, source, n, result>>

(* Slips: the bound on the bytes, dropped and one too low.                 *)
MoreUnbounded == b >= 128
MoreThreeBytes == b >= 128 /\ n < 2

More == b >= 128 /\ n < 3       \* (b & 0x80) != 0 && n < 3

ReadNext == /\ pc = "loop" /\ More
            /\ result' = (result * 128) + (b % 128)
            /\ ReadWord8("loop")
            /\ n' = IF pc' = "incomplete" THEN n ELSE n + 1
            /\ UNCHANGED <<integer, source>>

(* The last byte: 7 bits of it, or all 8 when it is the fourth, and only   *)
(* then the sign.                                                          *)
Finish == /\ pc = "loop" /\ ~More
          /\ result' = IF n < 3 THEN result * 128 + b
                                ELSE Signed(result * 256 + b)
          /\ pc' = "done"
          /\ UNCHANGED <<integer, source, pos, b, n>>

Terminated == /\ pc \in {"done", "incomplete"}
              /\ UNCHANGED vars

Next == ReadFirst \/ ReadNext \/ Finish \/ Terminated

Spec == Init /\ [][Next]_vars

----------------------------------------------------------------------------
TypeOK == /\ integer \in Values
          /\ source \in Seq(Bytes)
          /\ pos \in 0..Len(source)
          /\ b \in Bytes
          /\ n \in 0..3
          /\ result \in Int
          /\ pc \in {"first", "loop", "done", "incomplete"}

(* amf3_read_integer gives back the integer that pack_integer was given,   *)
(* reduced to 29 bits, and in particular every integer amf3_write_numeric  *)
(* sends as an integer (MIN_INTEGER .. MAX_INTEGER) and every header below   *)
(* 2^28 comes back exactly.                                                *)
ReadsBack == pc = "done" => /\ result = Signed(Truncate(integer))
                            /\ MIN_INTEGER <= integer /\ integer <= MAX_INTEGER
                                 => result = integer

(* The encoding is self-delimiting: a finished read has consumed the       *)
(* packed integer and no byte of what follows it, whatever that is, and no *)
(* state of the reader has looked further than that.                       *)
SelfDelimiting == /\ pos <= Len(PackInteger(integer))
                  /\ pc = "done" => pos = Len(PackInteger(integer))

(* AMFErrorIncomplete is raised exactly when the source was cut inside the *)
(* integer: never with all of its bytes there, always without.             *)
IncompleteIffCut ==
    /\ pc = "incomplete" => Len(source) < Len(PackInteger(integer))
    /\ pc = "done" => Len(source) >= Len(PackInteger(integer))
============================================================================
