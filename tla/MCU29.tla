------------------------------- MODULE MCU29 -------------------------------
(* Every width of pack_integer, on both sides of each boundary, negative   *)
(* numbers, and headers beyond the 29 bits.                                *)
EXTENDS U29

Around(x) == {x - 1, x, x + 1}

MCValues == UNION {Around(x) : x \in {0, 64, 127, 128, 255, 256, 16383, 16384,
                                      32768, 2097151, 2097152, 4194304,
                                      MAX_INTEGER, MIN_INTEGER, -129, -16385,
                                      Modulus - 1, Modulus}}

MCFollowers == {<<>>, <<0>>, <<128, 255, 1>>}
============================================================================
