--------------------------- MODULE MCClassMapper ---------------------------
EXTENDS ClassMapper

CONSTANTS l1, l2, r1, r2, m1, m2

(* Two classes under two names, and one name taken by both classes.        *)
MCBatches == {<< <<l1, r1>>, <<l2, r2>> >>, << <<l1, r2>>, <<l2, r2>> >>}
============================================================================
