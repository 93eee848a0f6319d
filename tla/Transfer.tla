------------------------------ MODULE Transfer ------------------------------
(***************************************************************************)
(* What AMF.serialize and AMF.deserialize promise together (lib/amf.rb):   *)
(* the values a program serializes reach the other side one after the      *)
(* other, none lost, doubled or out of order, and each as a graph of the   *)
(* same shape, with what was shared still shared.  Nothing is said of      *)
(* bytes, tables or chunks.                                                *)
(***************************************************************************)
EXTENDS Naturals, Sequences

CONSTANTS
    Values,         \* what may be sent
    Same(_, _),     \* the second is a faithful copy of the first
    MaxMessages     \* bound: messages

VARIABLES
    sent,           \* the values sent so far
    received        \* their copies, as far as they have arrived

vars == <<sent, received>>

Init == sent = << >> /\ received = << >>

Send == /\ Len(sent') = Len(sent) + 1
        /\ \A i \in DOMAIN sent : sent'[i] = sent[i]
        /\ sent'[Len(sent')] \in Values
        /\ UNCHANGED received

(* Whatever arrives is a copy of the next value.                           *)
Deliver == /\ Len(received) < Len(sent)
           /\ Len(received') = Len(received) + 1
           /\ \A i \in DOMAIN received : received'[i] = received[i]
           /\ Same(sent[Len(received')], received'[Len(received')])
           /\ UNCHANGED sent

Safety == Init /\ [][Send \/ Deliver]_vars

Delivery == \A n \in 1 .. MaxMessages : Len(sent) >= n ~> Len(received) >= n

Spec == Safety /\ Delivery
=============================================================================
