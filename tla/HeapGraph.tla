----------------------------- MODULE HeapGraph -----------------------------
(***************************************************************************)
(* Graphs of Ruby objects: what a value reaches, when a Hash takes two     *)
(* keys for one, and when one graph is a faithful copy of another.         *)
(* A heap maps identities to objects.                                      *)
(***************************************************************************)
EXTENDS AMF3, FiniteSets, Functions

Refs(values) == {v.ref : v \in {v \in values : Is("ref", v)}}

Parts(object) ==
    CASE object.kind = "array" -> Range(object.elems)
      [] object.kind \in {"hash", "typed", "object"} ->
            UNION {{p[1], p[2]} : p \in Range(object.pairs)}
      [] OTHER -> {}

Reached(h, root) ==
    LET Grow[n \in 0 .. Cardinality(DOMAIN h)] ==
          IF n = 0 THEN Refs({root})
          ELSE Grow[n - 1] \cup UNION {Refs(Parts(h[o])) : o \in Grow[n - 1]}
    IN  Grow[Cardinality(DOMAIN h)]

(* A root in a heap, with the objects it reaches.                          *)
Graph(h, root) == [root |-> root, heap |-> Restrict(h, Reached(h, root))]

(* A copy is faithful when a one-to-one correspondence of objects relates  *)
(* the roots and everything they reach.                                    *)
IsFaithful(CopyOf(_, _), IsCopy(_, _, _), original, copy) ==
    LET there == Reached(original.heap, original.root)
        here  == Reached(copy.heap, copy.root)
    IN  \E image \in Injection(there, here) :
            /\ copy.root = CopyOf(original.root, image)
            /\ \A o \in there : IsCopy(original.heap[o], copy.heap[image[o]], image)

----------------------------------------------------------------------------
(* eql? of two keys: arrays, hashes and times by content, however deep.    *)
SameKey(h, a, b) ==
    LET Same(eql, x, y) ==
          x = y \/ (Is("ref", x) /\ Is("ref", y) /\ eql[x.ref, y.ref])
        IsHash(i) == h[i].kind \in {"hash", "typed"}
        Alike(eql, i, j) ==
          \/ i = j
          \/ h[i].kind = "time" /\ h[j] = h[i]
          \/ /\ h[i].kind = "array" /\ h[j].kind = "array"
             /\ Len(h[i].elems) = Len(h[j].elems)
             /\ \A k \in DOMAIN h[i].elems :
                  Same(eql, h[i].elems[k], h[j].elems[k])
          \/ /\ IsHash(i) /\ IsHash(j)
             /\ Len(h[i].pairs) = Len(h[j].pairs)
             /\ \A p \in Range(h[i].pairs) : \E q \in Range(h[j].pairs) :
                  Same(eql, p[1], q[1]) /\ Same(eql, p[2], q[2])
        eqlTo[depth \in 0 .. Cardinality(DOMAIN h)] ==
          [i, j \in DOMAIN h |-> depth = 0 \/ Alike(eqlTo[depth - 1], i, j)]
    IN  Same(eqlTo[Cardinality(DOMAIN h)], a, b)

(* hash[key] = value                                                       *)
StoredIn(h, pairs, key, value) ==
    LET same == {i \in DOMAIN pairs : SameKey(h, pairs[i][1], key)}
    IN  IF same = {} THEN Append(pairs, <<key, value>>)
        ELSE [i \in DOMAIN pairs |->
                IF i \in same THEN <<pairs[i][1], value>> ELSE pairs[i]]
============================================================================
