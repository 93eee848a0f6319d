------------------------------- MODULE Mapper -------------------------------
(***************************************************************************)
(* What a class mapper computes from its tables for one object: the        *)
(* instance methods of ClassMapper (lib/amf/pure/mapping/class_mapper.rb). *)
(*                                                                         *)
(* The objects concerned are a plain Hash, a HashWithType, whose class is  *)
(* the remote name it was read with, and an instance of a Ruby class.      *)
(***************************************************************************)
EXTENDS AMF3, MappingSet

CONSTANTS
    HashClass,  \* Hash
    Setters,    \* the keys each class has a public "key=" method for
    HashLike,   \* the classes that respond to []=
    Loadable,   \* the classes const_get finds and new makes
    Refuses(_, _, _)    \* (class, key, value): giving the key the value raises

ASSUME MapperAssumption ==
    /\ NoName \notin Strings
    /\ HashClass \in HashLike
    /\ HashClass \in DOMAIN Setters

----------------------------------------------------------------------------
RemoteName(set, object) ==
    IF object.kind = "hash" THEN NoName
                            ELSE GetClassNameRemote(set, object.class)

(* nil and '' make a Hash; a name without a mapping makes a HashWithType.  *)
CreateObject(set, name) ==
    LET class == GetClassNameLocal(set, name)
    IN  IF name \in {NoName, EmptyString}
        THEN [kind |-> "hash", class |-> HashClass, pairs |-> << >>]
        ELSE IF class = NoName
        THEN [kind |-> "typed", class |-> name, pairs |-> << >>]
        ELSE [kind |-> "object", class |-> class, pairs |-> << >>]

(* const_get raises when the mapped class does not exist, new when it      *)
(* needs arguments.                                                        *)
Creatable(set, name) ==
    name \in {NoName, EmptyString} \/
        GetClassNameLocal(set, name) \in Loadable \cup {NoName}

(* A HashWithType takes every entry of props; another object by its setter *)
(* for the key, if it has one, else by []=, else the entry is dropped.     *)
(* Hash has a setter too, default=, and such an entry does not become one  *)
(* of the hash.                                                            *)
ObjectDeserialize(object, props) ==
    LET Stored(p) ==
          \/ object.kind = "typed"
          \/ IF p[1].str \in Setters[object.class]
             THEN object.kind = "object"
             ELSE object.class \in HashLike
        taken[n \in 0 .. Len(props)] ==
          IF n = 0 THEN << >>
          ELSE IF Stored(props[n]) THEN Append(taken[n - 1], props[n]) ELSE taken[n - 1]
    IN  [object EXCEPT !.pairs = taken[Len(props)]]

(* The entries that raise, the first of which ends it: a setter is code of *)
(* the program, Hash#default_proc= takes no other than a Proc, the key     *)
(* '[]' calls []= with one argument.                                       *)
Refusals(object, props) ==
    {i \in DOMAIN props : /\ object.kind # "typed"
                          /\ Refuses(object.class, props[i][1].str, props[i][2])}

(* The properties to write: a Hash's entries, keys made strings, so that   *)
(* two keys of one spelling become one; an instance's public getters.      *)
ObjectSerialize(object) ==
    LET pairs == object.pairs
        made[n \in 0 .. Len(pairs)] ==
          IF n = 0 THEN << >>
          ELSE PutPair(made[n - 1], Str(Text(pairs[n][1])), pairs[n][2])
    IN  IF object.kind = "object" THEN pairs ELSE made[Len(pairs)]
============================================================================
