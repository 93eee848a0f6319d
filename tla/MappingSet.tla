----------------------------- MODULE MappingSet -----------------------------
(***************************************************************************)
(* The two tables of class aliases: MappingSet                             *)
(* (lib/amf/pure/mapping/mapping_set.rb).                                  *)
(***************************************************************************)

CONSTANT NoName     \* nil where a class name is expected

(* A Ruby Hash read as a partial function: []= and [].                     *)
Store(hash, key, value) ==
    [k \in DOMAIN hash \cup {key} |-> IF k = key THEN value ELSE hash[k]]

Lookup(hash, key) == IF key \in DOMAIN hash THEN hash[key] ELSE NoName

(* remote maps remote names to Ruby classes, local the other way round.    *)
NoEntries  == [name \in {} |-> NoName]
NoMappings == [remote |-> NoEntries, local |-> NoEntries]

(* A slip: only one of the tables is written.                              *)
WithAliasOneWay(set, class_local, class_remote) ==
    [set EXCEPT !.remote = Store(@, class_remote, class_local)]

(* register_class_alias: one entry in each table; what either name was     *)
(* mapped to before keeps its own entry in the other table.                *)
WithAlias(set, class_local, class_remote) ==
    [remote |-> Store(set.remote, class_remote, class_local),
     local  |-> Store(set.local, class_local, class_remote)]

GetClassNameLocal(set, class_name)  == Lookup(set.remote, class_name)
GetClassNameRemote(set, class_name) == Lookup(set.local, class_name)
============================================================================
