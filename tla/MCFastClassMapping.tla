------------------------- MODULE MCFastClassMapping -------------------------
(***************************************************************************)
(* FastClassMapping with three of its default pairs, the last of which has *)
(* no Ruby class in the array, a class K of a namespace N that may be      *)
(* loaded later, and one of a namespace that is there from the start.      *)
(***************************************************************************)
EXTENDS FastClassMapping

CONSTANTS m1

MCAsNames == {"as"}
MCRubyNames == {<<"N">>, <<"N", "K">>, <<"Types", "New">>}
MCLoaded == {<<"Types">>, <<"Types", "Async">>, <<"Types", "Error">>}
MCClasses == {"C"}
MCGetters == {"a"}
MCMappers == {m1}
MCAsDefaults == <<"Async", "DSK", "Error">>
MCRubyDefaults == <<<<"Types", "Async">>, <<"Types", "Error">>>>

(* Behind ruby_classes the build may have put as_classes.                  *)
MCStrays == {<<"Async">>}
=============================================================================
