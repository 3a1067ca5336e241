--------------------------- MODULE MCVersionCheck ---------------------------
(* Versions are numbers, ordered by release; the signatures of a website are    *)
(* numbers as well, and nothing compares them.  The checks of a library may     *)
(* outlive their claim, those of a website end in time.                         *)
EXTENDS VersionCheck

Later(a, b) == a > b

BothKinds == {[website |-> FALSE, prompt |-> FALSE], [website |-> TRUE, prompt |-> TRUE]}
=============================================================================
