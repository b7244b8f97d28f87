---------------------------- MODULE MCNamespaces ----------------------------
(* Instances of Namespaces for TLC. *)
EXTENDS Namespaces, TLC

CONSTANTS c1, c2, x, y

Callers == {c1, c2}
Slots == {x, y}

\* One namespace lies within the other, and their templates overlap.
Names == {<<"d">>, <<"d", "api">>}
TemplatesOf(n) == IF n = <<"d">> THEN {<<x, y>>, <<y, x>>} ELSE {<<x>>, <<"pay", x>>}

\* The slugs of texts; one has neither letters nor digits.
SlugFor(t) == CASE t = "Api" -> "api" [] t = "Pay" -> "pay" [] OTHER -> "none"

\* A part may slugify to nothing, and is missing then.
SomeParts == {(x :> "Api") @@ (y :> "Pay"), (x :> "Pay") @@ (y :> "?")}

SymmetryCallers == Permutations(Callers)
=============================================================================
