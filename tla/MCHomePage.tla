----------------------------- MODULE MCHomePage -----------------------------
(* A chain with two forks; the lighter branch of the first comes first. *)
EXTENDS HomePage

\* a - b - d - f
\*   \ c - e         c is heavier than b, d and f make up for it
Blocks       == {"a", "b", "c", "d", "e", "f"}
Numbers      == [x \in Blocks |-> CASE x = "a" -> 1 [] x \in {"b", "c"} -> 2
                                    [] x \in {"d", "e"} -> 3 [] OTHER -> 4]
Parents      == [x \in Blocks |-> CASE x = "a" -> "genesis" [] x \in {"b", "c"} -> "a"
                                    [] x = "d" -> "b" [] x = "e" -> "c" [] OTHER -> "d"]
Difficulties == [x \in Blocks |-> IF x = "c" THEN 3 ELSE IF x = "d" THEN 4 ELSE 2]
Order        == <<"a", "b", "c", "d", "e">>
=============================================================================
