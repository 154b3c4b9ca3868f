------------------------------ MODULE MCPages -------------------------------
(* Small instances of all parts of the web interface. *)
EXTENDS Pages, TLC

\* Line 1 has an "a"; "[" is no regular expression.
Matching == ("" :> 1 .. LogCount) @@ ("a" :> {1})

\* Two peers of one country; b may be inactive.
Countries == [p \in Peer |-> IF p = "c" THEN "Y" ELSE "X"]
Lists == {items \in SUBSET (Peer \X BOOLEAN) :
            /\ Cardinality({x[1] : x \in items}) = Cardinality(items)
            /\ \A x \in items : x[1] = "b" \/ x[2]}

Methods == <<"a", "b">>
=============================================================================
