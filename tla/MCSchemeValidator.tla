------------------------- MODULE MCSchemeValidator -------------------------
(* Instances of SchemeValidator: two hosts, one of which has a label that  *)
(* must not stand last.                                                    *)
EXTENDS SchemeValidator

Label(first) == [length |-> 3, inTable |-> TRUE, first |-> first, last |-> "letter"]
MCHost == {"good", "bad"}
MCLabelsOf ==
    [good |-> <<Label("digit"), Label("letter")>>, bad |-> <<Label("letter"), Label("digit")>>]
=============================================================================
