----------------------------- MODULE MCSessions -----------------------------
(***************************************************************************)
(* Sessions for TLC: two clients of one account and one of another.        *)
(***************************************************************************)
EXTENDS Sessions, TLC

CONSTANTS ann, bob, right, c1, c2, c3

AccountOf == (c1 :> ann) @@ (c2 :> ann) @@ (c3 :> bob)
SecretOf == [c \in Client |-> right]
Symmetric == Permutations({c1, c2}) \cup Permutations(Worker)
=============================================================================
