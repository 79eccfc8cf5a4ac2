------------------------------ MODULE MCServer ------------------------------
(* Server for TLC: three connections from two addresses.                   *)
EXTENDS Server, TLC

CONSTANTS c1, c2, c3, a, b

MCIpOf == (c1 :> a) @@ (c2 :> a) @@ (c3 :> b)

\* The two connections of the first address are interchangeable.
SameAddress == Permutations({c1, c2})
=============================================================================
