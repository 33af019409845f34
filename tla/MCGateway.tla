----------------------------- MODULE MCGateway -----------------------------
(***************************************************************************)
(* Instances of Gateway for TLC: two clients, one of them also a proxy for *)
(* the other, and bodies at the limit and past it.                         *)
(***************************************************************************)
EXTENDS Gateway, TLC

CONSTANTS a1, a2, r1, r2

Made(direct, forwarded, declared, size) ==
    [direct |-> direct, forwarded |-> forwarded, declared |-> declared, size |-> size]

MCCalls ==
    { Made(a1, a2, 2, 2), Made(a2, a1, NoLength, 3), Made(a1, NoAddress, -1, 1),
      Made(a2, NoAddress, 0, 0) }

RequestSymmetry == Permutations(Requests)

=============================================================================
