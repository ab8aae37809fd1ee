---------------------------- MODULE MCRateLimiter ----------------------------
(* Small instances of RateLimiter for TLC.                                 *)
EXTENDS RateLimiter, TLC

CONSTANTS r1, r2, r3, u1

OneUser == [r \in Requests |-> u1]

Lim(m, d) == [rpm |-> m, rpd |-> d]

TwoLimits == {Lim(1, 2)}
DefaultTwo == Lim(2, 2)
OneLimit == {Lim(1, 3)}
DefaultOne == Lim(1, 3)

\* Nothing tells requests of one user apart.
RequestSymmetry == Permutations(Requests)
=============================================================================
