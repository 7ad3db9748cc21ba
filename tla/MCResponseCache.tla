--------------------------- MODULE MCResponseCache ---------------------------
(* TLC instances of ResponseCache. *)
EXTENDS ResponseCache, TLC

CONSTANTS a, b, c

Three == {a, b, c}
OnlyB == {b}
OnlyC == {c}
NoRequests == {}
AllKinds == {"public", "shared", "private", "throws"}
SharedNotOrThrows == {"shared", "private", "throws"}
AnonymousSymmetry == Permutations(Requests)
=============================================================================
