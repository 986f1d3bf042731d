--------------------------- MODULE MCSessionPool ---------------------------
(* SessionPool for TLC.  The parameters of requests are only compared with *)
(* each other, so they are symmetric; no run with symmetry checks liveness.*)
EXTENDS SessionPool, TLC

VariantSymmetry == Permutations(Variants)

=============================================================================
