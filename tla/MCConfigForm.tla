----------------------------- MODULE MCConfigForm -----------------------------
(* ConfigForm for TLC: tokens differ in nothing but their scopes.          *)
EXTENDS ConfigForm, TLC

TokenSymmetry == Permutations(Tokens)
=============================================================================
