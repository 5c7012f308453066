--------------------------- MODULE MCSecretsStore ---------------------------
(* Three threads on two handles, with the keys of two backends.             *)
EXTENDS SecretsStore, TLC

CONSTANTS c1, c2, c3, h1, h2, v1, k1, k2

Symmetry == Permutations(Client) \cup Permutations(Handles) \cup Permutations(Keys)
=============================================================================
