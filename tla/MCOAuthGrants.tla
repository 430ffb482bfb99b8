--------------------------- MODULE MCOAuthGrants ---------------------------
(* Small instances of OAuthGrants.                                         *)
EXTENDS OAuthGrants, TLC

CONSTANTS h1, h2, h3, c1, c2

Symmetry == Permutations(Handlers) \cup Permutations(Clients)

=============================================================================
