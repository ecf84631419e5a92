--------------------------- MODULE MCOAuthGrants ---------------------------
(* OAuthGrants for TLC: codes, grants and tokens are interchangeable ids. *)
EXTENDS OAuthGrants, TLC

Symmetry == Permutations(Codes) \cup Permutations(Grants) \cup Permutations(Tokens)
            \cup Permutations(Scopes)
=============================================================================
