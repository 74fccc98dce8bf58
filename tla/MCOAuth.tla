------------------------------- MODULE MCOAuth -------------------------------
(* Two tenants, one client, one code that two token requests race for, and *)
(* one proxied request.                                                    *)
EXTENDS OAuth, TLC

Symmetry ==
    Permutations(Slugs) \cup Permutations(PEMs) \cup Permutations(ClientIds)
        \cup Permutations(CodeIds) \cup Permutations(URIs) \cup Permutations(Verifiers)
        \cup Permutations(Toks)
=============================================================================
