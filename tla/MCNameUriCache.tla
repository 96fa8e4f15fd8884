---------------------------- MODULE MCNameUriCache ----------------------------
(* Small instances of NameUriCache for TLC. *)
EXTENDS NameUriCache, TLC

CONSTANTS u1, u2, a, b, c, o1

MCUri    == {u1, u2}
MCName   == {a, b, c}
MCObject == {o1}

Symmetry == Permutations(MCUri) \cup Permutations(MCName) \cup Permutations(MCObject)
================================================================================
