------------------------- MODULE MCAutoUpdatedList -------------------------
(* Small instances of AutoUpdatedList for TLC. *)
EXTENDS AutoUpdatedList

CONSTANTS u1, u2

MCUri     == {u1, u2}
WithSmall == {MCUri, {u1}}
=============================================================================
