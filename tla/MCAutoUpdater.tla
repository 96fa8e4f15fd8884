----------------------------- MODULE MCAutoUpdater -----------------------------
(* Small instances of AutoUpdater for TLC. *)
EXTENDS AutoUpdater

CONSTANTS o1, o2, m, u1, u2

MCObject  == {o1, o2, m}
MCManager == {m}
MCUri     == {u1, u2}
MCUriOf   == [o \in MCObject |-> IF o = m THEN u2 ELSE u1]
================================================================================
