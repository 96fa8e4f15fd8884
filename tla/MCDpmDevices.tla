----------------------------- MODULE MCDpmDevices -----------------------------
(* Small instances of DpmDevices for TLC. *)
EXTENDS DpmDevices, TLC

CONSTANTS c1, c2, e1, e2, e3, a1, a2, dA, dB, dC, u1

MCClient    == {c1, c2}
MCElem      == {e1, e2, e3}
MCAdapter   == {a1, a2}
MCPool      == {dA, dB, dC}
MCUserDevno == {u1}

\* Elements and the numbers of the pool are interchangeable.
MCSymmetry == Permutations(MCElem) \cup Permutations(MCPool)
================================================================================
