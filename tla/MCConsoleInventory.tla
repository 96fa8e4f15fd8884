-------------------------- MODULE MCConsoleInventory --------------------------
(* Small instances of ConsoleInventory for TLC. *)
EXTENDS ConsoleInventory

CONSTANTS c1, c2, g1, t1, u1, u2, r1, s1, p1, p2, w1, k1, k2, v1, v2, a1, a2, l1, m1, o1, y1,
          x1, q1, val0, val1

MCClient      == {c1, c2}
MCGroup       == {g1}
MCTemplate    == {t1}
MCUser        == {u1}
MCPatternUser == {u2}
MCRole        == {r1}
MCSystemRole  == {s1}
MCPattern     == {p1, p2}
MCRule        == {w1}
MCCapGroup    == {k1, k2}
MCLdapDef     == {l1}
MCMfaDef      == {m1}
MCSsoDef      == {o1}
MCCustomGroup == {y1}
MCMember      == {u1, l1}
MCObj         == {g1, t1, u1, u2, r1, s1, p1, p2, w1, k1, k2, l1, m1, o1, y1}
MCWorld       == {[live |-> {g1}, fresh |-> {}],
                  [live |-> {}, fresh |-> {g1, t1}],
                  [live |-> {t1}, fresh |-> {}],
                  [live |-> {u1, u2, r1}, fresh |-> {}],
                  [live |-> {s1}, fresh |-> {u1, r1, w1}],
                  [live |-> {p1, p2}, fresh |-> {}],
                  [live |-> {p1, k1}, fresh |-> {p2, k2}],
                  [live |-> {u1}, fresh |-> {l1, m1, o1}],
                  [live |-> {u1, l1}, fresh |-> {y1}]}
MCVol         == {v1, v2}
MCPort        == {a1, a2}
MCTarget      == {x1}
MCPartition   == {q1}
MCVal         == {val0, val1}

MCSymmetry == Permutations(MCClient) \cup Permutations(MCVol) \cup Permutations(MCPort)
================================================================================
