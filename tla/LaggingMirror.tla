----------------------------- MODULE LaggingMirror -----------------------------
(***************************************************************************)
(* What an auto-updated list promises to its user, whatever is on its way: *)
(* a local copy of a remote collection that may lag behind, but that never *)
(* invents an item and never loses one that still exists.                  *)
(* AutoUpdatedList implements it.                                          *)
(***************************************************************************)
CONSTANT Item

VARIABLES
    life,       \* the remote collection: each item is unborn, alive, then gone
    following,  \* the copy follows the collection
    shown       \* the items of the copy

mirrorVars == <<life, following, shown>>

Born == {u \in Item : life[u] # "unborn"}
Gone == {u \in Item : life[u] = "gone"}

Init ==
    /\ life \in [Item -> {"unborn", "alive"}]
    /\ following = FALSE
    /\ shown = {}

\* An item comes into existence, or ceases to exist.
Change(u) ==
    /\ \/ life[u] = "unborn" /\ life' = [life EXCEPT ![u] = "alive"]
       \/ life[u] = "alive" /\ life' = [life EXCEPT ![u] = "gone"]
    /\ UNCHANGED <<following, shown>>

\* A copy that does not follow may miss anything.
Browse ==
    /\ ~following
    /\ following' \in BOOLEAN
    /\ shown' \subseteq Born
    /\ UNCHANGED life

\* A copy that follows takes up items that exist or existed, and drops only those that
\* are gone.
CatchUp ==
    /\ following /\ following'
    /\ shown' \subseteq Born
    /\ shown \ shown' \subseteq Gone
    /\ UNCHANGED life

StopFollowing ==
    /\ following
    /\ following' = FALSE
    /\ shown' = {}
    /\ UNCHANGED life

Next ==
    \/ \E u \in Item : Change(u)
    \/ Browse \/ CatchUp \/ StopFollowing

MirrorSpec == Init /\ [][Next]_mirrorVars
================================================================================
