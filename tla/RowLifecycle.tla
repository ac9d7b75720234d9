---------------------------- MODULE RowLifecycle ----------------------------
(***************************************************************************)
(* What soft delete promises of a row, without saying how: it is born once,*)
(* a row of a hidden type becomes a tombstone before or instead of going   *)
(* away, and no row ever goes back.                                        *)
(***************************************************************************)
CONSTANTS
    Row,       \* the ids
    Hidden     \* those whose type embeds SoftDeleteMixin

VARIABLE life  \* [Row -> {"unborn", "live", "deleted", "gone"}]

Stage == {"unborn", "live", "deleted", "gone"}

\* A database may hold tombstones already.
Init ==
    /\ life \in [Row -> {"unborn", "live", "deleted"}]
    /\ \A i \in Row : life[i] = "deleted" => i \in Hidden

Advance(S, to) == life' = [i \in Row |-> IF i \in S THEN to ELSE life[i]]

Insert(i) == life[i] = "unborn" /\ Advance({i}, "live")

\* The insert failed; its id is not used again.
Abandon(i) == life[i] = "unborn" /\ Advance({i}, "gone")

SoftDelete(S) ==
    /\ S \subseteq {i \in Hidden : life[i] = "live"}
    /\ Advance(S, "deleted")

Remove(S) ==
    /\ S \subseteq {i \in Row : life[i] \in {"live", "deleted"}}
    /\ Advance(S, "gone")

Next ==
    \/ \E i \in Row : Insert(i) \/ Abandon(i)
    \/ \E S \in SUBSET Row : SoftDelete(S) \/ Remove(S)

Spec == Init /\ [][Next]_life
=============================================================================
