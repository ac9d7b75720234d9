------------------------- MODULE GenerationContract -------------------------
(***************************************************************************)
(* What a generation run promises the tree it writes into (ADR-0003 and    *)
(* ADR-0004), without saying how: preparing a run changes nothing; then    *)
(* the files of its plan are replaced whole, each at most once; then, and  *)
(* only then, owned files outside the plan are removed.  A run may be cut  *)
(* short at any point, which leaves the tree as it is at that point.       *)
(***************************************************************************)
CONSTANTS
    Name,      \* the paths a run looks at or writes
    Body,      \* what a path may hold
    NoFile,    \* a path that holds nothing
    Owned      \* the bodies that carry the ownership marker

VARIABLES
    tree,      \* [Name -> Body]
    stage,     \* "rest", "prepare", "replace" or "prune"
    plan,      \* the paths the run writes
    done,      \* those of them already replaced
    fresh      \* the body this run writes

vars == <<tree, stage, plan, done, fresh>>

Init ==
    /\ tree \in [Name -> Body] /\ stage = "rest"
    /\ plan = {} /\ done = {} /\ fresh \in Body

\* Between runs the tree belongs to the consumer.
Change ==
    /\ stage = "rest" /\ stage' = "rest"
    /\ tree' \in [Name -> Body] /\ fresh' \in Body
    /\ UNCHANGED <<plan, done>>

Begin ==
    /\ stage = "rest" /\ stage' = "prepare"
    /\ fresh' \in Body
    /\ UNCHANGED <<tree, plan, done>>

Commit ==
    /\ stage = "prepare" /\ stage' = "replace"
    /\ plan' \in SUBSET Name /\ done' = {}
    /\ UNCHANGED <<tree, fresh>>

Replace(n) ==
    /\ stage = "replace" /\ n \in plan \ done
    /\ tree' = [tree EXCEPT ![n] = fresh]
    /\ done' = done \cup {n}
    /\ UNCHANGED <<stage, plan, fresh>>

Prune ==
    /\ stage = "replace" /\ done = plan
    /\ stage' = "prune"
    /\ UNCHANGED <<tree, plan, done, fresh>>

Remove(n) ==
    /\ stage = "prune" /\ n \notin plan /\ tree[n] \in Owned
    /\ tree' = [tree EXCEPT ![n] = NoFile]
    /\ UNCHANGED <<stage, plan, done, fresh>>

\* The run ends, whether it finished, failed or was killed.
End ==
    /\ stage # "rest" /\ stage' = "rest"
    /\ plan' = {} /\ done' = {}
    /\ UNCHANGED <<tree, fresh>>

Next ==
    \/ Change \/ Begin \/ Commit \/ Prune \/ End
    \/ \E n \in Name : Replace(n) \/ Remove(n)

Spec == Init /\ [][Next]_vars
=============================================================================
