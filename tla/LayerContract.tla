----------------------------- MODULE LayerContract -----------------------------
(***************************************************************************)
(* What the layer loop of Engine.Apply promises, without goroutines,       *)
(* semaphores or locks: nodes run in stages (a stage is one phase of one   *)
(* layer), at most Parallelism at a time, one at a time and in order among *)
(* those that share a package manager, and only after everything in the    *)
(* stages before has succeeded.  It ends well only when all of them did.   *)
(***************************************************************************)
EXTENDS Integers, FiniteSets

CONSTANTS
    Node,        \* the nodes of the dependency graph
    Stage,       \* Stage[n]: the stage that runs node n
    Group,       \* Group[n]: the package manager n goes through, or NoGroup
    NoGroup,
    Rank,        \* Rank[n]: the place of n in the sorted layer
    Parallelism  \* nodes that may run at once

VARIABLES
    progress,    \* progress[n]: "waiting", "running", "ok" or "failed"
    interrupted, \* the apply was cancelled, or its state could not be saved
    verdict      \* "none" until the loop is over, then "ok" or "error"

vars == <<progress, interrupted, verdict>>

Running == {n \in Node : progress[n] = "running"}

Init ==
    /\ progress = [n \in Node |-> "waiting"]
    /\ interrupted = FALSE
    /\ verdict = "none"

\* Those of the same stage that n must not overlap with.
Rivals(n) ==
    {m \in Node : m # n /\ Group[n] # NoGroup /\ Group[m] = Group[n] /\ Stage[m] = Stage[n]}

Start(n) ==
    /\ verdict = "none"
    /\ progress[n] = "waiting"
    /\ Cardinality(Running) < Parallelism
    /\ \A m \in Node : Stage[m] < Stage[n] => progress[m] = "ok"
    /\ \A m \in Rivals(n) :
          /\ progress[m] \in {"waiting", "ok"}
          /\ Rank[m] < Rank[n] => progress[m] = "ok"
    /\ progress' = [progress EXCEPT ![n] = "running"]
    /\ UNCHANGED <<interrupted, verdict>>

Finish(n, outcome) ==
    /\ progress[n] = "running"
    /\ progress' = [progress EXCEPT ![n] = outcome]
    /\ UNCHANGED <<interrupted, verdict>>

Interrupt ==
    /\ interrupted' = TRUE
    /\ UNCHANGED <<progress, verdict>>

Succeed ==
    /\ verdict = "none"
    /\ \A n \in Node : progress[n] = "ok"
    /\ verdict' = "ok"
    /\ UNCHANGED <<progress, interrupted>>

\* Giving up has a reason, and leaves nothing running.
GiveUp ==
    /\ verdict = "none"
    /\ Running = {}
    /\ interrupted' \/ \E n \in Node : progress[n] = "failed"
    /\ interrupted' \in {interrupted, TRUE}
    /\ verdict' = "error"
    /\ UNCHANGED progress

Next ==
    \/ \E n \in Node : Start(n)
    \/ \E n \in Node, outcome \in {"ok", "failed"} : Finish(n, outcome)
    \/ Interrupt
    \/ Succeed
    \/ GiveUp

Spec == Init /\ [][Next]_vars

================================================================================
