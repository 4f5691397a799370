----------------------------- MODULE StateRegister -----------------------------
(***************************************************************************)
(* What the state file is to the commands that share it: a register with   *)
(* at most one owner at a time.  The owner replaces its content in one     *)
(* step, by something that keeps all there was, or starts it afresh (init).*)
(* A process may die at any point, and then owns nothing.                  *)
(***************************************************************************)
CONSTANTS
    Proc,    \* processes
    NoOwner, \* not a process
    Absent   \* no content: tomei is not initialized

VARIABLES
    owner,   \* the process that may write
    content  \* Absent, or the set of updates in effect

vars == <<owner, content>>

Init ==
    /\ owner = NoOwner
    /\ content \in {Absent, {}}

Acquire(p) ==
    /\ owner = NoOwner
    /\ owner' = p
    /\ UNCHANGED content

Release ==
    /\ owner' = NoOwner
    /\ UNCHANGED content

\* Nothing that was there is lost.
Commit ==
    /\ owner # NoOwner
    /\ content # Absent
    /\ content \subseteq content'
    /\ UNCHANGED owner

Reset ==
    /\ owner # NoOwner
    /\ content' = {}
    /\ UNCHANGED owner

Next ==
    \/ \E p \in Proc : Acquire(p)
    \/ Release
    \/ Commit
    \/ Reset

Spec == Init /\ [][Next]_vars

================================================================================
