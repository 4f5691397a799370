---------------------------------- MODULE Plan ----------------------------------
(***************************************************************************)
(* The plan: what `tomei plan` prints, and what `tomei apply` asks the     *)
(* user to confirm.  It is computed from the manifest and state.json by    *)
(* code of its own (buildResourceInfo), not by the reconcilers that decide *)
(* what Apply does; the property relates the two over every state that     *)
(* applies, failures and edits lead to.                                    *)
(***************************************************************************)
EXTENDS Engine

\* The action shown for what is wanted in version v and recorded as s.
Shown(v, s) ==
    CASE v # None /\ s = None -> "install"
      [] v # None /\ s # None -> IF s.tainted THEN "reinstall"
                                 ELSE IF s.version = v THEN "none" ELSE "upgrade"
      [] v = None /\ s # None -> "remove"
      [] v = None /\ s = None -> "none"

ShownRuntime(r, st) == Shown(manifest.runtime[r], st.runtime[r])

UpgradeShown(st) == {r \in Runtime : manifest.runtime[r] # None /\ ShownRuntime(r, st) \in {"upgrade", "reinstall"}}

ShownByItself(t, st) == Shown(IF manifest.tool[t] = None THEN None ELSE manifest.tool[t].version, st.tool[t])

\* A tool that needs nothing is shown as a reinstall when the runtime it was
\* built with is, or is upgraded.
ShownTool(t, st) ==
    LET action == ShownByItself(t, st)
    IN  IF action = "none" /\ st.tool[t] # None /\ st.tool[t].ref \in UpgradeShown(st) \cap Tainting
        THEN "reinstall"
        ELSE action

ShownChanges(st) ==
    {r \in Runtime : ShownRuntime(r, st) # "none"} \cup {t \in Tool : ShownTool(t, st) # "none"}

--------------------------------------------------------------------------------
\* What an apply does that is not interrupted: the reconcilers' actions, and the
\* tools of the runtimes whose version they change.
Upgrades(st) ==
    {r \in Runtime : /\ RuntimeAction(r, st) = "upgrade"
                     /\ RuntimeStateOf(manifest.runtime[r]).version # st.runtime[r].version}

MadeChanges(st) ==
    {r \in Runtime : RuntimeAction(r, st) # "none"}
    \cup {t \in Tool : \/ ToolAction(t, st) # "none"
                       \/ st.tool[t] # None /\ st.tool[t].ref \in Upgrades(st) \cap Tainting}

\* Asking for the version that was resolved before is a change for the
\* reconcilers, not for the plan.
Pinned(v, s) == v # None /\ s # None /\ s.spec = Latest /\ v = s.version /\ ~s.tainted

\* So is another name for the binary: the plan looks at versions and taints only.
Renamed(spec, s) ==
    spec # None /\ s # None /\ spec.bin # s.bin /\ ~NeedsUpdate(spec.version, s)

NotShown(st) ==
    {r \in Runtime : Pinned(manifest.runtime[r], st.runtime[r])}
    \cup {t \in Tool : \/ manifest.tool[t] # None /\ Pinned(manifest.tool[t].version, st.tool[t])
                       \/ Renamed(manifest.tool[t], st.tool[t])}

\* No runtime and no tool is installed, upgraded, rebuilt or removed that the
\* plan did not show, with the same flags and no command in between: a user who
\* was not asked, or was shown less, is not surprised.  There are two exceptions:
\* a version that is pinned as it was resolved, and a binary that gets another
\* name and nothing else.
PlanShowsChanges ==
    pc = "idle" =>
        \A tools, runtimes \in BOOLEAN :
            LET st == UpdateTaints(disk, tools, runtimes)
            IN  MadeChanges(st) \subseteq ShownChanges(st) \cup NotShown(st)

================================================================================
