----------------------------- MODULE MCApplyReport ------------------------------
(***************************************************************************)
(* Two applies: one at a terminal, of a layer and a rebuild, of two layers *)
(* (the second of a repository) and a removal, or of removals only, and    *)
(* one of a layer in a script.  The log directory has an old session.      *)
(***************************************************************************)
EXTENDS ApplyReport

Of(phase, nodes) == [phase |-> phase, nodes |-> nodes]

MCPlans ==
    [a \in Apply |->
        IF a \in Interactive
        THEN {<<Of("dag", {"gopls", "rg"}), Of("taint", {"gopls"})>>,
              <<Of("dag", {"rg"}), Of("dag", {"tap"}), Of("remove", {"gopls"})>>,
              <<Of("remove", {"gopls", "go"})>>}
        ELSE {<<Of("dag", {"go"})>>}]

MCMaxOutput == [r \in Resource |-> IF r = "gopls" THEN 2 ELSE 1]

MCInit == Init /\ clock = 1 /\ sessions[0] # None

MCSpec == MCInit /\ [][Next]_vars

================================================================================
