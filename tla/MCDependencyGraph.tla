--------------------------- MODULE MCDependencyGraph ---------------------------
(***************************************************************************)
(* A small universe with every kind of resource and enough of them for     *)
(* each shape of reference: a tool installed by an installer that is       *)
(* itself a tool, a repository between them, a shared runtime.             *)
(***************************************************************************)
EXTENDS DependencyGraph

MCKind ==
    [n \in Node |->
        CASE n = "Runtime/go" -> "Runtime"
          [] n = "Installer/brew" -> "Installer"
          [] n = "InstallerRepository/tap" -> "InstallerRepository"
          [] OTHER -> "Tool"]

================================================================================
