--------------------------- MODULE MCLayerExecution ----------------------------
(***************************************************************************)
(* Three layers that take every path of executeLayer: a concurrent runtime *)
(* phase, tools that are one delegation group, then a lone repository and  *)
(* a download beside two delegation groups.                                *)
(***************************************************************************)
EXTENDS LayerExecution

MCLayer ==
    [n \in Node |->
        CASE n \in {"go", "rust"} -> 1 [] n \in {"gopls", "dlv"} -> 2 [] OTHER -> 3]

MCKind ==
    [n \in Node |->
        CASE n \in {"go", "rust"} -> "Runtime"
          [] n = "tap" -> "InstallerRepository"
          [] OTHER -> "Tool"]

MCRuntimeRef ==
    [n \in Node |->
        CASE n \in {"goimports", "staticcheck", "gopls", "dlv"} -> "go"
          [] OTHER -> None]

MCInstallerRef ==
    [n \in Node |->
        CASE n = "jq" -> "brew"
          [] n = "gh" -> "aqua"
          [] OTHER -> None]

MCRank ==
    [n \in Node |->
        CASE n = "go" -> 1 [] n = "rust" -> 2
          [] n = "dlv" -> 3 [] n = "gopls" -> 4
          [] n = "tap" -> 5 [] n = "gh" -> 6 [] n = "goimports" -> 7
          [] n = "jq" -> 8 [] n = "staticcheck" -> 9]

================================================================================
