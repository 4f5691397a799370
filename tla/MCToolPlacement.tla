---------------------------- MODULE MCToolPlacement ----------------------------
(***************************************************************************)
(* A registry tool that can be renamed and whose version may be left open, *)
(* a download with the hash of its binary, a tool of a runtime that can be *)
(* renamed, and one with commands of its own.                              *)
(***************************************************************************)
EXTENDS Doctor

MCWay == [t \in Tool |-> CASE t = "rg" -> "registry" [] t = "jq" -> "download"
                           [] t = "gopls" -> "runtime" [] t = "uv" -> "commands"]

MCDefault == [t \in Tool |-> t]

MCAsked == [t \in Tool |-> CASE t = "rg" -> {"v1", Latest} [] OTHER -> {"v1"}]

MCNames == [t \in Tool |-> CASE t = "rg" -> {None, "ripgrep"} [] t = "gopls" -> {None, "pls"} [] OTHER -> {None}]

MCDigest == [t \in Tool |-> IF t = "jq" THEN "binary" ELSE "none"]

================================================================================
