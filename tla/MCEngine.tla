------------------------------- MODULE MCEngine --------------------------------
(***************************************************************************)
(* One runtime, a tool built with it and a tool that is downloaded; or two *)
(* runtimes and a tool that may change from one to the other.              *)
(***************************************************************************)
EXTENDS Plan

OwnRef == [t \in Tool |-> IF t = "gopls" THEN {"go"} ELSE {None}]

AnyRef == [t \in Tool |-> Runtime]

\* One tool may be given another binary name.
MCBin == [t \in Tool |-> IF t = "jq" THEN {"jq", "jq1"} ELSE {t}]

================================================================================
