------------------------------ MODULE MCInstalls -------------------------------
(***************************************************************************)
(* A downloaded runtime with two binaries and two delegated runtimes, one  *)
(* of which has a binary of the first one's name; two repositories.        *)
(***************************************************************************)
EXTENDS Installs

MCWay == [r \in Runtime |-> CASE r = "go" -> "download" [] r = "rust" -> "binDir" [] OTHER -> "runtimesDir"]

MCAsked == [r \in Runtime |-> CASE r = "go" -> {"v1", "stable"} [] r = "node" -> {"v1", "v2"} [] OTHER -> {"v1"}]

MCBinaries == [r \in Runtime |-> CASE r = "go" -> <<"go", "gofmt">> [] r = "node" -> <<"node", "go">> [] OTHER -> <<r>>]

MCBinDir == [r \in Runtime |-> "bin"]

================================================================================
