------------------------------ MODULE MCManifests ------------------------------
(***************************************************************************)
(* A module at home/ with a directory below it, a module of its own beside *)
(* it, one whose module.cue does not parse, with a directory below it that *)
(* has no package, and a directory in no module.  home/ and mine define    *)
(* one tool differently.                                                   *)
(***************************************************************************)
EXTENDS Manifests, TLC

MCDir == {"/", "home", "home/sub", "work", "torn", "torn/sub", "plain"}
MCParent == [d \in MCDir |->
    CASE d = "home/sub" -> "home" [] d = "torn/sub" -> "torn" [] OTHER -> "/"]

Module(deps) == [broken |-> FALSE, deps |-> deps, here |-> TRUE]

MCModuleIn == [d \in MCDir |->
    CASE d = "home" -> Module({"tomei"})
      [] d = "work" -> Module({"tomei/presets", "acme"})
      [] d = "torn" -> [Module({}) EXCEPT !.broken = TRUE]
      [] OTHER -> NoModule]

Layer(form, whole, by, names) == [form |-> form, whole |-> whole, by |-> by, covers |-> TRUE, names |-> names]

MCRegistry == [
    tomei |-> [firstParty |-> TRUE, resolves |-> TRUE, digest |-> 1,
               layers |-> {Layer("cosign", FALSE, "tomei", 1), Layer("cosign", TRUE, "tomei", 1)}],
    acme |-> [firstParty |-> FALSE, resolves |-> TRUE, digest |-> 3, layers |-> {}]]
    @@ ("tomei/presets" :> [firstParty |-> TRUE, resolves |-> TRUE, digest |-> 2,
               layers |-> {Layer("other", TRUE, "tomei", 2), Layer("cosign", TRUE, "tomei", 1),
                           Layer("bundle", TRUE, "acme", 2)}])

Res(kind, name, needs) ==
    [kind |-> kind, name |-> name, enabled |-> TRUE, valid |-> TRUE, items |-> {}, needs |-> needs]

ToolOf(name) == Res("Tool", name, {<<"Installer", "aqua">>})
Disabled(r) == [r EXCEPT !.enabled = FALSE]
Invalid(r) == [r EXCEPT !.valid = FALSE]
SetOf(name, on, off) ==
    [Res("ToolSet", name, {<<"Installer", "aqua">>}) EXCEPT
        !.items = {[name |-> n, enabled |-> TRUE] : n \in on} \cup {[name |-> n, enabled |-> FALSE] : n \in off}]
Plain == [Res("", "", {}) EXCEPT !.valid = FALSE]

Always == [tag |-> "", present |-> TRUE]
If(tag) == [tag |-> tag, present |-> TRUE]
Unless(tag) == [tag |-> tag, present |-> FALSE]

Cue(package, when, tags, form, body) ==
    [config |-> FALSE, package |-> package, when |-> when, tags |-> tags, form |-> form, body |-> body]

MCSource == [
    tools |-> Cue(TRUE, Always, {"os"}, "fields", <<Plain, ToolOf("rg"), Disabled(ToolOf("fd"))>>),
    mac |-> Cue(TRUE, If("darwin"), {"os"}, "fields", <<ToolOf("brew")>>),
    gui |-> Cue(TRUE, Unless("headless"), {}, "fields", <<ToolOf("code")>>),
    config |-> [Cue(TRUE, Always, {}, "fields", <<Plain>>) EXCEPT !.config = TRUE],
    set |-> Cue(TRUE, Always, {}, "single", <<SetOf("cli", {"fd"}, {"rg"})>>),
    more |-> Cue(TRUE, Always, {}, "fields", <<SetOf("more", {"fd"}, {}), Invalid(ToolOf("jq"))>>),
    server |-> Cue(TRUE, If("headless"), {"arch"}, "fields", <<ToolOf("tmux")>>),
    mine |-> Cue(FALSE, Always, {}, "list", <<Res("Tool", "rg", {<<"Installer", "download">>}), ToolOf("fd"),
                 Res("Installer", "aqua", {<<"Tool", "mise">>})>>),
    loop |-> Cue(FALSE, Always, {}, "single", <<Res("Tool", "mise", {<<"Installer", "aqua">>})>>),
    odd |-> Cue(TRUE, Always, {}, "fields", <<Res("Widget", "w", {})>>),
    torn |-> Cue(TRUE, Always, {}, "fields", <<ToolOf("rg")>>),
    scrap |-> Cue(FALSE, Always, {}, "fields", <<ToolOf("rg")>>),
    tagged |-> Cue(FALSE, Always, {"os"}, "single", <<ToolOf("go")>>)]

MCFile == DOMAIN MCSource

MCDirOf == [f \in MCFile |->
    CASE f \in {"tools", "mac", "gui", "config"} -> "home"
      [] f = "set" -> "home/sub"
      [] f \in {"more", "server"} -> "work"
      [] f = "torn" -> "torn"
      [] f = "scrap" -> "torn/sub"
      [] OTHER -> "plain"]

MCMachines == {[os |-> "linux", arch |-> "arm64", headless |-> FALSE],
               [os |-> "darwin", arch |-> "arm64", headless |-> TRUE]}

MCCommands ==
    [name : {"apply", "plan", "validate", "eval"}, ignoreCosign : {FALSE}, vendored : {FALSE}]
    \cup {[name |-> "apply", ignoreCosign |-> TRUE, vendored |-> FALSE],
          [name |-> "plan", ignoreCosign |-> FALSE, vendored |-> TRUE]}

Places == {"home", "home/sub", "work", "mine", "loop", "server", "gui", "torn"}

Odd == {"odd", "config", "torn/sub", "tagged", "nowhere"}

MCPathLists ==
    {<<a>> : a \in Places \cup Odd} \cup {<<"home/sub", "home/sub">>, <<"mine", "mine">>}
    \cup UNION {SetToSeqs({a, b}) : a, b \in Places}
    \cup UNION {SetToSeqs({"home/sub", a}) : a \in Odd}
    \cup UNION {SetToSeqs({"home/sub", "work"} \cup {a}) : a \in {"home", "mine", "loop"}}

================================================================================
