------------------------------ MODULE MCSkills ------------------------------
EXTENDS Skills, TLC

Defaults == "codex" :> NoExact @@ "claude" :> NoExact
Request(op, targets, profiles, exact, rules, force) ==
    [op |-> op, targets |-> targets, profiles |-> profiles, exact |-> exact,
     rules |-> rules, force |-> force]
Both == {"codex", "claude"}
MCRequests ==
    {Request("install", Both, {"read-only"}, Defaults, "none", FALSE),
     Request("install", Both, {"read-only"}, Defaults, "none", TRUE),
     Request("remove", Both, {"read-only"}, Defaults, "none", FALSE),
     Request("remove", {"codex"}, {"read-only"}, Defaults, "none", TRUE),
     Request("install", {"codex"}, {"read-only", "administrator"}, Defaults, "a", FALSE),
     Request("install", {"codex"}, {"administrator"}, Defaults, "b", FALSE),
     Request("install", {"codex"}, {"administrator"}, Defaults, "none", FALSE),
     Request("install", {"codex"}, {"administrator"}, Defaults, "template", FALSE),
     Request("install", Both, {"operator"}, "codex" :> "x" @@ "claude" :> "x", "none", FALSE),
     Request("install", {"codex"}, {"operator"}, "codex" :> "x" @@ "claude" :> NoExact, "none", FALSE),
     Request("install", {"claude"}, {"read-only"}, "codex" :> NoExact @@ "claude" :> "x", "none", FALSE)}
=============================================================================
