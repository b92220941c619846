------------------------------- MODULE MCScan -------------------------------
(* Small file systems and policies for a scan. *)
EXTENDS Scan, TLC

MCDirs == {"r", "a", "b", "c"}
MCFiles == {"f", "g"}

To(x) == [to |-> x, alias |-> FALSE]
Via(x) == [to |-> x, alias |-> TRUE]
Empty == [n \in {} |-> To("f")]

\* The defaults of scope.New, on one device.
NoRules ==
    [virtual |-> {}, exclude |-> {}, include |-> {}, excludeFS |-> {},
     includeFS |-> {}, crossDevice |-> FALSE, includeHidden |-> TRUE,
     globs |-> {}, minSize |-> 0, maxSize |-> 0]

Sizes == [r |-> 1000, a |-> 2000, b |-> 4000, c |-> 8000, f |-> 10, g |-> 30]
OneDevice == [x \in MCDirs \cup MCFiles |-> 1]

World(follow, entries, home) ==
    [root |-> "r", follow |-> follow, entries |-> entries, home |-> home,
     size |-> Sizes, links |-> [f |-> 3, g |-> 2], device |-> OneDevice,
     mounts |-> {[at |-> <<>>, fstype |-> "ext4"]}, policy |-> NoRules,
     slots |-> 1, batch |-> 2, maxFaults |-> 0, stream |-> FALSE,
     mayCancel |-> FALSE]

With(w, policy) == [w EXCEPT !.policy = policy]
Wide(w) == [w EXCEPT !.slots = 2, !.batch = 3]
Serial(w) == [w EXCEPT !.slots = 0, !.batch = 1]
Streamed(w) == [w EXCEPT !.stream = TRUE]
Failing(w) == [w EXCEPT !.maxFaults = 1, !.mayCancel = TRUE]

\* Two directories that reach each other and the root.
Crossed == World(TRUE,
    [r |-> 1 :> To("b") @@ 2 :> To("a"),
     a |-> 1 :> Via("b") @@ 2 :> To("f"),
     b |-> 1 :> Via("a") @@ 2 :> Via("f") @@ 3 :> Via("r"),
     c |-> Empty],
    [r |-> <<>>, a |-> <<2>>, b |-> <<1>>, c |-> <<9>>])

\* A directory two others reach, one of which it reaches itself.
Shortcut == World(TRUE,
    [r |-> 1 :> To("a") @@ 2 :> To("b"),
     a |-> 1 :> Via("c") @@ 3 :> To("f"),
     b |-> 1 :> To("c") @@ 2 :> To("g"),
     c |-> 1 :> Via("f") @@ 2 :> Via("b") @@ -3 :> To("g")],
    [r |-> <<>>, a |-> <<1>>, b |-> <<2>>, c |-> <<2, 1>>])

\* Hard links across directories, without following the alias.
Links == World(FALSE,
    [r |-> 1 :> To("a") @@ 2 :> To("b") @@ 3 :> To("f"),
     a |-> 1 :> To("g") @@ 2 :> To("f"),
     b |-> 1 :> To("f") @@ -2 :> To("g") @@ 3 :> Via("a"),
     c |-> Empty],
    [r |-> <<>>, a |-> <<1>>, b |-> <<2>>, c |-> <<9>>])

\* One directory with a file of two names.
Small == World(FALSE,
    [r |-> 1 :> To("a") @@ 2 :> To("f"), a |-> 1 :> To("f"), b |-> Empty, c |-> Empty],
    [r |-> <<>>, a |-> <<1>>, b |-> <<8>>, c |-> <<9>>])

\* A device of its own below b, and a type mounted on it.
Mounted(w) ==
    [w EXCEPT !.device["b"] = 2, !.mounts = @ \cup {[at |-> w.home["b"], fstype |-> "tmpfs"]}]

MCWorlds ==
    UNION {{w, Wide(w), Serial(w)} : w \in {Crossed, Shortcut, Links}}
    \cup {Failing(Crossed), Failing(Links), Streamed(Crossed), Failing(Streamed(Small))}
    \* Rules of every kind; those on paths only where nothing has two.
    \cup {With(Links, p) : p \in
            {[NoRules EXCEPT !.globs = {<<2>>, <<1, 1>>}],
             [NoRules EXCEPT !.includeHidden = FALSE, !.maxSize = 20],
             [NoRules EXCEPT !.include = {<<2, 1>>}, !.minSize = 5],
             [NoRules EXCEPT !.virtual = {<<1>>}],
             [NoRules EXCEPT !.exclude = {<<>>}]}}
    \cup {With(Crossed, [NoRules EXCEPT !.globs = {<<3>>}, !.exclude = {<<1>>}]),
           With(Shortcut, [NoRules EXCEPT !.exclude = {<<2, 1>>}])}
    \cup {Mounted(Shortcut),
           With(Mounted(Links), [NoRules EXCEPT !.crossDevice = TRUE]),
           With(Mounted(Links), [NoRules EXCEPT !.crossDevice = TRUE, !.excludeFS = {"tmpfs"}]),
           With(Links, [NoRules EXCEPT !.includeFS = {"xfs"}])}

=============================================================================
