------------------------------ MODULE MCSession ------------------------------
(* Small disks and sessions. *)
EXTENDS Session, TLC

Del(ps) == [action |-> "delete", paths |-> ps, dest |-> NoPath]
Mkdir(p) == [action |-> "mkdir", paths |-> <<p>>, dest |-> NoPath]
Into(action, p, d) == [action |-> action, paths |-> <<p>>, dest |-> d]

NoKeys == [progress |-> 0, fault |-> 0, refresh |-> 0, stop |-> 0, review |-> 0,
           edit |-> 0, resize |-> 0, input |-> 0, stage |-> 0, dryRun |-> 0,
           export |-> 0, shell |-> 0, apply |-> 0, cancel |-> 0]

\* 1 and 2 are directories, 1.3 and 2.3 two names of one file.
Disk == {<<>>, <<1>>, <<2>>, <<1, 3>>, <<2, 3>>, <<2, 4>>, <<5>>}

Base ==
    [items |-> Disk, dirs |-> {<<>>, <<1>>, <<2>>, <<6>>},
     known |-> Disk \cup {<<6>>, <<7>>, <<8>>, <<9>>},
     file |-> (<<1, 3>> :> "f" @@ <<2, 3>> :> "f" @@ <<2, 4>> :> "g" @@ <<5>> :> "h"
               @@ <<7>> :> "x" @@ <<8>> :> "y" @@ <<9>> :> "z"),
     follow |-> FALSE, readOnly |-> FALSE, store |-> "writable", cached |-> Disk,
     auditPath |-> NoPath, planPath |-> <<8>>, heights |-> {7}, loose |-> {},
     stagings |-> {}, maxQueue |-> 5, maxReclaim |-> 0, may |-> NoKeys]

\* Scrolling, editing and confirming a queue of three.
Review ==
    [Base EXCEPT !.heights = {7, 8}, !.store = "none", !.maxQueue = 3, !.maxReclaim = 40,
        !.stagings = {Del(<<<<1, 3>>, <<2, 4>>, <<5>>>>), Del(<<<<2>>>>)},
        !.may = [NoKeys EXCEPT !.stage = 2, !.edit = 1, !.resize = 1, !.review = 1,
                               !.dryRun = 1, !.apply = 1]]

\* Deletions patched into the tree, with and without hard links.
Patching ==
    [Base EXCEPT !.items = @ \ {<<5>>}, !.cached = Disk,
        !.stagings = {Del(<<<<1, 3>>>>), Del(<<<<2, 3>>>>), Del(<<<<1>>>>), Del(<<<<2>>>>)},
        !.may = [NoKeys EXCEPT !.stage = 2, !.apply = 2, !.fault = 1]]

\* The same while scans come and go.
Interrupted ==
    [Patching EXCEPT !.stagings = {Del(<<<<1, 3>>>>), Del(<<<<2, 4>>>>)}, !.loose = {<<7>>},
        !.may = [NoKeys EXCEPT !.stage = 1, !.apply = 1, !.fault = 1, !.refresh = 1, !.stop = 1,
                               !.shell = 1, !.cancel = 1]]

Following == [Interrupted EXCEPT !.follow = TRUE, !.store = "none"]

\* A refused staging after an apply that stopped half way.
Refused ==
    [Base EXCEPT !.store = "none", !.heights = {8},
        !.stagings = {Del(<<<<1, 3>>, <<2, 4>>>>), Into("move", <<2, 4>>, <<6>>)},
        !.may = [NoKeys EXCEPT !.stage = 2, !.input = 1, !.apply = 1, !.fault = 1, !.edit = 1]]

\* Scans that are refreshed, stopped, fail and are saved late.
Refreshing ==
    [Base EXCEPT !.items = @ \ {<<2, 3>>}, !.loose = {<<1, 3>>, <<7>>},
        !.may = [NoKeys EXCEPT !.refresh = 1, !.stop = 1, !.shell = 1, !.fault = 1, !.progress = 1]]

\* Everything that is not a deletion.
Others ==
    [Base EXCEPT !.cached = {}, !.auditPath = <<9>>,
        !.stagings = {Mkdir(<<6>>), Into("copy", <<5>>, <<7>>), Into("move", <<5>>, <<1, 3>>)},
        !.may = [NoKeys EXCEPT !.stage = 1, !.input = 1, !.apply = 1, !.export = 1, !.cancel = 1,
                               !.progress = 1]]

ReadOnly ==
    [Base EXCEPT !.readOnly = TRUE, !.store = "readonly", !.stagings = {Del(<<<<5>>>>)},
        !.may = [NoKeys EXCEPT !.review = 1, !.refresh = 1, !.progress = 1]]

\* A file that a shell links between the staging of its deletion and the apply.
LinkedLate ==
    [Base EXCEPT !.items = @ \ {<<2, 3>>, <<5>>}, !.loose = {<<2, 3>>},
        !.stagings = {Del(<<<<1, 3>>>>)},
        !.may = [NoKeys EXCEPT !.stage = 1, !.review = 1, !.shell = 1, !.apply = 1]]

MCSetups == {Review, Patching, Interrupted, Following, Refused, Refreshing, Others, ReadOnly,
             LinkedLate}
==============================================================================
