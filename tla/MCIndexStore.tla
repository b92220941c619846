---------------------------- MODULE MCIndexStore ----------------------------
(* Two processes, three scans of two roots, and something foreign. *)
EXTENDS IndexStore, TLC

MCRootOf == 1 :> 1 @@ 2 :> 1 @@ 3 :> 2
MCTempOf == "p" :> 7 @@ "q" :> 8
Scanned(t, s) == [kind |-> "snapshot", time |-> t, size |-> s]
Broken == [kind |-> "broken", time |-> 0, size |-> 2]

Holding(a, b, c, temp) ==
    1 :> a @@ 2 :> b @@ 3 :> c @@ 7 :> temp @@ 8 :> Absent
        @@ 9 :> [kind |-> "foreign", time |-> 0, size |-> 5]

MCContents ==
    {Holding(Scanned(0, 2), Scanned(-1, 3), Scanned(-1, 2), Absent),
     Holding(Absent, Scanned(-1, 3), Scanned(0, 2), Absent),
     Holding(Scanned(-1, 1), Broken, Scanned(-2, 1), Absent),
     Holding(Scanned(0, 1), Absent, Broken, [kind |-> "temp", time |-> -1, size |-> 1])}

MCIncoming ==
    {[name |-> 1, time |-> 0, size |-> 3], [name |-> 2, time |-> 0, size |-> 2],
     [name |-> 2, time |-> -1, size |-> 1], [name |-> 3, time |-> 1, size |-> 4]}
=============================================================================
