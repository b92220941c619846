--------------------------- MODULE MCHistoryStore ---------------------------
(* A small history store for TLC: two keys, four times, the clock at 3. *)
EXTENDS HistoryStore, TLC

MCSymmetry == Permutations(Procs)
MCSizes == {1, 2}

\* A store with the given entries.
Holding(entries) ==
    [id \in Keys \X (0..MaxTime) |->
        IF \E e \in entries : e[1] = id
        THEN (CHOOSE e \in entries : e[1] = id)[2] ELSE Nothing]

Entry(k, t, n) == <<<<k, t>>, n>>

MCLegacy ==
    {Holding(es) : es \in
        {{},
         {Entry(1, 1, 1), Entry(1, 2, 1)},
         {Entry(1, 2, 1), Entry(2, 2, 1)},
         {Entry(1, 1, 1), Entry(1, 2, 1), Entry(1, 3, 1)},
         {Entry(1, 2, 1), Entry(1, 3, 1), Entry(2, 1, 2)},
         {Entry(1, 1, Broken), Entry(1, 2, 2), Entry(2, 1, Foreign)}}}

MCCurrent ==
    {Holding(es) : es \in
        {{},
         {Entry(1, 1, 1), Entry(1, 2, 1)},
         {Entry(1, 1, 2), Entry(2, 1, 1)},
         {Entry(1, 2, 1), Entry(2, 1, 2)},
         {Entry(1, 2, Broken), Entry(2, 2, 1)}}}

=============================================================================
