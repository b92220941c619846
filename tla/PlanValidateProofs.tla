------------------------ MODULE PlanValidateProofs ------------------------
(***************************************************************************)
(* Proofs about PlanValidate, for every set of paths, every disk and plans *)
(* of any length.  The paths are sequences of names with all their         *)
(* ancestors; what the operations do to the disk is shown to leave a tree  *)
(* and to reach no object but through the source or the destination, and   *)
(* what was reached was reviewed, by a guard of the plan or because the    *)
(* plan had produced it.  The second half follows the prediction along the *)
(* plan: what each operation does is what the validator foresaw.           *)
(***************************************************************************)
EXTENDS PlanValidate, SequenceTheorems, WellFoundedInduction, TLAPS

-----------------------------------------------------------------------------
(***************************************************************************)
(* Paths                                                                   *)
(***************************************************************************)

\* What a path is: its names, one after another.
LEMMA PathIs ==
    ASSUME NEW p \in Paths
    PROVE  /\ p \in Seq(Names) /\ Len(p) \in Nat
           /\ p = Root <=> Len(p) = 0
BY PathsAssumption DEF Root

\* The parent of a path is the path without its last name.
LEMMA ParentIs ==
    ASSUME NEW p \in Seq(Names), p # Root
    PROVE  /\ Parent(p) \in Seq(Names) /\ Len(Parent(p)) = Len(p) - 1 /\ Len(p) \in Nat \ {0}
           /\ \A i \in 1..(Len(p) - 1) : Parent(p)[i] = p[i]
<1>1. Len(p) \in Nat \ {0} /\ \A i \in 1..Len(p) : p[i] \in Names
  BY DEF Root
<1>2. PICK n \in Nat : n = Len(p) - 1
  BY <1>1
<1>3. \A i \in 1..n : p[i] \in Names
  BY <1>1, <1>2
<1>4. /\ SubSeq(p, 1, n) \in Seq(Names)
      /\ Len(SubSeq(p, 1, n)) = IF 1 <= n THEN n - 1 + 1 ELSE 0
      /\ \A i \in 1..(n - 1 + 1) : SubSeq(p, 1, n)[i] = p[1 + i - 1]
  BY <1>3, SubSeqProperties
<1>5. /\ Len(SubSeq(p, 1, n)) = n
      /\ \A i \in 1..n : SubSeq(p, 1, n)[i] = p[i]
  BY <1>4
<1>6. Parent(p) = SubSeq(p, 1, n)
  BY <1>2 DEF Parent
<1> QED
  BY <1>1, <1>2, <1>4, <1>5, <1>6

\* Two sequences are the same when their elements are.
LEMMA SameSequence ==
    ASSUME NEW p \in Seq(Names), NEW q \in Seq(Names), Len(p) = Len(q),
           \A i \in 1..Len(p) : p[i] = q[i]
    PROVE  p = q
BY SeqEqual

\* What is within a path begins with it.
LEMMA WithinIs ==
    ASSUME NEW p \in Seq(Names), NEW q \in Seq(Names)
    PROVE  /\ Within(p, q) <=> Len(p) <= Len(q) /\ \A i \in 1..Len(p) : q[i] = p[i]
           /\ Contains(p, q) <=> Within(p, q) /\ p # q
<1>1. Len(p) \in Nat /\ Len(q) \in Nat
  OBVIOUS
<1>2. CASE Len(p) <= Len(q)
  <2>1. \A i \in 1..Len(p) : q[i] \in Names
    BY <1>1, <1>2
  <2>2. /\ SubSeq(q, 1, Len(p)) \in Seq(Names) /\ Len(SubSeq(q, 1, Len(p))) = Len(p)
        /\ \A i \in 1..Len(p) : SubSeq(q, 1, Len(p))[i] = q[i]
    BY <1>1, <2>1, SubSeqProperties
  <2>3. SubSeq(q, 1, Len(p)) = p <=> \A i \in 1..Len(p) : q[i] = p[i]
    BY <2>2, SameSequence
  <2>4. CASE Len(p) = Len(q)
    BY <1>1, <2>4, SameSequence DEF Within, Contains
  <2>5. CASE Len(p) < Len(q)
    BY <1>1, <2>3, <2>5 DEF Within, Contains
  <2> QED
    BY <1>1, <1>2, <2>4, <2>5
<1>3. CASE ~(Len(p) <= Len(q))
  BY <1>1, <1>3 DEF Within, Contains
<1> QED
  BY <1>2, <1>3

\* What is within a path is the path, or has its parent within it.
LEMMA WithinParent ==
    ASSUME NEW p \in Seq(Names), NEW q \in Seq(Names), q # Root
    PROVE  /\ Within(p, q) <=> p = q \/ Within(p, Parent(q))
           /\ Contains(p, q) <=> Within(p, Parent(q))
           /\ ~Within(q, Parent(q))
<1>1. /\ Parent(q) \in Seq(Names) /\ Len(Parent(q)) = Len(q) - 1 /\ Len(q) \in Nat \ {0}
      /\ \A i \in 1..(Len(q) - 1) : Parent(q)[i] = q[i]
  BY ParentIs
<1>2. PICK r : r = Parent(q)
  OBVIOUS
<1>3. Len(p) \in Nat
  OBVIOUS
<1>4. Within(p, r) <=> Len(p) <= Len(r) /\ \A i \in 1..Len(p) : r[i] = p[i]
  BY <1>1, <1>2, WithinIs
<1>5. Contains(p, q) <=> Within(p, r)
  <2>1. Contains(p, q) <=> Within(p, q) /\ p # q
    BY WithinIs
  <2>2. Within(p, q) <=> Len(p) <= Len(q) /\ \A i \in 1..Len(p) : q[i] = p[i]
    BY WithinIs
  <2>3. Len(p) < Len(q) => (Within(p, q) <=> Within(p, r))
    BY <1>1, <1>2, <1>3, <1>4, <2>2
  <2>4. Len(p) = Len(q) /\ Within(p, q) => p = q
    BY <2>2, SameSequence
  <2>6. Within(p, r) => p # q /\ Len(p) < Len(q)
    BY <1>1, <1>2, <1>3, <1>4
  <2>7. Within(p, q) => Len(p) < Len(q) \/ Len(p) = Len(q)
    BY <1>1, <1>3, <2>2
  <2> QED
    BY <2>1, <2>3, <2>4, <2>6, <2>7
<1>6. Within(p, q) <=> p = q \/ Contains(p, q)
  BY DEF Within
<1>7. ~Within(q, r)
  BY <1>1, <1>2, WithinIs
<1> QED
  BY <1>2, <1>5, <1>6, <1>7

\* What is within something within a path is within the path.
LEMMA WithinThrough ==
    ASSUME NEW p \in Seq(Names), NEW q \in Seq(Names), NEW r \in Seq(Names),
           Within(p, q), Within(q, r)
    PROVE  Within(p, r)
<1>1. Len(p) \in Nat /\ Len(q) \in Nat /\ Len(r) \in Nat
  OBVIOUS
<1>2. Len(p) <= Len(q) /\ \A i \in 1..Len(p) : q[i] = p[i]
  BY WithinIs
<1>3. Len(q) <= Len(r) /\ \A i \in 1..Len(q) : r[i] = q[i]
  BY WithinIs
<1>4. Len(p) <= Len(r) /\ \A i \in 1..Len(p) : r[i] = p[i]
  BY <1>1, <1>2, <1>3
<1> QED
  BY <1>4, WithinIs

\* A path moved from one place to another keeps what comes after the place.
LEMMA RebaseIs ==
    ASSUME NEW p \in Seq(Names), NEW from \in Seq(Names), NEW to \in Seq(Names),
           Within(from, p)
    PROVE  /\ Rebase(p, from, to) \in Seq(Names)
           /\ Len(Rebase(p, from, to)) = Len(to) + (Len(p) - Len(from))
           /\ \A i \in 1..Len(to) : Rebase(p, from, to)[i] = to[i]
           /\ \A i \in (Len(to) + 1)..(Len(to) + (Len(p) - Len(from))) :
                 Rebase(p, from, to)[i] = p[i - Len(to) + Len(from)]
<1>1. Len(p) \in Nat /\ Len(from) \in Nat /\ Len(to) \in Nat /\ Len(from) <= Len(p)
  BY WithinIs
<1> DEFINE rest == SubSeq(p, Len(from) + 1, Len(p))
<1>2. \A i \in (Len(from) + 1)..Len(p) : p[i] \in Names
  BY <1>1
<1>3. /\ rest \in Seq(Names) /\ Len(rest) = Len(p) - Len(from)
      /\ \A i \in 1..(Len(p) - Len(from)) : rest[i] = p[Len(from) + i]
  <2>1. /\ SubSeq(p, Len(from) + 1, Len(p)) \in Seq(Names)
        /\ Len(SubSeq(p, Len(from) + 1, Len(p))) =
              IF Len(from) + 1 <= Len(p) THEN Len(p) - (Len(from) + 1) + 1 ELSE 0
        /\ \A i \in 1..(Len(p) - (Len(from) + 1) + 1) :
              SubSeq(p, Len(from) + 1, Len(p))[i] = p[Len(from) + 1 + i - 1]
    BY <1>1, <1>2, SubSeqProperties
  <2>2. \A i \in 1..(Len(p) - Len(from)) :
           i \in 1..(Len(p) - (Len(from) + 1) + 1) /\ Len(from) + 1 + i - 1 = Len(from) + i
    BY <1>1
  <2> QED
    BY <1>1, <2>1, <2>2
<1> HIDE DEF rest
<1>4. /\ to \o rest \in Seq(Names) /\ Len(to \o rest) = Len(to) + Len(rest)
      /\ \A i \in 1..(Len(to) + Len(rest)) :
            (to \o rest)[i] = IF i <= Len(to) THEN to[i] ELSE rest[i - Len(to)]
  BY <1>1, <1>3, ConcatProperties
<1>5. Rebase(p, from, to) = to \o rest
  BY DEF Rebase, rest
<1>6. ASSUME NEW i \in (Len(to) + 1)..(Len(to) + (Len(p) - Len(from)))
      PROVE  Rebase(p, from, to)[i] = p[i - Len(to) + Len(from)]
  <2>1. i - Len(to) \in 1..(Len(p) - Len(from)) /\ i \in 1..(Len(to) + Len(rest)) /\ ~(i <= Len(to))
    BY <1>1, <1>3
  <2>2. rest[i - Len(to)] = p[Len(from) + (i - Len(to))]
    BY <1>3, <2>1
  <2>3. Len(from) + (i - Len(to)) = i - Len(to) + Len(from)
    BY <1>1
  <2> QED
    BY <1>4, <1>5, <2>1, <2>2, <2>3
<1>7. ASSUME NEW i \in 1..Len(to)
      PROVE  Rebase(p, from, to)[i] = to[i]
  BY <1>1, <1>3, <1>4, <1>5
<1> QED
  BY <1>3, <1>4, <1>5, <1>6, <1>7

\* A path below the place moves with its parent, and the place moves to the other.
LEMMA RebaseParent ==
    ASSUME NEW p \in Seq(Names), NEW from \in Seq(Names), NEW to \in Seq(Names),
           Contains(from, p)
    PROVE  /\ Rebase(p, from, to) # Root
           /\ Parent(Rebase(p, from, to)) = Rebase(Parent(p), from, to)
<1>1. Within(from, p) /\ p # Root /\ Within(from, Parent(p))
  <2>1. Within(from, p) /\ from # p
    BY WithinIs
  <2>2. p # Root
    <3>1. Len(from) <= Len(p) /\ Len(from) \in Nat /\ Len(p) \in Nat
      BY <2>1, WithinIs
    <3>2. Len(from) = Len(p) => from = p
      BY <2>1, WithinIs, SameSequence
    <3> QED
      BY <2>1, <3>1, <3>2 DEF Root
  <2> QED
    BY <2>1, <2>2, WithinParent
<1>2. PICK q : q = Parent(p)
  OBVIOUS
<1>3. /\ q \in Seq(Names) /\ Len(q) = Len(p) - 1 /\ Len(p) \in Nat \ {0}
      /\ \A i \in 1..(Len(p) - 1) : q[i] = p[i]
  BY <1>1, <1>2, ParentIs
<1>4. Len(from) \in Nat /\ Len(to) \in Nat /\ Len(from) <= Len(q)
  BY <1>1, <1>2, <1>3, WithinIs
<1>5. PICK a : a = Rebase(p, from, to)
  OBVIOUS
<1>6. PICK b : b = Rebase(q, from, to)
  OBVIOUS
<1>7. /\ a \in Seq(Names) /\ Len(a) = Len(to) + (Len(p) - Len(from))
      /\ \A i \in 1..Len(to) : a[i] = to[i]
      /\ \A i \in (Len(to) + 1)..(Len(to) + (Len(p) - Len(from))) :
            a[i] = p[i - Len(to) + Len(from)]
  <2>1. p \in Seq(Names) /\ Within(from, p)
    BY <1>1
  <2>2. /\ Rebase(p, from, to) \in Seq(Names)
        /\ Len(Rebase(p, from, to)) = Len(to) + (Len(p) - Len(from))
        /\ \A i \in 1..Len(to) : Rebase(p, from, to)[i] = to[i]
        /\ \A i \in (Len(to) + 1)..(Len(to) + (Len(p) - Len(from))) :
              Rebase(p, from, to)[i] = p[i - Len(to) + Len(from)]
    BY <2>1, RebaseIs
  <2> QED
    BY <1>5, <2>2
<1>8. /\ b \in Seq(Names) /\ Len(b) = Len(to) + (Len(q) - Len(from))
      /\ \A i \in 1..Len(to) : b[i] = to[i]
      /\ \A i \in (Len(to) + 1)..(Len(to) + (Len(q) - Len(from))) :
            b[i] = q[i - Len(to) + Len(from)]
  <2>1. q \in Seq(Names) /\ Within(from, q)
    BY <1>1, <1>2, <1>3
  <2>2. /\ Rebase(q, from, to) \in Seq(Names)
        /\ Len(Rebase(q, from, to)) = Len(to) + (Len(q) - Len(from))
        /\ \A i \in 1..Len(to) : Rebase(q, from, to)[i] = to[i]
        /\ \A i \in (Len(to) + 1)..(Len(to) + (Len(q) - Len(from))) :
              Rebase(q, from, to)[i] = q[i - Len(to) + Len(from)]
    BY <2>1, RebaseIs
  <2> QED
    BY <1>6, <2>2
<1>9. a # Root
  BY <1>3, <1>4, <1>7 DEF Root
<1>10. PICK c : c = Parent(a)
  OBVIOUS
<1>11. /\ c \in Seq(Names) /\ Len(c) = Len(a) - 1
       /\ \A i \in 1..(Len(a) - 1) : c[i] = a[i]
  BY <1>7, <1>9, <1>10, ParentIs
<1>12. Len(c) = Len(b) /\ Len(b) \in Nat
  BY <1>3, <1>4, <1>7, <1>8, <1>11
<1>13. ASSUME NEW i \in 1..Len(c)
       PROVE  c[i] = b[i]
  <2>1. c[i] = a[i]
    BY <1>11, <1>13
  <2>2. CASE i <= Len(to)
    BY <1>4, <1>7, <1>8, <1>12, <2>1, <2>2
  <2>3. CASE ~(i <= Len(to))
    <3>1. i \in (Len(to) + 1)..(Len(to) + (Len(q) - Len(from)))
          /\ i \in (Len(to) + 1)..(Len(to) + (Len(p) - Len(from)))
      BY <1>3, <1>4, <1>8, <1>12, <2>3
    <3>2. i - Len(to) + Len(from) \in 1..(Len(p) - 1)
      BY <1>3, <1>4, <3>1
    <3>3. a[i] = p[i - Len(to) + Len(from)] /\ b[i] = q[i - Len(to) + Len(from)]
      BY <1>7, <1>8, <3>1
    <3> QED
      BY <1>3, <2>1, <3>2, <3>3
  <2> QED
    BY <2>2, <2>3
<1>14. c = b
  BY <1>8, <1>11, <1>12, <1>13, SameSequence
<1> QED
  BY <1>2, <1>5, <1>6, <1>9, <1>10, <1>14

\* The place itself moves to the other place.
LEMMA RebasePlace ==
    ASSUME NEW from \in Seq(Names), NEW to \in Seq(Names)
    PROVE  Rebase(from, from, to) = to /\ Within(from, from)
<1>1. Within(from, from)
  BY DEF Within
<1>2. Len(from) \in Nat /\ Len(to) \in Nat
  OBVIOUS
<1>3. /\ Rebase(from, from, to) \in Seq(Names) /\ Len(Rebase(from, from, to)) = Len(to)
      /\ \A i \in 1..Len(to) : Rebase(from, from, to)[i] = to[i]
  BY <1>1, <1>2, RebaseIs
<1> QED
  BY <1>1, <1>3, SameSequence

\* A set that holds 0 and with every number its successor holds them all.
LEMMA Induction ==
    ASSUME NEW G, 0 \in G, \A n \in Nat : n \in G => n + 1 \in G
    PROVE  Nat \subseteq G
<1> SUFFICES ASSUME Nat \ G # {} PROVE FALSE
  OBVIOUS
<1> DEFINE R == {pair \in Nat \X Nat : pair[1] < pair[2]}
<1>1. IsWellFoundedOn(R, Nat)
  BY NatLessThanWellFounded DEF OpToRel
<1>2. PICK m \in Nat \ G : \A k \in Nat \ G : <<k, m>> \notin R
  <2> HIDE DEF R
  <2>1. Nat \ G \in SUBSET Nat
    OBVIOUS
  <2> QED
    BY <1>1, <2>1, WFMin
<1>3. m # 0 /\ m - 1 \in Nat /\ <<m - 1, m>> \in R
  BY <1>2
<1>4. m - 1 \in G
  BY <1>2, <1>3
<1>5. (m - 1) + 1 \in G
  BY <1>3, <1>4
<1> QED
  BY <1>2, <1>3, <1>5

-----------------------------------------------------------------------------
(***************************************************************************)
(* Trees                                                                   *)
(***************************************************************************)

Trees == {d \in [Paths -> Object] :
            \A p \in Paths \ {Root} : d[p].kind # "none" => d[Parent(p)].kind = "directory"}

\* The parents of the paths are among them.
LEMMA ParentInside ==
    ASSUME NEW p \in Paths, p # Root
    PROVE  Parent(p) \in Paths
BY PathsAssumption

\* What is above an entry is a directory.
LEMMA AboveIsDirectory ==
    ASSUME NEW d \in Trees, NEW p \in Paths, NEW q \in Paths, Contains(p, q), d[q].kind # "none"
    PROVE  d[p].kind = "directory"
<1> DEFINE G == {n \in Nat : \A r \in Paths :
                    Len(r) = n /\ Contains(p, r) /\ d[r].kind # "none" => d[p].kind = "directory"}
<1>1. ASSUME NEW n \in Nat, n = 0 \/ n - 1 \in G
      PROVE  n \in G
  <2> SUFFICES ASSUME NEW r \in Paths, Len(r) = n, Contains(p, r), d[r].kind # "none"
               PROVE  d[p].kind = "directory"
    OBVIOUS
  <2>1. r # Root
    BY PathIs DEF Contains
  <2>2. /\ Parent(r) \in Paths /\ Within(p, Parent(r)) /\ Len(Parent(r)) = n - 1
    BY <2>1, PathIs, ParentIs, ParentInside, WithinParent
  <2>3. d[Parent(r)].kind = "directory"
    BY <2>1 DEF Trees
  <2>4. CASE Parent(r) = p
    BY <2>3, <2>4
  <2>5. CASE Parent(r) # p
    <3>1. Contains(p, Parent(r))
      BY <2>2, <2>5 DEF Within
    <3>2. n # 0
      BY <2>1, PathIs
    <3> QED
      BY <1>1, <2>2, <2>3, <3>1, <3>2
  <2> QED
    BY <2>4, <2>5
<1>2. 0 \in G
  BY <1>1
<1>3. \A n \in Nat : n \in G => n + 1 \in G
  <2> SUFFICES ASSUME NEW n \in Nat, n \in G PROVE n + 1 \in G
    OBVIOUS
  <2>1. n + 1 \in Nat /\ (n + 1) - 1 = n
    OBVIOUS
  <2> HIDE DEF G
  <2> QED
    BY <1>1, <2>1
<1>4. Nat \subseteq G
  <2> HIDE DEF G
  <2> QED
    BY <1>2, <1>3, Induction
<1>5. Len(q) \in G
  BY <1>4, PathIs
<1> QED
  BY <1>5

\* Nothing below what is no directory.
LEMMA NothingBelow ==
    ASSUME NEW d \in Trees, NEW p \in Paths, d[p].kind # "directory",
           NEW q \in Paths, Contains(p, q)
    PROVE  d[q].kind = "none"
BY AboveIsDirectory

\* The kinds alone make a tree.
LEMMA SameKinds ==
    ASSUME NEW d \in Trees, NEW e \in [Paths -> Object], \A q \in Paths : e[q].kind = d[q].kind
    PROVE  e \in Trees
BY ParentInside DEF Trees

\* e is d with an entry p stirred: the same but for the directory of p.
IsStirred(e, d, p) ==
    \A q \in Paths : /\ e[q].kind = d[q].kind /\ e[q].origin = d[q].origin
                     /\ e[q].archive = d[q].archive
                     /\ p = Root \/ q # Parent(p) => e[q] = d[q]

\* e is d with nothing at p and below.
IsWithout(e, d, p) ==
    \A q \in Paths : IF Within(p, q) THEN e[q] = Nothing
                     ELSE /\ e[q].kind = d[q].kind /\ e[q].origin = d[q].origin
                          /\ e[q].archive = d[q].archive
                          /\ p = Root \/ q # Parent(p) => e[q] = d[q]

\* e is d with, at to and below, the tree that objects show at from.
IsPlaced(e, d, objects, from, to) ==
    \A q \in Paths :
        /\ ~Within(to, q) => /\ e[q].kind = d[q].kind /\ e[q].origin = d[q].origin
                             /\ e[q].archive = d[q].archive
                             /\ to = Root \/ q # Parent(to) => e[q] = d[q]
        /\ Within(to, q) =>
              e[q] = IF Rebase(q, to, from) \in Paths THEN objects[Rebase(q, to, from)]
                     ELSE Nothing

\* e is d with o at p.
IsPut(e, d, p, o) ==
    e[p] = o /\ \A q \in Paths : q # p => e[q] = d[q]

\* Touching the directory of an entry.
LEMMA StirredIs ==
    ASSUME NEW d \in [Paths -> Object], NEW p \in Paths, NEW e, e = Stirred(d, p)
    PROVE  /\ e \in [Paths -> Object]
           /\ IsStirred(e, d, p)
<1>1. CASE p = Root
  BY <1>1 DEF Stirred, IsStirred
<1>2. CASE p # Root
  <2>1. PICK a \in Paths : a = Parent(p)
    BY <1>2, ParentInside
  <2>2. e = [d EXCEPT ![a].dirty = TRUE]
    BY <1>2, <2>1 DEF Stirred
  <2>3. PICK o \in Object : o = d[a]
    OBVIOUS
  <2>4. PICK x : x = [o EXCEPT !.dirty = TRUE]
    OBVIOUS
  <2>5. x \in Object /\ x.kind = o.kind /\ x.origin = o.origin /\ x.archive = o.archive
    BY <2>4 DEF Object
  <2>6. e = [d EXCEPT ![a] = x]
    BY <2>2, <2>3, <2>4
  <2> QED
    BY <1>2, <2>1, <2>3, <2>5, <2>6 DEF IsStirred
<1> QED
  BY <1>1, <1>2

\* An object that is not there is an object still.
LEMMA NothingIs == Nothing \in Object /\ Nothing.kind = "none"
BY DEF Nothing, Object, Kinds

\* A new object has its kind, and no history.
LEMMA NewIs ==
    ASSUME NEW k \in Kinds
    PROVE  New(k) \in Object /\ New(k).kind = k /\ New(k).origin = Nowhere /\ New(k).archive = FALSE
<1>1. PICK n : n = [kind |-> "none", origin |-> Nowhere, dirty |-> FALSE, archive |-> FALSE]
  OBVIOUS
<1>2. New(k) = [n EXCEPT !.kind = k]
  BY <1>1 DEF New, Nothing
<1>3. New(k) = [kind |-> k, origin |-> Nowhere, dirty |-> FALSE, archive |-> FALSE]
  BY <1>1, <1>2
<1> QED
  BY <1>3 DEF Object

\* An entry goes with what is below it.
LEMMA WithoutIs ==
    ASSUME NEW d \in Trees, NEW p \in Paths, NEW e, e = Without(d, p)
    PROVE  /\ e \in Trees
           /\ IsWithout(e, d, p)
<1>1. PICK m : m = [q \in Paths |-> IF Within(p, q) THEN Nothing ELSE d[q]]
  OBVIOUS
<1>2. m \in [Paths -> Object]
  BY <1>1, NothingIs DEF Trees
<1>3. /\ e \in [Paths -> Object]
      /\ \A q \in Paths : /\ e[q].kind = m[q].kind /\ e[q].origin = m[q].origin
                          /\ e[q].archive = m[q].archive
                          /\ p = Root \/ q # Parent(p) => e[q] = m[q]
  <2>1. e = Stirred(m, p)
    BY <1>1 DEF Without
  <2> QED
    BY <1>2, <2>1, StirredIs DEF IsStirred
<1>4. p # Root => ~Within(p, Parent(p))
  BY PathIs, WithinParent
<1>5. \A q \in Paths : IF Within(p, q) THEN e[q] = Nothing
                       ELSE /\ e[q].kind = d[q].kind /\ e[q].origin = d[q].origin
                            /\ e[q].archive = d[q].archive
                            /\ p = Root \/ q # Parent(p) => e[q] = d[q]
  BY <1>1, <1>3, <1>4
<1>6. e \in Trees
  <2> SUFFICES ASSUME NEW q \in Paths \ {Root}, e[q].kind # "none"
               PROVE  e[Parent(q)].kind = "directory"
    BY <1>3 DEF Trees
  <2>1. ~Within(p, q)
    BY <1>5, NothingIs
  <2>2. Parent(q) \in Paths /\ ~Within(p, Parent(q))
    BY <2>1, PathIs, ParentInside, WithinParent
  <2>3. d[Parent(q)].kind = "directory"
    BY <1>5, <2>1 DEF Trees
  <2> QED
    BY <1>5, <2>2, <2>3
<1> QED
  BY <1>5, <1>6 DEF IsWithout

\* A tree takes the place of what is at to.
LEMMA PlacedIs ==
    ASSUME NEW d \in Trees, NEW objects \in Trees, NEW from \in Paths, NEW to \in Paths,
           to # Root => d[Parent(to)].kind = "directory", NEW e, e = Placed(d, objects, from, to)
    PROVE  /\ e \in Trees
           /\ IsPlaced(e, d, objects, from, to)
<1>1. PICK m : m = [q \in Paths |->
                      IF ~Within(to, q) THEN d[q]
                      ELSE LET o == Rebase(q, to, from)
                           IN  IF o \in Paths THEN objects[o] ELSE Nothing]
  OBVIOUS
<1>2. m \in [Paths -> Object]
  BY <1>1, NothingIs DEF Trees
<1>3. /\ e \in [Paths -> Object]
      /\ \A q \in Paths : /\ e[q].kind = m[q].kind /\ e[q].origin = m[q].origin
                          /\ e[q].archive = m[q].archive
                          /\ to = Root \/ q # Parent(to) => e[q] = m[q]
  <2>1. e = Stirred(m, to)
    BY <1>1 DEF Placed
  <2> QED
    BY <1>2, <2>1, StirredIs DEF IsStirred
<1>4. to # Root => ~Within(to, Parent(to))
  BY PathIs, WithinParent
<1>5. ASSUME NEW q \in Paths
      PROVE  /\ ~Within(to, q) => /\ e[q].kind = d[q].kind /\ e[q].origin = d[q].origin
                                  /\ e[q].archive = d[q].archive
                                  /\ to = Root \/ q # Parent(to) => e[q] = d[q]
             /\ Within(to, q) =>
                   e[q] = IF Rebase(q, to, from) \in Paths THEN objects[Rebase(q, to, from)]
                          ELSE Nothing
  BY <1>1, <1>3, <1>4
<1>6. e \in Trees
  <2> SUFFICES ASSUME NEW q \in Paths \ {Root}, e[q].kind # "none"
               PROVE  e[Parent(q)].kind = "directory"
    BY <1>3 DEF Trees
  <2>1. Parent(q) \in Paths /\ (Within(to, q) <=> to = q \/ Within(to, Parent(q)))
    BY PathIs, ParentInside, WithinParent
  <2>2. CASE ~Within(to, q)
    <3>1. d[Parent(q)].kind = "directory"
      BY <1>5, <2>2 DEF Trees
    <3> QED
      BY <1>5, <2>1, <2>2, <3>1
  <2>3. CASE to = q
    BY <1>4, <1>5, <2>1, <2>3
  <2>4. CASE to # q /\ Within(to, q)
    <3>1. PICK r : r = Rebase(q, to, from)
      OBVIOUS
    <3>2. r \in Paths /\ objects[r].kind # "none"
      BY <1>5, <2>4, <3>1, NothingIs
    <3>3. Contains(to, q)
      BY <2>4 DEF Within
    <3>4. r # Root /\ Parent(r) = Rebase(Parent(q), to, from)
      BY <3>1, <3>3, PathIs, RebaseParent
    <3>5. Parent(r) \in Paths /\ objects[Parent(r)].kind = "directory"
      BY <3>2, <3>4, ParentInside DEF Trees
    <3> QED
      BY <1>5, <2>1, <2>4, <3>4, <3>5
  <2> QED
    BY <2>2, <2>3, <2>4
<1> QED
  BY <1>5, <1>6 DEF IsPlaced

\* An entry is put where its parent is a directory.
LEMMA PutIs ==
    ASSUME NEW d \in Trees, NEW p \in Paths, NEW o \in Object, NEW e, e = [d EXCEPT ![p] = o],
           p # Root => d[Parent(p)].kind = "directory",
           o.kind = "directory" \/ \A q \in Paths : Contains(p, q) => d[q].kind = "none"
    PROVE  e \in Trees /\ IsPut(e, d, p, o)
<1>1. e \in [Paths -> Object] /\ e[p] = o /\ \A q \in Paths : q # p => e[q] = d[q]
  BY DEF Trees
<1>2. ASSUME NEW q \in Paths \ {Root}, e[q].kind # "none"
      PROVE  e[Parent(q)].kind = "directory"
  <2>1. PICK a \in Paths : a = Parent(q)
    BY ParentInside
  <2>2. a # q
    BY <2>1, PathIs, WithinParent, RebasePlace
  <2>3. CASE q = p
    BY <1>1, <2>1, <2>2, <2>3
  <2>4. CASE q # p /\ a # p
    BY <1>1, <1>2, <2>1, <2>4 DEF Trees
  <2>5. CASE q # p /\ a = p
    <3>1. Contains(p, q)
      BY <2>1, <2>5, PathIs, WithinParent, RebasePlace
    <3>2. d[q].kind # "none"
      BY <1>1, <1>2, <2>5
    <3> QED
      BY <1>1, <2>1, <2>5, <3>1, <3>2
  <2> QED
    BY <2>3, <2>4, <2>5
<1> QED
  BY <1>1, <1>2 DEF Trees, IsPut

\* Touching a directory leaves a tree.
LEMMA StirredTree ==
    ASSUME NEW d \in Trees, NEW p \in Paths, NEW e, e = Stirred(d, p)
    PROVE  e \in Trees /\ IsStirred(e, d, p)
<1>1. d \in [Paths -> Object]
  BY DEF Trees
<1>2. e \in [Paths -> Object] /\ IsStirred(e, d, p)
  BY <1>1, StirredIs
<1> QED
  BY <1>2, SameKinds DEF IsStirred

-----------------------------------------------------------------------------
(***************************************************************************)
(* The invariant                                                           *)
(***************************************************************************)

\* What the validator let into the plan.
Sound(o) ==
    IF o.action \in Building
    THEN o.dest \in Paths /\ o.dest # o.source /\ (policy = "overwrite" => o.expectedDst # "nil")
    ELSE o.dest = Nowhere

Types ==
    /\ policy \in {"fail", "overwrite"}
    /\ phase \in {"planning", "applying", "succeeded", "failed"}
    /\ plan \in Seq(Operation)
    /\ predicted \in [Paths -> PathState]
    /\ disk \in Trees
    /\ created \subseteq Paths /\ trees \subseteq created
    /\ at \in 1..(Len(plan) + 1)

Invariant ==
    /\ Types
    /\ phase = "planning" => at = 1
    /\ phase = "applying" => at \in 1..Len(plan)
    /\ \A i \in 1..Len(plan) : Sound(plan[i])

\* The invariant has the types, and the disk is a tree.
LEMMA InvariantTypes == Invariant => TypeOK
BY DEF Invariant, Types, TypeOK, Trees, Exists, IsDirectory

-----------------------------------------------------------------------------
(***************************************************************************)
(* What an operation does to the disk                                      *)
(***************************************************************************)

\* What was there keeps its origin, unless an operation reached it: through its
\* source, which is there, or through its destination, if it has one.
Reached(source, dests, e) ==
    \A p \in Paths :
        Exists(p) /\ e[p].origin # disk[p].origin =>
            (Exists(source) /\ Within(source, p)) \/ \E dest \in dests : Within(dest, p)

\* A removal, of an entry that is there, with all below it.
LEMMA DeletesReach ==
    ASSUME disk \in Trees, NEW s \in Paths, Exists(s), NEW e, e = Without(disk, s)
    PROVE  e \in Trees /\ Reached(s, {}, e)
<1>1. /\ e \in Trees
      /\ \A q \in Paths : ~Within(s, q) => e[q].origin = disk[q].origin
  <2>1. e \in Trees /\ IsWithout(e, disk, s)
    BY WithoutIs
  <2> QED
    BY <2>1 DEF IsWithout
<1> QED
  BY <1>1 DEF Reached

\* A copy of the disk is as much of a tree.
LEMMA CopiesAre ==
    ASSUME disk \in Trees
    PROVE  Copies \in Trees
<1>1. PICK c : c = Copies
  OBVIOUS
<1>2. /\ c \in [Paths -> Object]
      /\ \A q \in Paths : c[q].kind = disk[q].kind
  <2>1. ASSUME NEW q \in Paths
        PROVE  /\ [New(disk[q].kind) EXCEPT !.archive = disk[q].archive] \in Object
               /\ [New(disk[q].kind) EXCEPT !.archive = disk[q].archive].kind = disk[q].kind
    <3>1. PICK x \in Object : x = disk[q]
      BY DEF Trees
    <3>2. x.kind \in Kinds /\ x.archive \in BOOLEAN
      BY DEF Object
    <3>3. PICK n \in Object : n = New(x.kind) /\ n.kind = x.kind
      BY <3>2, NewIs
    <3>4. /\ [n EXCEPT !.archive = x.archive] \in Object
          /\ [n EXCEPT !.archive = x.archive].kind = n.kind
      BY <3>2 DEF Object
    <3> QED
      BY <3>1, <3>3, <3>4
  <2> QED
    BY <1>1, <2>1 DEF Copies
<1> QED
  BY <1>1, <1>2, SameKinds

\* A tree is copied to where there is a directory to hold it.
LEMMA CopiesReach ==
    ASSUME disk \in Trees, NEW s \in Paths, NEW t \in Paths, Parented(t),
           NEW c \in Trees, NEW e, e = Placed(disk, c, s, t)
    PROVE  e \in Trees /\ Reached(s, {t}, e)
<1>1. t # Root => disk[Parent(t)].kind = "directory"
  BY DEF Parented, IsDirectory
<1>2. /\ e \in Trees
      /\ \A q \in Paths : ~Within(t, q) => e[q].origin = disk[q].origin
  <2>1. e \in Trees /\ IsPlaced(e, disk, c, s, t)
    BY <1>1, PlacedIs
  <2> QED
    BY <2>1 DEF IsPlaced
<1> QED
  BY <1>2 DEF Reached

\* A tree is moved, to nowhere inside itself.
LEMMA MovesReach ==
    ASSUME disk \in Trees, NEW s \in Paths, NEW t \in Paths, Exists(s), Parented(t),
           t # s, ~Contains(s, t), NEW w, w = Without(disk, s), NEW e, e = Placed(w, disk, s, t)
    PROVE  e \in Trees /\ Reached(s, {t}, e)
<1>1. /\ w \in Trees
      /\ \A q \in Paths : ~Within(s, q) =>
            w[q].origin = disk[q].origin /\ w[q].kind = disk[q].kind
  <2>1. w \in Trees /\ IsWithout(w, disk, s)
    BY WithoutIs
  <2> QED
    BY <2>1 DEF IsWithout
<1>2. t # Root => w[Parent(t)].kind = "directory"
  <2> SUFFICES ASSUME t # Root PROVE w[Parent(t)].kind = "directory"
    OBVIOUS
  <2>1. disk[Parent(t)].kind = "directory"
    BY DEF Parented, IsDirectory
  <2>2. ~Within(s, Parent(t)) /\ Parent(t) \in Paths
    BY PathIs, WithinParent, ParentInside
  <2> QED
    BY <1>1, <2>1, <2>2
<1>3. /\ e \in Trees
      /\ \A q \in Paths : ~Within(t, q) => e[q].origin = w[q].origin
  <2>1. e \in Trees /\ IsPlaced(e, w, disk, s, t)
    BY <1>1, <1>2, PlacedIs
  <2> QED
    BY <2>1 DEF IsPlaced
<1> QED
  BY <1>1, <1>3 DEF Reached

\* mkdir, and touch of what is not there.
LEMMA CreationsReach ==
    ASSUME disk \in Trees, NEW s \in Paths, ~Exists(s), Parented(s),
           NEW n \in Object, n.kind \in {"directory", "file"},
           NEW m, m = [disk EXCEPT ![s] = n], NEW e, e = Stirred(m, s)
    PROVE  e \in Trees /\ Reached(s, {}, e)
<1>1. \A q \in Paths : Contains(s, q) => disk[q].kind = "none"
  BY NothingBelow DEF Exists
<1>2. s # Root => disk[Parent(s)].kind = "directory"
  BY DEF Parented, IsDirectory
<1>3. m \in Trees /\ \A q \in Paths : q # s => m[q] = disk[q]
  <2>1. m \in Trees /\ IsPut(m, disk, s, n)
    BY <1>1, <1>2, PutIs
  <2> QED
    BY <2>1 DEF IsPut
<1>4. /\ e \in Trees
      /\ \A q \in Paths : e[q].origin = m[q].origin
  <2>1. e \in Trees /\ IsStirred(e, m, s)
    BY <1>3, StirredTree
  <2> QED
    BY <2>1 DEF IsStirred
<1> QED
  BY <1>3, <1>4 DEF Reached

\* touch of what is there, truncate and chmod.
LEMMA ChangesReach ==
    ASSUME disk \in Trees, NEW s \in Paths, NEW e,
           \/ e = [disk EXCEPT ![s].dirty = TRUE]
           \/ e = [disk EXCEPT ![s].dirty = TRUE, ![s].archive = FALSE]
           \/ e = disk
    PROVE  e \in Trees /\ Reached(s, {}, e)
<1>2. PICK x \in Object : x = disk[s]
  BY DEF Trees
<1>3. PICK y : y = [x EXCEPT !.dirty = TRUE]
  OBVIOUS
<1>4. PICK z : z = [y EXCEPT !.archive = FALSE]
  OBVIOUS
<1>5. y \in Object /\ y.kind = x.kind /\ y.origin = x.origin
  BY <1>3 DEF Object
<1>6. z \in Object /\ z.kind = x.kind /\ z.origin = x.origin
  BY <1>4, <1>5 DEF Object
<1>7. disk \in [Paths -> Object]
  BY DEF Trees
<1>8. e = [disk EXCEPT ![s] = y] \/ e = [disk EXCEPT ![s] = z] \/ e = disk
  BY <1>2, <1>3, <1>4, <1>7
<1>9. /\ e \in [Paths -> Object]
      /\ \A q \in Paths : e[q].kind = disk[q].kind /\ e[q].origin = disk[q].origin
  BY <1>2, <1>5, <1>6, <1>7, <1>8
<1> QED
  BY <1>9, SameKinds DEF Reached

\* An archive takes the place of its destination.
LEMMA ArchivesReach ==
    ASSUME disk \in Trees, NEW s \in Paths, NEW t \in Paths, Parented(t),
           NEW n \in Object, n.kind = "file", NEW w, w = Without(disk, t),
           NEW e, e = [w EXCEPT ![t] = n]
    PROVE  e \in Trees /\ Reached(s, {t}, e)
<1>1. /\ w \in Trees
      /\ \A q \in Paths : IF Within(t, q) THEN w[q] = Nothing
                          ELSE w[q].origin = disk[q].origin /\ w[q].kind = disk[q].kind
  <2>1. w \in Trees /\ IsWithout(w, disk, t)
    BY WithoutIs
  <2> QED
    BY <2>1 DEF IsWithout
<1>2. \A q \in Paths : Contains(t, q) => w[q].kind = "none"
  BY <1>1, NothingIs DEF Within
<1>3. t # Root => w[Parent(t)].kind = "directory"
  BY <1>1, PathIs, WithinParent, ParentInside DEF Parented, IsDirectory
<1>4. e \in Trees /\ \A q \in Paths : q # t => e[q] = w[q]
  <2>1. e \in Trees /\ IsPut(e, w, t, n)
    BY <1>1, <1>2, <1>3, PutIs
  <2> QED
    BY <2>1 DEF IsPut
<1>5. Within(t, t)
  BY DEF Within
<1> QED
  BY <1>1, <1>4, <1>5 DEF Reached

\* A new directory at t in w, with new files in it.
Extracted(e, w, t, content) ==
    e = [q \in Paths |->
            IF q = t THEN New("directory") ELSE IF q \in content THEN New("file") ELSE w[q]]

\* A directory with what an archive holds takes the place of its destination.
LEMMA ExtractionsReach ==
    ASSUME disk \in Trees, NEW s \in Paths, NEW t \in Paths, Parented(t),
           NEW w, w = Without(disk, t),
           NEW content \in SUBSET {q \in Paths : q # Root /\ Parent(q) = t}, NEW e,
           Extracted(e, w, t, content)
    PROVE  e \in Trees /\ Reached(s, {t}, e)
<1>2. /\ w \in Trees
      /\ \A q \in Paths : IF Within(t, q) THEN w[q] = Nothing
                          ELSE w[q].origin = disk[q].origin /\ w[q].kind = disk[q].kind
  <2>1. w \in Trees /\ IsWithout(w, disk, t)
    BY WithoutIs
  <2> QED
    BY <2>1 DEF IsWithout
<1>3. /\ New("directory") \in Object /\ New("directory").kind = "directory"
      /\ New("file") \in Object
  BY NewIs DEF Kinds
<1>4. \A q \in Paths : e[q] = IF q = t THEN New("directory")
                              ELSE IF q \in content THEN New("file") ELSE w[q]
  BY DEF Extracted
<1>5. w \in [Paths -> Object]
  BY <1>2 DEF Trees
<1>6. e \in [Paths -> Object]
  BY <1>3, <1>5 DEF Extracted
<1>7. t # Root => w[Parent(t)].kind = "directory"
  BY <1>2, PathIs, WithinParent, ParentInside DEF Parented, IsDirectory
<1>8. ASSUME NEW q \in Paths \ {Root}, e[q].kind # "none"
      PROVE  e[Parent(q)].kind = "directory"
  <2>1. PICK a \in Paths : a = Parent(q)
    BY ParentInside
  <2>2. CASE a = t
    BY <1>3, <1>4, <2>1, <2>2
  <2>3. CASE q = t
    <3>1. w[a].kind = "directory" /\ ~Within(t, a)
      BY <1>7, <2>1, <2>3, PathIs, WithinParent
    <3>2. a # t /\ a \notin content
      <4>1. a \in content => Parent(a) = t /\ a # Root
        OBVIOUS
      <4>2. a \in content => Within(t, a)
        BY <4>1, PathIs, WithinParent, RebasePlace
      <4> QED
        BY <3>1, <4>2 DEF Within
    <3> QED
      BY <1>4, <2>1, <3>1, <3>2
  <2>4. CASE a # t /\ q # t
    <3>1. q \notin content
      BY <2>1, <2>4
    <3>2. w[q].kind # "none"
      BY <1>4, <1>8, <2>4, <3>1
    <3>3. w[a].kind = "directory" /\ ~Within(t, q)
      BY <1>2, <2>1, <3>2, NothingIs DEF Trees
    <3>4. a \notin content
      <4>1. a \in content => Parent(a) = t /\ a # Root
        OBVIOUS
      <4>2. a \in content => Within(t, a)
        BY <4>1, PathIs, WithinParent, RebasePlace
      <4>3. ~Within(t, a)
        BY <2>1, <3>3, PathIs, WithinParent
      <4> QED
        BY <4>2, <4>3
    <3> QED
      BY <1>4, <2>1, <2>4, <3>3, <3>4
  <2> QED
    BY <2>2, <2>3, <2>4
<1>9. ASSUME NEW q \in Paths, ~Within(t, q)
      PROVE  e[q].origin = disk[q].origin
  <2>1. q # t
    BY <1>9 DEF Within
  <2>2. q \notin content
    <3>1. q \in content => Parent(q) = t /\ q # Root
      OBVIOUS
    <3> QED
      BY <1>9, <3>1, PathIs, WithinParent, RebasePlace
  <2> QED
    BY <1>2, <1>4, <1>9, <2>1, <2>2
<1> QED
  BY <1>6, <1>8, <1>9 DEF Reached, Trees

\* The operation to be executed is one that the validator let in.
LEMMA OperationAt ==
    ASSUME Invariant, phase = "applying"
    PROVE  /\ op \in Operation /\ Sound(op) /\ op.action \in Actions /\ op.source \in Paths
           /\ disk \in Trees
<1>1. at \in 1..Len(plan) /\ plan \in Seq(Operation) /\ Sound(plan[at]) /\ disk \in Trees
  BY DEF Invariant, Types
<1>2. plan[at] \in Operation
  BY <1>1
<1> QED
  BY <1>1, <1>2 DEF op, Operation

Dests == IF op.action \in Building THEN {op.dest} ELSE {}

\* Whatever an operation leaves behind is a tree, and it reached no other object.
LEMMA OutcomesReach ==
    ASSUME Invariant, phase = "applying", Preflight(op, Unguarded), Performable, NEW e \in Outcomes
    PROVE  e \in Trees /\ Reached(op.source, Dests, e)
<1>1. /\ op \in Operation /\ Sound(op) /\ op.action \in Actions /\ op.source \in Paths
      /\ disk \in Trees
  BY OperationAt
<1>2. PICK s \in Paths : s = op.source
  BY <1>1
<1>3. /\ op.action \notin Creating => Exists(s)
      /\ op.action \in Creating => Parented(s)
      /\ op.action \in Building => Parented(op.dest)
      /\ op.action = "mkdir" => ~Exists(s)
      /\ op.action = "move" => ~Contains(s, op.dest)
  BY <1>2 DEF Preflight, Performable
<1>4. op.action \in Building => op.dest \in Paths /\ op.dest # s /\ Dests = {op.dest}
  BY <1>1, <1>2 DEF Sound, Dests
<1>5. op.action \notin Building => Dests = {}
  BY DEF Dests
<1>6. CASE op.action \in {"delete", "deleteTree"}
  <2>1. e = Without(disk, s)
    BY <1>2, <1>6 DEF Outcomes
  <2>2. Exists(s) /\ Dests = {}
    BY <1>3, <1>5, <1>6 DEF Building, Creating
  <2>3. e \in Trees /\ Reached(s, {}, e)
    BY <1>1, <2>1, <2>2, DeletesReach
  <2> QED
    BY <1>2, <2>2, <2>3
<1>7. CASE op.action = "copy"
  <2>1. PICK t \in Paths : t = op.dest /\ Dests = {t} /\ Parented(t)
    BY <1>3, <1>4, <1>7 DEF Building
  <2>2. PICK c \in Trees : c = Copies
    BY <1>1, CopiesAre
  <2>3. e = Placed(disk, c, s, t)
    BY <1>2, <1>7, <2>1, <2>2 DEF Outcomes
  <2>4. e \in Trees /\ Reached(s, {t}, e)
    BY <1>1, <2>1, <2>3, CopiesReach
  <2> QED
    BY <1>2, <2>1, <2>4
<1>8. CASE op.action = "move"
  <2>1. PICK t \in Paths : t = op.dest /\ Dests = {t} /\ Parented(t) /\ t # s /\ ~Contains(s, t)
    BY <1>3, <1>4, <1>8 DEF Building
  <2>2. PICK w : w = Without(disk, s)
    OBVIOUS
  <2>3. e = Placed(w, disk, s, t)
    BY <1>2, <1>8, <2>1, <2>2 DEF Outcomes
  <2>4. Exists(s)
    BY <1>3, <1>8 DEF Creating
  <2>5. e \in Trees /\ Reached(s, {t}, e)
    BY <1>1, <2>1, <2>2, <2>3, <2>4, MovesReach
  <2> QED
    BY <1>2, <2>1, <2>5
<1>9. CASE op.action = "mkdir"
  <2>1. PICK n \in Object : n = New("directory") /\ n.kind = "directory"
    BY NewIs DEF Kinds
  <2>2. PICK m : m = [disk EXCEPT ![s] = n]
    OBVIOUS
  <2>3. e = Stirred(m, s)
    BY <1>2, <1>9, <2>1, <2>2 DEF Outcomes
  <2>4. ~Exists(s) /\ Parented(s) /\ Dests = {}
    BY <1>3, <1>5, <1>9 DEF Building, Creating
  <2>5. e \in Trees /\ Reached(s, {}, e)
    BY <1>1, <2>1, <2>2, <2>3, <2>4, CreationsReach
  <2> QED
    BY <1>2, <2>4, <2>5
<1>10. CASE op.action = "touch" /\ ~Exists(s)
  <2>1. PICK n \in Object : n = New("file") /\ n.kind = "file"
    BY NewIs DEF Kinds
  <2>2. PICK m : m = [disk EXCEPT ![s] = n]
    OBVIOUS
  <2>3. e = Stirred(m, s)
    BY <1>2, <1>10, <2>1, <2>2 DEF Outcomes
  <2>4. Parented(s) /\ Dests = {}
    BY <1>3, <1>5, <1>10 DEF Building, Creating
  <2>5. e \in Trees /\ Reached(s, {}, e)
    BY <1>1, <1>10, <2>1, <2>2, <2>3, <2>4, CreationsReach
  <2> QED
    BY <1>2, <2>4, <2>5
<1>11. CASE (op.action = "touch" /\ Exists(s)) \/ op.action = "truncate" \/ op.action = "chmod"
  <2>1. \/ e = [disk EXCEPT ![s].dirty = TRUE]
        \/ e = [disk EXCEPT ![s].dirty = TRUE, ![s].archive = FALSE]
        \/ e = disk
    <3>1. CASE op.action = "touch" /\ Exists(s)
      BY <1>2, <3>1 DEF Outcomes
    <3>2. CASE op.action = "truncate"
      BY <1>2, <3>2 DEF Outcomes
    <3>3. CASE op.action = "chmod"
      BY <3>3 DEF Outcomes
    <3> QED
      BY <1>11, <3>1, <3>2, <3>3
  <2>2. Dests = {}
    BY <1>5, <1>11 DEF Building
  <2>3. e \in Trees /\ Reached(s, {}, e)
    BY <1>1, <2>1, ChangesReach
  <2> QED
    BY <1>2, <2>2, <2>3
<1>12. CASE op.action = "archive"
  <2>1. PICK t \in Paths : t = op.dest /\ Dests = {t} /\ Parented(t)
    BY <1>3, <1>4, <1>12 DEF Building
  <2>2. PICK w : w = Without(disk, t)
    OBVIOUS
  <2>3. PICK n : n = [New("file") EXCEPT !.archive = TRUE]
    OBVIOUS
  <2>4. n \in Object /\ n.kind = "file"
    <3>1. PICK f \in Object : f = New("file") /\ f.kind = "file"
      BY NewIs DEF Kinds
    <3>2. n = [f EXCEPT !.archive = TRUE]
      BY <2>3, <3>1
    <3> QED
      BY <3>1, <3>2 DEF Object
  <2>5. e = [w EXCEPT ![t] = n]
    BY <1>12, <2>1, <2>2, <2>3 DEF Outcomes
  <2>6. e \in Trees /\ Reached(s, {t}, e)
    BY <1>1, <2>1, <2>2, <2>4, <2>5, ArchivesReach
  <2> QED
    BY <1>2, <2>1, <2>6
<1>13. CASE op.action = "extract"
  <2>1. PICK t \in Paths : t = op.dest /\ Dests = {t} /\ Parented(t)
    BY <1>3, <1>4, <1>13 DEF Building
  <2>2. PICK w : w = Without(disk, t)
    OBVIOUS
  <2>3. PICK content \in SUBSET {q \in Paths : q # Root /\ Parent(q) = t} :
           e = [q \in Paths |->
                   IF q = t THEN New("directory")
                   ELSE IF q \in content THEN New("file") ELSE w[q]]
    <3>1. Outcomes = {[q \in Paths |->
                         IF q = op.dest THEN New("directory")
                         ELSE IF q \in content THEN New("file")
                         ELSE Without(disk, op.dest)[q]] :
                            content \in SUBSET {q \in Paths : q # Root /\ Parent(q) = op.dest}}
      BY <1>13 DEF Outcomes
    <3> QED
      BY <2>1, <2>2, <3>1
  <2>4. e \in Trees /\ Reached(s, {t}, e)
    <3>1. Extracted(e, w, t, content)
      BY <2>3 DEF Extracted
    <3> QED
      BY <1>1, <2>1, <2>2, <3>1, ExtractionsReach
  <2> QED
    BY <1>2, <2>1, <2>4
<1> QED
  BY <1>1, <1>6, <1>7, <1>8, <1>9, <1>10, <1>11, <1>12, <1>13 DEF Actions, Building, Creating

\* An object of the plan's disk that an operation reached was reviewed.
LEMMA ReachedIsReviewed ==
    ASSUME Invariant, phase = "applying", Preflight(op, Unguarded), Performable,
           NEW e \in Outcomes, NEW p \in Paths, Exists(p),
           e[p].origin # disk[p].origin \/ p = op.source
    PROVE  \/ (op.expected \/ op.source \in created) /\ Within(op.source, p)
           \/ op.expectedDst = "present" /\ Within(op.dest, p)
<1>1. /\ op \in Operation /\ Sound(op) /\ op.action \in Actions /\ op.source \in Paths
      /\ disk \in Trees
  BY OperationAt
<1>2. (Exists(op.source) /\ Within(op.source, p)) \/ (op.action \in Building /\ Within(op.dest, p))
  <2>1. CASE p = op.source
    BY <2>1 DEF Within
  <2>2. CASE e[p].origin # disk[p].origin
    <3>1. Reached(op.source, Dests, e)
      BY OutcomesReach
    <3> QED
      BY <2>2, <3>1 DEF Reached, Dests
  <2> QED
    BY <2>1, <2>2
<1>3. CASE Exists(op.source) /\ Within(op.source, p)
  <2>1. op.expected \/ op.source \in created
    BY <1>3 DEF Preflight, GuardedOrProduced, Unguarded
  <2> QED
    BY <1>3, <2>1
<1>4. CASE op.action \in Building /\ Within(op.dest, p)
  <2>1. op.dest \in Paths /\ (policy = "overwrite" => op.expectedDst # "nil")
    BY <1>1, <1>4 DEF Sound
  <2>2. Exists(op.dest)
    <3>1. CASE op.dest = p
      BY <3>1
    <3>2. CASE Contains(op.dest, p)
      <4>1. PICK t \in Paths : t = op.dest
        BY <2>1
      <4>2. disk[t].kind = "directory"
        BY <1>1, <3>2, <4>1, AboveIsDirectory DEF Exists
      <4> QED
        BY <4>1, <4>2 DEF Exists
    <3> QED
      BY <1>4, <3>1, <3>2 DEF Within
  <2>3. policy # "fail" /\ op.expectedDst # "absent"
    BY <1>4, <2>2 DEF Preflight, DestGuardHolds
  <2>4. policy = "overwrite"
    BY <2>3 DEF Invariant, Types
  <2>5. op.expectedDst \in {"nil", "absent", "present"}
    BY <1>1 DEF Operation
  <2> QED
    BY <1>4, <2>1, <2>3, <2>4, <2>5
<1> QED
  BY <1>2, <1>3, <1>4

-----------------------------------------------------------------------------
(***************************************************************************)
(* What the validator predicts                                             *)
(***************************************************************************)

States == [Paths -> PathState]

\* What each effect predicts is a state of every path.
LEMMA ProducedIsState ==
    ASSUME NEW state \in States, NEW p \in Paths, NEW k \in Kinds, NEW v \in BOOLEAN
    PROVE  Produced(state, p, k, v) \in States
<1>1. ASSUME NEW q \in Paths
      PROVE  /\ [kind |-> k, fromPlan |-> TRUE, changed |-> TRUE, archiveValid |-> v] \in PathState
             /\ [state[q] EXCEPT !.changed = @ \/ Contains(q, p)] \in PathState
  <2>1. PICK x \in PathState : x = state[q]
    BY DEF States
  <2>2. [x EXCEPT !.changed = @ \/ Contains(q, p)] \in PathState
    BY DEF PathState, Contains
  <2> QED
    BY <2>1, <2>2 DEF PathState
<1> QED
  BY <1>1 DEF Produced, States

\* The same of a removal.
LEMMA RemovedIsState ==
    ASSUME NEW state \in States, NEW p \in Paths
    PROVE  Removed(state, p) \in States
<1>1. ASSUME NEW q \in Paths
      PROVE  /\ [state[q] EXCEPT !.kind = "none", !.fromPlan = FALSE,
                               !.changed = TRUE] \in PathState
             /\ [state[q] EXCEPT !.changed = @ \/ Contains(q, p)] \in PathState
             /\ Gone \in PathState
  <2>1. PICK x \in PathState : x = state[q]
    BY DEF States
  <2>2. [x EXCEPT !.changed = @ \/ Contains(q, p)] \in PathState
    BY DEF PathState, Contains
  <2>3. [x EXCEPT !.kind = "none", !.fromPlan = FALSE, !.changed = TRUE] \in PathState
    BY DEF PathState, Kinds
  <2>4. Gone \in PathState
    BY DEF PathState, Kinds, Gone
  <2> QED
    BY <2>1, <2>2, <2>3, <2>4
<1> QED
  BY <1>1 DEF Removed, States

\* The same of a change in place.
LEMMA MutatedIsState ==
    ASSUME NEW state \in States, NEW p \in Paths
    PROVE  Mutated(state, p) \in States
<1>1. PICK x \in PathState : x = state[p]
  BY DEF States
<1>2. PICK y : y = [x EXCEPT !.changed = TRUE]
  OBVIOUS
<1>3. y \in PathState
  BY <1>2 DEF PathState
<1>4. Mutated(state, p) = [state EXCEPT ![p] = y]
  BY <1>1, <1>2 DEF Mutated, States
<1> QED
  BY <1>3, <1>4 DEF States

\* The effects of an operation are predictions of the same type.
LEMMA EffectsAreStates ==
    ASSUME NEW state \in States, NEW o \in Operation, o.action \in Building => o.dest \in Paths
    PROVE  Effects(state, o) \in States
<1>1. PICK s \in Paths : s = o.source
  BY DEF Operation
<1>2. PICK k \in Kinds, v \in BOOLEAN : k = state[s].kind /\ v = state[s].archiveValid
  <2>1. state[s] \in PathState
    BY DEF States
  <2> QED
    BY <2>1 DEF PathState
<1>3. "directory" \in Kinds /\ "file" \in Kinds /\ TRUE \in BOOLEAN /\ FALSE \in BOOLEAN
  BY DEF Kinds
<1>4. CASE o.action \in {"delete", "deleteTree"}
  <2>1. Effects(state, o) = Removed(state, s)
    BY <1>1, <1>4 DEF Effects
  <2> QED
    BY <2>1, RemovedIsState
<1>5. CASE o.action = "move"
  <2>1. PICK t \in Paths : t = o.dest
    BY <1>5 DEF Building
  <2>2. PICK r \in States : r = Removed(state, s)
    BY RemovedIsState
  <2>3. Effects(state, o) = Produced(r, t, k, v)
    BY <1>1, <1>2, <1>5, <2>1, <2>2 DEF Effects
  <2> QED
    BY <2>3, ProducedIsState
<1>6. CASE o.action = "copy"
  <2>1. PICK t \in Paths : t = o.dest
    BY <1>6 DEF Building
  <2>2. Effects(state, o) = Produced(state, t, k, v)
    BY <1>1, <1>2, <1>6, <2>1 DEF Effects
  <2> QED
    BY <2>2, ProducedIsState
<1>7. CASE o.action = "mkdir"
  <2>1. Effects(state, o) = Produced(state, s, "directory", FALSE)
    BY <1>1, <1>7 DEF Effects
  <2> QED
    BY <1>3, <2>1, ProducedIsState
<1>8. CASE o.action = "touch" /\ state[s].kind = "none"
  <2>1. Effects(state, o) = Produced(state, s, "file", FALSE)
    BY <1>1, <1>8 DEF Effects
  <2> QED
    BY <1>3, <2>1, ProducedIsState
<1>9. CASE o.action = "archive" \/ o.action = "extract"
  <2>1. PICK t \in Paths : t = o.dest
    BY <1>9 DEF Building
  <2>2. CASE o.action = "archive"
    <3>1. Effects(state, o) = Produced(state, t, "file", TRUE)
      BY <2>1, <2>2 DEF Effects
    <3> QED
      BY <1>3, <3>1, ProducedIsState
  <2>3. CASE o.action = "extract"
    <3>1. Effects(state, o) = Produced(state, t, "directory", FALSE)
      BY <2>1, <2>3 DEF Effects
    <3> QED
      BY <1>3, <3>1, ProducedIsState
  <2> QED
    BY <1>9, <2>2, <2>3
<1>10. CASE \/ o.action \in {"truncate", "chmod"}
            \/ o.action = "touch" /\ state[s].kind # "none"
  <2>1. Effects(state, o) = Mutated(state, s)
    BY <1>1, <1>10 DEF Effects
  <2> QED
    BY <2>1, MutatedIsState
<1> QED
  <2>1. o.action \in Actions
    BY DEF Operation
  <2> QED
    BY <1>4, <1>5, <1>6, <1>7, <1>8, <1>9, <1>10, <2>1 DEF Actions, Building, Creating

-----------------------------------------------------------------------------
(***************************************************************************)
(* The invariant holds, and the properties with it                         *)
(***************************************************************************)

\* Before anything is planned the disk is one of those given, a tree.
LEMMA BeginsInvariant == Init => Invariant
<1> SUFFICES ASSUME Init PROVE Invariant
  OBVIOUS
<1>1. PICK d \in Disks :
        /\ disk = [p \in Paths |->
                    IF d[p] = "none" THEN Nothing
                    ELSE [kind |-> KindOf(d[p]), origin |-> p, dirty |-> FALSE,
                          archive |-> d[p] = "archive"]]
        /\ predicted = [p \in Paths |->
                    [kind |-> KindOf(d[p]), fromPlan |-> FALSE, changed |-> FALSE,
                     archiveValid |-> FALSE]]
  BY DEF Init
<1>2. /\ d \in [Paths -> {"none", "directory", "file", "archive"}]
      /\ \A p \in Paths \ {Root} : d[p] # "none" => d[Parent(p)] = "directory"
  BY DisksAssumption
<1>3. ASSUME NEW p \in Paths
      PROVE  /\ KindOf(d[p]) \in Kinds /\ predicted[p] \in PathState
             /\ disk[p] \in Object /\ disk[p].kind = KindOf(d[p])
  <2>1. KindOf(d[p]) \in Kinds
    BY <1>2 DEF KindOf, Kinds
  <2>2. predicted[p] \in PathState
    BY <1>1, <2>1 DEF PathState
  <2>3. CASE d[p] = "none"
    BY <1>1, <2>3, NothingIs, <2>1, <2>2 DEF KindOf
  <2>4. CASE d[p] # "none"
    <3>1. disk[p] = [kind |-> KindOf(d[p]), origin |-> p, dirty |-> FALSE,
                     archive |-> d[p] = "archive"]
      BY <1>1, <2>4
    <3> QED
      BY <2>1, <2>2, <3>1 DEF Object
  <2> QED
    BY <2>3, <2>4
<1>4. disk \in Trees
  <2>1. disk \in [Paths -> Object]
    BY <1>1, <1>3
  <2>2. ASSUME NEW p \in Paths \ {Root}, disk[p].kind # "none"
        PROVE  disk[Parent(p)].kind = "directory"
    <3>1. PICK a \in Paths : a = Parent(p)
      BY ParentInside
    <3>2. d[p] # "none"
      BY <1>3, <2>2 DEF KindOf
    <3> QED
      BY <1>2, <1>3, <3>1, <3>2 DEF KindOf
  <2> QED
    BY <2>1, <2>2 DEF Trees
<1>5. predicted \in [Paths -> PathState]
  BY <1>1, <1>3
<1>6. plan = <<>> /\ at = 1 /\ created = {} /\ trees = {} /\ phase = "planning"
      /\ policy \in {"fail", "overwrite"}
  BY DEF Init
<1>7. plan \in Seq(Operation) /\ Len(plan) = 0
  BY <1>6
<1> QED
  BY <1>4, <1>5, <1>6, <1>7 DEF Invariant, Types

\* Adding an operation keeps the invariant, and what it lets in is sound.
LEMMA AcceptInvariant ==
    ASSUME Invariant, NEW o \in Operation, Accept(o),
           o.action \in Building => o.dest \in Paths,
           o.action \notin Building => o.dest = Nowhere
    PROVE  Invariant'
<1>1. /\ phase = "planning" /\ plan' = Append(plan, o) /\ predicted' = Effects(predicted, o)
      /\ UNCHANGED <<policy, phase, disk, created, at, trees>>
  BY DEF Accept
<1>2. Sound(o)
  BY DEF Accept, Acceptable, Sound
<1>3. /\ plan \in Seq(Operation) /\ at = 1 /\ predicted \in States
      /\ \A i \in 1..Len(plan) : Sound(plan[i])
  BY <1>1 DEF Invariant, Types, States
<1>4. predicted' \in [Paths -> PathState]
  <2>1. Effects(predicted, o) \in States
    BY <1>3, EffectsAreStates
  <2> QED
    BY <1>1, <2>1 DEF States
<1>5. /\ plan' \in Seq(Operation) /\ Len(plan') = Len(plan) + 1 /\ Len(plan) \in Nat
      /\ \A i \in 1..Len(plan) : plan'[i] = plan[i]
      /\ plan'[Len(plan) + 1] = o
  BY <1>1, <1>3
<1>6. (\A i \in 1..Len(plan) : Sound(plan[i]))'
  <2> SUFFICES ASSUME NEW i \in 1..Len(plan') PROVE Sound(plan[i])'
    OBVIOUS
  <2>1. i \in 1..Len(plan) \/ i = Len(plan) + 1
    BY <1>5
  <2>2. Sound(plan'[i])
    BY <1>2, <1>3, <1>5, <2>1
  <2> QED
    BY <1>1, <2>2 DEF Sound
<1>7. at' \in 1..(Len(plan') + 1)
  BY <1>1, <1>3, <1>5
<1> QED
  BY <1>1, <1>3, <1>4, <1>5, <1>6, <1>7 DEF Invariant, Types, Trees

\* Executing an operation keeps the invariant.
LEMMA PerformInvariant ==
    ASSUME Invariant, Perform
    PROVE  Invariant'
<1>1. /\ phase = "applying" /\ Preflight(op, Unguarded) /\ Performable /\ disk' \in Outcomes
      /\ created' = created \union ({Target} \ {Nowhere})
      /\ trees' = IF op.action \in Building
                      /\ (IsDirectory(op.dest) \/ disk'[op.dest].kind = "directory")
                  THEN trees \union {op.dest} ELSE trees
      /\ at' = at + 1 /\ phase' = IF at = Len(plan) THEN "succeeded" ELSE "applying"
      /\ UNCHANGED <<policy, plan, predicted>>
  BY DEF Perform
<1>2. disk' \in Trees
  BY <1>1, OutcomesReach
<1>3. /\ op \in Operation /\ Sound(op) /\ op.source \in Paths
  BY <1>1, OperationAt
<1>4. created \subseteq Paths /\ trees \subseteq created
  BY DEF Invariant, Types
<1>5. created' \subseteq Paths
  <2>1. Target \in Paths \union {Nowhere}
    BY <1>3 DEF Target, Sound
  <2> QED
    BY <1>1, <1>4, <2>1
<1>6. trees' \subseteq created'
  <2>1. op.action \in Building => Target = op.dest /\ op.dest \in Paths /\ op.dest # Nowhere
    <3>1. op.action \in Building => op.action \notin Creating
      BY DEF Building, Creating
    <3> QED
      BY <1>3, <3>1, PathsAssumption DEF Target, Sound
  <2> QED
    BY <1>1, <1>4, <2>1
<1>7. /\ plan \in Seq(Operation) /\ at \in 1..Len(plan) /\ Len(plan) \in Nat
      /\ policy \in {"fail", "overwrite"} /\ predicted \in [Paths -> PathState]
      /\ \A i \in 1..Len(plan) : Sound(plan[i])
  BY <1>1 DEF Invariant, Types
<1>8. at' \in 1..(Len(plan) + 1) /\ (at # Len(plan) => at' \in 1..Len(plan))
  BY <1>1, <1>7
<1>9. (\A i \in 1..Len(plan) : Sound(plan[i]))'
  BY <1>1, <1>7 DEF Sound
<1>10. /\ plan' = plan /\ policy' = policy /\ predicted' = predicted
       /\ phase' \in {"succeeded", "applying"} /\ (phase' = "applying" => at # Len(plan))
  BY <1>1
<1>11. Types'
  BY <1>2, <1>5, <1>6, <1>7, <1>8, <1>10 DEF Types, Trees
<1> QED
  BY <1>8, <1>9, <1>10, <1>11 DEF Invariant

\* Every step keeps the invariant.
LEMMA StepsInvariant == Invariant /\ [Next]_vars => Invariant'
<1> SUFFICES ASSUME Invariant, [Next]_vars PROVE Invariant'
  OBVIOUS
<1>1. CASE AddInPlace
  <2>1. PICK a \in Actions \ Building, p \in Paths, g \in BOOLEAN :
           Accept([action |-> a, source |-> p, dest |-> Nowhere,
                   expected |-> g, expectedDst |-> "nil"])
    BY <1>1 DEF AddInPlace
  <2>2. PICK o : o = [action |-> a, source |-> p, dest |-> Nowhere,
                      expected |-> g, expectedDst |-> "nil"]
    OBVIOUS
  <2>3. o \in Operation /\ o.action \notin Building /\ o.dest = Nowhere /\ Accept(o)
    BY <2>1, <2>2 DEF Operation
  <2> QED
    BY <2>3, AcceptInvariant
<1>2. CASE AddBuilding
  <2>1. PICK a \in Building, p \in Paths, d \in Paths, g \in BOOLEAN,
             e \in {"nil", "absent", "present"} :
           Accept([action |-> a, source |-> p, dest |-> d, expected |-> g, expectedDst |-> e])
    BY <1>2 DEF AddBuilding
  <2>2. PICK o : o = [action |-> a, source |-> p, dest |-> d, expected |-> g, expectedDst |-> e]
    OBVIOUS
  <2>3. o \in Operation /\ o.action \in Building /\ o.dest \in Paths /\ Accept(o)
    BY <2>1, <2>2 DEF Operation, Actions
  <2> QED
    BY <2>3, AcceptInvariant
<1>3. CASE Apply
  <2>1. phase = "planning" /\ plan # <<>> /\ phase' = "applying"
        /\ UNCHANGED <<policy, plan, predicted, disk, created, at, trees>>
    BY <1>3 DEF Apply
  <2>2. at = 1 /\ plan \in Seq(Operation)
    BY <2>1 DEF Invariant, Types
  <2>3. at \in 1..Len(plan)
    BY <2>1, <2>2
  <2>4. Types'
    BY <2>1 DEF Invariant, Types, Trees
  <2>5. (\A i \in 1..Len(plan) : Sound(plan[i]))'
    BY <2>1 DEF Invariant, Sound
  <2> QED
    BY <2>1, <2>3, <2>4, <2>5 DEF Invariant
<1>4. CASE Perform
  BY <1>4, PerformInvariant
<1>5. CASE Fail
  <2>1. phase = "applying" /\ phase' = "failed"
        /\ UNCHANGED <<policy, plan, predicted, disk, created, at, trees>>
    BY <1>5 DEF Fail
  <2>2. Types'
    BY <2>1 DEF Invariant, Types, Trees
  <2>3. (\A i \in 1..Len(plan) : Sound(plan[i]))'
    BY <2>1 DEF Invariant, Sound
  <2> QED
    BY <2>1, <2>2, <2>3 DEF Invariant
<1>6. CASE UNCHANGED vars
  <2>1. UNCHANGED <<policy, phase, plan, predicted, disk, created, at, trees>>
    BY <1>6 DEF vars
  <2>2. Types'
    BY <2>1 DEF Invariant, Types, Trees
  <2>3. (\A i \in 1..Len(plan) : Sound(plan[i]))'
    BY <2>1 DEF Invariant, Sound
  <2> QED
    BY <2>1, <2>2, <2>3 DEF Invariant
<1> QED
  BY <1>1, <1>2, <1>3, <1>4, <1>5, <1>6 DEF Next, Terminated

Reviewed ==
    phase = "applying" =>
        \A p \in Paths : Altered(p) =>
            \/ (op.expected \/ op.source \in created) /\ Within(op.source, p)
            \/ op.expectedDst = "present" /\ Within(op.dest, p)

\* A step that alters an object executes an operation that reached it.
LEMMA StepsReviewed == Invariant /\ [Next]_vars => Reviewed
<1> SUFFICES ASSUME Invariant, [Next]_vars, phase = "applying", NEW p \in Paths, Altered(p)
             PROVE  \/ (op.expected \/ op.source \in created) /\ Within(op.source, p)
                    \/ op.expectedDst = "present" /\ Within(op.dest, p)
  BY DEF Reviewed
<1>1. Exists(p) /\ (disk'[p].origin # disk[p].origin
                    \/ (p = op.source /\ disk'[p].dirty # disk[p].dirty))
  BY DEF Altered
<1>2. disk' # disk
  BY <1>1
<1>3. Perform
  BY <1>2 DEF Next, AddInPlace, AddBuilding, Accept, Apply, Fail, Terminated, vars
<1>4. Preflight(op, Unguarded) /\ Performable /\ disk' \in Outcomes
  BY <1>3 DEF Perform
<1> QED
  BY <1>1, <1>4, ReachedIsReviewed

\* The variables keep their types, and the disk stays a tree: no operation that
\* passes its preflight leaves an entry without the directory that holds it.
THEOREM TypeCorrect == Spec => []TypeOK
<1>1. Spec => []Invariant
  BY BeginsInvariant, StepsInvariant, PTL DEF Spec
<1> QED
  BY <1>1, InvariantTypes, PTL

\* What stood on the disk before the plan is changed or removed only by an
\* operation that guards it, or a directory above it, or that acts on what the
\* plan itself produced (validateOperation, preflightOperation).
THEOREM OnlyReviewedAltered == Spec => ReviewedOnly
<1>1. Spec => []Invariant
  BY BeginsInvariant, StepsInvariant, PTL DEF Spec
<1>2. Invariant /\ [Next]_vars => [Reviewed]_vars
  BY StepsReviewed
<1> QED
  BY <1>1, <1>2, PTL DEF Spec, ReviewedOnly, Reviewed

-----------------------------------------------------------------------------
(***************************************************************************)
(* What the validator's effects change                                     *)
(***************************************************************************)

\* x is s with kind k, made by the plan, at p.
IsProduced(x, s, p, k) ==
    \A q \in Paths :
        IF q = p THEN x[q].kind = k /\ x[q].fromPlan /\ x[q].changed
        ELSE /\ x[q].kind = s[q].kind /\ x[q].fromPlan = s[q].fromPlan
             /\ x[q].changed <=> s[q].changed \/ Contains(q, p)

\* x is s without p and, if that was a directory, what is below.
IsRemoved(x, s, p) ==
    \A q \in Paths :
        IF q = p \/ (s[p].kind = "directory" /\ Contains(p, q))
        THEN x[q].kind = "none" /\ ~x[q].fromPlan /\ x[q].changed
        ELSE /\ x[q].kind = s[q].kind /\ x[q].fromPlan = s[q].fromPlan
             /\ x[q].changed <=> s[q].changed \/ Contains(q, p)

\* x is s with p changed in place.
IsMutated(x, s, p) ==
    \A q \in Paths : /\ x[q].kind = s[q].kind /\ x[q].fromPlan = s[q].fromPlan
                     /\ x[q].changed <=> s[q].changed \/ q = p

\* What an effect makes of the prediction, one path at a time.
LEMMA ProducedIs ==
    ASSUME NEW s \in States, NEW p \in Paths, NEW k, NEW v, NEW x, x = Produced(s, p, k, v)
    PROVE  IsProduced(x, s, p, k)
<1>1. ASSUME NEW q \in Paths, q # p
      PROVE  /\ x[q].kind = s[q].kind /\ x[q].fromPlan = s[q].fromPlan
             /\ x[q].changed <=> s[q].changed \/ Contains(q, p)
  <2>1. PICK y \in PathState : y = s[q]
    BY DEF States
  <2>2. x[q] = [y EXCEPT !.changed = @ \/ Contains(q, p)]
    BY <1>1, <2>1 DEF Produced
  <2> QED
    BY <2>1, <2>2 DEF PathState
<1>2. x[p].kind = k /\ x[p].fromPlan /\ x[p].changed
  BY DEF Produced
<1> QED
  BY <1>1, <1>2 DEF IsProduced

\* Without a path, and with all that was below a directory.
LEMMA RemovedIs ==
    ASSUME NEW s \in States, NEW p \in Paths, NEW x, x = Removed(s, p)
    PROVE  IsRemoved(x, s, p)
<1>1. ASSUME NEW q \in Paths, q # p, ~(s[p].kind = "directory" /\ Contains(p, q))
      PROVE  /\ x[q].kind = s[q].kind /\ x[q].fromPlan = s[q].fromPlan
             /\ x[q].changed <=> s[q].changed \/ Contains(q, p)
  <2>1. PICK y \in PathState : y = s[q]
    BY DEF States
  <2>2. x[q] = [y EXCEPT !.changed = @ \/ Contains(q, p)]
    BY <1>1, <2>1 DEF Removed
  <2> QED
    BY <2>1, <2>2 DEF PathState
<1>2. x[p].kind = "none" /\ ~x[p].fromPlan /\ x[p].changed
  <2>1. PICK y \in PathState : y = s[p]
    BY DEF States
  <2>2. x[p] = [y EXCEPT !.kind = "none", !.fromPlan = FALSE, !.changed = TRUE]
    BY <2>1 DEF Removed
  <2> QED
    BY <2>1, <2>2 DEF PathState
<1>3. ASSUME NEW q \in Paths, q # p, s[p].kind = "directory" /\ Contains(p, q)
      PROVE  x[q].kind = "none" /\ ~x[q].fromPlan /\ x[q].changed
  <2>1. x[q] = Gone
    BY <1>3 DEF Removed
  <2> QED
    BY <2>1 DEF Gone
<1> QED
  BY <1>1, <1>2, <1>3 DEF IsRemoved

\* A change in place marks the path alone.
LEMMA MutatedIs ==
    ASSUME NEW s \in States, NEW p \in Paths, NEW x, x = Mutated(s, p)
    PROVE  IsMutated(x, s, p)
<1>1. PICK y \in PathState : y = s[p]
  BY DEF States
<1>2. PICK z : z = [y EXCEPT !.changed = TRUE]
  OBVIOUS
<1>3. z.kind = y.kind /\ z.fromPlan = y.fromPlan /\ z.changed
  BY <1>2 DEF PathState
<1>4. x = [s EXCEPT ![p] = z]
  BY <1>1, <1>2 DEF Mutated, States
<1>5. \A q \in Paths : q # p => x[q] = s[q]
  BY <1>4 DEF States
<1>6. x[p] = z
  BY <1>4 DEF States
<1> QED
  BY <1>1, <1>3, <1>5, <1>6 DEF IsMutated

-----------------------------------------------------------------------------
(***************************************************************************)
(* Prediction and disk                                                     *)
(***************************************************************************)

\* p is inside one of the trees T.
Under(T, p) == \E t \in T : Contains(t, p)

\* The plan made p, or removed what it had made.
Handled(s, c, p) == s[p].fromPlan \/ (p \in c /\ s[p].kind = "none")

\* Of what the validator knows it knows the kind.
KindsForeseen(s, d, c, T) ==
    \A p \in Paths : ~Under(T, p) \/ Handled(s, c, p) => s[p].kind = d[p].kind

\* What the validator takes to be as it was is.
UntouchedKept(s, f, d, T) ==
    \A p \in Paths : ~Under(T, p) /\ ~s[p].changed =>
        d[p] = f[p] \/ (d[p].kind = "none" /\ f[p].kind = "none")

\* What the validator takes for a product the run has created.
MadeByRun(s, c) == \A p \in Paths : s[p].fromPlan => p \in c

\* Inside a placed tree nothing is at its own origin.
NoneReturned(d, T) == \A p \in Paths : Under(T, p) => d[p].origin # p

\* What is elsewhere than its origin has left it and the directories above it changed.
MovedAway(s, d) ==
    \A q \in Paths, p \in Paths : d[q].origin = p /\ p # q =>
        \A u \in Paths : Within(u, p) => s[u].changed

\* What the plan handled is marked as changed, and so is every directory above.
Marked(s, c) ==
    \A p \in Paths : Handled(s, c, p) => \A u \in Paths : Within(u, p) => s[u].changed

\* Where nothing is there is no origin either.
NoGhosts(d) == \A p \in Paths : d[p].kind = "none" => d[p].origin = Nowhere

\* s is the prediction for the disk d, once f, when the run has created c and
\* placed the trees T.
Foretells(s, f, d, c, T) ==
    /\ s \in States /\ f \in [Paths -> Object] /\ d \in Trees
    /\ c \subseteq Paths /\ T \subseteq c
    /\ KindsForeseen(s, d, c, T)
    /\ UntouchedKept(s, f, d, T)
    /\ MadeByRun(s, c)
    /\ NoneReturned(d, T)
    /\ MovedAway(s, d)
    /\ Marked(s, c)
    /\ NoGhosts(d)

\* Of two paths that a third is within, one is within the other.
LEMMA Comparable ==
    ASSUME NEW p \in Seq(Names), NEW q \in Seq(Names), NEW r \in Seq(Names),
           Within(p, r), Within(q, r)
    PROVE  Within(p, q) \/ Within(q, p)
<1>1. Len(p) \in Nat /\ Len(q) \in Nat /\ Len(r) \in Nat
  OBVIOUS
<1>2. Len(p) <= Len(r) /\ \A i \in 1..Len(p) : r[i] = p[i]
  BY WithinIs
<1>3. Len(q) <= Len(r) /\ \A i \in 1..Len(q) : r[i] = q[i]
  BY WithinIs
<1>4. CASE Len(p) <= Len(q)
  <2>1. \A i \in 1..Len(p) : q[i] = p[i]
    BY <1>1, <1>2, <1>3, <1>4
  <2> QED
    BY <1>4, <2>1, WithinIs
<1>5. CASE Len(q) <= Len(p)
  <2>1. \A i \in 1..Len(q) : p[i] = q[i]
    BY <1>1, <1>2, <1>3, <1>5
  <2> QED
    BY <1>5, <2>1, WithinIs
<1> QED
  BY <1>1, <1>4, <1>5

\* A change in place is foreseen.
LEMMA ChangeForetold ==
    ASSUME NEW s, NEW f, NEW d, NEW c, NEW T, Foretells(s, f, d, c, T),
           NEW p \in Paths, NEW x \in States, IsMutated(x, s, p), s[p].kind # "none",
           NEW e \in Trees, NEW g, g = c \/ g = c \union {p},
           e[p].kind = d[p].kind, e[p].origin = d[p].origin,
           \A q \in Paths : q # p => e[q] = d[q]
    PROVE  Foretells(x, f, e, g, T)
<1>1. \A q \in Paths : e[q].kind = d[q].kind /\ e[q].origin = d[q].origin
  OBVIOUS
<1>2. \A q \in Paths : Handled(x, g, q) => Handled(s, c, q)
  BY DEF Handled, IsMutated
<1>3. KindsForeseen(x, e, g, T)
  BY <1>1, <1>2 DEF KindsForeseen, Foretells, IsMutated
<1>4. UntouchedKept(x, f, e, T)
  BY DEF UntouchedKept, Foretells, IsMutated
<1>5. MadeByRun(x, g)
  BY DEF MadeByRun, Foretells, IsMutated
<1>6. NoneReturned(e, T)
  BY <1>1 DEF NoneReturned, Foretells
<1>7. \A q \in Paths : s[q].changed => x[q].changed
  BY DEF IsMutated
<1>8. MovedAway(x, e)
  BY <1>1, <1>7 DEF MovedAway, Foretells
<1>9. Marked(x, g)
  BY <1>2, <1>7 DEF Marked, Foretells
<1>10. NoGhosts(e)
  BY <1>1 DEF NoGhosts, Foretells
<1>11. g \subseteq Paths /\ T \subseteq g
  BY DEF Foretells
<1> QED
  BY <1>3, <1>4, <1>5, <1>6, <1>8, <1>9, <1>10, <1>11 DEF Foretells

\* A removal is foreseen, where the kind of what goes was.
LEMMA RemovalForetold ==
    ASSUME NEW s, NEW f, NEW d, NEW c, NEW T, Foretells(s, f, d, c, T),
           NEW p \in Paths, NEW x \in States, IsRemoved(x, s, p), s[p].kind = d[p].kind,
           NEW e \in Trees, IsWithout(e, d, p)
    PROVE  Foretells(x, f, e, c, T)
<1>1. /\ s \in States /\ f \in [Paths -> Object] /\ d \in Trees
      /\ c \subseteq Paths /\ T \subseteq c
      /\ KindsForeseen(s, d, c, T) /\ UntouchedKept(s, f, d, T) /\ MadeByRun(s, c)
      /\ NoneReturned(d, T) /\ MovedAway(s, d) /\ Marked(s, c) /\ NoGhosts(d)
  BY DEF Foretells
<1>2. Within(p, p) /\ Nothing.kind = "none" /\ Nothing.origin = Nowhere
  BY DEF Within, Nothing
<1>3. \A q \in Paths : s[q].changed => x[q].changed
  BY DEF IsRemoved
<1>4. \A q \in Paths : Contains(q, p) \/ q = p => x[q].changed
  BY DEF IsRemoved
<1>5. \A q \in Paths : Contains(p, q) <=> Within(p, q) /\ p # q
  BY PathIs, WithinIs
\* What becomes of what is below and was no directory: it was not there.
<1>6. ASSUME NEW q \in Paths, Contains(p, q), s[p].kind # "directory"
      PROVE  d[q].kind = "none" /\ e[q].kind = "none"
  <2>1. d[q].kind = "none"
    BY <1>1, <1>6, NothingBelow
  <2> QED
    BY <1>2, <1>5, <1>6, <2>1 DEF IsWithout
<1>7. KindsForeseen(x, e, c, T)
  <2> SUFFICES ASSUME NEW q \in Paths, ~Under(T, q) \/ Handled(x, c, q)
               PROVE  x[q].kind = e[q].kind
    BY DEF KindsForeseen
  <2>1. CASE q = p \/ (s[p].kind = "directory" /\ Contains(p, q))
    BY <1>2, <1>5, <2>1 DEF IsRemoved, IsWithout
  <2>2. CASE ~(q = p \/ (s[p].kind = "directory" /\ Contains(p, q)))
    <3>1. x[q].kind = s[q].kind /\ x[q].fromPlan = s[q].fromPlan
      BY <2>2 DEF IsRemoved
    <3>2. s[q].kind = d[q].kind
      BY <1>1, <3>1 DEF KindsForeseen, Handled
    <3>3. CASE Contains(p, q)
      BY <1>6, <2>2, <3>1, <3>2, <3>3
    <3>4. CASE ~Contains(p, q)
      <4>1. ~Within(p, q)
        BY <2>2, <3>4 DEF Within
      <4> QED
        BY <3>1, <3>2, <4>1 DEF IsWithout
    <3> QED
      BY <3>3, <3>4
  <2> QED
    BY <2>1, <2>2
<1>8. UntouchedKept(x, f, e, T)
  <2> SUFFICES ASSUME NEW q \in Paths, ~Under(T, q), ~x[q].changed
               PROVE  e[q] = f[q] \/ (e[q].kind = "none" /\ f[q].kind = "none")
    BY DEF UntouchedKept
  <2>1. ~s[q].changed /\ ~Contains(q, p) /\ q # p /\ ~(s[p].kind = "directory" /\ Contains(p, q))
    BY DEF IsRemoved
  <2>2. d[q] = f[q] \/ (d[q].kind = "none" /\ f[q].kind = "none")
    BY <1>1, <2>1 DEF UntouchedKept
  <2>3. CASE Contains(p, q)
    BY <1>6, <2>1, <2>2, <2>3
  <2>4. CASE ~Contains(p, q)
    <3>1. ~Within(p, q)
      BY <2>1, <2>4 DEF Within
    <3>2. p # Root => q # Parent(p)
      BY <2>1, PathIs, WithinParent, RebasePlace
    <3>3. e[q] = d[q]
      BY <3>1, <3>2 DEF IsWithout
    <3> QED
      BY <2>2, <3>3
  <2> QED
    BY <2>3, <2>4
<1>9. MadeByRun(x, c)
  BY <1>1 DEF MadeByRun, IsRemoved
<1>10. \A q \in Paths : e[q].origin = d[q].origin \/ e[q].origin = Nowhere
  BY <1>2 DEF IsWithout
<1>11. Nowhere \notin Paths
  BY PathsAssumption
<1>12. NoneReturned(e, T)
  BY <1>1, <1>10, <1>11 DEF NoneReturned
<1>13. MovedAway(x, e)
  BY <1>1, <1>3, <1>10, <1>11 DEF MovedAway
<1>14. Marked(x, c)
  <2> SUFFICES ASSUME NEW q \in Paths, Handled(x, c, q), NEW u \in Paths, Within(u, q)
               PROVE  x[u].changed
    BY DEF Marked
  <2>1. CASE q = p
    BY <1>4, <2>1 DEF Within
  <2>2. CASE q # p /\ s[p].kind = "directory" /\ Contains(p, q)
    <3>1. Within(u, p) \/ Within(p, u)
      BY <1>5, <2>2, PathIs, Comparable
    <3>2. CASE Within(u, p)
      BY <1>4, <3>2 DEF Within
    <3>3. CASE Within(p, u)
      BY <2>2, <3>3 DEF Within, IsRemoved
    <3> QED
      BY <3>1, <3>2, <3>3
  <2>3. CASE ~(q = p \/ (s[p].kind = "directory" /\ Contains(p, q)))
    <3>1. Handled(s, c, q)
      BY <2>3 DEF Handled, IsRemoved
    <3> QED
      BY <1>1, <1>3, <3>1 DEF Marked
  <2> QED
    BY <2>1, <2>2, <2>3
<1>15. NoGhosts(e)
  BY <1>1, <1>2 DEF NoGhosts, IsWithout
<1> QED
  BY <1>1, <1>7, <1>8, <1>9, <1>12, <1>13, <1>14, <1>15 DEF Foretells

\* What d has outside to is what e has there, but that the directory that holds to
\* was written to.
SameOutside(e, d, to) ==
    \A q \in Paths : ~Within(to, q) =>
        /\ e[q].kind = d[q].kind /\ e[q].origin = d[q].origin
        /\ to = Root \/ q # Parent(to) => e[q] = d[q]

\* What is put at to has left its origin.
OriginsLeft(s, e, to) ==
    \A q \in Paths : Within(to, q) /\ e[q].origin \in Paths =>
        ~s[to].changed /\ \A u \in Paths : Within(u, e[q].origin) => s[u].changed

\* Below to nothing is, nor was, or nothing is known and the plan had changed nothing.
Fresh(s, d, e, T, U, to) ==
    \/ U = T /\ \A q \in Paths : Contains(to, q) => d[q].kind = "none" /\ e[q].kind = "none"
    \/ U = T \union {to} /\ ~s[to].changed

\* An entry, or a tree, that the plan puts somewhere is foreseen.
LEMMA PlacementForetold ==
    ASSUME NEW s, NEW f, NEW d, NEW c, NEW T, Foretells(s, f, d, c, T),
           NEW p \in Paths, NEW k, NEW x \in States, IsProduced(x, s, p, k),
           NEW e \in Trees, e[p].kind = k, k # "none", SameOutside(e, d, p),
           OriginsLeft(s, e, p), NoGhosts(e), NEW U, Fresh(s, d, e, T, U, p),
           NEW g, g = c \union {p}
    PROVE  Foretells(x, f, e, g, U)
<1>1. /\ s \in States /\ f \in [Paths -> Object] /\ d \in Trees
      /\ c \subseteq Paths /\ T \subseteq c
      /\ KindsForeseen(s, d, c, T) /\ UntouchedKept(s, f, d, T) /\ MadeByRun(s, c)
      /\ NoneReturned(d, T) /\ MovedAway(s, d) /\ Marked(s, c) /\ NoGhosts(d)
  BY DEF Foretells
<1>2. \A q \in Paths : s[q].changed => x[q].changed
  BY DEF IsProduced
<1>3. \A q \in Paths : Contains(q, p) \/ q = p => x[q].changed
  BY DEF IsProduced
<1>4. \A q \in Paths : Contains(p, q) <=> Within(p, q) /\ p # q
  BY PathIs, WithinIs
<1>5. Within(p, p)
  BY DEF Within
<1>6. /\ T \subseteq U /\ U \subseteq T \union {p}
      /\ p \in U \ T => ~s[p].changed
  BY DEF Fresh
<1>7. ASSUME NEW q \in Paths, q # p, Handled(x, g, q)
      PROVE  Handled(s, c, q)
  BY <1>7 DEF Handled, IsProduced
\* Below what is placed nothing was handled, unless nothing is there.
<1>8. ASSUME NEW q \in Paths, Contains(p, q), ~Under(U, q) \/ Handled(s, c, q)
      PROVE  d[q].kind = "none" /\ e[q].kind = "none" /\ (~Under(T, q) \/ Handled(s, c, q))
  <2>1. CASE U = T /\ \A r \in Paths : Contains(p, r) => d[r].kind = "none" /\ e[r].kind = "none"
    BY <1>8, <2>1
  <2>2. CASE U = T \union {p} /\ ~s[p].changed
    <3>1. Under(U, q)
      BY <1>8, <2>2 DEF Under
    <3>2. s[p].changed
      BY <1>1, <1>4, <1>8, <3>1 DEF Marked
    <3> QED
      BY <2>2, <3>2
  <2> QED
    BY <2>1, <2>2 DEF Fresh
<1>9. \A q \in Paths : ~Under(U, q) => ~Under(T, q)
  BY <1>6 DEF Under
<1>10. KindsForeseen(x, e, g, U)
  <2> SUFFICES ASSUME NEW q \in Paths, ~Under(U, q) \/ Handled(x, g, q)
               PROVE  x[q].kind = e[q].kind
    BY DEF KindsForeseen
  <2>1. CASE q = p
    BY <2>1 DEF IsProduced
  <2>2. CASE q # p
    <3>1. x[q].kind = s[q].kind /\ (~Under(U, q) \/ Handled(s, c, q))
      BY <1>7, <2>2 DEF IsProduced
    <3>2. s[q].kind = d[q].kind
      BY <1>1, <1>9, <3>1 DEF KindsForeseen
    <3>3. CASE Contains(p, q)
      BY <1>8, <3>1, <3>2, <3>3
    <3>4. CASE ~Contains(p, q)
      <4>1. ~Within(p, q)
        BY <2>2, <3>4 DEF Within
      <4> QED
        BY <3>1, <3>2, <4>1 DEF SameOutside
    <3> QED
      BY <3>3, <3>4
  <2> QED
    BY <2>1, <2>2
<1>11. UntouchedKept(x, f, e, U)
  <2> SUFFICES ASSUME NEW q \in Paths, ~Under(U, q), ~x[q].changed
               PROVE  e[q] = f[q] \/ (e[q].kind = "none" /\ f[q].kind = "none")
    BY DEF UntouchedKept
  <2>1. ~s[q].changed /\ ~Contains(q, p) /\ q # p
    BY <1>2, <1>3
  <2>2. d[q] = f[q] \/ (d[q].kind = "none" /\ f[q].kind = "none")
    BY <1>1, <1>9, <2>1 DEF UntouchedKept
  <2>3. CASE Contains(p, q)
    BY <1>8, <2>2, <2>3
  <2>4. CASE ~Contains(p, q)
    <3>1. ~Within(p, q)
      BY <2>1, <2>4 DEF Within
    <3>2. p # Root => q # Parent(p)
      BY <2>1, PathIs, WithinParent, RebasePlace
    <3>3. e[q] = d[q]
      BY <3>1, <3>2 DEF SameOutside
    <3> QED
      BY <2>2, <3>3
  <2> QED
    BY <2>3, <2>4
<1>12. MadeByRun(x, g)
  BY <1>1 DEF MadeByRun, IsProduced
<1>13. Nowhere \notin Paths
  BY PathsAssumption
<1>14. NoneReturned(e, U)
  <2> SUFFICES ASSUME NEW q \in Paths, Under(U, q), e[q].origin = q
               PROVE  FALSE
    BY DEF NoneReturned
  <2>1. CASE Within(p, q)
    BY <2>1 DEF OriginsLeft
  <2>2. CASE ~Within(p, q)
    <3>1. Under(T, q)
      BY <1>6, <2>2 DEF Under, Within
    <3> QED
      BY <1>1, <2>2, <3>1 DEF NoneReturned, SameOutside
  <2> QED
    BY <2>1, <2>2
<1>15. MovedAway(x, e)
  <2> SUFFICES ASSUME NEW q \in Paths, NEW r \in Paths, e[q].origin = r, r # q,
                      NEW u \in Paths, Within(u, r)
               PROVE  x[u].changed
    BY DEF MovedAway
  <2>1. CASE Within(p, q)
    BY <1>2, <2>1 DEF OriginsLeft
  <2>2. CASE ~Within(p, q)
    BY <1>1, <1>2, <2>2 DEF MovedAway, SameOutside
  <2> QED
    BY <2>1, <2>2
<1>16. Marked(x, g)
  <2> SUFFICES ASSUME NEW q \in Paths, Handled(x, g, q), NEW u \in Paths, Within(u, q)
               PROVE  x[u].changed
    BY DEF Marked
  <2>1. CASE q = p
    BY <1>3, <2>1 DEF Within
  <2>2. CASE q # p
    BY <1>1, <1>2, <1>7, <2>2 DEF Marked
  <2> QED
    BY <2>1, <2>2
<1>17. g \subseteq Paths /\ U \subseteq g
  BY <1>1, <1>6
<1> QED
  BY <1>1, <1>10, <1>11, <1>12, <1>14, <1>15, <1>16, <1>17 DEF Foretells

\* Two paths within each other are one.
LEMMA Mutual ==
    ASSUME NEW p \in Seq(Names), NEW q \in Seq(Names), Within(p, q), Within(q, p)
    PROVE  p = q
<1>1. Len(p) \in Nat /\ Len(q) \in Nat
  OBVIOUS
<1>2. Len(p) <= Len(q) /\ \A i \in 1..Len(p) : q[i] = p[i]
  BY WithinIs
<1>3. Len(q) <= Len(p)
  BY WithinIs
<1>4. Len(p) = Len(q) /\ \A i \in 1..Len(p) : p[i] = q[i]
  BY <1>1, <1>2, <1>3
<1> QED
  BY <1>4, SameSequence

\* What was below a path that is removed had left neither it nor what is above,
\* but after the removal it has.
LEMMA RemovedHaveLeft ==
    ASSUME NEW s, NEW f, NEW d, NEW c, NEW T, Foretells(s, f, d, c, T),
           NEW p \in Paths, NEW x, IsRemoved(x, s, p), s[p].kind = d[p].kind,
           NEW q \in Paths, Within(p, q), d[q].origin \in Paths,
           NEW u \in Paths, Within(u, d[q].origin)
    PROVE  x[u].changed
<1>1. d \in Trees /\ MovedAway(s, d) /\ NoGhosts(d)
  BY DEF Foretells
<1>2. CASE d[q].origin # q
  <2>1. s[u].changed
    BY <1>1, <1>2 DEF MovedAway
  <2> QED
    BY <2>1 DEF IsRemoved
<1>3. CASE d[q].origin = q
  <2>1. Within(u, p) \/ Within(p, u)
    BY <1>3, PathIs, Comparable
  <2>2. CASE Within(u, p)
    BY <2>2 DEF IsRemoved, Within
  <2>3. CASE Within(p, u) /\ u # p
    <3>1. Contains(p, q)
      <4>1. p # q
        <5>1. p = q => Within(u, p)
          BY <1>3
        <5>2. Within(u, p) /\ Within(p, u) => u = p
          BY PathIs, Mutual
        <5> QED
          BY <2>3, <5>1, <5>2
      <4> QED
        BY <4>1 DEF Within
    <3>2. d[q].kind # "none"
      BY <1>1, PathsAssumption DEF NoGhosts
    <3>3. d[p].kind = "directory"
      BY <1>1, <3>1, <3>2, AboveIsDirectory
    <3>4. Contains(p, u)
      BY <2>3 DEF Within
    <3> QED
      BY <3>3, <3>4 DEF IsRemoved
  <2> QED
    BY <2>1, <2>2, <2>3 DEF IsRemoved
<1> QED
  BY <1>2, <1>3

\* What the validator saw of an operation it accepted: the prediction s of what is
\* before it, and the disk f before the plan.
Foresaw(s, f, o) ==
    /\ o.action \notin Creating => s[o.source].kind # "none"
    /\ o.action = "mkdir" => s[o.source].kind = "none"
    /\ o.expected => ~s[o.source].changed /\ f[o.source].kind # "none"
    /\ ~o.expected => s[o.source].kind = "none" \/ s[o.source].fromPlan
    /\ o.action \in Creating => o.source = Root \/ s[Parent(o.source)].kind = "directory"
    /\ o.action \in Building =>
        /\ ~s[o.dest].changed
        /\ o.dest = Root \/ s[Parent(o.dest)].kind = "directory"
        /\ policy = "fail" => s[o.dest].kind = "none"
        /\ o.expectedDst = "absent" => f[o.dest].kind = "none"
        /\ o.expectedDst = "present" => f[o.dest].kind # "none"
    /\ o.action \in {"copy", "move", "archive"} /\ s[o.source].kind = "directory"
            => ~Contains(o.source, o.dest)

\* What an operation finds at its source, if it passes its preflight, is of the
\* kind that was foreseen, inside a placed tree too.
LEMMA SourceForeseen ==
    ASSUME NEW s, NEW f, Foretells(s, f, disk, created, trees), Foresaw(s, f, op),
           op.source \in Paths, Preflight(op, Unguarded)
    PROVE  s[op.source].kind = disk[op.source].kind
<1>1. KindsForeseen(s, disk, created, trees) /\ NoneReturned(disk, trees)
  BY DEF Foretells
<1>2. CASE ~Under(trees, op.source) \/ Handled(s, created, op.source)
  BY <1>1, <1>2 DEF KindsForeseen
<1>3. CASE Under(trees, op.source) /\ ~Handled(s, created, op.source)
  <2>1. ~op.expected
    BY <1>1, <1>3 DEF NoneReturned, Preflight, SourceGuardHolds, Captured
  <2>2. s[op.source].kind = "none"
    BY <1>3, <2>1 DEF Foresaw, Handled
  <2>3. ~Unguarded
    BY <1>3, <2>2 DEF Handled, Unguarded
  <2>4. ~Exists(op.source)
    BY <2>1, <2>3 DEF Preflight, GuardedOrProduced
  <2> QED
    BY <2>2, <2>4 DEF Exists
<1> QED
  BY <1>2, <1>3

\* What the run has created and placed, when the operation at hand leaves e.
CreatedBy == created \union ({Target} \ {Nowhere})
PlacedBy(e) == IF op.action \in Building
                   /\ (IsDirectory(op.dest) \/ e[op.dest].kind = "directory")
               THEN trees \union {op.dest} ELSE trees

\* Only an operation that builds places a tree, and only at its destination.
LEMMA CreatedIs ==
    ASSUME op.source \in Paths, Sound(op)
    PROVE  /\ op.action \in Building => CreatedBy = created \union {op.dest}
           /\ op.action \in Creating => CreatedBy = created \union {op.source}
           /\ op.action \notin Building \union Creating => CreatedBy = created
           /\ op.action \notin Building => \A e : PlacedBy(e) = trees
<1>1. Nowhere \notin Paths
  BY PathsAssumption
<1>2. op.action \in Building => op.action \notin Creating
  BY DEF Building, Creating
<1> QED
  BY <1>1, <1>2 DEF CreatedBy, PlacedBy, Target, Sound

\* A destination that is no directory and does not become one has nothing below.
LEMMA DestFresh ==
    ASSUME disk \in Trees, NEW s, NEW d \in Trees, NEW e \in Trees, op.action \in Building,
           NEW t \in Paths, t = op.dest, ~s[t].changed, d[t].kind = disk[t].kind
    PROVE  Fresh(s, d, e, trees, PlacedBy(e), t)
<1>1. CASE IsDirectory(t) \/ e[t].kind = "directory"
  BY <1>1 DEF Fresh, PlacedBy
<1>2. CASE ~IsDirectory(t) /\ e[t].kind # "directory"
  <2>1. \A q \in Paths : Contains(t, q) => d[q].kind = "none" /\ e[q].kind = "none"
    BY <1>2, NothingBelow DEF IsDirectory
  <2>2. PlacedBy(e) = trees
    BY <1>2 DEF PlacedBy
  <2> QED
    BY <2>1, <2>2 DEF Fresh
<1> QED
  BY <1>1, <1>2

-----------------------------------------------------------------------------
(***************************************************************************)
(* Every operation does what was foreseen                                  *)
(***************************************************************************)

\* A delete, of a file or a tree, leaves what was foreseen.
LEMMA DeleteForetold ==
    ASSUME NEW s, NEW f, Foretells(s, f, disk, created, trees), NEW a \in Paths,
           s[a].kind = disk[a].kind, NEW x, x = Removed(s, a), NEW e, e = Without(disk, a)
    PROVE  Foretells(x, f, e, created, trees)
<1>1. s \in States /\ disk \in Trees
  BY DEF Foretells
<1>2. x \in States /\ IsRemoved(x, s, a)
  BY <1>1, RemovedIs, RemovedIsState
<1>3. e \in Trees /\ IsWithout(e, disk, a)
  BY <1>1, WithoutIs
<1> QED
  BY <1>2, <1>3, RemovalForetold

\* A copy leaves what was foreseen.
LEMMA CopyForetold ==
    ASSUME NEW s, NEW f, Foretells(s, f, disk, created, trees), NEW a \in Paths, NEW t \in Paths,
           s[a].kind = disk[a].kind, s[a].kind # "none", ~s[t].changed, Parented(t),
           op.action \in Building, op.dest = t,
           NEW v \in BOOLEAN, NEW x, x = Produced(s, t, s[a].kind, v),
           NEW e, e = Placed(disk, Copies, a, t),
           NEW g, g = created \union {t}
    PROVE  Foretells(x, f, e, g, PlacedBy(e))
<1>1. s \in States /\ disk \in Trees /\ NoGhosts(disk)
  BY DEF Foretells
<1>2. PICK k \in Kinds : k = s[a].kind
  <2>1. PICK y \in PathState : y = s[a]
    BY <1>1 DEF States
  <2> QED
    BY <2>1 DEF PathState
<1>3. x \in States /\ IsProduced(x, s, t, k)
  <2>1. x = Produced(s, t, k, v)
    BY <1>2
  <2> QED
    BY <1>1, <2>1, ProducedIs, ProducedIsState
<1>4. PICK copies \in Trees : copies = Copies
  BY <1>1, CopiesAre
<1>5. \A q \in Paths : copies[q].kind = disk[q].kind /\ copies[q].origin = Nowhere
  <2> SUFFICES ASSUME NEW q \in Paths
               PROVE  copies[q].kind = disk[q].kind /\ copies[q].origin = Nowhere
    OBVIOUS
  <2>1. PICK y \in Object : y = disk[q]
    BY <1>1 DEF Trees
  <2>2. PICK n \in Object : n = New(y.kind) /\ n.kind = y.kind /\ n.origin = Nowhere
    BY NewIs DEF Object
  <2>3. copies[q] = [n EXCEPT !.archive = y.archive]
    BY <1>4, <2>1, <2>2 DEF Copies
  <2> QED
    BY <2>1, <2>2, <2>3 DEF Object
<1>6. t # Root => disk[Parent(t)].kind = "directory"
  BY DEF Parented, IsDirectory
<1>7. e \in Trees /\ IsPlaced(e, disk, copies, a, t)
  <2>1. e = Placed(disk, copies, a, t)
    BY <1>4
  <2> QED
    BY <1>1, <1>6, <2>1, PlacedIs
<1>8. \A q \in Paths : Within(t, q) => e[q].origin = Nowhere
  BY <1>5, <1>7 DEF IsPlaced, Nothing
<1>9. OriginsLeft(s, e, t)
  BY <1>8, PathsAssumption DEF OriginsLeft
<1>10. SameOutside(e, disk, t)
  BY <1>7 DEF SameOutside, IsPlaced
<1>11. NoGhosts(e)
  BY <1>1, <1>8, <1>10 DEF NoGhosts, SameOutside
<1>12. e[t].kind = k
  <2>1. Rebase(t, t, a) = a /\ Within(t, t)
    BY PathIs, RebasePlace
  <2> QED
    BY <1>2, <1>5, <1>7, <2>1 DEF IsPlaced
<1>13. Fresh(s, disk, e, trees, PlacedBy(e), t)
  BY <1>1, <1>7, DestFresh
<1> QED
  BY <1>2, <1>3, <1>7, <1>9, <1>10, <1>11, <1>12, <1>13, PlacementForetold

\* What is moved to a place is within it.
LEMMA RebaseWithin ==
    ASSUME NEW p \in Seq(Names), NEW from \in Seq(Names), NEW to \in Seq(Names),
           Within(from, p)
    PROVE  Within(to, Rebase(p, from, to))
<1>1. /\ Rebase(p, from, to) \in Seq(Names)
      /\ Len(Rebase(p, from, to)) = Len(to) + (Len(p) - Len(from))
      /\ \A i \in 1..Len(to) : Rebase(p, from, to)[i] = to[i]
  BY RebaseIs
<1>2. Len(p) \in Nat /\ Len(from) \in Nat /\ Len(to) \in Nat /\ Len(from) <= Len(p)
  BY WithinIs
<1>3. Len(to) <= Len(Rebase(p, from, to))
  BY <1>1, <1>2
<1> QED
  BY <1>1, <1>3, WithinIs

\* A move is a removal and then a placement, and leaves what was foreseen.
LEMMA MoveForetold ==
    ASSUME NEW s, NEW f, Foretells(s, f, disk, created, trees), NEW a \in Paths, NEW t \in Paths,
           s[a].kind = disk[a].kind, s[a].kind # "none", ~s[t].changed, Parented(t), Exists(a),
           t # a, ~Contains(a, t), ~Contains(t, a), op.action \in Building, op.dest = t,
           NEW v \in BOOLEAN, NEW x, x = Produced(Removed(s, a), t, s[a].kind, v),
           NEW e, e = Placed(Without(disk, a), disk, a, t),
           NEW g, g = created \union {t}
    PROVE  Foretells(x, f, e, g, PlacedBy(e))
<1>1. s \in States /\ disk \in Trees /\ NoGhosts(disk)
  BY DEF Foretells
<1>2. PICK k \in Kinds : k = s[a].kind
  <2>1. PICK y \in PathState : y = s[a]
    BY <1>1 DEF States
  <2> QED
    BY <2>1 DEF PathState
<1>3. PICK y \in States : y = Removed(s, a) /\ IsRemoved(y, s, a)
  BY <1>1, RemovedIs, RemovedIsState
<1>4. PICK w \in Trees : w = Without(disk, a) /\ IsWithout(w, disk, a)
  BY <1>1, WithoutIs
<1>5. Foretells(y, f, w, created, trees)
  BY <1>3, <1>4, RemovalForetold
<1>6. x \in States /\ IsProduced(x, y, t, k)
  <2>1. x = Produced(y, t, k, v)
    BY <1>2, <1>3
  <2> QED
    BY <2>1, ProducedIs, ProducedIsState
<1>7. ~Within(a, t) /\ ~Within(t, a)
  BY DEF Within
<1>8. ~y[t].changed /\ w[t].kind = disk[t].kind
  BY <1>3, <1>4, <1>7 DEF IsRemoved, IsWithout
<1>9. t # Root => w[Parent(t)].kind = "directory"
  <2> SUFFICES ASSUME t # Root PROVE w[Parent(t)].kind = "directory"
    OBVIOUS
  <2>1. disk[Parent(t)].kind = "directory"
    BY DEF Parented, IsDirectory
  <2>2. ~Within(a, Parent(t)) /\ Parent(t) \in Paths
    BY PathIs, WithinParent, ParentInside
  <2> QED
    BY <1>4, <2>1, <2>2 DEF IsWithout
<1>10. e \in Trees /\ IsPlaced(e, w, disk, a, t)
  <2>1. e = Placed(w, disk, a, t)
    BY <1>4
  <2> QED
    BY <1>1, <1>9, <2>1, PlacedIs
<1>11. SameOutside(e, w, t)
  BY <1>10 DEF SameOutside, IsPlaced
<1>12. e[t].kind = k
  <2>1. Rebase(t, t, a) = a /\ Within(t, t)
    BY PathIs, RebasePlace
  <2> QED
    BY <1>2, <1>10, <2>1 DEF IsPlaced
<1>13. ASSUME NEW q \in Paths, Within(t, q), Rebase(q, t, a) \in Paths
       PROVE  Within(a, Rebase(q, t, a))
  BY <1>13, PathIs, RebaseWithin
<1>14. OriginsLeft(y, e, t)
  <2> SUFFICES ASSUME NEW q \in Paths, Within(t, q), e[q].origin \in Paths,
                      NEW u \in Paths, Within(u, e[q].origin)
               PROVE  y[u].changed
    BY <1>8 DEF OriginsLeft
  <2>1. PICK r : r = Rebase(q, t, a)
    OBVIOUS
  <2>2. r \in Paths /\ e[q] = disk[r]
    BY <1>10, <2>1, PathsAssumption DEF IsPlaced, Nothing
  <2>3. Within(a, r) /\ disk[r].origin \in Paths /\ Within(u, disk[r].origin)
    BY <1>13, <2>1, <2>2
  <2> QED
    BY <1>3, <2>2, <2>3, RemovedHaveLeft
<1>15. NoGhosts(w)
  BY <1>5 DEF Foretells
<1>16. NoGhosts(e)
  <2> SUFFICES ASSUME NEW q \in Paths, e[q].kind = "none" PROVE e[q].origin = Nowhere
    BY DEF NoGhosts
  <2>1. CASE Within(t, q)
    BY <1>1, <1>10, <2>1 DEF IsPlaced, NoGhosts, Nothing
  <2>2. CASE ~Within(t, q)
    BY <1>11, <1>15, <2>2 DEF SameOutside, NoGhosts
  <2> QED
    BY <2>1, <2>2
<1>17. Fresh(y, w, e, trees, PlacedBy(e), t)
  BY <1>1, <1>8, <1>10, DestFresh
<1> QED
  BY <1>2, <1>5, <1>6, <1>10, <1>11, <1>12, <1>14, <1>16, <1>17, PlacementForetold

\* A mkdir, or a touch of what is not there, leaves what was foreseen.
LEMMA CreationForetold ==
    ASSUME NEW s, NEW f, Foretells(s, f, disk, created, trees), NEW a \in Paths,
           ~Exists(a), Parented(a), NEW k \in {"directory", "file"},
           NEW v \in BOOLEAN, NEW x, x = Produced(s, a, k, v),
           NEW e, e = Stirred([disk EXCEPT ![a] = New(k)], a),
           NEW g, g = created \union {a}
    PROVE  Foretells(x, f, e, g, trees)
<1>1. s \in States /\ disk \in Trees /\ NoGhosts(disk)
  BY DEF Foretells
<1>2. k \in Kinds /\ k # "none"
  BY DEF Kinds
<1>3. x \in States /\ IsProduced(x, s, a, k)
  BY <1>1, <1>2, ProducedIs, ProducedIsState
<1>4. PICK n \in Object : n = New(k) /\ n.kind = k /\ n.origin = Nowhere
  BY <1>2, NewIs
<1>5. PICK m : m = [disk EXCEPT ![a] = n]
  OBVIOUS
<1>6. \A q \in Paths : Contains(a, q) => disk[q].kind = "none"
  BY <1>1, NothingBelow DEF Exists
<1>7. a # Root => disk[Parent(a)].kind = "directory"
  BY DEF Parented, IsDirectory
<1>8. m \in Trees /\ IsPut(m, disk, a, n)
  BY <1>1, <1>2, <1>4, <1>5, <1>6, <1>7, PutIs
<1>9. e \in Trees /\ IsStirred(e, m, a)
  <2>1. e = Stirred(m, a)
    BY <1>4, <1>5
  <2> QED
    BY <1>8, <2>1, StirredTree
<1>10. \A q \in Paths : Contains(a, q) <=> Within(a, q) /\ a # q
  BY PathIs, WithinIs
<1>11. e[a].kind = k /\ e[a].origin = Nowhere
  BY <1>4, <1>8, <1>9 DEF IsPut, IsStirred
<1>12. \A q \in Paths : Contains(a, q) => e[q].kind = "none" /\ e[q].origin = Nowhere
  BY <1>1, <1>6, <1>8, <1>9, <1>10 DEF IsPut, IsStirred, NoGhosts
<1>13. SameOutside(e, disk, a)
  BY <1>8, <1>9 DEF SameOutside, IsPut, IsStirred, Within
<1>14. OriginsLeft(s, e, a)
  BY <1>11, <1>12, PathsAssumption DEF OriginsLeft, Within
<1>15. NoGhosts(e)
  BY <1>1, <1>11, <1>12, <1>13 DEF NoGhosts, SameOutside, Within
<1>16. Fresh(s, disk, e, trees, trees, a)
  BY <1>6, <1>12 DEF Fresh
<1> QED
  BY <1>2, <1>3, <1>9, <1>11, <1>13, <1>14, <1>15, <1>16, PlacementForetold

\* A touch of what is there, a truncate and a chmod leave what was foreseen.
LEMMA InPlaceForetold ==
    ASSUME NEW s, NEW f, Foretells(s, f, disk, created, trees), NEW a \in Paths,
           s[a].kind # "none", NEW x, x = Mutated(s, a), NEW e,
           \/ e = [disk EXCEPT ![a].dirty = TRUE]
           \/ e = [disk EXCEPT ![a].dirty = TRUE, ![a].archive = FALSE]
           \/ e = disk,
           NEW g, g = created \/ g = created \union {a}
    PROVE  Foretells(x, f, e, g, trees)
<1>1. s \in States /\ disk \in Trees
  BY DEF Foretells
<1>2. x \in States /\ IsMutated(x, s, a)
  BY <1>1, MutatedIs, MutatedIsState
<1>3. e \in Trees
  BY <1>1, ChangesReach
<1>4. disk \in [Paths -> Object]
  BY <1>1 DEF Trees
<1>5. PICK y \in Object : y = disk[a]
  BY <1>4
<1>6. PICK z : z = [y EXCEPT !.dirty = TRUE]
  OBVIOUS
<1>7. PICK n : n = [z EXCEPT !.archive = FALSE]
  OBVIOUS
<1>8. z.kind = y.kind /\ z.origin = y.origin /\ n.kind = y.kind /\ n.origin = y.origin
  BY <1>6, <1>7 DEF Object
<1>9. e = [disk EXCEPT ![a] = z] \/ e = [disk EXCEPT ![a] = n] \/ e = disk
  BY <1>4, <1>5, <1>6, <1>7
<1>10. /\ e[a].kind = disk[a].kind /\ e[a].origin = disk[a].origin
       /\ \A q \in Paths : q # a => e[q] = disk[q]
  BY <1>4, <1>5, <1>8, <1>9
<1> QED
  BY <1>2, <1>3, <1>10, ChangeForetold

\* An archive is written over its destination, as was foreseen.
LEMMA ArchiveForetold ==
    ASSUME NEW s, NEW f, Foretells(s, f, disk, created, trees), NEW t \in Paths,
           ~s[t].changed, Parented(t), op.action \in Building, op.dest = t,
           NEW v \in BOOLEAN, NEW x, x = Produced(s, t, "file", v),
           NEW n \in Object, n.kind = "file", n.origin = Nowhere,
           NEW w, w = Without(disk, t), NEW e, e = [w EXCEPT ![t] = n],
           NEW g, g = created \union {t}
    PROVE  Foretells(x, f, e, g, PlacedBy(e))
<1>1. s \in States /\ disk \in Trees /\ NoGhosts(disk)
  BY DEF Foretells
<1>2. x \in States /\ IsProduced(x, s, t, "file")
  <2>1. "file" \in Kinds
    BY DEF Kinds
  <2> QED
    BY <1>1, <2>1, ProducedIs, ProducedIsState
<1>3. w \in Trees /\ IsWithout(w, disk, t)
  BY <1>1, WithoutIs
<1>4. \A q \in Paths : Contains(t, q) <=> Within(t, q) /\ t # q
  BY PathIs, WithinIs
<1>5. \A q \in Paths : Contains(t, q) => w[q].kind = "none"
  BY <1>3, <1>4 DEF IsWithout, Nothing
<1>6. t # Root => w[Parent(t)].kind = "directory"
  BY <1>3, PathIs, WithinParent, ParentInside DEF Parented, IsDirectory, IsWithout
<1>7. e \in Trees /\ IsPut(e, w, t, n)
  BY <1>3, <1>5, <1>6, PutIs
<1>8. \A q \in Paths : Within(t, q) => e[q].origin = Nowhere
  BY <1>3, <1>7 DEF IsPut, IsWithout, Nothing
<1>9. OriginsLeft(s, e, t)
  BY <1>8, PathsAssumption DEF OriginsLeft
<1>10. \A q \in Paths : ~Within(t, q) => q # t
  BY DEF Within
<1>11. SameOutside(e, disk, t)
  BY <1>3, <1>7, <1>10 DEF SameOutside, IsPut, IsWithout
<1>12. NoGhosts(e)
  BY <1>1, <1>8, <1>11 DEF NoGhosts, SameOutside
<1>13. Fresh(s, disk, e, trees, PlacedBy(e), t)
  BY <1>1, <1>7, DestFresh
<1>14. e[t].kind = "file"
  BY <1>7 DEF IsPut
<1> QED
  BY <1>2, <1>7, <1>9, <1>11, <1>12, <1>13, <1>14, PlacementForetold

\* An extraction leaves what was foreseen, whatever the archive holds.
LEMMA ExtractForetold ==
    ASSUME NEW s, NEW f, Foretells(s, f, disk, created, trees), NEW t \in Paths,
           ~s[t].changed, Parented(t), op.action \in Building, op.dest = t,
           NEW v \in BOOLEAN, NEW x, x = Produced(s, t, "directory", v),
           NEW w, w = Without(disk, t),
           NEW content \in SUBSET {q \in Paths : q # Root /\ Parent(q) = t},
           NEW e, Extracted(e, w, t, content),
           NEW g, g = created \union {t}
    PROVE  Foretells(x, f, e, g, PlacedBy(e))
<1>1. s \in States /\ disk \in Trees /\ NoGhosts(disk)
  BY DEF Foretells
<1>2. x \in States /\ IsProduced(x, s, t, "directory")
  <2>1. "directory" \in Kinds
    BY DEF Kinds
  <2> QED
    BY <1>1, <2>1, ProducedIs, ProducedIsState
<1>3. w \in Trees /\ IsWithout(w, disk, t)
  BY <1>1, WithoutIs
<1>4. e \in Trees
  BY <1>1, ExtractionsReach
<1>5. /\ New("directory").kind = "directory" /\ New("directory").origin = Nowhere
      /\ New("file").kind = "file" /\ New("file").origin = Nowhere
  BY NewIs DEF Kinds
<1>6. \A q \in Paths : e[q] = IF q = t THEN New("directory")
                              ELSE IF q \in content THEN New("file") ELSE w[q]
  BY DEF Extracted
<1>7. \A q \in Paths : Within(t, q) => e[q].origin = Nowhere
  BY <1>3, <1>5, <1>6 DEF IsWithout, Nothing
<1>8. OriginsLeft(s, e, t)
  BY <1>7, PathsAssumption DEF OriginsLeft
<1>9. \A q \in Paths : ~Within(t, q) => q # t /\ q \notin content
  <2> SUFFICES ASSUME NEW q \in Paths, ~Within(t, q) PROVE q # t /\ q \notin content
    OBVIOUS
  <2>1. q \in content => Parent(q) = t /\ q # Root
    OBVIOUS
  <2>2. q \in content => Within(t, q)
    BY <2>1, PathIs, WithinParent, RebasePlace
  <2> QED
    BY <2>2 DEF Within
<1>10. SameOutside(e, disk, t)
  BY <1>3, <1>6, <1>9 DEF SameOutside, IsWithout
<1>11. NoGhosts(e)
  BY <1>1, <1>7, <1>10 DEF NoGhosts, SameOutside
<1>12. Fresh(s, disk, e, trees, PlacedBy(e), t)
  BY <1>1, <1>4, DestFresh
<1>13. e[t].kind = "directory"
  BY <1>5, <1>6
<1> QED
  BY <1>2, <1>4, <1>8, <1>10, <1>11, <1>12, <1>13, PlacementForetold

\* Every operation that was foreseen leaves what its effects foretell.
LEMMA PerformForetold ==
    ASSUME Invariant, phase = "applying", Preflight(op, Unguarded), Performable,
           NEW s, NEW f, Foretells(s, f, disk, created, trees), Foresaw(s, f, op),
           NEW e \in Outcomes
    PROVE  Foretells(Effects(s, op), f, e, CreatedBy, PlacedBy(e))
<1>1. /\ op \in Operation /\ Sound(op) /\ op.action \in Actions /\ op.source \in Paths
      /\ disk \in Trees
  BY OperationAt
<1>2. PICK a \in Paths : a = op.source
  BY <1>1
<1>3. s[a].kind = disk[a].kind
  BY <1>2, SourceForeseen
<1>4. PICK x : x = Effects(s, op)
  OBVIOUS
<1>5. PICK g : g = CreatedBy
  OBVIOUS
<1>6. PICK v \in BOOLEAN : v = s[a].archiveValid
  <2>1. s[a] \in PathState
    BY DEF Foretells, States
  <2> QED
    BY <2>1 DEF PathState
<1>7. /\ op.action \notin Creating => Exists(a)
      /\ op.action \in Creating => Parented(a)
      /\ op.action = "mkdir" => ~Exists(a)
  BY <1>2 DEF Preflight, Performable
<1>8. s[a].kind # "none" <=> Exists(a)
  BY <1>3 DEF Exists
<1>9. ASSUME op.action \in Building
      PROVE  \E t \in Paths :
                /\ t = op.dest /\ t # a /\ ~s[t].changed /\ Parented(t) /\ ~Contains(t, a)
                /\ g = created \union {t}
  <2>1. op.dest \in Paths /\ op.dest # a
    BY <1>1, <1>2, <1>9 DEF Sound
  <2>2. ~s[op.dest].changed
    BY <1>9 DEF Foresaw
  <2>3. Parented(op.dest) /\ ~Contains(op.dest, a)
    BY <1>2, <1>9 DEF Preflight, Performable
  <2>4. CreatedBy = created \union {op.dest}
    BY <1>1, <1>9, CreatedIs
  <2> QED
    BY <1>5, <2>1, <2>2, <2>3, <2>4
<1>10. op.action \in Creating => g = created \union {a}
  BY <1>1, <1>2, <1>5, CreatedIs
<1>11. op.action \notin Building \union Creating => g = created
  BY <1>1, <1>5, CreatedIs
<1>12. op.action \notin Building => PlacedBy(e) = trees
  BY <1>1, CreatedIs
<1>13. CASE op.action \in {"delete", "deleteTree"}
  <2>1. e = Without(disk, a) /\ x = Removed(s, a)
    BY <1>2, <1>4, <1>13 DEF Outcomes, Effects
  <2>2. Foretells(x, f, e, created, trees)
    BY <1>3, <2>1, DeleteForetold
  <2>3. g = created /\ PlacedBy(e) = trees
    BY <1>11, <1>12, <1>13 DEF Building, Creating
  <2> QED
    BY <1>4, <1>5, <2>2, <2>3
<1>14. CASE op.action = "copy"
  <2>1. op.action \in Building /\ op.action \notin Creating
    BY <1>14 DEF Building, Creating
  <2>2. PICK t \in Paths :
           /\ t = op.dest /\ t # a /\ ~s[t].changed /\ Parented(t) /\ ~Contains(t, a)
           /\ g = created \union {t}
    BY <1>9, <2>1
  <2>3. e = Placed(disk, Copies, a, t)
    BY <1>2, <1>14, <2>2 DEF Outcomes
  <2>4. x = Produced(s, t, s[a].kind, v)
    BY <1>2, <1>4, <1>6, <1>14, <2>2 DEF Effects
  <2>5. s[a].kind # "none"
    BY <1>7, <1>8, <2>1
  <2>6. Foretells(x, f, e, g, PlacedBy(e))
    BY <1>3, <2>1, <2>2, <2>3, <2>4, <2>5, CopyForetold
  <2> QED
    BY <1>4, <1>5, <2>6
<1>15. CASE op.action = "move"
  <2>1. op.action \in Building /\ op.action \notin Creating
    BY <1>15 DEF Building, Creating
  <2>2. PICK t \in Paths :
           /\ t = op.dest /\ t # a /\ ~s[t].changed /\ Parented(t) /\ ~Contains(t, a)
           /\ g = created \union {t}
    BY <1>9, <2>1
  <2>3. e = Placed(Without(disk, a), disk, a, t)
    BY <1>2, <1>15, <2>2 DEF Outcomes
  <2>4. x = Produced(Removed(s, a), t, s[a].kind, v)
    BY <1>2, <1>4, <1>6, <1>15, <2>2 DEF Effects
  <2>5. s[a].kind # "none" /\ Exists(a)
    BY <1>7, <1>8, <2>1
  <2>6. ~Contains(a, t)
    BY <1>2, <1>15, <2>2 DEF Performable
  <2>7. Foretells(x, f, e, g, PlacedBy(e))
    BY <1>3, <2>1, <2>2, <2>3, <2>4, <2>5, <2>6, MoveForetold
  <2> QED
    BY <1>4, <1>5, <2>7
<1>16. CASE op.action = "mkdir"
  <2>1. e = Stirred([disk EXCEPT ![a] = New("directory")], a)
    BY <1>2, <1>16 DEF Outcomes
  <2>2. x = Produced(s, a, "directory", FALSE)
    BY <1>2, <1>4, <1>16 DEF Effects
  <2>3. ~Exists(a) /\ Parented(a) /\ g = created \union {a} /\ PlacedBy(e) = trees
    BY <1>7, <1>10, <1>12, <1>16 DEF Building, Creating
  <2>4. Foretells(x, f, e, g, trees)
    BY <2>1, <2>2, <2>3, CreationForetold
  <2> QED
    BY <1>4, <1>5, <2>3, <2>4
<1>17. CASE op.action = "touch" /\ ~Exists(a)
  <2>1. e = Stirred([disk EXCEPT ![a] = New("file")], a)
    BY <1>2, <1>17 DEF Outcomes
  <2>2. x = Produced(s, a, "file", FALSE)
    <3>1. s[a].kind = "none"
      BY <1>8, <1>17
    <3> QED
      BY <1>2, <1>4, <1>17, <3>1 DEF Effects
  <2>3. Parented(a) /\ g = created \union {a} /\ PlacedBy(e) = trees
    BY <1>7, <1>10, <1>12, <1>17 DEF Building, Creating
  <2>4. Foretells(x, f, e, g, trees)
    BY <1>17, <2>1, <2>2, <2>3, CreationForetold
  <2> QED
    BY <1>4, <1>5, <2>3, <2>4
<1>18. CASE (op.action = "touch" /\ Exists(a)) \/ op.action = "truncate" \/ op.action = "chmod"
  <2>1. \/ e = [disk EXCEPT ![a].dirty = TRUE]
        \/ e = [disk EXCEPT ![a].dirty = TRUE, ![a].archive = FALSE]
        \/ e = disk
    <3>1. CASE op.action = "touch" /\ Exists(a)
      BY <1>2, <3>1 DEF Outcomes
    <3>2. CASE op.action = "truncate"
      BY <1>2, <3>2 DEF Outcomes
    <3>3. CASE op.action = "chmod"
      BY <3>3 DEF Outcomes
    <3> QED
      BY <1>18, <3>1, <3>2, <3>3
  <2>2. s[a].kind # "none"
    BY <1>7, <1>8, <1>18 DEF Creating
  <2>3. x = Mutated(s, a)
    <3>1. CASE op.action = "touch"
      BY <1>2, <1>4, <2>2, <3>1 DEF Effects
    <3>2. CASE op.action = "truncate"
      BY <1>2, <1>4, <3>2 DEF Effects
    <3>3. CASE op.action = "chmod"
      BY <1>2, <1>4, <3>3 DEF Effects
    <3> QED
      BY <1>18, <3>1, <3>2, <3>3
  <2>4. (g = created \/ g = created \union {a}) /\ PlacedBy(e) = trees
    BY <1>10, <1>11, <1>12, <1>18 DEF Building, Creating
  <2>5. Foretells(x, f, e, g, trees)
    BY <2>1, <2>2, <2>3, <2>4, InPlaceForetold
  <2> QED
    BY <1>4, <1>5, <2>4, <2>5
<1>19. CASE op.action = "archive"
  <2>1. op.action \in Building
    BY <1>19 DEF Building
  <2>2. PICK t \in Paths :
           /\ t = op.dest /\ t # a /\ ~s[t].changed /\ Parented(t) /\ ~Contains(t, a)
           /\ g = created \union {t}
    BY <1>9, <2>1
  <2>3. PICK w : w = Without(disk, t)
    OBVIOUS
  <2>4. PICK n : n = [New("file") EXCEPT !.archive = TRUE]
    OBVIOUS
  <2>5. n \in Object /\ n.kind = "file" /\ n.origin = Nowhere
    <3>1. PICK h \in Object : h = New("file") /\ h.kind = "file" /\ h.origin = Nowhere
      BY NewIs DEF Kinds
    <3>2. n = [h EXCEPT !.archive = TRUE]
      BY <2>4, <3>1
    <3> QED
      BY <3>1, <3>2 DEF Object
  <2>6. e = [w EXCEPT ![t] = n]
    BY <1>19, <2>2, <2>3, <2>4 DEF Outcomes
  <2>7. x = Produced(s, t, "file", TRUE)
    BY <1>4, <1>19, <2>2 DEF Effects
  <2>8. Foretells(x, f, e, g, PlacedBy(e))
    BY <2>1, <2>2, <2>3, <2>5, <2>6, <2>7, ArchiveForetold
  <2> QED
    BY <1>4, <1>5, <2>8
<1>20. CASE op.action = "extract"
  <2>1. op.action \in Building
    BY <1>20 DEF Building
  <2>2. PICK t \in Paths :
           /\ t = op.dest /\ t # a /\ ~s[t].changed /\ Parented(t) /\ ~Contains(t, a)
           /\ g = created \union {t}
    BY <1>9, <2>1
  <2>3. PICK w : w = Without(disk, t)
    OBVIOUS
  <2>4. PICK content \in SUBSET {q \in Paths : q # Root /\ Parent(q) = t} :
           Extracted(e, w, t, content)
    <3>1. Outcomes = {[q \in Paths |->
                         IF q = op.dest THEN New("directory")
                         ELSE IF q \in content THEN New("file")
                         ELSE Without(disk, op.dest)[q]] :
                            content \in SUBSET {q \in Paths : q # Root /\ Parent(q) = op.dest}}
      BY <1>20 DEF Outcomes
    <3> QED
      BY <2>2, <2>3, <3>1 DEF Extracted
  <2>5. x = Produced(s, t, "directory", FALSE)
    BY <1>4, <1>20, <2>2 DEF Effects
  <2>6. Foretells(x, f, e, g, PlacedBy(e))
    BY <2>1, <2>2, <2>3, <2>4, <2>5, ExtractForetold
  <2> QED
    BY <1>4, <1>5, <2>6
<1> QED
  <2>1. op.action = "touch" => Exists(a) \/ ~Exists(a)
    OBVIOUS
  <2> QED
    BY <1>1, <1>13, <1>14, <1>15, <1>16, <1>17, <1>18, <1>19, <1>20, <2>1
    DEF Actions, Building, Creating

\* Objects are where they come from, and clean.
Original(f) == \A p \in Paths : f[p].kind # "none" => f[p].origin = p /\ ~f[p].dirty

\* Whatever was foreseen and fails does so for a known reason.
LEMMA FailureIsKnown ==
    ASSUME Invariant, phase = "applying",
           NEW s, NEW f, Foretells(s, f, disk, created, trees), Foresaw(s, f, op), Original(f),
           ~Blind(op)
    PROVE  Preflight(op, Unguarded) /\ Performable
<1>1. /\ op \in Operation /\ Sound(op) /\ op.action \in Actions /\ op.source \in Paths
      /\ disk \in Trees
  BY OperationAt
<1>2. PICK a \in Paths : a = op.source
  BY <1>1
<1>3. /\ KindsForeseen(s, disk, created, trees) /\ UntouchedKept(s, f, disk, trees)
      /\ MadeByRun(s, created)
  BY DEF Foretells
<1>4. /\ ~Under(trees, a) /\ ~Under(trees, op.dest) /\ ~Contains(op.dest, a)
      /\ op.action = "delete" => \A p \in Paths : Contains(a, p) => ~Exists(p)
      /\ op.action = "truncate" => ~IsDirectory(a)
      /\ op.action = "extract" => disk[a].archive
  BY <1>2 DEF Blind, Unknown, Under, Exists
\* The parent of what is known is known.
<1>5. ASSUME NEW p \in Paths, p # Root, ~Under(trees, p), s[Parent(p)].kind = "directory"
      PROVE  Parented(p)
  <2>1. PICK b \in Paths : b = Parent(p)
    BY <1>5, ParentInside
  <2>2. ~Under(trees, b)
    <3>1. ASSUME NEW t \in trees, Contains(t, b) PROVE FALSE
      <4>1. t \in Paths
        BY DEF Foretells
      <4>2. Contains(t, p)
        BY <1>5, <2>1, <3>1, <4>1, PathIs, WithinParent DEF Within
      <4> QED
        BY <1>5, <4>2 DEF Under
    <3> QED
      BY <3>1 DEF Under
  <2>3. disk[b].kind = "directory"
    BY <1>3, <1>5, <2>1, <2>2 DEF KindsForeseen
  <2> QED
    BY <2>1, <2>3 DEF Parented, IsDirectory
<1>6. s[a].kind = disk[a].kind
  BY <1>3, <1>4 DEF KindsForeseen
<1>7. op.action \notin Creating => Exists(a)
  BY <1>2, <1>6 DEF Foresaw, Exists
<1>8. op.action \in Creating => Parented(a)
  <2> SUFFICES ASSUME op.action \in Creating PROVE Parented(a)
    OBVIOUS
  <2>1. CASE a = Root
    BY <2>1 DEF Parented
  <2>2. CASE a # Root
    BY <1>2, <1>4, <1>5, <2>2 DEF Foresaw
  <2> QED
    BY <2>1, <2>2
<1>9. op.expected \/ a \in created \/ ~Exists(a)
  BY <1>2, <1>3, <1>6 DEF Foresaw, MadeByRun, Exists
\* What was not changed is what the plan's guards captured.
<1>10. ASSUME NEW p \in Paths, ~Under(trees, p), ~s[p].changed
       PROVE  /\ f[p].kind # "none" => Captured(p)
              /\ f[p].kind = "none" => ~Exists(p)
  <2>1. disk[p] = f[p] \/ (disk[p].kind = "none" /\ f[p].kind = "none")
    BY <1>3, <1>10 DEF UntouchedKept
  <2> QED
    BY <2>1 DEF Captured, Original, Exists
<1>11. SourceGuardHolds(op)
  <2> SUFFICES ASSUME op.expected PROVE Captured(a)
    BY <1>2 DEF SourceGuardHolds
  <2>1. ~s[a].changed /\ f[a].kind # "none"
    BY <1>2 DEF Foresaw
  <2> QED
    BY <1>4, <1>10, <2>1
<1>12. ASSUME op.action \in Building
       PROVE  /\ op.dest \in Paths /\ op.dest # a
              /\ DestGuardHolds(op) /\ Parented(op.dest)
              /\ ~(policy = "overwrite" /\ op.expectedDst = "nil")
              /\ policy = "fail" => ~Exists(op.dest)
  <2>1. PICK t \in Paths : t = op.dest
    BY <1>1, <1>12 DEF Sound
  <2>2. t # a /\ ~(policy = "overwrite" /\ op.expectedDst = "nil")
    BY <1>1, <1>2, <1>12, <2>1 DEF Sound
  <2>3. /\ ~s[t].changed
        /\ t = Root \/ s[Parent(t)].kind = "directory"
        /\ policy = "fail" => s[t].kind = "none"
        /\ op.expectedDst = "absent" => f[t].kind = "none"
        /\ op.expectedDst = "present" => f[t].kind # "none"
    BY <1>12, <2>1 DEF Foresaw
  <2>4. DestGuardHolds(op)
    BY <1>4, <1>10, <2>1, <2>3 DEF DestGuardHolds
  <2>5. Parented(t)
    <3>1. CASE t = Root
      BY <3>1 DEF Parented
    <3>2. CASE t # Root
      BY <1>4, <1>5, <2>1, <2>3, <3>2
    <3> QED
      BY <3>1, <3>2
  <2>6. policy = "fail" => ~Exists(t)
    BY <1>3, <1>4, <2>1, <2>3 DEF KindsForeseen, Exists
  <2> QED
    BY <2>1, <2>2, <2>4, <2>5, <2>6
<1>13. op.action \in {"copy", "move", "archive"} /\ IsDirectory(a) => ~Contains(a, op.dest)
  BY <1>2, <1>6 DEF Foresaw, IsDirectory
<1>14. op.action \in {"copy", "archive"} /\ IsDirectory(a) => ~Within(a, op.dest)
  BY <1>12, <1>13 DEF Within, Building
<1>15. Preflight(op, Unguarded)
  BY <1>2, <1>4, <1>7, <1>8, <1>9, <1>11, <1>12, <1>14 DEF Preflight, GuardedOrProduced, Unguarded
<1>16. op.action = "move" => ~Contains(a, op.dest)
  <2> SUFFICES ASSUME op.action = "move", Contains(a, op.dest), ~IsDirectory(a) PROVE FALSE
    BY <1>13
  <2>1. op.action \in Building
    BY DEF Building
  <2>2. PICK t \in Paths : t = op.dest /\ t # a /\ Parented(t)
    BY <1>12, <2>1
  <2>3. t # Root
    BY <2>2, PathIs DEF Contains
  <2>4. Parent(t) \in Paths /\ Within(a, Parent(t)) /\ disk[Parent(t)].kind = "directory"
    BY <2>2, <2>3, PathIs, ParentInside, WithinParent DEF Parented, IsDirectory
  <2>5. PICK b \in Paths : b = Parent(t)
    BY <2>4
  <2>6. Contains(a, b)
    BY <2>4, <2>5 DEF Within, IsDirectory
  <2>7. disk[a].kind = "directory"
    BY <1>1, <2>4, <2>5, <2>6, AboveIsDirectory
  <2> QED
    BY <2>7 DEF IsDirectory
<1>17. op.action = "mkdir" => ~Exists(a)
  BY <1>2, <1>6 DEF Foresaw, Exists
<1>18. Performable
  BY <1>2, <1>4, <1>16, <1>17 DEF Performable
<1> QED
  BY <1>15, <1>18

-----------------------------------------------------------------------------
(***************************************************************************)
(* The plan's history                                                      *)
(***************************************************************************)

\* ps are the predictions before each operation and after the last, f is the disk
\* before the plan; the disk now is as foretold at the operation at hand.
History(ps, f) ==
    /\ ps \in [1..(Len(plan) + 1) -> States]
    /\ Original(f)
    /\ ps[Len(plan) + 1] = predicted
    /\ \A i \in 1..Len(plan) :
          Foresaw(ps[i], f, plan[i]) /\ ps[i + 1] = Effects(ps[i], plan[i])
    /\ Foretells(ps[at], f, disk, created, trees)
    /\ phase = "planning" => f = disk

\* The inductive invariant: some history explains how the disk came to be as it is.
Foreseen ==
    /\ Invariant
    /\ \E ps, f : History(ps, f)
    /\ phase = "succeeded" => at = Len(plan) + 1
    /\ FailuresAreKnown

\* Before the plan the prediction is what is there.
LEMMA BeginsForeseen == Init => Foreseen
<1> SUFFICES ASSUME Init PROVE Foreseen
  OBVIOUS
<1>1. Invariant
  BY BeginsInvariant
<1>2. PICK d \in Disks :
        /\ disk = [p \in Paths |->
                    IF d[p] = "none" THEN Nothing
                    ELSE [kind |-> KindOf(d[p]), origin |-> p, dirty |-> FALSE,
                          archive |-> d[p] = "archive"]]
        /\ predicted = [p \in Paths |->
                    [kind |-> KindOf(d[p]), fromPlan |-> FALSE, changed |-> FALSE,
                     archiveValid |-> FALSE]]
  BY DEF Init
<1>3. plan = <<>> /\ at = 1 /\ created = {} /\ trees = {} /\ phase = "planning"
  BY DEF Init
<1>4. predicted \in States /\ disk \in Trees
  BY <1>1 DEF Invariant, Types, States
<1>5. ASSUME NEW p \in Paths
      PROVE  /\ predicted[p].kind = disk[p].kind
             /\ ~predicted[p].fromPlan /\ ~predicted[p].changed
             /\ IF disk[p].kind = "none" THEN disk[p].origin = Nowhere
                ELSE disk[p].origin = p /\ ~disk[p].dirty
  <2>1. /\ predicted[p].kind = KindOf(d[p])
        /\ ~predicted[p].fromPlan /\ ~predicted[p].changed
    BY <1>2
  <2>2. CASE d[p] = "none"
    BY <1>2, <2>1, <2>2 DEF KindOf, Nothing
  <2>3. CASE d[p] # "none"
    <3>1. /\ disk[p].kind = KindOf(d[p]) /\ disk[p].origin = p /\ disk[p].dirty = FALSE
      BY <1>2, <2>3
    <3>2. KindOf(d[p]) # "none"
      BY <2>3 DEF KindOf
    <3> QED
      BY <2>1, <3>1, <3>2
  <2> QED
    BY <2>2, <2>3
<1>6. \A p \in Paths : ~Under(trees, p) /\ ~Handled(predicted, created, p)
  BY <1>3, <1>5 DEF Under, Handled
<1>7. \A p, q \in Paths : disk[q].origin = p => p = q
  BY <1>5, PathsAssumption
<1>8. Foretells(predicted, disk, disk, created, trees)
  <2>1. disk \in [Paths -> Object]
    BY <1>4 DEF Trees
  <2>2. KindsForeseen(predicted, disk, created, trees)
    BY <1>5 DEF KindsForeseen
  <2>3. UntouchedKept(predicted, disk, disk, trees)
    BY DEF UntouchedKept
  <2>4. MadeByRun(predicted, created)
    BY <1>5 DEF MadeByRun
  <2>5. NoneReturned(disk, trees)
    BY <1>6 DEF NoneReturned
  <2>6. MovedAway(predicted, disk)
    BY <1>7 DEF MovedAway
  <2>7. Marked(predicted, created)
    BY <1>6 DEF Marked
  <2>8. NoGhosts(disk)
    BY <1>5 DEF NoGhosts
  <2> QED
    BY <1>3, <1>4, <2>1, <2>2, <2>3, <2>4, <2>5, <2>6, <2>7, <2>8 DEF Foretells
<1>9. PICK ps : ps = [i \in 1..1 |-> predicted]
  OBVIOUS
<1>10. Original(disk)
  BY <1>5 DEF Original
<1>11. Len(plan) = 0
  BY <1>3
<1>12. History(ps, disk)
  BY <1>3, <1>4, <1>8, <1>9, <1>10, <1>11 DEF History
<1> QED
  BY <1>1, <1>3, <1>12 DEF Foreseen, FailuresAreKnown

\* What the validator accepted it foresaw.
LEMMA AcceptForesees ==
    ASSUME Invariant, phase = "planning", NEW o \in Operation, Writable(o), Acceptable(o)
    PROVE  Foresaw(predicted, disk, o)
<1>1. /\ o.action \notin Creating => predicted[o.source].kind # "none"
      /\ o.action = "mkdir" => predicted[o.source].kind = "none"
      /\ o.expected => ~predicted[o.source].changed
      /\ ~o.expected => predicted[o.source].kind = "none" \/ predicted[o.source].fromPlan
      /\ o.action \in {"copy", "move", "archive"} /\ predicted[o.source].kind = "directory"
            => ~Contains(o.source, o.dest)
  BY DEF Acceptable
<1>2. o.expected => disk[o.source].kind # "none"
  BY DEF Writable, Exists
<1>3. o.action \in Creating => o.source = Root \/ predicted[Parent(o.source)].kind = "directory"
  BY DEF Acceptable, DirectoryAhead
<1>4. o.action \in Building =>
        /\ ~predicted[o.dest].changed
        /\ o.dest = Root \/ predicted[Parent(o.dest)].kind = "directory"
        /\ policy = "fail" => predicted[o.dest].kind = "none"
  BY DEF Acceptable, DirectoryAhead
<1>5. /\ o.expectedDst = "absent" => disk[o.dest].kind = "none"
      /\ o.expectedDst = "present" => disk[o.dest].kind # "none"
  BY DEF Writable, Exists
<1> QED
  BY <1>1, <1>2, <1>3, <1>4, <1>5 DEF Foresaw

\* An accepted operation continues the history, at its end.
LEMMA AcceptForeseen ==
    ASSUME Foreseen, NEW o \in Operation, Accept(o),
           o.action \in Building => o.dest \in Paths,
           o.action \notin Building => o.dest = Nowhere
    PROVE  Foreseen'
<1>1. /\ phase = "planning" /\ Writable(o) /\ Acceptable(o)
      /\ plan' = Append(plan, o) /\ predicted' = Effects(predicted, o)
      /\ UNCHANGED <<policy, phase, disk, created, at, trees>>
  BY DEF Accept
<1>2. Invariant
  BY DEF Foreseen
<1>3. Invariant'
  BY <1>2, AcceptInvariant
<1>4. PICK ps, f : History(ps, f)
  BY DEF Foreseen
<1>5. /\ ps \in [1..(Len(plan) + 1) -> States] /\ Original(f) /\ ps[Len(plan) + 1] = predicted
      /\ \A i \in 1..Len(plan) :
            Foresaw(ps[i], f, plan[i]) /\ ps[i + 1] = Effects(ps[i], plan[i])
      /\ Foretells(ps[at], f, disk, created, trees) /\ f = disk
  BY <1>1, <1>4 DEF History
<1>6. plan \in Seq(Operation) /\ at = 1 /\ predicted \in States
  BY <1>1, <1>2 DEF Invariant, Types, States
<1>7. PICK n \in Nat : n = Len(plan)
  BY <1>6
<1>8. PICK x \in States : x = Effects(predicted, o)
  BY <1>6, EffectsAreStates
<1>9. PICK qs : qs = [i \in 1..(n + 2) |-> IF i = n + 2 THEN x ELSE ps[i]]
  OBVIOUS
<1>10. /\ Len(plan') = n + 1 /\ plan'[n + 1] = o
       /\ \A i \in 1..n : plan'[i] = plan[i]
  BY <1>1, <1>6, <1>7
<1>11. /\ qs \in [1..(n + 2) -> States] /\ qs[n + 2] = x
       /\ \A i \in 1..(n + 1) : qs[i] = ps[i]
  BY <1>5, <1>7, <1>8, <1>9
<1>12. Foresaw(predicted, f, o)
  BY <1>1, <1>2, <1>5, AcceptForesees
<1>13. (\A i \in 1..Len(plan) : Foresaw(qs[i], f, plan[i]) /\ qs[i + 1] = Effects(qs[i], plan[i]))'
  <2> SUFFICES ASSUME NEW i \in 1..Len(plan')
               PROVE  (Foresaw(qs[i], f, plan[i]) /\ qs[i + 1] = Effects(qs[i], plan[i]))'
    OBVIOUS
  <2>1. Foresaw(qs[i], f, plan'[i]) /\ qs[i + 1] = Effects(qs[i], plan'[i])
    <3>1. CASE i = n + 1
      <4>1. /\ qs[i] = predicted /\ plan'[i] = o /\ i + 1 = n + 2
        BY <1>5, <1>7, <1>10, <1>11, <3>1
      <4>2. qs[i + 1] = x
        BY <1>11, <4>1
      <4> QED
        BY <1>8, <1>12, <4>1, <4>2
    <3>2. CASE i # n + 1
      <4>1. i \in 1..n /\ i \in 1..(n + 1) /\ i + 1 \in 1..(n + 1)
        BY <1>7, <1>10, <3>2
      <4>2. qs[i] = ps[i] /\ qs[i + 1] = ps[i + 1] /\ plan'[i] = plan[i]
        BY <1>10, <1>11, <4>1
      <4> QED
        BY <1>5, <1>7, <4>1, <4>2
    <3> QED
      BY <3>1, <3>2
  <2> QED
    BY <1>1, <2>1 DEF Foresaw
<1>14. (qs \in [1..(Len(plan) + 1) -> States] /\ qs[Len(plan) + 1] = predicted)'
  <2>1. Len(plan') + 1 = n + 2
    BY <1>7, <1>10
  <2>2. predicted' = qs[n + 2]
    BY <1>1, <1>8, <1>11
  <2> QED
    BY <1>11, <2>1, <2>2
<1>15. qs[at] = ps[at]
  BY <1>6, <1>7, <1>11
<1>16. (Foretells(qs[at], f, disk, created, trees))'
  BY <1>1, <1>5, <1>15 DEF Foretells
<1>17. History(qs, f)'
  BY <1>1, <1>5, <1>13, <1>14, <1>16 DEF History
<1> QED
  BY <1>1, <1>3, <1>17 DEF Foreseen, FailuresAreKnown

\* The run goes along the history, one operation at a time.
LEMMA PerformForeseen ==
    ASSUME Foreseen, Perform
    PROVE  Foreseen'
<1>1. /\ phase = "applying" /\ Preflight(op, Unguarded) /\ Performable /\ disk' \in Outcomes
      /\ created' = CreatedBy /\ trees' = PlacedBy(disk')
      /\ at' = at + 1 /\ phase' = IF at = Len(plan) THEN "succeeded" ELSE "applying"
      /\ UNCHANGED <<policy, plan, predicted>>
  BY DEF Perform, CreatedBy, PlacedBy
<1>2. Invariant
  BY DEF Foreseen
<1>3. Invariant'
  BY <1>2, PerformInvariant
<1>4. PICK ps, f : History(ps, f)
  BY DEF Foreseen
<1>5. /\ ps \in [1..(Len(plan) + 1) -> States] /\ Original(f) /\ ps[Len(plan) + 1] = predicted
      /\ \A i \in 1..Len(plan) :
            Foresaw(ps[i], f, plan[i]) /\ ps[i + 1] = Effects(ps[i], plan[i])
      /\ Foretells(ps[at], f, disk, created, trees)
  BY <1>4 DEF History
<1>6. plan \in Seq(Operation) /\ at \in 1..Len(plan) /\ Len(plan) \in Nat
  BY <1>1, <1>2 DEF Invariant, Types
<1>7. PICK s : s = ps[at]
  OBVIOUS
<1>8. Foresaw(s, f, op) /\ ps[at + 1] = Effects(s, op)
  BY <1>5, <1>6, <1>7 DEF op
<1>9. PICK e \in Outcomes : e = disk'
  BY <1>1
<1>10. Foretells(s, f, disk, created, trees)
  BY <1>5, <1>7
<1>11. Foretells(Effects(s, op), f, e, CreatedBy, PlacedBy(e))
  BY <1>1, <1>2, <1>8, <1>10, PerformForetold
<1>12. Foretells(ps[at + 1], f, disk', created', trees')
  BY <1>1, <1>8, <1>9, <1>11
<1>13. (Foretells(ps[at], f, disk, created, trees))'
  BY <1>1, <1>12 DEF Foretells
<1>14. (\A i \in 1..Len(plan) : Foresaw(ps[i], f, plan[i]) /\ ps[i + 1] = Effects(ps[i], plan[i]))'
  BY <1>1, <1>5 DEF Foresaw
<1>15. (phase = "planning" => f = disk)'
  BY <1>1
<1>16. History(ps, f)'
  BY <1>1, <1>5, <1>13, <1>14, <1>15 DEF History
<1>17. (phase = "succeeded" => at = Len(plan) + 1)'
  BY <1>1, <1>6
<1> QED
  BY <1>1, <1>3, <1>16, <1>17 DEF Foreseen, FailuresAreKnown

\* When an operation fails the history says why.
LEMMA FailForeseen ==
    ASSUME Foreseen, Fail
    PROVE  Foreseen'
<1>1. /\ phase = "applying" /\ ~(Preflight(op, Unguarded) /\ Performable)
      /\ phase' = "failed"
      /\ UNCHANGED <<policy, plan, predicted, disk, created, at, trees>>
  BY DEF Fail
<1>2. Invariant
  BY DEF Foreseen
<1>3. Invariant'
  BY <1>2, StepsInvariant DEF Next
<1>4. PICK ps, f : History(ps, f)
  BY DEF Foreseen
<1>5. /\ Original(f)
      /\ \A i \in 1..Len(plan) : Foresaw(ps[i], f, plan[i])
      /\ Foretells(ps[at], f, disk, created, trees)
  BY <1>4 DEF History
<1>6. at \in 1..Len(plan)
  BY <1>1, <1>2 DEF Invariant, Types
<1>7. Foresaw(ps[at], f, op)
  BY <1>5, <1>6 DEF op
<1>8. Blind(op)
  BY <1>1, <1>2, <1>5, <1>7, FailureIsKnown
<1>9. FailuresAreKnown'
  BY <1>1, <1>8 DEF FailuresAreKnown, Blind, Unknown, Exists, IsDirectory, op
<1>10. History(ps, f)'
  BY <1>1, <1>4 DEF History, Foresaw, Foretells
<1> QED
  BY <1>1, <1>3, <1>9, <1>10 DEF Foreseen

\* Every step keeps the history.
LEMMA StepsForeseen == Foreseen /\ [Next]_vars => Foreseen'
<1> SUFFICES ASSUME Foreseen, [Next]_vars PROVE Foreseen'
  OBVIOUS
<1>1. CASE AddInPlace
  <2>1. PICK a \in Actions \ Building, p \in Paths, g \in BOOLEAN :
           Accept([action |-> a, source |-> p, dest |-> Nowhere,
                   expected |-> g, expectedDst |-> "nil"])
    BY <1>1 DEF AddInPlace
  <2>2. PICK o : o = [action |-> a, source |-> p, dest |-> Nowhere,
                      expected |-> g, expectedDst |-> "nil"]
    OBVIOUS
  <2>3. o \in Operation /\ o.action \notin Building /\ o.dest = Nowhere /\ Accept(o)
    BY <2>1, <2>2 DEF Operation
  <2> QED
    BY <2>3, AcceptForeseen
<1>2. CASE AddBuilding
  <2>1. PICK a \in Building, p \in Paths, d \in Paths, g \in BOOLEAN,
             e \in {"nil", "absent", "present"} :
           Accept([action |-> a, source |-> p, dest |-> d, expected |-> g, expectedDst |-> e])
    BY <1>2 DEF AddBuilding
  <2>2. PICK o : o = [action |-> a, source |-> p, dest |-> d, expected |-> g, expectedDst |-> e]
    OBVIOUS
  <2>3. o \in Operation /\ o.action \in Building /\ o.dest \in Paths /\ Accept(o)
    BY <2>1, <2>2 DEF Operation, Actions
  <2> QED
    BY <2>3, AcceptForeseen
<1>3. CASE Apply
  <2>1. /\ phase = "planning" /\ phase' = "applying"
        /\ UNCHANGED <<policy, plan, predicted, disk, created, at, trees>>
    BY <1>3 DEF Apply
  <2>2. Invariant'
    BY StepsInvariant DEF Foreseen
  <2>3. PICK ps, f : History(ps, f)
    BY DEF Foreseen
  <2>4. History(ps, f)'
    BY <2>1, <2>3 DEF History, Foresaw, Foretells
  <2> QED
    BY <2>1, <2>2, <2>4 DEF Foreseen, FailuresAreKnown
<1>4. CASE Perform
  BY <1>4, PerformForeseen
<1>5. CASE Fail
  BY <1>5, FailForeseen
<1>6. CASE UNCHANGED vars
  <2>1. UNCHANGED <<policy, phase, plan, predicted, disk, created, at, trees>>
    BY <1>6 DEF vars
  <2>2. Invariant'
    BY StepsInvariant DEF Foreseen
  <2>3. PICK ps, f : History(ps, f)
    BY DEF Foreseen
  <2>4. History(ps, f)'
    BY <2>1, <2>3 DEF History, Foresaw, Foretells
  <2>5. FailuresAreKnown'
    BY <2>1 DEF Foreseen, FailuresAreKnown, Blind, Unknown, Exists, IsDirectory, op
  <2>6. (phase = "succeeded" => at = Len(plan) + 1)'
    BY <2>1 DEF Foreseen
  <2> QED
    BY <2>2, <2>4, <2>5, <2>6 DEF Foreseen
<1> QED
  BY <1>1, <1>2, <1>3, <1>4, <1>5, <1>6 DEF Next, Terminated

\* At its end the disk is what was predicted, as far as the validator could know.
LEMMA ForeseenRuns == Foreseen => AcceptedPlansRun
<1> SUFFICES ASSUME Foreseen PROVE AcceptedPlansRun
  OBVIOUS
<1>1. TypeOK
  BY InvariantTypes DEF Foreseen
<1>2. PredictionHolds
  <2> SUFFICES ASSUME phase = "succeeded", NEW p \in Paths, ~Unknown(p)
               PROVE  predicted[p].kind = disk[p].kind
    BY DEF PredictionHolds
  <2>1. PICK ps, f : History(ps, f)
    BY DEF Foreseen
  <2>2. at = Len(plan) + 1
    BY DEF Foreseen
  <2>3. Foretells(predicted, f, disk, created, trees)
    BY <2>1, <2>2 DEF History
  <2>4. KindsForeseen(predicted, disk, created, trees)
    BY <2>3 DEF Foretells
  <2>5. ~Under(trees, p)
    BY DEF Under, Unknown
  <2> QED
    BY <2>4, <2>5 DEF KindsForeseen
<1> QED
  BY <1>1, <1>2 DEF AcceptedPlansRun, Foreseen

\* An accepted plan fails only for the reasons that no validator sees before it
\* runs, and leaves the disk the validator predicted, whatever the paths, the disk
\* and the number of operations (prevalidatePlan and applyPlan).
THEOREM AcceptedRuns == Spec => []AcceptedPlansRun
<1>1. Spec => []Foreseen
  BY BeginsForeseen, StepsForeseen, PTL DEF Spec
<1> QED
  BY <1>1, ForeseenRuns, PTL
=============================================================================
