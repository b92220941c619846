------------------------- MODULE HistoryStoreProofs -------------------------
(***************************************************************************)
(* What recording, pruning and migrating keep, for any number of           *)
(* processes, keys, times and sizes, any policy and any contents, with     *)
(* failures and corrections of the clock at every step.                    *)
(***************************************************************************)
EXTENDS HistoryStore, TLAPS, FiniteSetTheorems, WellFoundedInduction

(***************************************************************************)
(* The inductive invariant                                                 *)
(***************************************************************************)

Recording(p) == op[p] \in {"record", "migrate"}

\* Where the lock of dst is held, and when that of src is.
UnderLock == {"reserve", "publish", "enforce", "plan", "remove", "settle"}
Inside(p) == op[p] = "migrate" /\ pc[p] \notin Ended \cup {"lockSource"}
Moving(p) == Inside(p) /\ pc[p] # "preflight"

Locks ==
    \A p \in Procs :
        /\ dstLock = p <=> pc[p] \in UnderLock
        /\ srcLock = p <=> Inside(p)

\* A step belongs to its operation.
Roles ==
    \A p \in Procs :
        /\ pc[p] = "plan" => op[p] \in {"prune", "clear"}
        /\ pc[p] \in {"reserve", "publish", "enforce", "settle"} => Recording(p)
        /\ pc[p] \in {"lockSource", "preflight", "next", "load", "unlink"} => op[p] = "migrate"
        /\ pc[p] \in {"lock", "remove"} => op[p] # "none"
        /\ op[p] \in {"prune", "clear"} => item[p] = NoItem
        /\ op[p] # "migrate" \/ pc[p] \in {"lockSource", "preflight"} =>
              moved[p] = {} /\ ~sound[p]

\* A temporary is never taken for a record.
Temporaries ==
    \A k \in Keys : src[<<k, 0>>] \notin Sizes /\ dst[<<k, 0>>] \notin Sizes

\* What is moved, or about to leave the source, stays, or is excused.
Stays(p, id, n) ==
    \/ id \in excused[p]
    \/ dst[id] = n /\ \A q \in Procs : pc[q] = "remove" => id \notin todo[q]

Claims(p) ==
    moved[p] \cup {m \in {<<item[p], size[p]>>} :
                      pc[p] \in {"load", "unlink"} /\ item[p] \in batch[p]}

Kept == \A p \in Procs : \A m \in Claims(p) : Stays(p, m[1], m[2])

\* What a migration has to move yet is where it was.
Batched(p) ==
    Moving(p) => \A id \in batch[p] :
        /\ src[id] \in Sizes /\ src[id] <= MaxBytes
        /\ calm[p] => id \in Live(src)

\* The record that is made is no temporary and fits the quota; if it is moved
\* it is one of the source.
Made(p) ==
    /\ Recording(p) /\ pc[p] \in UnderLock \cup {"lock", "load"} =>
          /\ item[p] \in Ids /\ TimeOf(item[p]) # 0
          /\ size[p] \in Sizes /\ size[p] <= MaxBytes
          /\ calm[p] => TimeOf(item[p]) <= now /\ ~Expired(item[p])
          /\ op[p] = "migrate" => item[p] \in batch[p] /\ size[p] = src[item[p]]
    /\ pc[p] = "unlink" =>
          /\ item[p] \in batch[p] \cup obsolete[p]
          /\ item[p] \in batch[p] => size[p] = src[item[p]]

\* It is published before anything goes, and does not go itself.
Published(p) ==
    /\ pc[p] = "publish" => dst[item[p]] = Nothing
    /\ Recording(p) /\ pc[p] \in {"enforce", "remove", "settle"} => dst[item[p]] = size[p]
    /\ Recording(p) /\ pc[p] = "remove" => item[p] \notin todo[p]

\* The destination with what is to come: the whole batch fits it.
Both(p) == [id \in Ids |-> IF id \in batch[p] THEN src[id] ELSE dst[id]]

Fits(p) ==
    Moving(p) /\ sound[p] /\ ~disturbed[p] =>
        /\ \A id \in batch[p] : dst[id] \in {Nothing, src[id]} /\ TimeOf(id) <= now
        /\ \A id \in Ids : dst[id] \in Sizes => TimeOf(id) <= now
        /\ \A k \in Keys : Cardinality(OfKey(Live(dst) \cup batch[p], k)) <= MaxRecords
        /\ Bytes(Both(p), Live(dst) \cup batch[p]) <= MaxBytes
        /\ pc[p] = "remove" => todo[p] \cap Live(dst) = {}
        /\ pc[p] \in {"load", "unlink"} /\ item[p] \in batch[p] => dst[item[p]] = size[p]

\* Removals are those of the decision, as far as they have come.
PlanOf(p) ==
    IF Recording(p) THEN RecordPlan(before[p], item[p])
    ELSE IF op[p] = "prune" THEN PrunePlan(before[p]) ELSE Safe(before[p])

Retiring(p) ==
    pc[p] = "remove" /\ calm[p] =>
        /\ todo[p] \subseteq PlanOf(p)
        /\ dst = [id \in Ids |-> IF id \in PlanOf(p) \ todo[p] THEN Nothing ELSE before[p][id]]
        /\ Recording(p) => before[p][item[p]] = size[p] /\ Retained(before[p], item[p])

\* What the record leaves behind, and how the migration ends.
Restored(p) ==
    pc[p] = "settle" /\ calm[p] =>
        /\ item[p] \in Live(dst)
        /\ Safe(dst) = Live(dst)
        /\ Bytes(dst, Live(dst)) <= MaxBytes
        /\ Cardinality(OfKey(Live(dst), KeyOf(item[p]))) <= MaxRecords
Through(p) == sound[p] /\ calm[p] /\ ~disturbed[p] => pc[p] # "failed"

Own(p) ==
    /\ Batched(p) /\ Made(p) /\ Published(p) /\ Fits(p)
    /\ Retiring(p) /\ Restored(p) /\ Through(p)

IInv == TypeOK /\ Locks /\ Roles /\ Temporaries /\ Kept /\ \A p \in Procs : Own(p)

-----------------------------------------------------------------------------
(***************************************************************************)
(* Induction, and sums                                                     *)
(***************************************************************************)

\* A set of numbers that is not empty has a least element.
LEMMA Least ==
    ASSUME NEW S \in SUBSET Nat, S # {}
    PROVE  \E m \in S : \A k \in S : m <= k
<1> DEFINE R == {pair \in Nat \X Nat : pair[1] < pair[2]}
<1>1. IsWellFoundedOn(R, Nat)
  BY NatLessThanWellFounded DEF OpToRel
<1>2. PICK m \in S : \A k \in S : <<k, m>> \notin R
  <2> HIDE DEF R
  <2> QED
    BY <1>1, WFMin
<1>3. \A k \in S : ~(k < m)
  BY <1>2
<1> QED
  BY <1>3

\* A set that holds 0 and with every number its successor holds them all.
LEMMA Induction ==
    ASSUME NEW G, 0 \in G, \A n \in Nat : n \in G => n + 1 \in G
    PROVE  Nat \subseteq G
<1> SUFFICES ASSUME Nat \ G # {} PROVE FALSE
  OBVIOUS
<1>1. PICK m \in Nat \ G : \A k \in Nat \ G : m <= k
  BY Least
<1>2. m # 0 /\ m - 1 \in Nat /\ ~(m <= m - 1)
  BY <1>1
<1>3. m - 1 \in G
  BY <1>1, <1>2
<1>4. (m - 1) + 1 \in G
  BY <1>2, <1>3
<1> QED
  BY <1>1, <1>4

\* What the sum takes first, and the function it is defined by.
Pick(s) == CHOOSE x \in s : TRUE
IsSum(g, store, S) ==
    g = [s \in SUBSET S |-> IF s = {} THEN 0 ELSE store[Pick(s)] + g[s \ {Pick(s)}]]

\* A set without the element that is taken first is smaller by one.
LEMMA Smaller ==
    ASSUME NEW s, IsFiniteSet(s), s # {}
    PROVE  /\ Pick(s) \in s /\ IsFiniteSet(s \ {Pick(s)})
           /\ Cardinality(s) \in Nat \ {0}
           /\ Cardinality(s \ {Pick(s)}) = Cardinality(s) - 1
<1>1. Pick(s) \in s
  BY DEF Pick
<1>2. Cardinality(s) \in Nat /\ Cardinality(s) # 0
  BY FS_CardinalityType, FS_EmptySet
<1> QED
  BY <1>1, <1>2, FS_RemoveElement

\* The parts of S of at most n elements.
UpTo(S, n) == {s \in SUBSET S : Cardinality(s) <= n}

LEMMA SumExists ==
    ASSUME NEW S, IsFiniteSet(S), NEW store, \A x \in S : store[x] \in Int
    PROVE  \E g \in [SUBSET S -> Int] : IsSum(g, store, S)
<1> DEFINE Body(g, s) == IF s = {} THEN 0 ELSE store[Pick(s)] + g[s \ {Pick(s)}]
           G == {n \in Nat : \E g \in [SUBSET S -> Int] : \A s \in UpTo(S, n) : g[s] = Body(g, s)}
<1>0. \A s \in SUBSET S : IsFiniteSet(s) /\ Cardinality(s) \in Nat
  BY FS_Subset, FS_CardinalityType
<1>1. \A s \in SUBSET S : s # {} =>
        /\ Pick(s) \in s /\ s \ {Pick(s)} \in SUBSET S
        /\ Cardinality(s) \in Nat \ {0} /\ Cardinality(s \ {Pick(s)}) = Cardinality(s) - 1
  BY <1>0, Smaller
<1>2. 0 \in G
  <2>1. \A s \in UpTo(S, 0) : s = {}
    BY <1>0, FS_EmptySet DEF UpTo
  <2>2. [s \in SUBSET S |-> 0] \in [SUBSET S -> Int]
    OBVIOUS
  <2> QED
    BY <2>1, <2>2 DEF UpTo
<1>3. ASSUME NEW n \in Nat, n \in G
      PROVE  n + 1 \in G
  <2>1. PICK g \in [SUBSET S -> Int] : \A s \in UpTo(S, n) : g[s] = Body(g, s)
    BY <1>3
  <2> DEFINE h == [s \in SUBSET S |-> IF s \in UpTo(S, n) THEN g[s] ELSE Body(g, s)]
  <2>2. ASSUME NEW s \in SUBSET S
        PROVE  Body(g, s) \in Int
    <3>1. CASE s # {}
      <4>1. store[Pick(s)] \in Int /\ g[s \ {Pick(s)}] \in Int
        BY <1>1, <3>1
      <4> QED
        BY <4>1
    <3> QED
      BY <3>1
  <2>3. h \in [SUBSET S -> Int]
    BY <2>2
  <2>4. ASSUME NEW s \in UpTo(S, n + 1)
        PROVE  h[s] = Body(h, s)
    <3>1. s \in SUBSET S
      BY DEF UpTo
    <3>2. h[s] = Body(g, s)
      BY <2>1, <3>1
    <3>3. s # {} => s \ {Pick(s)} \in UpTo(S, n)
      BY <1>1, <3>1 DEF UpTo
    <3>4. s # {} => h[s \ {Pick(s)}] = g[s \ {Pick(s)}]
      BY <1>1, <3>1, <3>3
    <3> QED
      BY <3>2, <3>4
  <2>5. \E f \in [SUBSET S -> Int] : \A s \in UpTo(S, n + 1) : f[s] = Body(f, s)
    <3> HIDE DEF h
    <3> QED
      BY <2>3, <2>4
  <2>6. n + 1 \in Nat
    OBVIOUS
  <2> HIDE DEF Body, h
  <2> QED
    BY <2>5, <2>6
<1>4. Cardinality(S) \in G
  <2> HIDE DEF G
  <2>1. Nat \subseteq G
    BY <1>2, <1>3, Induction
  <2> QED
    BY <1>0, <2>1
<1>5. PICK g \in [SUBSET S -> Int] : \A s \in UpTo(S, Cardinality(S)) : g[s] = Body(g, s)
  BY <1>4
<1>6. \A s \in SUBSET S : s \in UpTo(S, Cardinality(S))
  BY FS_Subset DEF UpTo
<1>7. g = [s \in SUBSET S |-> Body(g, s)]
  BY <1>5, <1>6
<1> QED
  BY <1>7 DEF IsSum

\* The same sum is reached from every set around.
LEMMA SumUnique ==
    ASSUME NEW S, IsFiniteSet(S), NEW T \in SUBSET S, NEW store,
           NEW g, IsSum(g, store, S), NEW h, IsSum(h, store, T)
    PROVE  \A s \in SUBSET T : h[s] = g[s]
<1> DEFINE G == {n \in Nat : \A s \in UpTo(T, n) : h[s] = g[s]}
<1>0. \A s \in SUBSET T : s \in SUBSET S /\ IsFiniteSet(s) /\ Cardinality(s) \in Nat
  BY FS_Subset, FS_CardinalityType
<1>1. \A s \in SUBSET T : s # {} =>
        /\ s \ {Pick(s)} \in SUBSET T
        /\ Cardinality(s) \in Nat \ {0} /\ Cardinality(s \ {Pick(s)}) = Cardinality(s) - 1
  BY <1>0, Smaller
<1>2. \A s \in SUBSET T : /\ h[s] = IF s = {} THEN 0 ELSE store[Pick(s)] + h[s \ {Pick(s)}]
                          /\ g[s] = IF s = {} THEN 0 ELSE store[Pick(s)] + g[s \ {Pick(s)}]
  BY <1>0 DEF IsSum
<1>3. 0 \in G
  <2>1. \A s \in UpTo(T, 0) : s \in SUBSET T /\ s = {}
    BY <1>0, FS_EmptySet DEF UpTo
  <2> QED
    BY <1>2, <2>1
<1>4. ASSUME NEW n \in Nat, n \in G
      PROVE  n + 1 \in G
  <2> SUFFICES ASSUME NEW s \in UpTo(T, n + 1) PROVE h[s] = g[s]
    OBVIOUS
  <2>1. s \in SUBSET T
    BY DEF UpTo
  <2>2. CASE s # {}
    <3>1. s \ {Pick(s)} \in UpTo(T, n)
      BY <1>1, <2>1, <2>2 DEF UpTo
    <3>2. h[s \ {Pick(s)}] = g[s \ {Pick(s)}]
      BY <1>4, <3>1
    <3> QED
      BY <1>2, <2>1, <2>2, <3>2
  <2> QED
    BY <1>2, <2>1, <2>2
<1>5. Nat \subseteq G
  <2> HIDE DEF G
  <2> QED
    BY <1>3, <1>4, Induction
<1> QED
  <2> SUFFICES ASSUME NEW s \in SUBSET T PROVE h[s] = g[s]
    OBVIOUS
  <2>1. Cardinality(s) \in Nat /\ s \in UpTo(T, Cardinality(s))
    BY <1>0 DEF UpTo
  <2> QED
    BY <1>5, <2>1

\* Bytes is that sum.
LEMMA BytesIs ==
    ASSUME NEW S, IsFiniteSet(S), NEW store, NEW g, IsSum(g, store, S)
    PROVE  Bytes(store, S) = g[S]
<1> DEFINE it == CHOOSE it : IsSum(it, store, S)
<1>1. IsSum(it, store, S)
  OBVIOUS
<1>2. Bytes(store, S) = it[S]
  BY DEF Bytes, MapThenSumSet, MapThenFoldSet, IsSum, Pick
<1> HIDE DEF it
<1> QED
  BY <1>1, <1>2, SumUnique

\* The first element out: the sum by its definition.
LEMMA BytesStep ==
    ASSUME NEW S, IsFiniteSet(S), NEW store, \A x \in S : store[x] \in Int
    PROVE  /\ Bytes(store, S) \in Int
           /\ S = {} => Bytes(store, S) = 0
           /\ S # {} => Bytes(store, S) = store[Pick(S)] + Bytes(store, S \ {Pick(S)})
<1>1. PICK g \in [SUBSET S -> Int] : IsSum(g, store, S)
  BY SumExists
<1>2. Bytes(store, S) = g[S] /\ S \in SUBSET S
  BY <1>1, BytesIs
<1>3. g[S] = IF S = {} THEN 0 ELSE store[Pick(S)] + g[S \ {Pick(S)}]
  BY <1>1, <1>2 DEF IsSum
<1>4. CASE S # {}
  <2> DEFINE T == S \ {Pick(S)}
  <2>1. IsFiniteSet(T) /\ T \in SUBSET S /\ \A x \in T : store[x] \in Int
    BY FS_RemoveElement
  <2>2. PICK h \in [SUBSET T -> Int] : IsSum(h, store, T)
    BY <2>1, SumExists
  <2>3. Bytes(store, T) = h[T] /\ h[T] = g[T]
    BY <1>1, <2>1, <2>2, BytesIs, SumUnique
  <2> QED
    BY <1>2, <1>3, <1>4, <2>3
<1> QED
  BY <1>2, <1>3, <1>4

\* Any element added: the sum does not depend on the order.
LEMMA BytesAdd ==
    ASSUME NEW S, IsFiniteSet(S), NEW store, \A x \in S : store[x] \in Int,
           NEW a, a \notin S, store[a] \in Int
    PROVE  Bytes(store, S \cup {a}) = Bytes(store, S) + store[a]
<1> DEFINE Adds(T) == \A x \in S \cup {a} : x \notin T => Bytes(store, T \cup {x}) = Bytes(store, T) + store[x]
           U == S \cup {a}
           G == {n \in Nat : \A T \in SUBSET U : Cardinality(T) = n => Adds(T)}
<1>0. IsFiniteSet(U) /\ \A x \in U : store[x] \in Int
  BY FS_AddElement
<1>1. \A T \in SUBSET U : IsFiniteSet(T) /\ Cardinality(T) \in Nat /\ \A x \in T : store[x] \in Int
  BY <1>0, FS_Subset, FS_CardinalityType
<1>2. ASSUME NEW T \in SUBSET U, \A c \in T : Adds(T \ {c})
      PROVE  Adds(T)
  <2> SUFFICES ASSUME NEW x \in U, x \notin T
               PROVE  Bytes(store, T \cup {x}) = Bytes(store, T) + store[x]
    OBVIOUS
  <2> DEFINE W == T \cup {x}
             c == Pick(W)
  <2>1. W \in SUBSET U /\ W # {} /\ c \in W
    BY DEF Pick
  <2>2. /\ Bytes(store, W) = store[c] + Bytes(store, W \ {c})
        /\ Bytes(store, T) \in Int /\ store[x] \in Int /\ store[c] \in Int
    <3> HIDE DEF W, U, c
    <3>1. Bytes(store, W) = store[Pick(W)] + Bytes(store, W \ {Pick(W)})
      BY <1>1, <2>1, BytesStep
    <3>2. Bytes(store, T) \in Int
      BY <1>1, BytesStep
    <3>3. c \in U
      BY <2>1
    <3> QED
      BY <1>0, <3>1, <3>2, <3>3 DEF c
  <2>3. CASE c = x
    <3>1. W \ {c} = T
      BY <2>3
    <3> HIDE DEF c, W
    <3>2. Bytes(store, W) = store[x] + Bytes(store, T)
      BY <2>2, <2>3, <3>1
    <3> QED
      BY <2>2, <3>2 DEF W
  <2>4. CASE c # x
    <3> DEFINE R == T \ {c}
    <3>1. c \in T /\ W \ {c} = R \cup {x} /\ T = R \cup {c} /\ x \notin R /\ c \notin R
      BY <2>1, <2>4
    <3>2. Adds(R)
      BY <1>2, <3>1
    <3>3. /\ Bytes(store, R \cup {x}) = Bytes(store, R) + store[x]
          /\ Bytes(store, R \cup {c}) = Bytes(store, R) + store[c]
      <4> HIDE DEF R, c
      <4> QED
        BY <3>1, <3>2
    <3>4. Bytes(store, R) \in Int
      <4>1. R \in SUBSET U
        OBVIOUS
      <4> HIDE DEF R, U
      <4> QED
        BY <1>1, <4>1, BytesStep
    <3>5. Bytes(store, W) = store[c] + (Bytes(store, R) + store[x])
      <4> HIDE DEF R, c, W
      <4> QED
        BY <2>2, <3>1, <3>3
    <3>6. Bytes(store, T) = Bytes(store, R) + store[c]
      <4> HIDE DEF R, c, W
      <4> QED
        BY <3>1, <3>3
    <3> HIDE DEF R, c
    <3> QED
      BY <2>2, <3>4, <3>5, <3>6
  <2> QED
    BY <2>3, <2>4
<1>3. 0 \in G
  <2>1. ASSUME NEW T \in SUBSET U, Cardinality(T) = 0
        PROVE  Adds(T)
    <3>1. T = {}
      BY <1>1, <2>1, FS_EmptySet
    <3> HIDE DEF Adds
    <3> QED
      BY <1>2, <3>1
  <2> HIDE DEF Adds, U
  <2> QED
    BY <2>1
<1>4. ASSUME NEW n \in Nat, n \in G
      PROVE  n + 1 \in G
  <2>1. ASSUME NEW T \in SUBSET U, Cardinality(T) = n + 1
        PROVE  Adds(T)
    <3> HIDE DEF Adds
    <3>1. ASSUME NEW c \in T
          PROVE  Adds(T \ {c})
      <4>1. Cardinality(T \ {c}) = (n + 1) - 1 /\ T \ {c} \in SUBSET U
        BY <1>1, <2>1, FS_RemoveElement
      <4>2. Cardinality(T \ {c}) = n
        BY <4>1
      <4> HIDE DEF U
      <4> QED
        BY <1>4, <4>1, <4>2
    <3> QED
      BY <1>2, <3>1
  <2>2. n + 1 \in Nat
    OBVIOUS
  <2> HIDE DEF Adds, U
  <2> QED
    BY <2>1, <2>2
<1>5. Nat \subseteq G
  <2> HIDE DEF G
  <2> QED
    BY <1>3, <1>4, Induction
<1>6. Adds(S)
  <2>1. S \in SUBSET U /\ Cardinality(S) \in Nat
    BY <1>1
  <2> HIDE DEF Adds, U
  <2> QED
    BY <1>5, <2>1
<1> QED
  BY <1>6

\* Sets of subsets that hold the empty one and grow by elements hold them all.
LEMMA SetInduction ==
    ASSUME NEW U, IsFiniteSet(U), NEW F, {} \in F,
           \A T \in SUBSET U : \A x \in U \ T : T \in F => T \cup {x} \in F
    PROVE  SUBSET U \subseteq F
<1> DEFINE G == {n \in Nat : \A T \in SUBSET U : Cardinality(T) = n => T \in F}
<1>1. \A T \in SUBSET U : IsFiniteSet(T) /\ Cardinality(T) \in Nat
  BY FS_Subset, FS_CardinalityType
<1>2. 0 \in G
  BY <1>1, FS_EmptySet
<1>3. ASSUME NEW n \in Nat, n \in G
      PROVE  n + 1 \in G
  <2>1. ASSUME NEW T \in SUBSET U, Cardinality(T) = n + 1
        PROVE  T \in F
    <3>0. T # {}
      <4>1. Cardinality({}) = 0 /\ n + 1 # 0
        BY FS_EmptySet
      <4> QED
        BY <2>1, <4>1
    <3>1. PICK c \in T : TRUE
      BY <3>0
    <3>2. /\ Cardinality(T \ {c}) = (n + 1) - 1 /\ T \ {c} \in SUBSET U
          /\ c \in U \ (T \ {c}) /\ (T \ {c}) \cup {c} = T
      BY <1>1, <2>1, <3>1, FS_RemoveElement
    <3>3. T \ {c} \in F
      BY <1>3, <3>2
    <3> QED
      BY <3>2, <3>3
  <2> QED
    BY <2>1
<1>4. Nat \subseteq G
  <2> HIDE DEF G
  <2> QED
    BY <1>2, <1>3, Induction
<1> QED
  BY <1>1, <1>4

\* Where no weight is more, the sum is no more.
LEMMA BytesOrder ==
    ASSUME NEW S, IsFiniteSet(S), NEW f, NEW g,
           \A x \in S : f[x] \in Int /\ g[x] \in Int /\ f[x] <= g[x]
    PROVE  Bytes(f, S) <= Bytes(g, S)
<1> DEFINE F == {T \in SUBSET S : Bytes(f, T) <= Bytes(g, T)}
<1>1. \A T \in SUBSET S : IsFiniteSet(T)
  BY FS_Subset
<1>2. {} \in F
  <2>1. Bytes(f, {}) = 0 /\ Bytes(g, {}) = 0
    BY FS_EmptySet, BytesStep
  <2> QED
    BY <2>1
<1>3. ASSUME NEW T \in SUBSET S, NEW x \in S \ T, T \in F
      PROVE  T \cup {x} \in F
  <2>1. /\ Bytes(f, T \cup {x}) = Bytes(f, T) + f[x] /\ Bytes(f, T) \in Int
        /\ Bytes(g, T \cup {x}) = Bytes(g, T) + g[x] /\ Bytes(g, T) \in Int
    <3>1. IsFiniteSet(T) /\ x \notin T /\ f[x] \in Int /\ g[x] \in Int
      BY <1>1
    <3>2. \A y \in T : f[y] \in Int
      OBVIOUS
    <3>3. \A y \in T : g[y] \in Int
      OBVIOUS
    <3> HIDE DEF F
    <3>4. Bytes(f, T \cup {x}) = Bytes(f, T) + f[x]
      BY ONLY <3>1, <3>2, BytesAdd
    <3>5. Bytes(g, T \cup {x}) = Bytes(g, T) + g[x]
      BY ONLY <3>1, <3>3, BytesAdd
    <3>6. Bytes(f, T) \in Int
      BY ONLY <3>1, <3>2, BytesStep
    <3>7. Bytes(g, T) \in Int
      BY ONLY <3>1, <3>3, BytesStep
    <3> QED
      BY <3>4, <3>5, <3>6, <3>7
  <2>2. Bytes(f, T) <= Bytes(g, T) /\ f[x] \in Int /\ g[x] \in Int /\ f[x] <= g[x]
    BY <1>3
  <2>3. T \cup {x} \in SUBSET S
    OBVIOUS
  <2>4. Bytes(f, T \cup {x}) <= Bytes(g, T \cup {x})
    BY <2>1, <2>2
  <2> QED
    BY <2>3, <2>4
<1>4. SUBSET S \subseteq F
  <2> HIDE DEF F
  <2> QED
    BY <1>2, <1>3, SetInduction
<1> QED
  BY <1>4

\* Equal weights have equal sums.
LEMMA BytesEqual ==
    ASSUME NEW S, IsFiniteSet(S), NEW f, NEW g,
           \A x \in S : f[x] \in Int /\ g[x] = f[x]
    PROVE  Bytes(f, S) = Bytes(g, S)
<1>1. Bytes(f, S) <= Bytes(g, S) /\ Bytes(g, S) <= Bytes(f, S)
  BY BytesOrder
<1>2. Bytes(f, S) \in Int /\ Bytes(g, S) \in Int
  BY BytesStep
<1> QED
  BY <1>1, <1>2

\* Two sets apart are summed apart.
LEMMA BytesUnion ==
    ASSUME NEW S, IsFiniteSet(S), NEW T, IsFiniteSet(T), S \cap T = {},
           NEW f, \A x \in S \cup T : f[x] \in Int
    PROVE  Bytes(f, S \cup T) = Bytes(f, S) + Bytes(f, T)
<1> DEFINE F == {R \in SUBSET T : Bytes(f, S \cup R) = Bytes(f, S) + Bytes(f, R)}
<1>1. \A R \in SUBSET T : IsFiniteSet(R) /\ IsFiniteSet(S \cup R)
  BY FS_Subset, FS_Union
<1>2. {} \in F
  <2>1. Bytes(f, {}) = 0 /\ Bytes(f, S) \in Int /\ S \cup {} = S
    BY FS_EmptySet, BytesStep
  <2> QED
    BY <2>1
<1>3. ASSUME NEW R \in SUBSET T, NEW x \in T \ R, R \in F
      PROVE  R \cup {x} \in F
  <2>1. /\ Bytes(f, R \cup {x}) = Bytes(f, R) + f[x]
        /\ Bytes(f, R) \in Int /\ Bytes(f, S) \in Int /\ f[x] \in Int
    <3>1. /\ IsFiniteSet(R) /\ x \notin R /\ f[x] \in Int
      BY <1>1
    <3>2. \A y \in R : f[y] \in Int
      OBVIOUS
    <3>3. \A y \in S : f[y] \in Int
      OBVIOUS
    <3> HIDE DEF F
    <3>4. Bytes(f, R \cup {x}) = Bytes(f, R) + f[x]
      BY <3>1, <3>2, BytesAdd
    <3>5. Bytes(f, R) \in Int
      BY <3>1, <3>2, BytesStep
    <3>6. Bytes(f, S) \in Int
      BY <3>3, BytesStep
    <3> QED
      BY <3>1, <3>4, <3>5, <3>6
  <2>2. Bytes(f, (S \cup R) \cup {x}) = Bytes(f, S \cup R) + f[x]
    <3>1. x \notin S \cup R /\ \A y \in S \cup R : f[y] \in Int
      OBVIOUS
    <3> QED
      BY <1>1, <3>1, BytesAdd
  <2>3. (S \cup R) \cup {x} = S \cup (R \cup {x}) /\ R \cup {x} \in SUBSET T
    OBVIOUS
  <2>4. Bytes(f, S \cup R) = Bytes(f, S) + Bytes(f, R)
    BY <1>3
  <2>5. Bytes(f, S \cup (R \cup {x})) = Bytes(f, S) + Bytes(f, R \cup {x})
    <3>1. Bytes(f, S \cup (R \cup {x})) = (Bytes(f, S) + Bytes(f, R)) + f[x]
      <4> HIDE DEF F
      <4> QED
        BY <2>2, <2>3, <2>4
    <3> HIDE DEF F
    <3> QED
      BY <2>1, <3>1
  <2> QED
    BY <2>3, <2>5
<1>4. SUBSET T \subseteq F
  <2>1. \A R \in SUBSET T : \A x \in T \ R : R \in F => R \cup {x} \in F
    BY <1>3
  <2>2. IsFiniteSet(T)
    OBVIOUS
  <2> HIDE DEF F
  <2> QED
    BY ONLY <1>2, <2>1, <2>2, SetInduction
<1> QED
  <2>1. T \in F
    BY <1>4
  <2> QED
    BY <2>1

\* A part weighs no more than the whole.
LEMMA BytesPart ==
    ASSUME NEW S, IsFiniteSet(S), NEW T \in SUBSET S,
           NEW f, \A x \in S : f[x] \in Nat
    PROVE  0 <= Bytes(f, T) /\ Bytes(f, T) <= Bytes(f, S)
<1> DEFINE F == {R \in SUBSET S : 0 <= Bytes(f, R)}
<1>1. ASSUME NEW R \in SUBSET S
      PROVE  IsFiniteSet(R) /\ Bytes(f, R) \in Int /\ \A x \in R : f[x] \in Int
  <2>1. IsFiniteSet(R) /\ \A x \in R : f[x] \in Int
    BY FS_Subset
  <2> QED
    BY <2>1, BytesStep
<1>2. {} \in F
  <2>1. Bytes(f, {}) = 0
    BY FS_EmptySet, BytesStep
  <2> QED
    BY <2>1
<1>3. ASSUME NEW R \in SUBSET S, NEW x \in S \ R, R \in F
      PROVE  R \cup {x} \in F
  <2>1. Bytes(f, R \cup {x}) = Bytes(f, R) + f[x] /\ Bytes(f, R) \in Int
    BY <1>1, BytesAdd
  <2>2. 0 <= Bytes(f, R) /\ f[x] \in Nat /\ R \cup {x} \in SUBSET S
    BY <1>3
  <2> QED
    BY <2>1, <2>2
<1>4. SUBSET S \subseteq F
  <2> HIDE DEF F
  <2> QED
    BY <1>2, <1>3, SetInduction
<1>5. 0 <= Bytes(f, T) /\ 0 <= Bytes(f, S \ T)
  BY <1>4
<1>6. Bytes(f, T \cup (S \ T)) = Bytes(f, T) + Bytes(f, S \ T)
  <2>1. \A x \in T \cup (S \ T) : f[x] \in Int
    OBVIOUS
  <2> HIDE DEF F
  <2> QED
    BY <1>1, <2>1, BytesUnion
<1>7. T \cup (S \ T) = S
  OBVIOUS
<1> QED
  BY <1>1, <1>5, <1>6, <1>7

-----------------------------------------------------------------------------
(***************************************************************************)
(* Names in order, and who stays                                           *)
(***************************************************************************)

\* Division takes a number apart as it was put together.
LEMMA Euclid ==
    ASSUME NEW q \in Nat, NEW m \in Nat \ {0}, NEW r \in 0..(m - 1)
    PROVE  (q * m + r) \div m = q /\ (q * m + r) % m = r
OBVIOUS

\* The r-th of the q-th group of m, of groups that are n: one of n * m numbers.
LEMMA Numbered ==
    ASSUME NEW n \in Nat, NEW q \in 0..(n - 1), NEW m \in Nat \ {0}, NEW r \in 0..(m - 1)
    PROVE  q * m + r + 1 \in 1..(n * m) /\ n * m \in Nat
<1>1. (n - (q + 1)) * m >= 0 /\ q * m >= 0
  OBVIOUS
<1>2. n * m = q * m + m + (n - (q + 1)) * m
  OBVIOUS
<1>3. q * m \in Int /\ n * m \in Int /\ (n - (q + 1)) * m \in Int
  OBVIOUS
<1> DEFINE A == q * m
           B == n * m
           C == (n - (q + 1)) * m
<1>4. /\ A \in Int /\ B \in Int /\ C \in Int /\ A >= 0 /\ C >= 0
      /\ B = A + m + C
  BY <1>1, <1>2, <1>3
<1>5. A + r + 1 \in 1..B /\ B \in Nat
  <2> HIDE DEF A, B, C
  <2> QED
    BY <1>4
<1> QED
  BY <1>5

\* Both orders list every name.
LEMMA Ordered ==
    ASSUME NEW id \in Ids
    PROVE  /\ Entries \in Nat
           /\ \E n \in 1..Entries : ByName[n] = id
           /\ \E n \in 1..Entries : NewestFirst[n] = id
<1> DEFINE w == MaxTime + 1
           k == KeyOf(id) - 1
           t == TimeOf(id)
           b == MaxTime - t
<1>1. /\ NumKeys \in Nat \ {0} /\ k \in 0..(NumKeys - 1) /\ t \in 0..MaxTime
      /\ MaxTime \in Nat /\ id = <<1 + k, t>>
  BY NamesAssumption, PolicyAssumption DEF Ids, Keys, KeyOf, TimeOf
<1> HIDE DEF k, t
<1>2. /\ w \in Nat \ {0} /\ t \in 0..(w - 1) /\ b \in 0..(w - 1) /\ b \in Nat
      /\ MaxTime - b = t /\ k \in Nat
  BY <1>1
<1>3. Entries = NumKeys * w /\ Entries = w * NumKeys
  BY <1>1, <1>2 DEF Entries
<1> HIDE DEF w, b
<1>4. \E n \in 1..Entries : ByName[n] = id
  <2> DEFINE n == k * w + t + 1
  <2>1. n \in 1..Entries
    BY <1>1, <1>2, <1>3, Numbered
  <2>2. n - 1 = k * w + t
    BY <1>1, <1>2
  <2>3. (k * w + t) \div w = k /\ (k * w + t) % w = t
    BY <1>2, Euclid
  <2>4. ByName[n] = <<1 + ((n - 1) \div w), (n - 1) % w>>
    <3> HIDE DEF n
    <3> QED
      BY <2>1 DEF ByName, w
  <2> HIDE DEF n
  <2> QED
    BY <1>1, <2>1, <2>2, <2>3, <2>4
<1>5. \E n \in 1..Entries : NewestFirst[n] = id
  <2> DEFINE n == b * NumKeys + k + 1
  <2>1. n \in 1..Entries
    BY <1>1, <1>2, <1>3, Numbered
  <2>2. n - 1 = b * NumKeys + k
    BY <1>1, <1>2
  <2>3. (b * NumKeys + k) \div NumKeys = b /\ (b * NumKeys + k) % NumKeys = k
    BY <1>1, <1>2, Euclid
  <2>4. NewestFirst[n] = <<1 + ((n - 1) % NumKeys), MaxTime - ((n - 1) \div NumKeys)>>
    <3> HIDE DEF n
    <3> QED
      BY <2>1 DEF NewestFirst
  <2> HIDE DEF n
  <2> QED
    BY <1>1, <1>2, <2>1, <2>2, <2>3, <2>4
<1>6. Entries \in Nat
  BY <1>1, <1>2, <1>3, Numbered
<1> QED
  BY <1>4, <1>5, <1>6

\* The names are finitely many.
LEMMA FiniteIds == IsFiniteSet(Ids)
<1>1. IsFiniteSet(Keys) /\ IsFiniteSet(0..MaxTime)
  BY NamesAssumption, PolicyAssumption, FS_Interval DEF Keys
<1> QED
  BY <1>1, FS_Product DEF Ids

\* The next entry is one of those that are left.
LEMMA FirstIsOne ==
    ASSUME NEW ids \in SUBSET Ids, ids # {}
    PROVE  FirstOf(ids) \in ids
<1> DEFINE N == {n \in 1..Entries : ByName[n] \in ids}
<1>1. N \in SUBSET Nat /\ N # {}
  BY Ordered
<1>2. \E m \in N : \A k \in N : m <= k
  <2> HIDE DEF N
  <2> QED
    BY <1>1, Least
<1>3. Min(N) \in N
  <2> HIDE DEF N
  <2> QED
    BY <1>2 DEF Min
<1> QED
  BY <1>3 DEF FirstOf

\* Who is kept after each name, and what the last of them is.
IsKept(k, store, first, order, ids) ==
    k = [n \in 0..Entries |->
            IF n = 0 THEN first
            ELSE IF order[n] \in ids THEN StaysBeside(store, k[n - 1], order[n])
            ELSE k[n - 1]]

LEMMA KeptExists ==
    ASSUME NEW store, NEW first \in SUBSET Ids, NEW order, NEW ids \in SUBSET Ids,
           Entries \in Nat
    PROVE  \E k \in [0..Entries -> SUBSET Ids] : IsKept(k, store, first, order, ids)
<1> DEFINE D == 0..Entries
           Body(k, n) == IF n = 0 THEN first
                         ELSE IF order[n] \in ids THEN StaysBeside(store, k[n - 1], order[n])
                         ELSE k[n - 1]
           G == {m \in Nat : \E k \in [D -> SUBSET Ids] : \A n \in D : n <= m => k[n] = Body(k, n)}
<1>1. ASSUME NEW k \in [D -> SUBSET Ids], NEW n \in D
      PROVE  Body(k, n) \in SUBSET Ids
  <2>1. CASE n # 0
    <3>1. k[n - 1] \in SUBSET Ids
      BY <2>1
    <3> QED
      BY <2>1, <3>1 DEF StaysBeside
  <2> QED
    BY <2>1
<1>2. 0 \in G
  <2> DEFINE k == [n \in D |-> first]
  <2>1. k \in [D -> SUBSET Ids] /\ \A n \in D : n <= 0 => k[n] = Body(k, n)
    OBVIOUS
  <2> QED
    BY <2>1
<1>3. ASSUME NEW m \in Nat, m \in G
      PROVE  m + 1 \in G
  <2>1. PICK k \in [D -> SUBSET Ids] : \A n \in D : n <= m => k[n] = Body(k, n)
    BY <1>3
  <2> DEFINE h == [n \in D |-> IF n <= m THEN k[n] ELSE Body(k, n)]
  <2>2. h \in [D -> SUBSET Ids]
    <3> HIDE DEF Body
    <3> QED
      BY <1>1
  <2>3. ASSUME NEW n \in D, n <= m + 1
        PROVE  h[n] = Body(h, n)
    <3>1. h[n] = Body(k, n)
      <4> HIDE DEF Body
      <4> QED
        BY <2>1
    <3>2. n # 0 => n - 1 \in D /\ n - 1 <= m
      BY <2>3
    <3>3. n # 0 => h[n - 1] = k[n - 1]
      BY <3>2
    <3> HIDE DEF h
    <3> QED
      BY <3>1, <3>3
  <2>4. m + 1 \in Nat
    OBVIOUS
  <2> HIDE DEF Body, h
  <2> QED
    BY <2>2, <2>3, <2>4
<1>4. Entries \in G
  <2>1. Nat \subseteq G
    <3> HIDE DEF G
    <3> QED
      BY <1>2, <1>3, Induction
  <2> HIDE DEF G
  <2> QED
    BY <2>1
<1>5. PICK k \in [D -> SUBSET Ids] : \A n \in D : n <= Entries => k[n] = Body(k, n)
  BY <1>4
<1>6. k = [n \in D |-> Body(k, n)]
  <2>1. \A n \in D : k[n] = Body(k, n)
    BY <1>5
  <2> HIDE DEF Body
  <2> QED
    BY <2>1
<1> QED
  BY <1>6 DEF IsKept

\* Whatever the order: those that come first stay, no one comes from outside,
\* the quota is kept, and who goes does not fit beside those that stay.
LEMMA FittingKeeps ==
    ASSUME NEW store, NEW first \in SUBSET Ids, NEW order, NEW ids \in SUBSET Ids,
           \A id \in ids : \E n \in 1..Entries : order[n] = id,
           \A id \in first \cup ids : store[id] \in Nat
    PROVE  /\ first \subseteq Fitting(store, first, order, ids)
           /\ Fitting(store, first, order, ids) \subseteq first \cup ids
           /\ Bytes(store, first) <= MaxBytes =>
                 Bytes(store, Fitting(store, first, order, ids)) <= MaxBytes
           /\ \A id \in ids \ Fitting(store, first, order, ids) :
                 ~(Bytes(store, Fitting(store, first, order, ids) \cup {id}) <= MaxBytes)
<1> DEFINE it == CHOOSE k : IsKept(k, store, first, order, ids)
           Good(n) == /\ first \subseteq it[n] /\ it[n] \subseteq first \cup ids
                      /\ Bytes(store, first) <= MaxBytes => Bytes(store, it[n]) <= MaxBytes
                      /\ \A m \in 1..n : order[m] \in ids \ it[n] =>
                            ~(Bytes(store, it[n] \cup {order[m]}) <= MaxBytes)
           G == {n \in Nat : n <= Entries => Good(n)}
<1>1. Entries \in Nat
  BY NamesAssumption, PolicyAssumption DEF Entries
<1>2. IsKept(it, store, first, order, ids)
  BY <1>1, KeptExists
<1>3. Fitting(store, first, order, ids) = it[Entries]
  BY DEF Fitting, IsKept
<1> HIDE DEF it
<1>4. ASSUME NEW n \in 0..Entries
      PROVE  it[n] = IF n = 0 THEN first
                     ELSE IF order[n] \in ids THEN StaysBeside(store, it[n - 1], order[n])
                     ELSE it[n - 1]
  BY <1>2 DEF IsKept
<1>5. 0 \in G
  BY <1>1, <1>4
<1>6. ASSUME NEW n \in Nat, n \in G
      PROVE  n + 1 \in G
  <2> SUFFICES ASSUME n + 1 <= Entries PROVE Good(n + 1)
    OBVIOUS
  <2> DEFINE o == order[n + 1]
  <2>1. Good(n)
    BY <1>1, <1>6
  <2>2. it[n + 1] = IF o \in ids /\ Bytes(store, it[n] \cup {o}) <= MaxBytes
                    THEN it[n] \cup {o} ELSE it[n]
    <3>1. n + 1 \in 0..Entries /\ n + 1 # 0 /\ (n + 1) - 1 = n
      BY <1>1
    <3> QED
      BY <1>4, <3>1 DEF StaysBeside
  <2>3. /\ first \subseteq it[n + 1] /\ it[n + 1] \subseteq first \cup ids
        /\ Bytes(store, first) <= MaxBytes => Bytes(store, it[n + 1]) <= MaxBytes
    BY <2>1, <2>2
  <2>4. ASSUME NEW m \in 1..(n + 1), order[m] \in ids \ it[n + 1]
        PROVE  ~(Bytes(store, it[n + 1] \cup {order[m]}) <= MaxBytes)
    <3>1. CASE m = n + 1
      BY <2>2, <2>4, <3>1
    <3>2. CASE m # n + 1
      <4> DEFINE S == it[n + 1] \cup {order[m]}
                 T == it[n] \cup {order[m]}
      <4>1. m \in 1..n /\ order[m] \in ids \ it[n]
        BY <2>2, <2>4, <3>2
      <4>2. ~(Bytes(store, T) <= MaxBytes)
        BY <2>1, <4>1
      <4>3. T \in SUBSET S /\ S \in SUBSET Ids /\ \A x \in S : store[x] \in Nat
        BY <2>2, <2>3, <2>4
      <4>4. IsFiniteSet(S) /\ IsFiniteSet(T)
        <5> HIDE DEF S, T
        <5> QED
          BY <4>3, FiniteIds, FS_Subset
      <4>5. \A x \in S : store[x] \in Int
        BY <4>3
      <4>6. \A x \in T : store[x] \in Int
        BY <4>3
      <4> HIDE DEF S, T
      <4>7. Bytes(store, T) <= Bytes(store, S)
        BY <4>3, <4>4, BytesPart
      <4>8. Bytes(store, T) \in Int
        BY <4>4, <4>6, BytesStep
      <4>9. Bytes(store, S) \in Int
        BY <4>4, <4>5, BytesStep
      <4>10. MaxBytes \in Nat
        BY PolicyAssumption
      <4>11. ~(Bytes(store, S) <= MaxBytes)
        BY <4>2, <4>7, <4>8, <4>9, <4>10
      <4> QED
        BY <4>11 DEF S
    <3> QED
      BY <3>1, <3>2
  <2> QED
    BY <2>3, <2>4
<1>7. Good(Entries)
  <2>1. Nat \subseteq G
    <3> HIDE DEF G
    <3> QED
      BY <1>5, <1>6, Induction
  <2>2. Entries \in G
    <3> HIDE DEF G
    <3> QED
      BY <1>1, <2>1
  <2> QED
    BY <1>1, <2>2
<1>8. ASSUME NEW id \in ids \ it[Entries]
      PROVE  ~(Bytes(store, it[Entries] \cup {id}) <= MaxBytes)
  <2>1. PICK n \in 1..Entries : order[n] = id
    OBVIOUS
  <2> QED
    BY <1>7, <2>1
<1> QED
  BY <1>3, <1>7, <1>8

\* The sum over a set of names is monotone.
LEMMA BytesMore ==
    ASSUME NEW store, NEW S \in SUBSET Ids, NEW T \in SUBSET S, \A id \in S : store[id] \in Nat
    PROVE  /\ Bytes(store, T) \in Nat /\ Bytes(store, S) \in Nat
           /\ Bytes(store, T) <= Bytes(store, S)
<1>1. IsFiniteSet(S) /\ IsFiniteSet(T)
  BY FiniteIds, FS_Subset
<1>2. \A x \in S : store[x] \in Int
  OBVIOUS
<1>3. \A x \in T : store[x] \in Int
  OBVIOUS
<1>4. Bytes(store, T) \in Int /\ Bytes(store, S) \in Int
  BY <1>1, <1>2, <1>3, BytesStep
<1>5. 0 <= Bytes(store, T) /\ Bytes(store, T) <= Bytes(store, S)
  BY <1>1, BytesPart
<1> QED
  BY <1>4, <1>5

\* What the retention admits beside those that come first.
LEMMA AdmitKeeps ==
    ASSUME NEW store, NEW first \in SUBSET Ids, NEW ids \in SUBSET Ids,
           \A id \in first \cup ids : store[id] \in Nat,
           Bytes(store, first) <= MaxBytes
    PROVE  /\ first \subseteq Admit(store, first, ids)
           /\ Admit(store, first, ids) \subseteq first \cup ids
           /\ Bytes(store, Admit(store, first, ids)) <= MaxBytes
           /\ \A id \in ids \ Admit(store, first, ids) :
                 ~(Bytes(store, Admit(store, first, ids) \cup {id}) <= MaxBytes)
           /\ \A id \in NewestPerKey(ids) \ Admit(store, first, ids) :
                 \E T \in SUBSET (first \cup (NewestPerKey(ids) \cap Admit(store, first, ids))) :
                    ~(Bytes(store, T \cup {id}) <= MaxBytes)
           /\ Bytes(store, first \cup ids) <= MaxBytes => ids \subseteq Admit(store, first, ids)
<1> DEFINE kept == Admit(store, first, ids)
<1> DEFINE best == NewestPerKey(ids)
           inner == Fitting(store, first, ByName, best)
<1>1. best \in SUBSET ids
  BY DEF NewestPerKey
<1>2. /\ first \subseteq inner /\ inner \subseteq first \cup best
      /\ Bytes(store, inner) <= MaxBytes
      /\ \A id \in best \ inner : ~(Bytes(store, inner \cup {id}) <= MaxBytes)
  <2>1. \A id \in best : \E n \in 1..Entries : ByName[n] = id
    BY <1>1, Ordered
  <2>2. best \in SUBSET Ids /\ \A id \in first \cup best : store[id] \in Nat
    BY <1>1
  <2> HIDE DEF best
  <2> QED
    BY <2>1, <2>2, FittingKeeps
<1> HIDE DEF best, inner, kept
<1>3. /\ inner \subseteq kept /\ kept \subseteq inner \cup ids
      /\ Bytes(store, kept) <= MaxBytes
      /\ \A id \in ids \ kept : ~(Bytes(store, kept \cup {id}) <= MaxBytes)
  <2>1. \A id \in ids : \E n \in 1..Entries : NewestFirst[n] = id
    BY Ordered
  <2>2. inner \in SUBSET Ids /\ \A id \in inner \cup ids : store[id] \in Nat
    BY <1>1, <1>2
  <2>3. kept = Fitting(store, inner, NewestFirst, ids)
    BY DEF Admit, inner, best, kept
  <2> QED
    BY <1>2, <2>1, <2>2, <2>3, FittingKeeps
<1>4. first \subseteq kept /\ kept \subseteq first \cup ids
  BY <1>1, <1>2, <1>3
<1>5. ASSUME NEW id \in best \ kept
      PROVE  \E T \in SUBSET (first \cup (best \cap kept)) :
                ~(Bytes(store, T \cup {id}) <= MaxBytes)
  <2>1. inner \in SUBSET (first \cup (best \cap kept))
    BY <1>2, <1>3
  <2>2. ~(Bytes(store, inner \cup {id}) <= MaxBytes)
    BY <1>2, <1>3
  <2> QED
    BY <2>1, <2>2
<1>6. ASSUME Bytes(store, first \cup ids) <= MaxBytes, NEW id \in ids, id \notin kept
      PROVE  FALSE
  <2> DEFINE S == first \cup ids
             T == kept \cup {id}
  <2>1. S \in SUBSET Ids /\ T \in SUBSET S /\ \A x \in S : store[x] \in Nat
    BY <1>4
  <2>2. ~(Bytes(store, T) <= MaxBytes) /\ Bytes(store, S) <= MaxBytes /\ MaxBytes \in Nat
    BY <1>3, <1>6, PolicyAssumption
  <2> HIDE DEF S, T
  <2>3. /\ Bytes(store, T) \in Nat /\ Bytes(store, S) \in Nat
        /\ Bytes(store, T) <= Bytes(store, S)
    BY <2>1, BytesMore
  <2> QED
    BY <2>2, <2>3
<1> QED
  BY <1>3, <1>4, <1>5, <1>6 DEF best, kept

\* The slots of a key are as many as it may keep, and all its records have one
\* if they are no more than that.
LEMMA SlotsKeep ==
    ASSUME NEW ids \in SUBSET Ids, NEW id \in Ids
    PROVE  /\ Slots(ids, id) \subseteq OfKey(ids, KeyOf(id))
           /\ Cardinality(Slots(ids, id)) <= MaxRecords
           /\ Cardinality(OfKey(ids, KeyOf(id))) <= MaxRecords =>
                 Slots(ids, id) = OfKey(ids, KeyOf(id))
<1> DEFINE S == Slots(ids, id)
           K == OfKey(ids, KeyOf(id))
<1>1. S \subseteq K /\ K \subseteq Ids /\ \A i \in K : i \in ids /\ KeyOf(i) = KeyOf(id)
  BY DEF Slots, OfKey
<1>2. /\ \A T \in SUBSET Ids : IsFiniteSet(T) /\ Cardinality(T) \in Nat
      /\ \A i \in Ids : Newer(ids, i) \in SUBSET Ids /\ Cardinality(Newer(ids, i)) \in Nat
  BY FiniteIds, FS_Subset, FS_CardinalityType DEF Newer
<1>3. MaxRecords \in Nat \ {0} /\ \A i \in Ids : TimeOf(i) \in Nat /\ i = <<KeyOf(i), TimeOf(i)>>
  BY PolicyAssumption DEF Ids, TimeOf, KeyOf
<1>4. Cardinality(S) <= MaxRecords
  <2>1. CASE S = {}
    BY <1>3, <2>1, FS_EmptySet
  <2>2. CASE S # {}
    <3> DEFINE N == {TimeOf(i) : i \in S}
    <3>1. N \in SUBSET Nat /\ N # {}
      BY <1>1, <1>3, <2>2
    <3>2. PICK t \in N : \A u \in N : t <= u
      <4> HIDE DEF N
      <4> QED
        BY <3>1, Least
    <3>3. PICK i \in S : TimeOf(i) = t
      OBVIOUS
    <3>4. \A j \in S : t <= TimeOf(j)
      BY <3>2
    <3>5. ASSUME NEW j \in S \ {i}
          PROVE  j \in Newer(ids, i)
      <4>1. /\ j \in Ids /\ i \in Ids /\ j # i /\ KeyOf(j) = KeyOf(i) /\ j \in ids
            /\ TimeOf(i) <= TimeOf(j)
        BY <1>1, <3>3, <3>4
      <4>2. TimeOf(i) # TimeOf(j)
        BY <1>3, <4>1
      <4>3. TimeOf(j) > TimeOf(i)
        BY <1>3, <4>1, <4>2
      <4> QED
        BY <4>1, <4>3 DEF Newer
    <3>6. Cardinality(Newer(ids, i)) < MaxRecords /\ i \in Ids
      BY <1>1 DEF Slots
    <3> HIDE DEF S, N
    <3>7. S \in SUBSET Ids /\ S \ {i} \in SUBSET Newer(ids, i)
      BY <1>1, <3>5
    <3>8. Cardinality(S \ {i}) = Cardinality(S) - 1
      BY <1>2, <3>7, <3>3, FS_RemoveElement
    <3>9. Cardinality(S \ {i}) <= Cardinality(Newer(ids, i))
      BY <1>2, <3>6, <3>7, FS_Subset
    <3>10. Cardinality(S) \in Nat /\ Cardinality(Newer(ids, i)) \in Nat
      BY <1>2, <3>6, <3>7
    <3> QED
      BY <1>3, <3>6, <3>8, <3>9, <3>10
  <2> QED
    BY <2>1, <2>2
<1>5. ASSUME Cardinality(K) <= MaxRecords, NEW i \in K
      PROVE  i \in S
  <2>1. Newer(ids, i) \in SUBSET (K \ {i})
    <3>1. \A j \in Newer(ids, i) : j \in K /\ TimeOf(j) > TimeOf(i) /\ TimeOf(i) \in Nat
      BY <1>1, <1>3 DEF Newer, OfKey
    <3>2. i \notin Newer(ids, i)
      BY <3>1
    <3> HIDE DEF K
    <3> QED
      BY <3>1, <3>2
  <2>2. K \in SUBSET Ids /\ i \in Ids
    BY <1>1
  <2>3. i \in OfKey(ids, KeyOf(id))
    OBVIOUS
  <2> HIDE DEF K, S
  <2>4. Cardinality(K \ {i}) = Cardinality(K) - 1 /\ Cardinality(K) \in Nat
    BY <1>2, <2>2, FS_RemoveElement
  <2>5. Cardinality(Newer(ids, i)) <= Cardinality(K \ {i}) /\ Cardinality(Newer(ids, i)) \in Nat
    BY <1>2, <2>1, <2>2, FS_Subset
  <2>6. Cardinality(Newer(ids, i)) < MaxRecords
    BY <1>3, <1>5, <2>4, <2>5
  <2> QED
    BY <2>3, <2>6 DEF S, Slots
<1> QED
  BY <1>1, <1>4, <1>5

-----------------------------------------------------------------------------
(***************************************************************************)
(* Types, locks and roles                                                  *)
(***************************************************************************)

Steps == Ended \cup {"lock", "reserve", "publish", "enforce", "plan", "remove",
            "settle", "lockSource", "preflight", "next", "load", "unlink"}

LEMMA Names ==
    /\ Nothing = 0 /\ 0 \notin Sizes /\ MaxBytes \in Nat
    /\ \A n \in Sizes : n \in Nat /\ n \in Int /\ n > 0
BY NamesAssumption, PolicyAssumption DEF Nothing

LEMMA InitHolds == Init => IInv
<1> SUFFICES ASSUME Init PROVE IInv
  OBVIOUS
<1>1. src \in Stores /\ dst \in Stores /\ \A k \in Keys : src[<<k, 0>>] \notin Sizes /\ dst[<<k, 0>>] \notin Sizes
  BY ContentsAssumption DEF Init
<1>2. TypeOK
  BY <1>1, PolicyAssumption DEF Init, TypeOK, Ended
<1>3. Locks /\ Roles
  BY ProcsAssumption DEF Init, Locks, Roles, UnderLock, Inside
<1>4. Kept
  BY DEF Init, Kept, Claims
<1>5. ASSUME NEW p \in Procs
      PROVE  Own(p)
  BY DEF Init, Own, Batched, Made, Published, Fits, Retiring, Restored, Through,
         Moving, Inside, Recording, UnderLock
<1> QED
  BY <1>1, <1>2, <1>3, <1>4, <1>5 DEF IInv, Temporaries

LEMMA GoTypes ==
    ASSUME TypeOK, NEW p \in Procs, NEW s \in Steps, Go(p, s)
    PROVE  pc' \in [Procs -> Steps]
BY DEF Go, TypeOK, Steps

LEMMA UnlockTypes ==
    ASSUME TypeOK, NEW p \in Procs, Unlock(p)
    PROVE  srcLock' \in Procs \cup {"nobody"} /\ dstLock' \in Procs \cup {"nobody"}
BY DEF Unlock, TypeOK

LEMMA EndTypes ==
    ASSUME TypeOK, NEW p \in Procs, NEW how \in Ended, End(p, how)
    PROVE  TypeOK'
<1>1. pc' \in [Procs -> Steps]
  BY GoTypes DEF End, Steps
<1> QED
  BY <1>1, UnlockTypes DEF End, TypeOK, Steps, disk, work, history

LEMMA DisturbTypes ==
    ASSUME TypeOK, NEW p \in Procs, Disturb(p)
    PROVE  disturbed' \in [Procs -> BOOLEAN]
BY DEF Disturb, TypeOK

LEMMA DropTypes ==
    ASSUME TypeOK, NEW p \in Procs, todo[p] # {}, Drop(p, FirstOf(todo[p]))
    PROVE  /\ FirstOf(todo[p]) \in todo[p] /\ FirstOf(todo[p]) \in Ids
           /\ dst' \in Stores /\ todo' \in [Procs -> SUBSET Ids]
           /\ disturbed' \in [Procs -> BOOLEAN]
<1>1. FirstOf(todo[p]) \in todo[p] /\ todo[p] \in SUBSET Ids
  BY FirstIsOne DEF TypeOK
<1>2. dst' \in Stores
  BY DEF Drop, TypeOK, Stores
<1>3. todo' \in [Procs -> SUBSET Ids]
  BY DEF Drop, TypeOK
<1>4. disturbed' \in [Procs -> BOOLEAN]
  BY DisturbTypes DEF Drop
<1> QED
  BY <1>1, <1>2, <1>3, <1>4

LEMMA DecideTypes ==
    ASSUME TypeOK, NEW p \in Procs, NEW ids \in SUBSET Ids, Decide(p, ids)
    PROVE  TypeOK'
<1>1. pc' \in [Procs -> Steps]
  BY GoTypes DEF Decide, Steps
<1>2. todo' \in [Procs -> SUBSET Ids] /\ before' \in [Procs -> Stores]
  BY DEF Decide, TypeOK
<1>3. excused' \in [Procs -> SUBSET Ids]
  BY DEF Decide, TypeOK
<1> QED
  BY <1>1, <1>2, <1>3 DEF Decide, TypeOK, Steps, disk, locks

LEMMA LeaveTypes ==
    ASSUME TypeOK, NEW p \in Procs, Own(p), Roles, pc[p] = "unlink", Leave(p)
    PROVE  /\ src' \in Stores /\ batch' \in [Procs -> SUBSET Ids]
           /\ obsolete' \in [Procs -> SUBSET Ids] /\ moved' \in [Procs -> SUBSET (Ids \X Sizes)]
<1>1. src' \in Stores
  BY DEF Leave, TypeOK, Stores
<1>2. batch' \in [Procs -> SUBSET Ids] /\ obsolete' \in [Procs -> SUBSET Ids]
  BY DEF Leave, TypeOK
<1>3. Moving(p)
  BY DEF Roles, Moving, Inside, Ended
<1>4. item[p] \in batch[p] => item[p] \in Ids /\ size[p] \in Sizes
  BY <1>3 DEF Own, Made, Batched, TypeOK
<1>5. moved' \in [Procs -> SUBSET (Ids \X Sizes)]
  <2>1. CASE item[p] \in batch[p]
    <3>1. moved' = [moved EXCEPT ![p] = @ \cup {<<item[p], size[p]>>}]
      BY <2>1 DEF Leave
    <3>2. <<item[p], size[p]>> \in Ids \X Sizes
      BY <1>4, <2>1
    <3>3. moved \in [Procs -> SUBSET (Ids \X Sizes)]
      BY DEF TypeOK
    <3> QED
      BY <3>1, <3>2, <3>3
  <2>2. CASE item[p] \notin batch[p]
    BY <2>2 DEF Leave, TypeOK
  <2> QED
    BY <2>1, <2>2
<1> QED
  BY <1>1, <1>2, <1>5

LEMMA TypesStep == IInv /\ [Next]_vars => TypeOK'
<1> SUFFICES ASSUME IInv, [Next]_vars PROVE TypeOK'
  OBVIOUS
<1>0. TypeOK /\ Roles /\ \A p \in Procs : Own(p)
  BY DEF IInv
<1>1. CASE UNCHANGED vars
  BY <1>0, <1>1 DEF TypeOK, vars, disk, locks, work, history
<1>2. CASE Tick
  <2>1. now' \in 1..MaxTime /\ mishaps' \in 0..MaxMishaps
    BY <1>0, <1>2, PolicyAssumption DEF Tick, Mishap, TypeOK
  <2>2. calm' \in [Procs -> BOOLEAN] /\ sound' \in [Procs -> BOOLEAN]
    BY <1>0, <1>2 DEF Tick, TypeOK
  <2> QED
    BY <1>0, <1>2, <2>1, <2>2 DEF Tick, TypeOK, disk, locks, work
<1>3. ASSUME NEW p \in Procs, Begin(p) PROVE TypeOK'
  <2>1. pc' \in [Procs -> Steps]
    BY <1>0, <1>3, GoTypes DEF Begin, Steps
  <2>2. ops' \in 0..MaxOps
    BY <1>0, <1>3, PolicyAssumption DEF Begin, TypeOK
  <2>3. /\ op' \in [Procs -> {"none", "record", "prune", "clear", "migrate"}]
        /\ item' \in [Procs -> Ids \cup {NoItem}] /\ size' \in [Procs -> Sizes \cup {0}]
    <3>1. Keys \X (1..now) \subseteq Ids
      <4>1. 1..now \subseteq 0..MaxTime
        BY <1>0, PolicyAssumption DEF TypeOK
      <4> QED
        BY <4>1 DEF Ids
    <3> QED
      BY <1>0, <1>3, <3>1 DEF Begin, Ask, TypeOK
  <2>4. /\ todo' \in [Procs -> SUBSET Ids] /\ batch' \in [Procs -> SUBSET Ids]
        /\ obsolete' \in [Procs -> SUBSET Ids] /\ excused' \in [Procs -> SUBSET Ids]
        /\ moved' \in [Procs -> SUBSET (Ids \X Sizes)]
    BY <1>0, <1>3 DEF Begin, TypeOK
  <2>5. calm' \in [Procs -> BOOLEAN] /\ disturbed' \in [Procs -> BOOLEAN] /\ sound' \in [Procs -> BOOLEAN]
    BY <1>0, <1>3 DEF Begin, TypeOK
  <2> QED
    BY <1>0, <1>3, <2>1, <2>2, <2>3, <2>4, <2>5 DEF Begin, TypeOK, Steps, disk, locks
<1>4. ASSUME NEW p \in Procs, Lock(p) PROVE TypeOK'
  <2>1. pc' \in [Procs -> Steps]
    BY <1>0, <1>4, GoTypes DEF Lock, Steps
  <2> QED
    BY <1>0, <1>4, <2>1 DEF Lock, TypeOK, Steps, disk, work, history
<1>5. ASSUME NEW p \in Procs, Reserve(p) PROVE TypeOK'
  <2>1. CASE End(p, "failed")
    BY <1>0, <2>1, EndTypes DEF Ended
  <2>2. CASE ~End(p, "failed")
    <3>1. pc' \in [Procs -> Steps]
      BY <1>0, <1>5, <2>2, GoTypes DEF Reserve, Steps
    <3> QED
      BY <1>0, <1>5, <2>2, <3>1 DEF Reserve, TypeOK, Steps, disk, locks, work, history
  <2> QED
    BY <2>1, <2>2
<1>6. ASSUME NEW p \in Procs, Publish(p) PROVE TypeOK'
  <2>1. pc' \in [Procs -> Steps] /\ disturbed' \in [Procs -> BOOLEAN]
    BY <1>0, <1>6, GoTypes, DisturbTypes DEF Publish, Steps
  <2>2. dst' \in Stores
    BY <1>0, <1>6, Names DEF Publish, TypeOK, Stores
  <2> QED
    BY <1>0, <1>6, <2>1, <2>2 DEF Publish, TypeOK, Steps, locks, work
<1>7. ASSUME NEW p \in Procs, Enforce(p) PROVE TypeOK'
  <2>1. RecordPlan(dst, item[p]) \in SUBSET Ids
    BY DEF RecordPlan, Safe
  <2> QED
    BY <1>0, <1>7, <2>1, EndTypes, DecideTypes DEF Enforce, Ended
<1>8. ASSUME NEW p \in Procs, Settle(p) PROVE TypeOK'
  <2>1. CASE End(p, "failed") \/ End(p, "ok")
    BY <1>0, <2>1, EndTypes DEF Ended
  <2>2. CASE ~(End(p, "failed") \/ End(p, "ok"))
    <3>1. pc' \in [Procs -> Steps]
      BY <1>0, <1>8, <2>2, GoTypes DEF Settle, Steps
    <3> QED
      BY <1>0, <1>8, <2>2, <3>1 DEF Settle, TypeOK, Steps, disk, work, history
  <2> QED
    BY <2>1, <2>2
<1>9. ASSUME NEW p \in Procs, Plan(p) PROVE TypeOK'
  <2>1. (IF op[p] = "prune" THEN PrunePlan(dst) ELSE Safe(dst)) \in SUBSET Ids
    BY DEF PrunePlan, Safe
  <2> QED
    BY <1>0, <1>9, <2>1, DecideTypes DEF Plan
<1>10. ASSUME NEW p \in Procs, RemoveNext(p) PROVE TypeOK'
  <2>1. dst' \in Stores /\ todo' \in [Procs -> SUBSET Ids] /\ disturbed' \in [Procs -> BOOLEAN]
    BY <1>0, <1>10, DropTypes DEF RemoveNext
  <2> QED
    BY <1>0, <1>10, <2>1 DEF RemoveNext, TypeOK, locks
<1>11. ASSUME NEW p \in Procs, RemovedAll(p) PROVE TypeOK'
  <2>1. CASE End(p, "ok")
    BY <1>0, <2>1, EndTypes DEF Ended
  <2>2. CASE ~End(p, "ok")
    <3>1. pc' \in [Procs -> Steps]
      BY <1>0, <1>11, <2>2, GoTypes DEF RemovedAll, Steps
    <3> QED
      BY <1>0, <1>11, <2>2, <3>1 DEF RemovedAll, TypeOK, Steps, disk, locks, work, history
  <2> QED
    BY <2>1, <2>2
<1>12. ASSUME NEW p \in Procs, LockSource(p) PROVE TypeOK'
  <2>1. pc' \in [Procs -> Steps]
    BY <1>0, <1>12, GoTypes DEF LockSource, Steps
  <2> QED
    BY <1>0, <1>12, <2>1 DEF LockSource, TypeOK, Steps, disk, work, history
<1>13. ASSUME NEW p \in Procs, Preflight(p) PROVE TypeOK'
  <2>1. CASE End(p, "failed")
    BY <1>0, <2>1, EndTypes DEF Ended
  <2>2. CASE ~End(p, "failed")
    <3>1. pc' \in [Procs -> Steps]
      BY <1>0, <1>13, <2>2, GoTypes DEF Preflight, Steps
    <3>2. batch' \in [Procs -> SUBSET Ids] /\ obsolete' \in [Procs -> SUBSET Ids]
      <4>1. Valid(src) \in SUBSET Ids /\ Safe(src) \in SUBSET Ids
        BY DEF Valid, Safe
      <4> HIDE DEF Valid, Safe
      <4> QED
        BY <1>0, <1>13, <2>2, <4>1 DEF Preflight, TypeOK
    <3>3. sound' \in [Procs -> BOOLEAN] /\ disturbed' \in [Procs -> BOOLEAN]
      BY <1>0, <1>13, <2>2 DEF Preflight, TypeOK
    <3> QED
      BY <1>0, <1>13, <2>2, <3>1, <3>2, <3>3 DEF Preflight, TypeOK, Steps, disk, locks
  <2> QED
    BY <2>1, <2>2
<1>14. ASSUME NEW p \in Procs, NextEntry(p) PROVE TypeOK'
  <2> DEFINE left == batch[p] \cup obsolete[p]
             id == FirstOf(left)
  <2>1. CASE End(p, "ok") \/ End(p, "failed")
    BY <1>0, <2>1, EndTypes DEF Ended
  <2>2. CASE ~(End(p, "ok") \/ End(p, "failed"))
    <3>1. pc' \in [Procs -> Steps]
      BY <1>0, <1>14, <2>2, GoTypes DEF NextEntry, Steps
    <3>2. /\ left # {} /\ Ask(p, id, IF id \in batch[p] THEN src[id] ELSE 0)
          /\ ~(id \in batch[p] /\ (TimeOf(id) > now \/ Expired(id)))
          /\ UNCHANGED <<disk, now, locks, op, todo, batch, obsolete, history>>
      BY <1>14, <2>2 DEF NextEntry
    <3>3. id \in left /\ left \in SUBSET Ids
      BY <1>0, <3>2, FirstIsOne DEF TypeOK
    <3>4. id \in batch[p] => src[id] \in Sizes
      <4>1. pc[p] = "next" /\ Moving(p)
        BY <1>0, <1>14 DEF NextEntry, Roles, Moving, Inside, Ended
      <4> QED
        BY <1>0, <4>1 DEF Own, Batched
    <3> HIDE DEF left, id
    <3>5. item' \in [Procs -> Ids \cup {NoItem}] /\ size' \in [Procs -> Sizes \cup {0}]
      BY <1>0, <3>2, <3>3, <3>4 DEF Ask, TypeOK
    <3> QED
      BY <1>0, <3>1, <3>2, <3>5 DEF TypeOK, Steps, disk, locks, history
  <2> QED
    BY <2>1, <2>2
<1>15. ASSUME NEW p \in Procs, Load(p) PROVE TypeOK'
  <2>1. CASE End(p, "failed")
    BY <1>0, <2>1, EndTypes DEF Ended
  <2>2. CASE ~End(p, "failed")
    <3>1. pc' \in [Procs -> Steps]
      BY <1>0, <1>15, <2>2, GoTypes DEF Load, Steps
    <3> QED
      BY <1>0, <1>15, <2>2, <3>1 DEF Load, TypeOK, Steps, disk, locks, work, history
  <2> QED
    BY <2>1, <2>2
<1>16. ASSUME NEW p \in Procs, Unlink(p) PROVE TypeOK'
  <2>1. pc' \in [Procs -> Steps]
    BY <1>0, <1>16, GoTypes DEF Unlink, Steps
  <2>2. /\ src' \in Stores /\ batch' \in [Procs -> SUBSET Ids]
        /\ obsolete' \in [Procs -> SUBSET Ids] /\ moved' \in [Procs -> SUBSET (Ids \X Sizes)]
    BY <1>0, <1>16, LeaveTypes DEF Unlink
  <2> QED
    BY <1>0, <1>16, <2>1, <2>2 DEF Unlink, TypeOK, Steps, locks
<1>17. ASSUME NEW p \in Procs, Fail(p) PROVE TypeOK'
  <2>1. /\ pc' \in [Procs -> Steps]
        /\ srcLock' \in Procs \cup {"nobody"} /\ dstLock' \in Procs \cup {"nobody"}
    BY <1>0, <1>17, GoTypes, UnlockTypes DEF Fail, Steps, Ended
  <2>2. mishaps' \in 0..MaxMishaps /\ calm' \in [Procs -> BOOLEAN]
    BY <1>0, <1>17, PolicyAssumption DEF Fail, Mishap, TypeOK
  <2>3. /\ src' \in Stores /\ dst' \in Stores /\ todo' \in [Procs -> SUBSET Ids]
        /\ batch' \in [Procs -> SUBSET Ids] /\ obsolete' \in [Procs -> SUBSET Ids]
        /\ moved' \in [Procs -> SUBSET (Ids \X Sizes)] /\ excused' \in [Procs -> SUBSET Ids]
        /\ disturbed' \in [Procs -> BOOLEAN]
    <3>1. CASE UNCHANGED <<disk, todo, batch, obsolete, moved, excused, disturbed>>
      BY <1>0, <3>1 DEF TypeOK, disk
    <3>2. CASE /\ pc[p] = "publish" /\ Disturb(p)
               /\ \/ dst' = [dst EXCEPT ![item[p]] = size[p]]
                  \/ dst' = [dst EXCEPT ![<<KeyOf(item[p]), 0>>] = Broken]
               /\ UNCHANGED <<src, todo, batch, obsolete, moved, excused>>
      <4>1. dst' \in Stores
        BY <1>0, <3>2, Names DEF TypeOK, Stores
      <4>2. disturbed' \in [Procs -> BOOLEAN]
        BY <1>0, <3>2, DisturbTypes
      <4> QED
        BY <1>0, <3>2, <4>1, <4>2 DEF TypeOK
    <3>3. CASE /\ pc[p] = "remove" /\ todo[p] # {}
               /\ Drop(p, FirstOf(todo[p]))
               /\ UNCHANGED <<src, batch, obsolete, moved, excused>>
      <4>1. dst' \in Stores /\ todo' \in [Procs -> SUBSET Ids] /\ disturbed' \in [Procs -> BOOLEAN]
        BY <1>0, <3>3, DropTypes
      <4> QED
        BY <1>0, <3>3, <4>1 DEF TypeOK
    <3>4. CASE pc[p] = "unlink" /\ Leave(p) /\ UNCHANGED <<dst, todo, excused, disturbed>>
      <4>1. /\ src' \in Stores /\ batch' \in [Procs -> SUBSET Ids]
            /\ obsolete' \in [Procs -> SUBSET Ids] /\ moved' \in [Procs -> SUBSET (Ids \X Sizes)]
        BY <1>0, <3>4, LeaveTypes
      <4> QED
        BY <1>0, <3>4, <4>1 DEF TypeOK
    <3> QED
      BY <1>17, <3>1, <3>2, <3>3, <3>4 DEF Fail
  <2> QED
    BY <1>0, <1>17, <2>1, <2>2, <2>3 DEF Fail, TypeOK, Steps
<1> QED
  BY <1>1, <1>2, <1>3, <1>4, <1>5, <1>6, <1>7, <1>8, <1>9, <1>10, <1>11, <1>12,
     <1>13, <1>14, <1>15, <1>16, <1>17 DEF Next, Advance, Record, Retire, Migrate

\* How the locks move: nobody takes one that is held.
LEMMA LocksStep == IInv /\ [Next]_vars => Locks'
<1> SUFFICES ASSUME IInv, [Next]_vars, NEW q \in Procs
             PROVE  /\ dstLock' = q <=> pc'[q] \in UnderLock
                    /\ srcLock' = q <=> Inside(q)'
  BY DEF Locks
<1>0. TypeOK /\ Roles /\ "nobody" \notin Procs
  BY ProcsAssumption DEF IInv
<1>a. /\ dstLock = q <=> pc[q] \in UnderLock
      /\ srcLock = q <=> Inside(q)
  BY DEF IInv, Locks
<1>b. \A p \in Procs : /\ dstLock = p <=> pc[p] \in UnderLock
                       /\ srcLock = p <=> Inside(p)
  BY DEF IInv, Locks
<1>c. ASSUME NEW p \in Procs, NEW how \in Ended, End(p, how)
      PROVE  /\ dstLock' = q <=> pc'[q] \in UnderLock
             /\ srcLock' = q <=> Inside(q)'
  BY <1>0, <1>a, <1>c DEF End, Go, Unlock, TypeOK, UnderLock, Inside, Ended, work
<1>d. ASSUME NEW p \in Procs, NEW s \in Steps \ Ended, Go(p, s), pc[p] \notin Ended,
             op' = op, UNCHANGED locks, s \in UnderLock <=> pc[p] \in UnderLock,
             op[p] = "migrate" => (s = "lockSource" <=> pc[p] = "lockSource")
      PROVE  /\ dstLock' = q <=> pc'[q] \in UnderLock
             /\ srcLock' = q <=> Inside(q)'
  BY <1>0, <1>a, <1>d DEF Go, TypeOK, Inside, locks
<1>1. CASE UNCHANGED vars
  BY <1>a, <1>1 DEF vars, locks, work, Inside
<1>2. CASE Tick
  BY <1>a, <1>2 DEF Tick, locks, work, Inside
<1>3. ASSUME NEW p \in Procs, Begin(p)
      PROVE  /\ dstLock' = q <=> pc'[q] \in UnderLock
             /\ srcLock' = q <=> Inside(q)'
  <2>1. CASE q = p
    <3>1. UNCHANGED locks /\ dstLock # p /\ srcLock # p
      BY <1>3, <1>a, <2>1 DEF Begin, Inside, Ended, UnderLock
    <3>2. /\ op'[p] \in {"record", "prune", "clear", "migrate"}
          /\ pc'[p] = IF op'[p] = "migrate" THEN "lockSource" ELSE "lock"
      BY <1>0, <1>3 DEF Begin, Go, TypeOK
    <3> QED
      BY <2>1, <3>1, <3>2 DEF Inside, UnderLock, Ended, locks
  <2>2. CASE q # p
    <3>1. pc'[q] = pc[q] /\ op'[q] = op[q] /\ UNCHANGED locks
      BY <1>0, <1>3, <2>2 DEF Begin, Go, TypeOK
    <3> QED
      BY <1>a, <3>1 DEF Inside, locks
  <2> QED
    BY <2>1, <2>2
<1>4. ASSUME NEW p \in Procs, Lock(p)
      PROVE  /\ dstLock' = q <=> pc'[q] \in UnderLock
             /\ srcLock' = q <=> Inside(q)'
  BY <1>0, <1>a, <1>4 DEF Lock, Go, TypeOK, Inside, Ended, UnderLock, work
<1>5. ASSUME NEW p \in Procs, Reserve(p)
      PROVE  /\ dstLock' = q <=> pc'[q] \in UnderLock
             /\ srcLock' = q <=> Inside(q)'
  BY <1>0, <1>5, <1>c, <1>d DEF Reserve, Steps, Ended, UnderLock, work
<1>6. ASSUME NEW p \in Procs, Publish(p)
      PROVE  /\ dstLock' = q <=> pc'[q] \in UnderLock
             /\ srcLock' = q <=> Inside(q)'
  BY <1>0, <1>6, <1>d DEF Publish, Steps, Ended, UnderLock, work
<1>7. ASSUME NEW p \in Procs, Enforce(p)
      PROVE  /\ dstLock' = q <=> pc'[q] \in UnderLock
             /\ srcLock' = q <=> Inside(q)'
  BY <1>0, <1>7, <1>c, <1>d DEF Enforce, Decide, Steps, Ended, UnderLock
<1>8. ASSUME NEW p \in Procs, Settle(p)
      PROVE  /\ dstLock' = q <=> pc'[q] \in UnderLock
             /\ srcLock' = q <=> Inside(q)'
  <2>1. CASE End(p, "failed") \/ End(p, "ok")
    BY <1>c, <2>1 DEF Ended
  <2>2. CASE ~(End(p, "failed") \/ End(p, "ok"))
    <3>1. pc[p] = "settle" /\ Go(p, "load") /\ dstLock' = "nobody" /\ srcLock' = srcLock /\ op' = op
      BY <1>8, <2>2 DEF Settle, work
    <3>2. dstLock = p
      BY <1>b, <3>1 DEF UnderLock
    <3> QED
      BY <1>0, <1>a, <3>1, <3>2 DEF Go, TypeOK, Inside, Ended, UnderLock
  <2> QED
    BY <2>1, <2>2
<1>9. ASSUME NEW p \in Procs, Plan(p)
      PROVE  /\ dstLock' = q <=> pc'[q] \in UnderLock
             /\ srcLock' = q <=> Inside(q)'
  BY <1>0, <1>9, <1>d DEF Plan, Decide, Steps, Ended, UnderLock
<1>10. ASSUME NEW p \in Procs, RemoveNext(p)
       PROVE  /\ dstLock' = q <=> pc'[q] \in UnderLock
              /\ srcLock' = q <=> Inside(q)'
  BY <1>a, <1>10 DEF RemoveNext, Inside, locks
<1>11. ASSUME NEW p \in Procs, RemovedAll(p)
       PROVE  /\ dstLock' = q <=> pc'[q] \in UnderLock
              /\ srcLock' = q <=> Inside(q)'
  BY <1>0, <1>11, <1>c, <1>d DEF RemovedAll, Steps, Ended, UnderLock, work
<1>12. ASSUME NEW p \in Procs, LockSource(p)
       PROVE  /\ dstLock' = q <=> pc'[q] \in UnderLock
              /\ srcLock' = q <=> Inside(q)'
  <2>1. op[p] = "migrate"
    BY <1>0, <1>12 DEF LockSource, Roles
  <2> QED
    BY <1>0, <1>a, <1>12, <2>1 DEF LockSource, Go, TypeOK, Inside, Ended, UnderLock, work
<1>13. ASSUME NEW p \in Procs, Preflight(p)
       PROVE  /\ dstLock' = q <=> pc'[q] \in UnderLock
              /\ srcLock' = q <=> Inside(q)'
  <2>1. CASE End(p, "failed")
    BY <1>c, <2>1 DEF Ended
  <2>2. CASE ~End(p, "failed")
    <3>1. pc[p] = "preflight" /\ Go(p, "next") /\ UNCHANGED <<locks, op>>
      BY <1>13, <2>2 DEF Preflight
    <3> QED
      BY <3>1, <1>d DEF Steps, Ended, UnderLock
  <2> QED
    BY <2>1, <2>2
<1>14. ASSUME NEW p \in Procs, NextEntry(p)
       PROVE  /\ dstLock' = q <=> pc'[q] \in UnderLock
              /\ srcLock' = q <=> Inside(q)'
  <2>1. CASE End(p, "failed") \/ End(p, "ok")
    BY <1>c, <2>1 DEF Ended
  <2>2. CASE ~(End(p, "failed") \/ End(p, "ok"))
    <3>1. pc[p] = "next" /\ (Go(p, "lock") \/ Go(p, "unlink")) /\ UNCHANGED <<locks, op>>
      BY <1>14, <2>2 DEF NextEntry
    <3> QED
      BY <3>1, <1>d DEF Steps, Ended, UnderLock
  <2> QED
    BY <2>1, <2>2
<1>15. ASSUME NEW p \in Procs, Load(p)
       PROVE  /\ dstLock' = q <=> pc'[q] \in UnderLock
              /\ srcLock' = q <=> Inside(q)'
  BY <1>0, <1>15, <1>c, <1>d DEF Load, Steps, Ended, UnderLock, work
<1>16. ASSUME NEW p \in Procs, Unlink(p)
       PROVE  /\ dstLock' = q <=> pc'[q] \in UnderLock
              /\ srcLock' = q <=> Inside(q)'
  BY <1>0, <1>16, <1>d DEF Unlink, Steps, Ended, UnderLock
<1>17. ASSUME NEW p \in Procs, Fail(p)
       PROVE  /\ dstLock' = q <=> pc'[q] \in UnderLock
              /\ srcLock' = q <=> Inside(q)'
  <2>1. Go(p, "failed") /\ Unlock(p) /\ op' = op
    BY <1>17 DEF Fail
  <2> QED
    BY <1>0, <1>a, <2>1 DEF Go, Unlock, TypeOK, Inside, Ended, UnderLock
<1> QED
  BY <1>1, <1>2, <1>3, <1>4, <1>5, <1>6, <1>7, <1>8, <1>9, <1>10, <1>11, <1>12,
     <1>13, <1>14, <1>15, <1>16, <1>17 DEF Next, Advance, Record, Retire, Migrate

\* What the roles say of one process.
RolesOf(p) ==
    /\ pc[p] = "plan" => op[p] \in {"prune", "clear"}
    /\ pc[p] \in {"reserve", "publish", "enforce", "settle"} => Recording(p)
    /\ pc[p] \in {"lockSource", "preflight", "next", "load", "unlink"} => op[p] = "migrate"
    /\ pc[p] \in {"lock", "remove"} => op[p] # "none"
    /\ op[p] \in {"prune", "clear"} => item[p] = NoItem
    /\ op[p] # "migrate" \/ pc[p] \in {"lockSource", "preflight"} => moved[p] = {} /\ ~sound[p]

LEMMA RolesStep == IInv /\ [Next]_vars => Roles'
<1> SUFFICES ASSUME IInv, [Next]_vars, NEW q \in Procs PROVE RolesOf(q)'
  BY DEF Roles, RolesOf, Recording
<1>0. TypeOK /\ RolesOf(q) /\ \A p \in Procs : RolesOf(p)
  BY DEF IInv, Roles, RolesOf, Recording
<1>a. ASSUME op'[q] = op[q], moved'[q] = moved[q], sound'[q] = sound[q] \/ ~sound'[q],
             \/ pc'[q] = pc[q] /\ item'[q] = item[q]
             \/ pc'[q] \in Ended /\ item'[q] = item[q]
      PROVE  RolesOf(q)'
  BY <1>0, <1>a DEF RolesOf, Recording, Ended
<1>b. ASSUME NEW p \in Procs, NEW s \in Steps, Go(p, s),
             UNCHANGED <<work, moved, sound>>, RolesOf(p)' \/ s \in Ended
      PROVE  RolesOf(q)'
  <2>1. CASE q # p
    BY <1>a, <1>b, <1>0, <2>1 DEF Go, TypeOK, work
  <2>2. CASE q = p
    BY <1>a, <1>b, <1>0, <2>2 DEF Go, TypeOK, work
  <2> QED
    BY <2>1, <2>2
<1>c. ASSUME NEW p \in Procs, NEW how \in Ended, End(p, how)
      PROVE  RolesOf(q)'
  BY <1>b, <1>c DEF End, Steps, history
<1>1. CASE UNCHANGED vars
  BY <1>1, <1>a DEF vars, work, history
<1>2. CASE Tick
  <2>1. sound'[q] = sound[q] \/ ~sound'[q]
    BY <1>0, <1>2 DEF Tick, TypeOK
  <2> QED
    BY <1>2, <2>1, <1>a DEF Tick, work
<1>3. ASSUME NEW p \in Procs, Begin(p) PROVE RolesOf(q)'
  <2>1. CASE q = p
    <3>1. /\ pc'[p] \in {"lockSource", "lock"}
          /\ op'[p] \in {"record", "prune", "clear", "migrate"}
          /\ pc'[p] = "lockSource" => op'[p] = "migrate"
      BY <1>0, <1>3 DEF Begin, Go, TypeOK
    <3>2. op'[p] \in {"prune", "clear"} => item'[p] = NoItem
      BY <1>0, <1>3 DEF Begin, Ask, TypeOK
    <3>3. moved'[p] = {} /\ ~sound'[p]
      BY <1>0, <1>3 DEF Begin, TypeOK
    <3> QED
      BY <2>1, <3>1, <3>2, <3>3 DEF RolesOf, Recording
  <2>2. CASE q # p
    <3>1. pc'[q] = pc[q] /\ op'[q] = op[q] /\ item'[q] = item[q]
      BY <1>0, <1>3, <2>2 DEF Begin, Go, Ask, TypeOK
    <3>2. moved'[q] = moved[q] /\ sound'[q] = sound[q]
      BY <1>0, <1>3, <2>2 DEF Begin, TypeOK
    <3> QED
      BY <1>a, <3>1, <3>2
  <2> QED
    BY <2>1, <2>2
<1>4. ASSUME NEW p \in Procs, Lock(p) PROVE RolesOf(q)'
  <2>1. RolesOf(p) /\ pc[p] = "lock"
    BY <1>0, <1>4 DEF Lock
  <2>2. RolesOf(p)'
    BY <1>0, <1>4, <2>1 DEF Lock, Go, TypeOK, RolesOf, Recording, work, history
  <2> QED
    BY <1>4, <2>2, <1>b DEF Lock, Steps, history
<1>5. ASSUME NEW p \in Procs, Reserve(p) PROVE RolesOf(q)'
  <2>1. CASE End(p, "failed")
    BY <1>c, <2>1 DEF Ended
  <2>2. CASE ~End(p, "failed")
    <3>1. RolesOf(p)'
      BY <1>0, <1>5, <2>2 DEF Reserve, Go, TypeOK, RolesOf, Recording, work, history
    <3> QED
      BY <1>5, <2>2, <3>1, <1>b DEF Reserve, Steps, history
  <2> QED
    BY <2>1, <2>2
<1>6. ASSUME NEW p \in Procs, Publish(p) PROVE RolesOf(q)'
  <2>1. RolesOf(p)'
    BY <1>0, <1>6 DEF Publish, Go, TypeOK, RolesOf, Recording, work
  <2> QED
    BY <1>6, <2>1, <1>b DEF Publish, Steps
<1>d. ASSUME NEW p \in Procs, NEW ids, Decide(p, ids), op[p] # "none"
      PROVE  RolesOf(q)'
  <2>1. CASE q # p
    <3>1. pc'[q] = pc[q] /\ UNCHANGED <<op, item, moved, sound>>
      BY <1>0, <1>d, <2>1 DEF Decide, Go, TypeOK
    <3> QED
      BY <3>1, <1>a
  <2>2. CASE q = p
    <3>1. pc'[p] = "remove" /\ UNCHANGED <<op, item, moved, sound>>
      BY <1>0, <1>d DEF Decide, Go, TypeOK
    <3> QED
      BY <1>0, <1>d, <2>2, <3>1 DEF RolesOf, Recording
  <2> QED
    BY <2>1, <2>2
<1>7. ASSUME NEW p \in Procs, Enforce(p) PROVE RolesOf(q)'
  <2>1. op[p] # "none"
    BY <1>0, <1>7 DEF Enforce, RolesOf, Recording
  <2> QED
    BY <1>7, <2>1, <1>c, <1>d DEF Enforce, Ended
<1>8. ASSUME NEW p \in Procs, Settle(p) PROVE RolesOf(q)'
  <2>1. CASE End(p, "failed") \/ End(p, "ok")
    BY <1>c, <2>1 DEF Ended
  <2>2. CASE ~(End(p, "failed") \/ End(p, "ok"))
    <3>1. /\ pc[p] = "settle" /\ op[p] # "record" /\ Go(p, "load")
          /\ UNCHANGED <<disk, now, srcLock, work, history>>
      BY <1>8, <2>2 DEF Settle
    <3>2. RolesOf(p)'
      BY <1>0, <3>1 DEF Go, TypeOK, RolesOf, Recording, work, history
    <3> QED
      BY <3>1, <3>2, <1>b DEF Steps, history
  <2> QED
    BY <2>1, <2>2
<1>9. ASSUME NEW p \in Procs, Plan(p) PROVE RolesOf(q)'
  <2>1. op[p] # "none"
    BY <1>0, <1>9 DEF Plan, RolesOf
  <2> QED
    BY <1>9, <2>1, <1>d DEF Plan
<1>10. ASSUME NEW p \in Procs, RemoveNext(p) PROVE RolesOf(q)'
  BY <1>10, <1>a DEF RemoveNext
<1>11. ASSUME NEW p \in Procs, RemovedAll(p) PROVE RolesOf(q)'
  <2>1. CASE End(p, "ok")
    BY <1>c, <2>1 DEF Ended
  <2>2. CASE ~End(p, "ok")
    <3>1. /\ pc[p] = "remove" /\ op[p] \notin {"prune", "clear"} /\ Go(p, "settle")
          /\ UNCHANGED <<disk, now, locks, work, history>>
      BY <1>11, <2>2 DEF RemovedAll
    <3>2. RolesOf(p)'
      BY <1>0, <3>1 DEF Go, TypeOK, RolesOf, Recording, work, history
    <3> QED
      BY <3>1, <3>2, <1>b DEF Steps, history
  <2> QED
    BY <2>1, <2>2
<1>12. ASSUME NEW p \in Procs, LockSource(p) PROVE RolesOf(q)'
  <2>1. RolesOf(p)'
    BY <1>0, <1>12 DEF LockSource, Go, TypeOK, RolesOf, Recording, work, history
  <2> QED
    BY <1>12, <2>1, <1>b DEF LockSource, Steps, history
<1>13. ASSUME NEW p \in Procs, Preflight(p) PROVE RolesOf(q)'
  <2>1. CASE End(p, "failed")
    BY <1>c, <2>1 DEF Ended
  <2>2. CASE ~End(p, "failed")
    <3>1. /\ pc[p] = "preflight" /\ Go(p, "next") /\ UNCHANGED <<op, item, moved>>
          /\ \A r \in Procs : r # p => sound'[r] = sound[r]
      BY <1>0, <1>13, <2>2 DEF Preflight, TypeOK
    <3> QED
      BY <1>0, <1>a, <3>1 DEF RolesOf, Recording, Go, TypeOK
  <2> QED
    BY <2>1, <2>2
<1>14. ASSUME NEW p \in Procs, NextEntry(p) PROVE RolesOf(q)'
  <2>1. CASE End(p, "failed") \/ End(p, "ok")
    BY <1>c, <2>1 DEF Ended
  <2>2. CASE ~(End(p, "failed") \/ End(p, "ok"))
    <3>1. /\ pc[p] = "next" /\ (Go(p, "lock") \/ Go(p, "unlink"))
          /\ UNCHANGED <<op, moved, sound>>
          /\ \A r \in Procs : r # p => item'[r] = item[r]
      BY <1>0, <1>14, <2>2 DEF NextEntry, Ask, TypeOK, history
    <3> QED
      BY <1>0, <1>a, <3>1 DEF RolesOf, Recording, Go, TypeOK
  <2> QED
    BY <2>1, <2>2
<1>15. ASSUME NEW p \in Procs, Load(p) PROVE RolesOf(q)'
  <2>1. CASE End(p, "failed")
    BY <1>c, <2>1 DEF Ended
  <2>2. CASE ~End(p, "failed")
    <3>1. RolesOf(p)'
      BY <1>0, <1>15, <2>2 DEF Load, Go, TypeOK, RolesOf, Recording, work, history
    <3> QED
      BY <1>15, <2>2, <3>1, <1>b DEF Load, Steps, history
  <2> QED
    BY <2>1, <2>2
<1>e. ASSUME NEW p \in Procs, Leave(p), pc[p] = "unlink", Go(p, "next") \/ Go(p, "failed"),
             UNCHANGED <<op, item, sound>>
      PROVE  RolesOf(q)'
  <2>1. op[p] = "migrate" /\ \A r \in Procs : r # p => moved'[r] = moved[r]
    BY <1>0, <1>e DEF Leave, TypeOK, RolesOf
  <2> QED
    BY <1>0, <1>a, <1>e, <2>1 DEF Go, TypeOK, RolesOf, Recording
<1>16. ASSUME NEW p \in Procs, Unlink(p) PROVE RolesOf(q)'
  BY <1>16, <1>e DEF Unlink
<1>17. ASSUME NEW p \in Procs, Fail(p) PROVE RolesOf(q)'
  <2>1. Go(p, "failed") /\ UNCHANGED <<op, item, sound>>
    BY <1>17 DEF Fail
  <2>2. CASE moved' = moved
    BY <1>0, <1>a, <2>1, <2>2 DEF Go, TypeOK, Ended
  <2>3. CASE pc[p] = "unlink" /\ Leave(p)
    BY <1>e, <2>1, <2>3
  <2> QED
    BY <1>17, <2>2, <2>3 DEF Fail
<1> QED
  BY <1>1, <1>2, <1>3, <1>4, <1>5, <1>6, <1>7, <1>8, <1>9, <1>10, <1>11, <1>12,
     <1>13, <1>14, <1>15, <1>16, <1>17 DEF Next, Advance, Record, Retire, Migrate

\* What holds where a record is about to be published.
LEMMA AtPublish ==
    ASSUME IInv, NEW p \in Procs, pc[p] = "publish"
    PROVE  /\ Recording(p) /\ dstLock = p /\ dst[item[p]] = Nothing
           /\ item[p] \in Ids /\ TimeOf(item[p]) # 0 /\ size[p] \in Sizes /\ size[p] <= MaxBytes
           /\ KeyOf(item[p]) \in Keys /\ <<KeyOf(item[p]), 0>> \in Ids
<1>1. Recording(p)
  BY DEF IInv, Roles
<1>2. dstLock = p
  BY DEF IInv, Locks, UnderLock
<1>3. Made(p) /\ Published(p)
  BY DEF IInv, Own
<1>4. item[p] \in Ids
  BY <1>1, <1>3 DEF Made, UnderLock
<1>5. KeyOf(item[p]) \in Keys /\ 0 \in 0..MaxTime
  BY <1>4, PolicyAssumption DEF Ids, KeyOf
<1> QED
  BY <1>1, <1>2, <1>3, <1>4, <1>5 DEF Made, Published, UnderLock, Ids

LEMMA TemporariesStep == IInv /\ [Next]_vars => Temporaries'
<1> SUFFICES ASSUME IInv, [Next]_vars, NEW k \in Keys
             PROVE  src'[<<k, 0>>] \notin Sizes /\ dst'[<<k, 0>>] \notin Sizes
  BY DEF Temporaries
<1>0. /\ TypeOK /\ src[<<k, 0>>] \notin Sizes /\ dst[<<k, 0>>] \notin Sizes
      /\ 0 \notin Sizes /\ Broken \notin Sizes /\ Nothing = 0
  BY NamesAssumption DEF IInv, Temporaries, Nothing, Broken
<1>1. CASE UNCHANGED disk
  BY <1>0, <1>1 DEF disk
<1>2. ASSUME NEW x, dst' = [dst EXCEPT ![x] = Nothing], src' = src
      PROVE  src'[<<k, 0>>] \notin Sizes /\ dst'[<<k, 0>>] \notin Sizes
  BY <1>0, <1>2 DEF TypeOK, Stores
<1>3. ASSUME NEW x, src' = [src EXCEPT ![x] = Nothing], dst' = dst
      PROVE  src'[<<k, 0>>] \notin Sizes /\ dst'[<<k, 0>>] \notin Sizes
  BY <1>0, <1>3 DEF TypeOK, Stores
<1>4. ASSUME NEW p \in Procs, pc[p] = "publish", dst' = [dst EXCEPT ![item[p]] = size[p]], src' = src
      PROVE  src'[<<k, 0>>] \notin Sizes /\ dst'[<<k, 0>>] \notin Sizes
  <2>1. item[p] # <<k, 0>>
    <3>1. TimeOf(<<k, 0>>) = 0
      BY DEF TimeOf
    <3>2. TimeOf(item[p]) # 0
      BY <1>4, AtPublish
    <3> QED
      BY <3>1, <3>2
  <2> QED
    BY <1>0, <1>4, <2>1 DEF TypeOK, Stores
<1>5. ASSUME NEW x, dst' = [dst EXCEPT ![x] = Broken], src' = src
      PROVE  src'[<<k, 0>>] \notin Sizes /\ dst'[<<k, 0>>] \notin Sizes
  BY <1>0, <1>5 DEF TypeOK, Stores
<1>6. CASE \E p \in Procs : Publish(p)
  BY <1>6, <1>4 DEF Publish
<1>7. CASE \E p \in Procs : RemoveNext(p)
  BY <1>7, <1>2 DEF RemoveNext, Drop
<1>8. CASE \E p \in Procs : Unlink(p)
  BY <1>8, <1>3 DEF Unlink, Leave
<1>9. CASE \E p \in Procs : Fail(p)
  <2>1. PICK p \in Procs : Fail(p)
    BY <1>9
  <2>2. \/ UNCHANGED disk
        \/ /\ pc[p] = "publish" /\ src' = src
           /\ \/ dst' = [dst EXCEPT ![item[p]] = size[p]]
              \/ dst' = [dst EXCEPT ![<<KeyOf(item[p]), 0>>] = Broken]
        \/ dst' = [dst EXCEPT ![FirstOf(todo[p])] = Nothing] /\ src' = src
        \/ src' = [src EXCEPT ![item[p]] = Nothing] /\ dst' = dst
    BY <2>1 DEF Fail, Drop, Leave, disk
  <2> QED
    BY <2>2, <1>1, <1>2, <1>3, <1>4, <1>5
<1>10. CASE UNCHANGED vars \/ Tick
  BY <1>1, <1>10 DEF vars, Tick
<1>11. ASSUME NEW p \in Procs,
              \/ Begin(p) \/ Lock(p) \/ Reserve(p) \/ Enforce(p) \/ Settle(p)
              \/ Plan(p) \/ RemovedAll(p)
              \/ LockSource(p) \/ Preflight(p) \/ NextEntry(p) \/ Load(p)
       PROVE  UNCHANGED disk
  BY <1>11 DEF Begin, Lock, Reserve, Enforce, Settle, Plan, Decide, RemovedAll,
     LockSource, Preflight, NextEntry, Load, End
<1> QED
  BY <1>1, <1>6, <1>7, <1>8, <1>9, <1>10, <1>11 DEF Next, Advance, Record, Retire, Migrate

-----------------------------------------------------------------------------
(***************************************************************************)
(* What a step leaves to the other processes                               *)
(***************************************************************************)

\* Nothing of q is touched.
Same(q) ==
    /\ pc'[q] = pc[q] /\ op'[q] = op[q] /\ item'[q] = item[q] /\ size'[q] = size[q]
    /\ todo'[q] = todo[q] /\ batch'[q] = batch[q] /\ obsolete'[q] = obsolete[q]
    /\ calm'[q] = calm[q] /\ sound'[q] = sound[q] /\ before'[q] = before[q]

\* The inventories are the same as long as the clock is.
LEMMA SameInventory ==
    ASSUME now' = now, UNCHANGED disk
    PROVE  /\ Live(src)' = Live(src) /\ Live(dst)' = Live(dst)
           /\ \A s : Live(s)' = Live(s) /\ Valid(s)' = Valid(s)
BY DEF Live, Valid, Expired, disk

LEMMA OthersStay ==
    ASSUME NEW q \in Procs, Own(q), Same(q), disturbed'[q] = disturbed[q],
           UNCHANGED disk, now' = now
    PROVE  Own(q)'
<1>0. src' = src /\ dst' = dst
  BY DEF disk
<1>1. Batched(q)'
  BY <1>0 DEF Own, Same, Batched, Moving, Inside, Live, Valid, Expired
<1>2. Made(q)'
  BY <1>0 DEF Own, Same, Made, Recording, Expired
<1>3. Published(q)'
  BY <1>0 DEF Own, Same, Published, Recording
<1>4. Fits(q)'
  <2>1. Both(q)' = Both(q)
    BY <1>0 DEF Both, Same
  <2>2. Live(dst)' = Live(dst)
    BY SameInventory
  <2> QED
    BY <1>0, <2>1, <2>2 DEF Own, Same, Fits, Moving, Inside
<1>5. Retiring(q)'
  <2>1. PlanOf(q)' = PlanOf(q) /\ (Retained(before[q], item[q])' <=> Retained(before[q], item[q]))
    BY DEF PlanOf, RecordPlan, PrunePlan, Retained, Contest, Slots, Same, Recording,
       Live, Valid, Expired
  <2> QED
    BY <1>0, <2>1 DEF Own, Same, Retiring, Recording
<1>6. Restored(q)'
  BY <1>0 DEF Own, Same, Restored, Live, Valid, Expired
<1>7. Through(q)'
  BY DEF Own, Same, Through
<1> QED
  BY <1>1, <1>2, <1>3, <1>4, <1>5, <1>6, <1>7 DEF Own

\* Someone else changes the destination.
LEMMA OthersSee ==
    ASSUME NEW q \in Procs, Own(q), Same(q), pc[q] \notin UnderLock,
           disturbed'[q] = (disturbed[q] \/ sound[q]), src' = src, now' = now
    PROVE  Own(q)'
<1>1. Batched(q)'
  BY DEF Own, Same, Batched, Moving, Inside, Live, Valid, Expired
<1>2. Made(q)'
  BY DEF Own, Same, Made, Recording, Expired
<1>3. Published(q)' /\ Retiring(q)' /\ Restored(q)'
  BY DEF Own, Same, Published, Retiring, Restored, UnderLock
<1>4. Fits(q)' /\ Through(q)'
  BY DEF Own, Same, Fits, Through
<1> QED
  BY <1>1, <1>2, <1>3, <1>4 DEF Own

\* Someone else changes the source.
LEMMA OthersAway ==
    ASSUME NEW q \in Procs, Own(q), Roles, Same(q), ~Inside(q),
           disturbed'[q] = disturbed[q], dst' = dst, now' = now
    PROVE  Own(q)'
<1>1. Batched(q)' /\ Fits(q)'
  BY DEF Same, Batched, Fits, Moving, Inside
<1>2. /\ pc[q] # "unlink"
      /\ op[q] = "migrate" => pc[q] \notin UnderLock \cup {"lock", "load"}
  BY DEF Roles, Inside, Ended, UnderLock
<1>3. Made(q)'
  BY <1>2 DEF Own, Same, Made, Recording, Expired
<1>4. Published(q)'
  BY DEF Own, Same, Published, Recording
<1>5. Retiring(q)'
  <2>1. PlanOf(q)' = PlanOf(q) /\ (Retained(before[q], item[q])' <=> Retained(before[q], item[q]))
    BY DEF PlanOf, RecordPlan, PrunePlan, Retained, Contest, Slots, Same, Recording,
       Live, Valid, Expired
  <2> QED
    BY <2>1 DEF Own, Same, Retiring, Recording
<1>6. Restored(q)'
  BY DEF Own, Same, Restored, Live, Valid, Expired
<1>7. Through(q)'
  BY DEF Own, Same, Through
<1> QED
  BY <1>1, <1>3, <1>4, <1>5, <1>6, <1>7 DEF Own

\* Who has ended has nothing to keep.
LEMMA EndedOwns ==
    ASSUME NEW p \in Procs, pc'[p] \in Ended,
           pc'[p] = "failed" => ~(sound'[p] /\ calm'[p] /\ ~disturbed'[p])
    PROVE  Own(p)'
BY DEF Own, Batched, Made, Published, Fits, Retiring, Restored, Through, Moving, Inside,
   Ended, UnderLock

\* When the clock goes on, records expire; when it is set back, nothing is left
\* of the preflight.
LEMMA TickOwns ==
    ASSUME IInv, Tick, NEW q \in Procs
    PROVE  Own(q)'
<1>0. TypeOK /\ Own(q)
  BY DEF IInv
<1>1. /\ src' = src /\ dst' = dst /\ pc' = pc /\ op' = op /\ item' = item /\ size' = size
      /\ todo' = todo /\ batch' = batch /\ obsolete' = obsolete /\ disturbed' = disturbed
      /\ ~calm'[q] /\ now \in Int /\ now' \in Int
      /\ sound'[q] => sound[q] /\ now' > now
  <2>1. UNCHANGED <<disk, pc, work, disturbed>> /\ (now' = now + 1 \/ now' = now - 1)
    BY DEF Tick
  <2>2. calm' = [p \in Procs |-> FALSE] /\ sound' = [p \in Procs |-> sound[p] /\ now' > now]
    BY DEF Tick
  <2>3. now \in Int /\ now' \in Int
    BY <1>0, <2>1 DEF TypeOK
  <2>4. ~calm'[q] /\ (sound'[q] => sound[q] /\ now' > now)
    BY <2>2
  <2> QED
    BY <2>1, <2>3, <2>4 DEF disk, work
<1>2. Batched(q)' /\ Made(q)' /\ Published(q)' /\ Retiring(q)' /\ Restored(q)' /\ Through(q)'
  BY <1>0, <1>1 DEF Own, Batched, Made, Published, Retiring, Restored, Through,
     Moving, Inside, Recording
<1>3. ASSUME Moving(q), sound'[q], ~disturbed[q]
      PROVE  /\ \A id \in batch[q] : dst[id] \in {Nothing, src[id]} /\ TimeOf(id) <= now'
             /\ \A id \in Ids : dst[id] \in Sizes => TimeOf(id) <= now'
             /\ \A k \in Keys : Cardinality(OfKey(Live(dst)' \cup batch[q], k)) <= MaxRecords
             /\ Bytes(Both(q), Live(dst)' \cup batch[q]) <= MaxBytes
             /\ pc[q] = "remove" => todo[q] \cap Live(dst)' = {}
             /\ pc[q] \in {"load", "unlink"} /\ item[q] \in batch[q] => dst[item[q]] = size[q]
  <2>0. /\ \A id \in batch[q] : dst[id] \in {Nothing, src[id]} /\ TimeOf(id) <= now
        /\ \A id \in Ids : dst[id] \in Sizes => TimeOf(id) <= now
        /\ \A k \in Keys : Cardinality(OfKey(Live(dst) \cup batch[q], k)) <= MaxRecords
        /\ Bytes(Both(q), Live(dst) \cup batch[q]) <= MaxBytes
        /\ pc[q] = "remove" => todo[q] \cap Live(dst) = {}
        /\ pc[q] \in {"load", "unlink"} /\ item[q] \in batch[q] => dst[item[q]] = size[q]
    BY <1>0, <1>1, <1>3 DEF Own, Fits
  <2>1. batch[q] \in SUBSET Ids /\ \A id \in Ids : TimeOf(id) \in Int
    BY <1>0, PolicyAssumption DEF TypeOK, Ids, TimeOf
  <2>2. /\ \A id \in batch[q] : TimeOf(id) <= now'
        /\ \A id \in Ids : dst[id] \in Sizes => TimeOf(id) <= now'
    BY <1>1, <1>3, <2>0, <2>1
  <2>3. Live(dst)' \in SUBSET Live(dst)
    <3> SUFFICES ASSUME NEW id \in Ids, dst[id] \in Sizes, ~(TimeOf(id) < now' - MaxAge)
                 PROVE  id \in Live(dst)
      BY <1>1 DEF Live, Valid, Expired
    <3>1. TimeOf(id) <= now /\ TimeOf(id) \in Int /\ MaxAge \in Nat
      BY <2>0, <2>1, PolicyAssumption
    <3>2. ~(TimeOf(id) < now - MaxAge)
      BY <1>1, <1>3, <3>1
    <3> QED
      BY <3>1, <3>2 DEF Live, Valid, Expired
  <2>4. Live(dst) \in SUBSET Ids
    BY DEF Live, Valid
  <2> DEFINE S == Live(dst) \cup batch[q]
             T == Live(dst)' \cup batch[q]
  <2>5. S \in SUBSET Ids /\ T \in SUBSET S
    BY <2>1, <2>3, <2>4
  <2>6. ASSUME NEW id \in S
        PROVE  Both(q)[id] \in Nat
    <3>1. id \in batch[q] => src[id] \in Nat
      BY <1>0, <1>3, Names DEF Own, Batched
    <3>2. id \in Live(dst) => dst[id] \in Nat
      BY Names DEF Live, Valid
    <3>3. id \in Ids /\ (id \in batch[q] \/ id \in Live(dst))
      BY <2>1, <2>4
    <3>4. Both(q)[id] = IF id \in batch[q] THEN src[id] ELSE dst[id]
      BY <3>3 DEF Both
    <3> QED
      BY <3>1, <3>2, <3>3, <3>4
  <2> HIDE DEF S, T
  <2>7. Bytes(Both(q), T) <= MaxBytes
    <3>1. /\ Bytes(Both(q), T) \in Nat /\ Bytes(Both(q), S) \in Nat
          /\ Bytes(Both(q), T) <= Bytes(Both(q), S)
      BY <2>5, <2>6, BytesMore
    <3>2. Bytes(Both(q), S) <= MaxBytes /\ MaxBytes \in Nat
      BY <2>0, PolicyAssumption DEF S
    <3> QED
      BY <3>1, <3>2
  <2>8. ASSUME NEW k \in Keys
        PROVE  Cardinality(OfKey(T, k)) <= MaxRecords
    <3>1. OfKey(T, k) \in SUBSET OfKey(S, k) /\ OfKey(S, k) \in SUBSET Ids
      BY <2>5 DEF OfKey
    <3>2. IsFiniteSet(OfKey(S, k)) /\ IsFiniteSet(OfKey(T, k))
      BY <3>1, FiniteIds, FS_Subset
    <3>3. Cardinality(OfKey(T, k)) <= Cardinality(OfKey(S, k))
      BY <3>1, <3>2, FS_Subset
    <3>4. Cardinality(OfKey(S, k)) <= MaxRecords
      BY <2>0 DEF S
    <3>5. Cardinality(OfKey(T, k)) \in Nat /\ Cardinality(OfKey(S, k)) \in Nat
      BY <3>2, FS_CardinalityType
    <3> QED
      BY <3>3, <3>4, <3>5, PolicyAssumption
  <2> QED
    BY <2>0, <2>2, <2>3, <2>7, <2>8 DEF T
<1>4. Fits(q)'
  <2>1. Both(q)' = Both(q)
    BY <1>1 DEF Both
  <2> QED
    BY <1>1, <1>3, <2>1 DEF Fits, Moving, Inside
<1> QED
  BY <1>2, <1>4 DEF Own

-----------------------------------------------------------------------------
(***************************************************************************)
(* What the plans spare                                                    *)
(***************************************************************************)

LEMMA BytesOne ==
    ASSUME NEW store, NEW id, store[id] \in Int
    PROVE  Bytes(store, {id}) = store[id]
<1>1. Bytes(store, {}) = 0 /\ IsFiniteSet({}) /\ {} \cup {id} = {id}
  BY FS_EmptySet, BytesStep
<1>2. Bytes(store, {} \cup {id}) = Bytes(store, {}) + store[id]
  BY <1>1, BytesAdd
<1> QED
  BY <1>1, <1>2

\* Who takes part when a record is made: its own key is cut to its count.
Active(store, id) ==
    (Contest(store, id) \ OfKey(Contest(store, id), KeyOf(id)))
        \cup Slots(Contest(store, id), id)

\* What the plan of a record leaves is what the retention admits.
Remaining(store, id) == Admit(store, {id}, Active(store, id))

LEMMA RecordPlanIs ==
    ASSUME NEW store, NEW id
    PROVE  RecordPlan(store, id) = Safe(store) \ Remaining(store, id)
BY DEF RecordPlan, Active, Remaining

LEMMA ActiveIs ==
    ASSUME NEW store \in Stores, NEW id \in Ids, store[id] \in Sizes
    PROVE  /\ Active(store, id) \in SUBSET Ids
           /\ Active(store, id) \subseteq Live(store) \cup {id}
           /\ \A i \in {id} \cup Active(store, id) : store[i] \in Nat /\ store[i] \in Sizes
           /\ Live(store) \in SUBSET Ids
<1>1. Contest(store, id) = Live(store) \cup {id} /\ Live(store) \in SUBSET Ids
  BY DEF Contest, Live, Valid
<1>2. Active(store, id) \subseteq Contest(store, id)
  BY DEF Active, Slots, OfKey
<1>3. \A i \in Live(store) : store[i] \in Sizes
  BY DEF Live, Valid
<1> QED
  BY <1>1, <1>2, <1>3, Names

\* The record that is made is not sacrificed for others.
LEMMA PlanSparesItem ==
    ASSUME NEW store \in Stores, NEW id \in Ids, store[id] \in Sizes, store[id] <= MaxBytes
    PROVE  id \notin RecordPlan(store, id)
<1> DEFINE kept == Admit(store, {id}, Active(store, id))
<1>1. /\ {id} \in SUBSET Ids /\ Active(store, id) \in SUBSET Ids
      /\ \A i \in {id} \cup Active(store, id) : store[i] \in Nat
  BY ActiveIs
<1>2. Bytes(store, {id}) <= MaxBytes
  <2>1. store[id] \in Int
    BY Names
  <2>2. Bytes(store, {id}) = store[id]
    BY <2>1, BytesOne
  <2> QED
    BY <2>2
<1>3. {id} \subseteq kept
  <2> DEFINE one == {id}
             A == Active(store, id)
  <2>1. one \in SUBSET Ids /\ A \in SUBSET Ids
    BY <1>1
  <2>2. \A i \in one \cup A : store[i] \in Nat
    BY <1>1
  <2>3. Bytes(store, one) <= MaxBytes
    BY <1>2
  <2>4. kept = Admit(store, one, A)
    OBVIOUS
  <2> HIDE DEF kept, one, A
  <2>5. one \cup A \in SUBSET Ids
    BY <2>1
  <2>6. one \subseteq kept
    BY <2>1, <2>2, <2>3, <2>4, <2>5, AdmitKeeps
  <2> QED
    BY <2>6 DEF one
<1> QED
  BY <1>3, RecordPlanIs DEF Remaining

\* If the whole batch fits beside the live records, nothing live goes for one
\* of the batch, and it keeps its place.
LEMMA BatchGoesFree ==
    ASSUME NEW store \in Stores, NEW id \in Ids, NEW items \in SUBSET Ids, id \in items,
           NEW both, \A i \in items \cup Live(store) : both[i] \in Nat,
           \A i \in Live(store) : both[i] = store[i],
           \A k \in Keys : Cardinality(OfKey(Live(store) \cup items, k)) <= MaxRecords,
           Bytes(both, Live(store) \cup items) <= MaxBytes
    PROVE  /\ Retained(store, id)
           /\ store[id] \in Sizes /\ both[id] = store[id] =>
                 RecordPlan(store, id) \cap Live(store) = {}
<1> DEFINE C == Contest(store, id)
<1>1. /\ C = Live(store) \cup {id} /\ Live(store) \in SUBSET Ids /\ C \in SUBSET Ids
      /\ C \in SUBSET (Live(store) \cup items) /\ KeyOf(id) \in Keys /\ id \in OfKey(C, KeyOf(id))
  BY DEF Contest, Live, Valid, Ids, KeyOf, OfKey
<1>2. Slots(C, id) = OfKey(C, KeyOf(id))
  <2> DEFINE S == OfKey(C, KeyOf(id))
             T == OfKey(Live(store) \cup items, KeyOf(id))
  <2>1. S \in SUBSET T /\ T \in SUBSET Ids
    BY <1>1 DEF OfKey
  <2>2. IsFiniteSet(T) /\ IsFiniteSet(S)
    BY <2>1, FiniteIds, FS_Subset
  <2>3. Cardinality(S) <= Cardinality(T) /\ Cardinality(S) \in Nat /\ Cardinality(T) \in Nat
    BY <2>1, <2>2, FS_Subset, FS_CardinalityType
  <2>4. Cardinality(T) <= MaxRecords
    BY <1>1
  <2>5. Cardinality(S) <= MaxRecords
    BY <2>3, <2>4, PolicyAssumption
  <2> HIDE DEF C
  <2> QED
    BY <1>1, <2>5, SlotsKeep
<1>3. Retained(store, id)
  BY <1>1, <1>2 DEF Retained
<1>4. ASSUME store[id] \in Sizes, both[id] = store[id]
      PROVE  RecordPlan(store, id) \cap Live(store) = {}
  <2> DEFINE A == Active(store, id)
             kept == Admit(store, {id}, A)
  <2>1. A = C
    BY <1>2 DEF Active, OfKey
  <2>2. /\ {id} \in SUBSET Ids /\ A \in SUBSET Ids
        /\ \A i \in {id} \cup A : store[i] \in Nat
    BY <1>4, ActiveIs
  <2> HIDE DEF A, C
  <2>3. C \in SUBSET (Live(store) \cup items) /\ Live(store) \cup items \in SUBSET Ids
    BY <1>1
  <2>4. /\ Bytes(both, C) \in Nat /\ Bytes(both, Live(store) \cup items) \in Nat
        /\ Bytes(both, C) <= Bytes(both, Live(store) \cup items)
    BY <2>3, BytesMore
  <2>5. Bytes(store, C) = Bytes(both, C)
    <3>1. IsFiniteSet(C)
      BY <1>1, FiniteIds, FS_Subset
    <3>2. \A i \in C : store[i] \in Int /\ both[i] = store[i]
      BY <1>1, <1>4, <2>1, <2>2
    <3> QED
      BY <3>1, <3>2, BytesEqual
  <2>6. Bytes(store, {id} \cup A) <= MaxBytes
    <3>1. {id} \cup A = C
      BY <1>1, <2>1
    <3> QED
      BY <2>4, <2>5, <3>1, PolicyAssumption
  <2>7. Bytes(store, {id}) <= MaxBytes
    <3>1. {id} \cup A \in SUBSET Ids /\ {id} \in SUBSET ({id} \cup A)
      BY <2>2
    <3>2. /\ Bytes(store, {id}) \in Nat /\ Bytes(store, {id} \cup A) \in Nat
          /\ Bytes(store, {id}) <= Bytes(store, {id} \cup A)
      BY <2>2, <3>1, BytesMore
    <3> QED
      BY <2>6, <3>2, PolicyAssumption
  <2>8. A \subseteq kept
    <3> DEFINE one == {id}
    <3>1. one \in SUBSET Ids /\ A \in SUBSET Ids
      BY <2>2
    <3>2. \A i \in one \cup A : store[i] \in Nat
      BY <2>2
    <3>3. Bytes(store, one) <= MaxBytes /\ Bytes(store, one \cup A) <= MaxBytes
      BY <2>6, <2>7
    <3>4. kept = Admit(store, one, A)
      OBVIOUS
    <3> HIDE DEF kept, one
    <3> QED
      BY <3>1, <3>2, <3>3, <3>4, AdmitKeeps
  <2> QED
    BY <1>1, <2>1, <2>8, RecordPlanIs DEF A, Remaining
<1> QED
  BY <1>3, <1>4

\* So it is for a migration whose preflight still holds.
LEMMA SoundGoesFree ==
    ASSUME IInv, NEW p \in Procs, op[p] = "migrate", pc[p] \in {"reserve", "enforce"},
           sound[p], ~disturbed[p]
    PROVE  /\ dst[item[p]] \in {Nothing, size[p]} /\ Retained(dst, item[p])
           /\ pc[p] = "enforce" => RecordPlan(dst, item[p]) \cap Live(dst) = {}
<1>0. TypeOK /\ Own(p) /\ Moving(p) /\ Recording(p)
  BY DEF IInv, Moving, Inside, Ended, Recording
<1>1. /\ item[p] \in Ids /\ item[p] \in batch[p] /\ size[p] = src[item[p]]
      /\ size[p] \in Sizes
  BY <1>0 DEF Own, Made, UnderLock
<1>2. /\ \A id \in batch[p] : dst[id] \in {Nothing, src[id]} /\ src[id] \in Sizes
      /\ \A k \in Keys : Cardinality(OfKey(Live(dst) \cup batch[p], k)) <= MaxRecords
      /\ Bytes(Both(p), Live(dst) \cup batch[p]) <= MaxBytes
  BY <1>0 DEF Own, Fits, Batched
<1>3. dst \in Stores /\ batch[p] \in SUBSET Ids /\ Live(dst) \in SUBSET Ids
  BY <1>0 DEF TypeOK, Live, Valid
<1>4. \A i \in Ids : Both(p)[i] = IF i \in batch[p] THEN src[i] ELSE dst[i]
  BY DEF Both
<1>5. \A i \in Live(dst) : dst[i] \in Sizes /\ dst[i] # Nothing
  BY Names DEF Live, Valid
<1>6. \A i \in batch[p] \cup Live(dst) : Both(p)[i] \in Nat
  BY <1>2, <1>3, <1>4, <1>5, Names
<1>7. \A i \in Live(dst) : Both(p)[i] = dst[i]
  BY <1>2, <1>3, <1>4, <1>5
<1>8. /\ Retained(dst, item[p])
      /\ dst[item[p]] \in Sizes /\ Both(p)[item[p]] = dst[item[p]] =>
            RecordPlan(dst, item[p]) \cap Live(dst) = {}
  BY <1>1, <1>2, <1>3, <1>6, <1>7, BatchGoesFree
<1>9. pc[p] = "enforce" => dst[item[p]] = size[p]
  BY <1>0 DEF Own, Published
<1> QED
  BY <1>1, <1>2, <1>4, <1>8, <1>9

-----------------------------------------------------------------------------
(***************************************************************************)
(* What a step leaves to the process that takes it                         *)
(***************************************************************************)

LEMMA EndOwns ==
    ASSUME IInv, NEW p \in Procs, NEW how \in Ended, End(p, how),
           how = "failed" => ~(sound[p] /\ calm[p] /\ ~disturbed[p])
    PROVE  Own(p)'
<1>1. pc'[p] = how /\ UNCHANGED history
  BY DEF End, Go, IInv, TypeOK
<1> QED
  BY <1>1, EndedOwns DEF history

\* Nothing but the step changes: what depends on the data stays.
LEMMA StepOwns ==
    ASSUME IInv, NEW p \in Procs, NEW s \in Steps, Go(p, s),
           UNCHANGED <<disk, now, work>>, UNCHANGED <<calm, disturbed, sound, before>>,
           s \notin Ended, Moving(p)' => Moving(p),
           Made(p)', Published(p)', Retiring(p)', Restored(p)',
           s = "remove" => pc[p] = "remove",
           s \in {"load", "unlink"} /\ item[p] \in batch[p] /\ Moving(p) /\ sound[p] /\ ~disturbed[p]
              => dst[item[p]] = size[p]
    PROVE  Own(p)'
<1>0. TypeOK /\ Own(p) /\ pc'[p] = s /\ src' = src /\ dst' = dst
  BY DEF IInv, Go, TypeOK, disk
<1>1. Live(src)' = Live(src) /\ Live(dst)' = Live(dst)
  BY SameInventory
<1>2. Batched(p)'
  BY <1>0, <1>1 DEF Own, Batched, work
<1>3. Both(p)' = Both(p)
  BY <1>0 DEF Both, work
<1>4. Fits(p)'
  BY <1>0, <1>1, <1>3 DEF Own, Fits, work
<1>5. Through(p)'
  BY <1>0 DEF Through, Ended
<1> QED
  BY <1>2, <1>4, <1>5 DEF Own

LEMMA BeginOwns ==
    ASSUME IInv, NEW p \in Procs, Begin(p)
    PROVE  Own(p)'
<1>0. TypeOK
  BY DEF IInv
<1>1. /\ pc'[p] = IF op'[p] = "migrate" THEN "lockSource" ELSE "lock"
      /\ ~sound'[p] /\ now' = now
  BY <1>0 DEF Begin, Go, TypeOK
<1>2. Made(p)'
  <2>1. ASSUME Recording(p)', pc'[p] = "lock"
        PROVE  /\ item'[p] \in Ids /\ TimeOf(item'[p]) # 0
               /\ size'[p] \in Sizes /\ size'[p] <= MaxBytes
               /\ TimeOf(item'[p]) <= now /\ ~Expired(item'[p])
               /\ op'[p] # "migrate"
    <3>1. op'[p] = "record"
      BY <1>1, <2>1 DEF Recording
    <3>2. PICK id \in Keys \X (1..now), n \in Sizes :
             ~Expired(id) /\ n <= MaxBytes /\ item'[p] = id /\ size'[p] = n
      BY <1>0, <3>1 DEF Begin, Ask, TypeOK
    <3>3. TimeOf(id) \in 1..now /\ id \in Ids
      BY <1>0, PolicyAssumption DEF TimeOf, Ids, TypeOK
    <3> QED
      BY <1>0, <3>1, <3>2, <3>3 DEF TypeOK
  <2>2. \A id : Expired(id)' <=> Expired(id)
    BY <1>1 DEF Expired
  <2>3. pc'[p] \in {"lock", "lockSource"} /\ (pc'[p] = "lockSource" => pc'[p] # "lock")
    BY <1>1
  <2> QED
    BY <1>1, <2>1, <2>2, <2>3 DEF Made, UnderLock
<1> QED
  BY <1>1, <1>2 DEF Own, Batched, Published, Fits, Retiring, Restored, Through,
     Moving, Inside, Ended

LEMMA LockOwns ==
    ASSUME IInv, NEW p \in Procs, Lock(p)
    PROVE  Own(p)'
<1> DEFINE s == IF op[p] \in {"prune", "clear"} THEN "plan" ELSE "reserve"
<1>0. TypeOK /\ Own(p) /\ pc[p] = "lock" /\ pc'[p] = s /\ Go(p, s) /\ s \in {"plan", "reserve"}
      /\ UNCHANGED <<disk, now, work>> /\ UNCHANGED <<calm, disturbed, sound, before>>
  BY DEF IInv, Lock, Go, TypeOK, history
<1> HIDE DEF s
<1>1. Made(p)'
  BY <1>0 DEF Own, Made, Recording, UnderLock, work, disk, Expired
<1>2. Published(p)' /\ Retiring(p)' /\ Restored(p)'
  BY <1>0 DEF Published, Retiring, Restored
<1>3. Moving(p)' => Moving(p)
  BY <1>0 DEF Moving, Inside, Ended, work
<1> QED
  BY <1>0, <1>1, <1>2, <1>3, StepOwns DEF Steps, Ended

LEMMA ReserveOwns ==
    ASSUME IInv, NEW p \in Procs, Reserve(p)
    PROVE  Own(p)'
<1>0. TypeOK /\ Own(p) /\ pc[p] = "reserve" /\ Recording(p)
      /\ (op[p] = "migrate" \/ ~sound[p])
  BY DEF IInv, Reserve, Roles
<1>1. CASE ~(dst[item[p]] \in {Nothing, size[p]} /\ Retained(dst, item[p]))
  <2>1. End(p, "failed")
    BY <1>1 DEF Reserve
  <2>2. ~(sound[p] /\ calm[p] /\ ~disturbed[p])
    BY <1>0, <1>1, SoundGoesFree
  <2> QED
    BY <2>1, <2>2, EndOwns DEF Ended
<1>2. CASE dst[item[p]] \in {Nothing, size[p]} /\ Retained(dst, item[p])
  <2> DEFINE s == IF dst[item[p]] = Nothing THEN "publish" ELSE "enforce"
  <2>1. pc'[p] = s /\ Go(p, s) /\ s \in {"publish", "enforce"}
        /\ UNCHANGED <<disk, now, work>> /\ UNCHANGED <<calm, disturbed, sound, before>>
    BY <1>0, <1>2 DEF Reserve, Go, TypeOK, history
  <2>2. /\ s = "publish" => dst[item[p]] = Nothing
        /\ s = "enforce" => dst[item[p]] = size[p]
    BY <1>2
  <2> HIDE DEF s
  <2>3. Made(p)'
    BY <1>0, <2>1 DEF Own, Made, Recording, UnderLock, work, disk, Expired
  <2>4. Published(p)'
    BY <2>1, <2>2 DEF Published, Recording, work, disk
  <2>5. Retiring(p)' /\ Restored(p)'
    BY <2>1 DEF Retiring, Restored
  <2>6. Moving(p)' => Moving(p)
    BY <1>0, <2>1 DEF Moving, Inside, Ended, work
  <2> QED
    BY <2>1, <2>3, <2>4, <2>5, <2>6, StepOwns DEF Steps, Ended
<1> QED
  BY <1>1, <1>2

LEMMA RemovedAllOwns ==
    ASSUME IInv, NEW p \in Procs, RemovedAll(p), Restored(p)'
    PROVE  Own(p)'
<1>0. TypeOK /\ Own(p) /\ pc[p] = "remove" /\ (op[p] # "none")
  BY DEF IInv, RemovedAll, Roles
<1>1. CASE op[p] \in {"prune", "clear"}
  <2>1. End(p, "ok")
    BY <1>1 DEF RemovedAll
  <2> QED
    BY <2>1, EndOwns DEF Ended
<1>2. CASE op[p] \notin {"prune", "clear"}
  <2>1. pc'[p] = "settle" /\ Go(p, "settle")
        /\ UNCHANGED <<disk, now, work>> /\ UNCHANGED <<calm, disturbed, sound, before>>
    BY <1>0, <1>2 DEF RemovedAll, Go, TypeOK, history
  <2>2. Recording(p)
    BY <1>0, <1>2 DEF Recording, TypeOK
  <2>3. Made(p)'
    BY <1>0, <2>1, <2>2 DEF Own, Made, Recording, UnderLock, work, disk, Expired
  <2>4. Published(p)'
    BY <1>0, <2>1, <2>2 DEF Own, Published, Recording, work, disk
  <2>5. Retiring(p)'
    BY <2>1 DEF Retiring
  <2>6. Moving(p)' => Moving(p)
    BY <1>0, <2>1 DEF Moving, Inside, Ended, work
  <2> QED
    BY <2>1, <2>3, <2>4, <2>5, <2>6, StepOwns DEF Steps, Ended
<1> QED
  BY <1>1, <1>2

LEMMA SettleOwns ==
    ASSUME IInv, NEW p \in Procs, Settle(p)
    PROVE  Own(p)'
<1>0. TypeOK /\ Own(p) /\ pc[p] = "settle" /\ Recording(p)
  BY DEF IInv, Settle, Roles
<1>a. dst[item[p]] = size[p] /\ size[p] \in Sizes
  BY <1>0 DEF Own, Published, Made, UnderLock
<1>b. dst[item[p]] # Nothing
  BY <1>a, Names
<1>1. CASE op[p] = "record"
  <2>1. End(p, "ok")
    BY <1>1, <1>b DEF Settle
  <2> QED
    BY <2>1, EndOwns DEF Ended
<1>2. CASE op[p] # "record"
  <2>1. pc'[p] = "load" /\ Go(p, "load")
        /\ UNCHANGED <<disk, now, work>> /\ UNCHANGED <<calm, disturbed, sound, before>>
    BY <1>0, <1>2, <1>b DEF Settle, Go, TypeOK, history
  <2>3. Made(p)'
    BY <1>0, <2>1 DEF Own, Made, Recording, UnderLock, work, disk, Expired
  <2>4. Published(p)' /\ Retiring(p)' /\ Restored(p)'
    BY <2>1 DEF Published, Retiring, Restored
  <2>6. Moving(p)' => Moving(p)
    BY <1>0, <2>1 DEF Moving, Inside, Ended, work
  <2> QED
    BY <1>a, <2>1, <2>3, <2>4, <2>6, StepOwns DEF Steps, Ended
<1> QED
  BY <1>1, <1>2

LEMMA LockSourceOwns ==
    ASSUME IInv, NEW p \in Procs, LockSource(p)
    PROVE  Own(p)'
<1>0. pc'[p] = "preflight"
  BY DEF IInv, TypeOK, LockSource, Go
<1> QED
  BY <1>0 DEF Own, Batched, Made, Published, Fits, Retiring, Restored, Through, Moving,
     Inside, Ended, UnderLock

LEMMA LoadOwns ==
    ASSUME IInv, NEW p \in Procs, Load(p)
    PROVE  Own(p)'
<1>0. TypeOK /\ Own(p) /\ pc[p] = "load" /\ op[p] = "migrate" /\ Moving(p) /\ Recording(p)
  BY DEF IInv, Load, Roles, Moving, Inside, Ended, Recording
<1>a. /\ item[p] \in Ids /\ size[p] \in Sizes /\ item[p] \in batch[p] /\ size[p] = src[item[p]]
      /\ calm[p] => TimeOf(item[p]) <= now /\ ~Expired(item[p])
      /\ sound[p] /\ ~disturbed[p] => dst[item[p]] = size[p]
  BY <1>0 DEF Own, Made, Fits
<1>1. CASE item[p] \notin Live(dst)
  <2>1. End(p, "failed")
    BY <1>1 DEF Load
  <2>2. ~(sound[p] /\ calm[p] /\ ~disturbed[p])
    BY <1>1, <1>a DEF Live, Valid
  <2> QED
    BY <2>1, <2>2, EndOwns DEF Ended
<1>2. CASE item[p] \in Live(dst)
  <2>1. pc'[p] = "unlink" /\ Go(p, "unlink")
        /\ UNCHANGED <<disk, now, work>> /\ UNCHANGED <<calm, disturbed, sound, before>>
    BY <1>0, <1>2 DEF Load, Go, TypeOK, history
  <2>3. Made(p)'
    BY <1>a, <2>1 DEF Made, UnderLock, work, disk
  <2>4. Published(p)' /\ Retiring(p)' /\ Restored(p)'
    BY <2>1 DEF Published, Retiring, Restored
  <2> QED
    BY <1>0, <1>a, <2>1, <2>3, <2>4, StepOwns DEF Steps, Ended
<1> QED
  BY <1>1, <1>2

LEMMA PublishOwns ==
    ASSUME IInv, NEW p \in Procs, Publish(p)
    PROVE  Own(p)'
<1>0. /\ TypeOK /\ Own(p) /\ pc[p] = "publish" /\ Recording(p)
      /\ dst[item[p]] = Nothing /\ item[p] \in Ids /\ size[p] \in Sizes
  BY AtPublish DEF IInv, Publish
<1>1. /\ pc'[p] = "enforce" /\ src' = src /\ now' = now /\ UNCHANGED work
      /\ UNCHANGED <<calm, sound, before>>
  BY <1>0 DEF Publish, Go, TypeOK
<1>2. disturbed'[p] = disturbed[p]
  <2>1. disturbed[p] \in BOOLEAN
    BY <1>0 DEF TypeOK
  <2>2. disturbed' = [q \in Procs |-> disturbed[q] \/ (q # p /\ sound[q])]
    BY DEF Publish, Disturb
  <2> QED
    BY <2>1, <2>2
<1>3. dst' = [dst EXCEPT ![item[p]] = size[p]] /\ dst \in [Ids -> Sizes \cup {Nothing, Broken, Foreign}]
  BY <1>0 DEF Publish, TypeOK, Stores
<1>4. dst'[item[p]] = size[p] /\ \A id \in Ids : id # item[p] => dst'[id] = dst[id]
  BY <1>0, <1>3
<1>5. Batched(p)'
  BY <1>0, <1>1 DEF Own, Batched, Moving, Inside, Ended, work, Live, Valid, Expired
<1>6. Made(p)'
  BY <1>0, <1>1 DEF Own, Made, Recording, UnderLock, work, Expired
<1>7. Published(p)'
  BY <1>0, <1>1, <1>4 DEF Published, work
<1>8. Fits(p)'
  <2> SUFFICES ASSUME op[p] = "migrate", sound[p], ~disturbed[p]
               PROVE  Fits(p)'
    BY <1>1, <1>2 DEF Fits, Moving, Inside, work
  <2>1. Moving(p) /\ item[p] \in batch[p] /\ size[p] = src[item[p]]
    BY <1>0 DEF Own, Made, Moving, Inside, Ended, UnderLock
  <2>2. /\ \A id \in batch[p] : dst[id] \in {Nothing, src[id]} /\ TimeOf(id) <= now
        /\ \A id \in Ids : dst[id] \in Sizes => TimeOf(id) <= now
        /\ \A k \in Keys : Cardinality(OfKey(Live(dst) \cup batch[p], k)) <= MaxRecords
        /\ Bytes(Both(p), Live(dst) \cup batch[p]) <= MaxBytes
    BY <1>0, <2>1 DEF Own, Fits
  <2>3. batch[p] \in SUBSET Ids
    BY <1>0 DEF TypeOK
  <2>4. Both(p)' = Both(p)
    <3>1. \A id \in Ids : id \notin batch[p] => dst'[id] = dst[id]
      BY <1>4, <2>1
    <3> QED
      BY <1>1, <3>1 DEF Both, work
  <2>5. Live(dst)' \cup batch[p] = Live(dst) \cup batch[p]
    <3>1. \A id \in Ids : id # item[p] => (id \in Live(dst)' <=> id \in Live(dst))
      BY <1>1, <1>4 DEF Live, Valid, Expired
    <3>2. Live(dst) \in SUBSET Ids /\ Live(dst)' \in SUBSET Ids
      BY DEF Live, Valid
    <3> QED
      BY <2>1, <3>1, <3>2
  <2>6. /\ \A id \in batch[p] : dst'[id] \in {Nothing, src[id]}
        /\ \A id \in Ids : dst'[id] \in Sizes => TimeOf(id) <= now
    BY <1>4, <2>1, <2>2, <2>3
  <2> QED
    BY <1>1, <2>2, <2>4, <2>5, <2>6 DEF Fits, work
<1>9. Retiring(p)' /\ Restored(p)' /\ Through(p)'
  BY <1>1 DEF Retiring, Restored, Through
<1> QED
  BY <1>5, <1>6, <1>7, <1>8, <1>9 DEF Own

LEMMA DecideOwns ==
    ASSUME IInv, NEW p \in Procs, NEW ids, Decide(p, ids), ids = PlanOf(p)',
           pc[p] \in {"enforce", "plan"},
           pc[p] = "enforce" => Recording(p) /\ Retained(dst, item[p]),
           pc[p] = "plan" => ~Recording(p),
           Moving(p) /\ sound[p] /\ ~disturbed[p] => ids \cap Live(dst) = {}
    PROVE  Own(p)'
<1>0. TypeOK /\ Own(p)
  BY DEF IInv
<1>1. /\ pc'[p] = "remove" /\ src' = src /\ dst' = dst /\ now' = now /\ todo'[p] = ids
      /\ UNCHANGED <<op, item, size, batch, obsolete, calm, sound, disturbed>>
      /\ before'[p] = dst
  BY <1>0 DEF Decide, Go, TypeOK, disk
<1>2. Live(src)' = Live(src) /\ Live(dst)' = Live(dst) /\ \A s : Live(s)' = Live(s)
  BY <1>1, SameInventory DEF disk
<1>3. Batched(p)'
  BY <1>0, <1>1, <1>2 DEF Own, Batched, Moving, Inside, Ended
<1>4. Made(p)'
  BY <1>0, <1>1 DEF Own, Made, Recording, UnderLock, Expired
<1>5. Recording(p)' <=> pc[p] = "enforce"
  BY <1>1 DEF Recording
<1>6. Recording(p) /\ pc[p] = "enforce" =>
         /\ dst[item[p]] = size[p] /\ item[p] \in Ids /\ size[p] \in Sizes /\ size[p] <= MaxBytes
  BY <1>0 DEF Own, Published, Made, UnderLock
<1>7. Published(p)'
  <2>1. ASSUME pc[p] = "enforce"
        PROVE  item[p] \notin ids
    <3>1. ids = RecordPlan(dst, item[p])
      <4>1. ids = RecordPlan(before[p], item[p])'
        BY <1>5, <2>1 DEF PlanOf
      <4> QED
        BY <1>1, <1>2, <4>1 DEF RecordPlan, Contest, Slots
    <3>2. dst \in Stores
      BY <1>0 DEF TypeOK
    <3> QED
      BY <1>6, <2>1, <3>1, <3>2, PlanSparesItem
  <2> QED
    BY <1>1, <1>5, <1>6, <2>1 DEF Published
<1>8. Fits(p)'
  <2>1. Both(p)' = Both(p)
    BY <1>1 DEF Both
  <2>2. Moving(p)' => Moving(p)
    BY <1>1 DEF Moving, Inside, Ended
  <2> QED
    BY <1>0, <1>1, <1>2, <2>1, <2>2 DEF Own, Fits
<1>9. Retiring(p)'
  <2>1. dst = [id \in Ids |-> IF id \in {} THEN Nothing ELSE dst[id]]
    BY <1>0 DEF TypeOK, Stores
  <2>2. Recording(p)' => Retained(before[p], item[p])'
    BY <1>1, <1>2, <1>5 DEF Retained, Contest, Slots
  <2>3. todo'[p] = PlanOf(p)' /\ PlanOf(p)' \ todo'[p] = {}
    BY <1>1
  <2> HIDE DEF PlanOf
  <2> QED
    BY <1>1, <1>5, <1>6, <2>1, <2>2, <2>3 DEF Retiring
<1>10. Restored(p)' /\ Through(p)'
  BY <1>1 DEF Restored, Through
<1> QED
  BY <1>3, <1>4, <1>7, <1>8, <1>9, <1>10 DEF Own

LEMMA EnforceOwns ==
    ASSUME IInv, NEW p \in Procs, Enforce(p)
    PROVE  Own(p)'
<1>0. /\ TypeOK /\ Own(p) /\ pc[p] = "enforce" /\ Recording(p)
      /\ (op[p] = "migrate" \/ ~sound[p])
  BY DEF IInv, Enforce, Roles
<1>1. CASE ~Retained(dst, item[p])
  <2>1. End(p, "failed")
    BY <1>1 DEF Enforce
  <2>2. ~(sound[p] /\ calm[p] /\ ~disturbed[p])
    BY <1>0, <1>1, SoundGoesFree
  <2> QED
    BY <2>1, <2>2, EndOwns DEF Ended
<1>2. CASE Retained(dst, item[p])
  <2> DEFINE ids == RecordPlan(dst, item[p])
  <2>1. Decide(p, ids)
    BY <1>2 DEF Enforce
  <2>2. now' = now /\ before'[p] = dst /\ UNCHANGED <<op, item>>
    BY <1>0, <2>1 DEF Decide, TypeOK
  <2>3. ids = PlanOf(p)'
    BY <1>0, <2>2 DEF PlanOf, Recording, RecordPlan, Contest, Slots, Live, Valid, Expired
  <2>4. Moving(p) /\ sound[p] /\ ~disturbed[p] => ids \cap Live(dst) = {}
    BY <1>0, SoundGoesFree DEF Moving, Inside
  <2> HIDE DEF ids
  <2> QED
    BY <1>0, <1>2, <2>1, <2>3, <2>4, DecideOwns
<1> QED
  BY <1>1, <1>2

LEMMA PlanOwns ==
    ASSUME IInv, NEW p \in Procs, Plan(p)
    PROVE  Own(p)'
<1>0. TypeOK /\ pc[p] = "plan" /\ op[p] \in {"prune", "clear"}
  BY DEF IInv, Plan, Roles
<1> DEFINE ids == IF op[p] = "prune" THEN PrunePlan(dst) ELSE Safe(dst)
<1>1. Decide(p, ids)
  BY DEF Plan
<1>2. now' = now /\ before'[p] = dst /\ UNCHANGED <<op, item>>
  BY <1>0, <1>1 DEF Decide, TypeOK
<1>3. ids = PlanOf(p)'
  BY <1>0, <1>2 DEF PlanOf, Recording, PrunePlan, Live, Valid, Expired
<1>4. ~Moving(p) /\ ~Recording(p)
  BY <1>0 DEF Moving, Inside, Recording
<1> HIDE DEF ids
<1> QED
  BY <1>0, <1>1, <1>3, <1>4, DecideOwns

LEMMA RemoveNextOwns ==
    ASSUME IInv, NEW p \in Procs, RemoveNext(p)
    PROVE  Own(p)'
<1> DEFINE x == FirstOf(todo[p])
<1>0. TypeOK /\ Own(p) /\ pc[p] = "remove" /\ todo[p] # {} /\ Drop(p, x)
  BY DEF IInv, RemoveNext
<1>1. x \in todo[p] /\ x \in Ids
  BY <1>0, DropTypes
<1> HIDE DEF x
<1>2. /\ src' = src /\ now' = now /\ pc' = pc
      /\ UNCHANGED <<op, item, size, batch, obsolete, calm, sound, before>>
  BY DEF RemoveNext
<1>3. disturbed'[p] = disturbed[p] /\ todo'[p] = todo[p] \ {x}
  <2>1. disturbed[p] \in BOOLEAN
    BY <1>0 DEF TypeOK
  <2>2. disturbed' = [q \in Procs |-> disturbed[q] \/ (q # p /\ sound[q])]
    BY <1>0 DEF Drop, Disturb
  <2>3. todo' = [todo EXCEPT ![p] = @ \ {x}] /\ todo \in [Procs -> SUBSET Ids]
    BY <1>0 DEF Drop, TypeOK
  <2> QED
    BY <2>1, <2>2, <2>3
<1>4. /\ dst' = [dst EXCEPT ![x] = Nothing] /\ dst \in [Ids -> Sizes \cup {Nothing, Broken, Foreign}]
      /\ dst'[x] = Nothing /\ \A id \in Ids : id # x => dst'[id] = dst[id]
  BY <1>0, <1>1 DEF Drop, TypeOK, Stores
<1>5. Batched(p)'
  BY <1>0, <1>2 DEF Own, Batched, Moving, Inside, Live, Valid, Expired
<1>6. Made(p)'
  BY <1>0, <1>2 DEF Own, Made, Recording, Expired
<1>7. Published(p)'
  <2>1. Recording(p) => item[p] \in Ids /\ dst[item[p]] = size[p] /\ item[p] \notin todo[p]
    BY <1>0 DEF Own, Published, Made, UnderLock
  <2> QED
    BY <1>0, <1>1, <1>2, <1>3, <1>4, <2>1 DEF Published, Recording
<1>8. Fits(p)'
  <2> SUFFICES ASSUME Moving(p), sound[p], ~disturbed[p]
               PROVE  Fits(p)'
    BY <1>2, <1>3 DEF Fits, Moving, Inside
  <2>2. /\ \A id \in batch[p] : dst[id] \in {Nothing, src[id]} /\ TimeOf(id) <= now
        /\ \A id \in Ids : dst[id] \in Sizes => TimeOf(id) <= now
        /\ \A k \in Keys : Cardinality(OfKey(Live(dst) \cup batch[p], k)) <= MaxRecords
        /\ Bytes(Both(p), Live(dst) \cup batch[p]) <= MaxBytes
        /\ todo[p] \cap Live(dst) = {}
    BY <1>0 DEF Own, Fits
  <2>3. batch[p] \in SUBSET Ids /\ \A id \in batch[p] : src[id] \in Sizes
    BY <1>0 DEF TypeOK, Own, Batched
  <2>4. Live(dst)' = Live(dst)
    <3>1. x \notin Live(dst) /\ x \notin Live(dst)'
      BY <1>1, <1>4, <2>2, Names DEF Live, Valid
    <3>2. \A id \in Ids : id # x => (id \in Live(dst)' <=> id \in Live(dst))
      BY <1>2, <1>4 DEF Live, Valid, Expired
    <3>3. Live(dst) \in SUBSET Ids /\ Live(dst)' \in SUBSET Ids
      BY DEF Live, Valid
    <3> QED
      BY <3>1, <3>2, <3>3
  <2> DEFINE S == Live(dst) \cup batch[p]
             new == Both(p)'
  <2>5. Bytes(new, S) = Bytes(Both(p), S)
    <3>1. S \in SUBSET Ids
      BY <2>3 DEF Live, Valid
    <3>2. IsFiniteSet(S)
      BY <3>1, FiniteIds, FS_Subset
    <3>3. ASSUME NEW id \in S
          PROVE  Both(p)[id] \in Int /\ new[id] = Both(p)[id]
      <4>1. id \in Ids /\ (id \in batch[p] \/ id \in Live(dst))
        BY <3>1
      <4>2. id \notin batch[p] => dst'[id] = dst[id] /\ dst[id] \in Int
        BY <1>4, <2>2, <4>1, <1>1, Names DEF Live, Valid
      <4>3. /\ Both(p)[id] = IF id \in batch[p] THEN src[id] ELSE dst[id]
            /\ new[id] = IF id \in batch[p] THEN src[id] ELSE dst'[id]
        BY <4>1, <1>2 DEF Both
      <4> HIDE DEF S, new
      <4> QED
        BY <2>3, <4>2, <4>3, Names
    <3> HIDE DEF S, new
    <3>4. Bytes(Both(p), S) = Bytes(new, S)
      BY <3>2, <3>3, BytesEqual
    <3> QED
      BY <3>4
  <2>6. /\ \A id \in batch[p] : dst'[id] \in {Nothing, src[id]}
        /\ \A id \in Ids : dst'[id] \in Sizes => TimeOf(id) <= now
    BY <1>1, <1>4, <2>2, <2>3, Names
  <2>7. Bytes(Both(p)', (Live(dst) \cup batch[p])') <= MaxBytes
    BY <1>2, <2>2, <2>4, <2>5
  <2> HIDE DEF S, new
  <2> QED
    BY <1>0, <1>2, <1>3, <2>2, <2>4, <2>6, <2>7 DEF Fits
<1>9. Retiring(p)'
  <2> SUFFICES ASSUME calm[p] PROVE Retiring(p)'
    BY <1>2 DEF Retiring
  <2>1. /\ PlanOf(p)' = PlanOf(p)
        /\ Recording(p)' <=> Recording(p)
        /\ Retained(before[p], item[p])' <=> Retained(before[p], item[p])
    BY <1>2 DEF PlanOf, RecordPlan, PrunePlan, Retained, Contest, Slots, Recording,
       Live, Valid, Expired
  <2>2. /\ todo[p] \subseteq PlanOf(p)
        /\ dst = [id \in Ids |-> IF id \in PlanOf(p) \ todo[p] THEN Nothing ELSE before[p][id]]
        /\ Recording(p) => before[p][item[p]] = size[p] /\ Retained(before[p], item[p])
    BY <1>0 DEF Own, Retiring
  <2> DEFINE plan == PlanOf(p)
             then == [id \in Ids |-> IF id \in plan \ (todo[p] \ {x}) THEN Nothing ELSE before[p][id]]
  <2> HIDE DEF plan
  <2>3. dst' = then
    <3>1. \A id \in Ids : dst'[id] = then[id]
      BY <1>1, <1>4, <2>2 DEF plan
    <3>2. dst' \in [Ids -> Sizes \cup {Nothing, Broken, Foreign}]
      BY <1>1, <1>4
    <3>3. dst' = [id \in Ids |-> dst'[id]]
      BY <3>2
    <3> HIDE DEF then
    <3>4. then = [id \in Ids |-> then[id]]
      BY DEF then
    <3> QED
      BY <3>1, <3>3, <3>4
  <2> QED
    BY <1>2, <1>3, <2>1, <2>2, <2>3 DEF Retiring, plan
<1>10. Restored(p)' /\ Through(p)'
  BY <1>0, <1>2 DEF Restored, Through
<1> QED
  BY <1>5, <1>6, <1>7, <1>8, <1>9, <1>10 DEF Own

LEMMA PreflightOwns ==
    ASSUME IInv, NEW p \in Procs, Preflight(p)
    PROVE  Own(p)'
<1>0. TypeOK /\ Own(p) /\ pc[p] = "preflight" /\ op[p] = "migrate" /\ ~sound[p]
  BY DEF IInv, Preflight, Roles
<1>1. CASE End(p, "failed")
  BY <1>0, <1>1, EndOwns DEF Ended
<1>2. CASE ~End(p, "failed")
  <2> DEFINE there == Live(dst)
             new == Valid(src) \ there
             S == there \cup Valid(src)
             both == Both(p)'
  <2>0. BatchFits(src, dst) /\ \A id \in Valid(src) : ItemFits(src, dst, id)
    BY <1>2 DEF Preflight
  <2>1. /\ pc'[p] = "next" /\ src' = src /\ dst' = dst /\ now' = now
        /\ batch'[p] = Valid(src) /\ UNCHANGED <<op, calm>>
        /\ sound'[p] =>
              /\ \A id \in Valid(src) : dst[id] \in {Nothing, src[id]}
              /\ \A id \in Ids : dst[id] \in Sizes => TimeOf(id) <= now
              /\ \A k \in Keys : Cardinality(OfKey(Live(dst), k)) <= MaxRecords
    BY <1>0, <1>2 DEF Preflight, Go, TypeOK, disk
  <2>2. Live(src)' = Live(src) /\ Live(dst)' = Live(dst)
    BY <2>1, SameInventory DEF disk
  <2>3. /\ Valid(src) \in SUBSET Ids /\ there \in SUBSET Ids
        /\ \A id \in Valid(src) : src[id] \in Sizes /\ TimeOf(id) <= now
        /\ \A id \in there : dst[id] \in Sizes
    BY DEF Live, Valid
  <2>4. /\ \A id \in Valid(src) : ~Expired(id)
        /\ \A id \in new : Cardinality(OfKey(there \cup new, KeyOf(id))) <= MaxRecords
        /\ Bytes(dst, there) + Bytes(src, new) <= MaxBytes
    BY <2>0 DEF BatchFits
  <2>5. \A id \in there : dst[id] \in Nat
    BY <2>3, Names
  <2>6. new \in SUBSET Ids /\ \A id \in new : src[id] \in Nat
    BY <2>3, Names
  <2> HIDE DEF there, new, S, both
  <2>7. Bytes(dst, there) \in Nat /\ Bytes(src, new) \in Nat
    BY <2>3, <2>5, <2>6, BytesMore
  <2>8. ASSUME NEW id \in Valid(src)
        PROVE  src[id] <= MaxBytes
    <3>0. src[id] \in Int /\ src[id] \in Nat
      BY <2>3, Names
    <3>1. Bytes(src, {id}) = src[id]
      BY <3>0, BytesOne
    <3>2. CASE id \in new
      <4>1. {id} \in SUBSET new
        BY <3>2
      <4>2. Bytes(src, {id}) <= Bytes(src, new)
        BY <2>6, <4>1, BytesMore
      <4> QED
        BY <2>4, <2>7, <3>0, <3>1, <4>2, Names
    <3>3. CASE id \in there
      <4>1. dst[id] = src[id]
        BY <2>0, <3>3 DEF ItemFits, there
      <4>2. Bytes(dst, {id}) = dst[id]
        BY <3>0, <4>1, BytesOne
      <4>3. {id} \in SUBSET there
        BY <3>3
      <4>4. Bytes(dst, {id}) <= Bytes(dst, there)
        BY <2>3, <2>5, <4>3, BytesMore
      <4> QED
        BY <2>4, <2>7, <3>0, <4>1, <4>2, <4>4, Names
    <3> QED
      BY <3>2, <3>3 DEF new
  <2>9. Batched(p)'
    <3>1. \A id \in Valid(src) : id \in Live(src)
      BY <2>4 DEF Live
    <3> QED
      BY <2>1, <2>2, <2>3, <2>8, <3>1 DEF Batched
  <2>10. Fits(p)'
    <3> SUFFICES ASSUME sound'[p] PROVE Fits(p)'
      BY DEF Fits
    <3>1. /\ \A id \in Valid(src) : dst[id] \in {Nothing, src[id]}
          /\ \A id \in Ids : dst[id] \in Sizes => TimeOf(id) <= now
          /\ \A k \in Keys : Cardinality(OfKey(there, k)) <= MaxRecords
      BY <2>1 DEF there
    <3>2. S = there \cup new /\ there \cap new = {}
      BY DEF S, new
    <3>3. ASSUME NEW k \in Keys
          PROVE  Cardinality(OfKey(S, k)) <= MaxRecords
      <4>1. CASE \E id \in new : KeyOf(id) = k
        BY <2>4, <3>2, <4>1
      <4>2. CASE ~\E id \in new : KeyOf(id) = k
        <5>1. OfKey(S, k) = OfKey(there, k)
          BY <3>2, <4>2 DEF OfKey
        <5> QED
          BY <3>1, <5>1
      <4> QED
        BY <4>1, <4>2
    <3>4. both = [id \in Ids |-> IF id \in Valid(src) THEN src[id] ELSE dst[id]]
      BY <2>1 DEF both, Both
    <3>5. \A id \in there : dst[id] \in Int /\ both[id] = dst[id]
      <4>1. \A id \in there : id \in Ids /\ dst[id] \in Sizes /\ dst[id] # Nothing
        BY <2>3, Names
      <4> QED
        BY <3>1, <3>4, <4>1, Names
    <3>6. \A id \in new : src[id] \in Int /\ both[id] = src[id]
      BY <2>3, <2>6, <3>4 DEF new
    <3>7. IsFiniteSet(there) /\ IsFiniteSet(new)
      BY <2>3, <2>6, FiniteIds, FS_Subset
    <3>8. Bytes(dst, there) = Bytes(both, there)
      BY <3>5, <3>7, BytesEqual
    <3>9. Bytes(src, new) = Bytes(both, new)
      BY <3>6, <3>7, BytesEqual
    <3>10. Bytes(both, there \cup new) = Bytes(both, there) + Bytes(both, new)
      <4>1. \A id \in there \cup new : both[id] \in Int
        BY <3>5, <3>6
      <4> QED
        BY <3>2, <3>7, <4>1, BytesUnion
    <3>11. Bytes(both, S) <= MaxBytes
      BY <2>4, <3>2, <3>8, <3>9, <3>10
    <3> QED
      BY <2>1, <2>2, <2>3, <3>1, <3>3, <3>11 DEF Fits, S, both, there
  <2>11. /\ Made(p)' /\ Published(p)' /\ Retiring(p)' /\ Restored(p)' /\ Through(p)'
    BY <2>1 DEF Made, Published, Retiring, Restored, Through, UnderLock
  <2> QED
    BY <2>9, <2>10, <2>11 DEF Own
<1> QED
  BY <1>1, <1>2

LEMMA NextEntryOwns ==
    ASSUME IInv, NEW p \in Procs, NextEntry(p)
    PROVE  Own(p)'
<1> DEFINE left == batch[p] \cup obsolete[p]
           id == FirstOf(left)
<1>0. /\ TypeOK /\ Own(p) /\ pc[p] = "next" /\ op[p] = "migrate" /\ Moving(p)
  BY DEF IInv, NextEntry, Roles, Moving, Inside, Ended
<1>1. CASE left = {}
  <2>1. End(p, "ok")
    BY <1>1 DEF NextEntry
  <2> QED
    BY <2>1, EndOwns DEF Ended
<1>2. CASE id \in batch[p] /\ (TimeOf(id) > now \/ Expired(id))
  <2>0. left # {}
    BY <1>2
  <2>1. End(p, "failed")
    BY <1>2, <2>0 DEF NextEntry
  <2>2. ~calm[p]
    <3>1. calm[p] => id \in Live(src)
      BY <1>0, <1>2 DEF Own, Batched
    <3>2. now \in Int /\ (id \in Live(src) => TimeOf(id) \in Int)
      BY <1>0, PolicyAssumption DEF TypeOK, Live, Valid, Ids, TimeOf
    <3> HIDE DEF id
    <3> QED
      BY <1>2, <3>1, <3>2 DEF Live, Valid
  <2> QED
    BY <2>1, <2>2, EndOwns DEF Ended
<1>3. CASE left # {} /\ ~(id \in batch[p] /\ (TimeOf(id) > now \/ Expired(id)))
  <2>1. /\ Ask(p, id, IF id \in batch[p] THEN src[id] ELSE 0)
        /\ Go(p, IF id \in batch[p] THEN "lock" ELSE "unlink")
        /\ UNCHANGED <<disk, now, locks, op, todo, batch, obsolete, history>>
    BY <1>3 DEF NextEntry
  <2>2. id \in left /\ left \in SUBSET Ids
    BY <1>0, <1>3, FirstIsOne DEF TypeOK
  <2>3. ~(id \in batch[p] /\ (TimeOf(id) > now \/ Expired(id)))
    BY <1>3
  <2> HIDE DEF id
  <2>4. /\ pc'[p] = IF id \in batch[p] THEN "lock" ELSE "unlink"
        /\ item'[p] = id /\ size'[p] = IF id \in batch[p] THEN src[id] ELSE 0
        /\ src' = src /\ dst' = dst /\ now' = now
        /\ UNCHANGED <<op, todo, batch, obsolete, calm, disturbed, sound, before>>
    BY <1>0, <2>1 DEF Go, Ask, TypeOK, disk, history
  <2>5. Live(src)' = Live(src) /\ Live(dst)' = Live(dst)
    BY <2>4, SameInventory DEF disk
  <2>6. /\ now \in Int /\ TimeOf(id) \in Int /\ id \in Ids
    BY <1>0, <2>2, PolicyAssumption DEF TypeOK, Ids, TimeOf
  <2>7. id \in batch[p] => src[id] \in Sizes /\ src[id] <= MaxBytes /\ TimeOf(id) # 0
    <3>1. id \in batch[p] => src[id] \in Sizes /\ src[id] <= MaxBytes
      BY <1>0 DEF Own, Batched
    <3>2. PICK k \in Keys, t \in 0..MaxTime : id = <<k, t>>
      BY <2>6 DEF Ids
    <3>3. src[<<k, 0>>] \notin Sizes
      BY DEF IInv, Temporaries
    <3>4. t = TimeOf(id)
      BY <3>2 DEF TimeOf
    <3> QED
      BY <3>1, <3>2, <3>3, <3>4
  <2>8. Batched(p)'
    BY <1>0, <2>4, <2>5 DEF Own, Batched, Moving, Inside, Ended
  <2>9. Made(p)'
    <3>1. CASE id \in batch[p]
      <4>1. TimeOf(id) <= now /\ ~Expired(id)
        BY <2>3, <2>6, <3>1
      <4> QED
        BY <2>4, <2>6, <2>7, <3>1, <4>1 DEF Made, UnderLock, Expired
    <3>2. CASE id \notin batch[p]
      BY <2>2, <2>4, <3>2 DEF Made, UnderLock
    <3> QED
      BY <3>1, <3>2
  <2>10. Fits(p)'
    <3>1. Both(p)' = Both(p)
      BY <2>4 DEF Both
    <3> QED
      BY <1>0, <2>4, <2>5, <3>1 DEF Own, Fits
  <2>11. Published(p)' /\ Retiring(p)' /\ Restored(p)' /\ Through(p)'
    BY <2>4 DEF Published, Retiring, Restored, Through
  <2> QED
    BY <2>8, <2>9, <2>10, <2>11 DEF Own
<1> QED
  BY <1>1, <1>2, <1>3

LEMMA UnlinkOwns ==
    ASSUME IInv, NEW p \in Procs, Unlink(p)
    PROVE  Own(p)'
<1>0. TypeOK /\ Own(p) /\ pc[p] = "unlink" /\ op[p] = "migrate" /\ Moving(p) /\ Leave(p)
  BY DEF IInv, Unlink, Roles, Moving, Inside, Ended
<1>1. /\ pc'[p] = "next" /\ dst' = dst /\ now' = now
      /\ UNCHANGED <<op, item, size, todo, calm, disturbed, sound, before>>
  BY <1>0 DEF Unlink, Go, TypeOK
<1>2. /\ batch'[p] = batch[p] \ {item[p]}
      /\ \A id \in Ids : id # item[p] => src'[id] = src[id]
      /\ batch[p] \in SUBSET Ids
  BY <1>0 DEF Leave, TypeOK, Stores
<1>3. Batched(p)'
  <2> SUFFICES ASSUME NEW id \in batch'[p]
               PROVE  src'[id] \in Sizes /\ src'[id] <= MaxBytes /\ (calm[p] => id \in Live(src)')
    BY <1>1 DEF Batched
  <2>1. id \in batch[p] /\ src'[id] = src[id] /\ id \in Ids
    BY <1>2
  <2>2. src[id] \in Sizes /\ src[id] <= MaxBytes /\ (calm[p] => id \in Live(src))
    BY <1>0, <2>1 DEF Own, Batched
  <2> QED
    BY <1>1, <2>1, <2>2 DEF Live, Valid, Expired
<1>4. Fits(p)'
  <2> SUFFICES ASSUME sound[p], ~disturbed[p]
               PROVE  Fits(p)'
    BY <1>1 DEF Fits
  <2>1. /\ \A id \in batch[p] : dst[id] \in {Nothing, src[id]} /\ TimeOf(id) <= now
        /\ \A id \in Ids : dst[id] \in Sizes => TimeOf(id) <= now
        /\ \A k \in Keys : Cardinality(OfKey(Live(dst) \cup batch[p], k)) <= MaxRecords
        /\ Bytes(Both(p), Live(dst) \cup batch[p]) <= MaxBytes
        /\ item[p] \in batch[p] => dst[item[p]] = size[p]
    BY <1>0 DEF Own, Fits
  <2>2. item[p] \in batch[p] => dst[item[p]] = src[item[p]]
    BY <1>0, <2>1 DEF Own, Made
  <2>3. Live(dst)' = Live(dst)
    BY <1>1 DEF Live, Valid, Expired
  <2>4. \A id \in batch[p] : src[id] \in Sizes
    BY <1>0 DEF Own, Batched
  <2> DEFINE S == Live(dst) \cup batch[p]
             T == Live(dst) \cup batch'[p]
             now1 == Both(p)'
  <2>5. S \in SUBSET Ids /\ T \in SUBSET S /\ T \in SUBSET Ids
    BY <1>2 DEF Live, Valid
  <2>6. ASSUME NEW id \in S
        PROVE  Both(p)[id] \in Nat
    <3>1. id \in Ids /\ (id \in batch[p] \/ id \in Live(dst))
      BY <2>5
    <3>2. id \in Live(dst) => dst[id] \in Sizes
      BY DEF Live, Valid
    <3>3. Both(p)[id] = IF id \in batch[p] THEN src[id] ELSE dst[id]
      BY <3>1 DEF Both
    <3> QED
      BY <2>4, <3>1, <3>2, <3>3, Names
  <2>7. ASSUME NEW id \in T
        PROVE  Both(p)[id] \in Int /\ now1[id] = Both(p)[id]
    <3>1. id \in Ids /\ id \in S
      BY <2>5
    <3>2. /\ Both(p)[id] = IF id \in batch[p] THEN src[id] ELSE dst[id]
          /\ now1[id] = IF id \in batch'[p] THEN src'[id] ELSE dst[id]
      BY <3>1, <1>1 DEF Both
    <3>3. Both(p)[id] \in Int
      BY <2>6, <3>1
    <3> HIDE DEF now1, S, T
    <3> QED
      BY <1>2, <2>2, <3>1, <3>2, <3>3
  <2> HIDE DEF S, T, now1
  <2>8. Bytes(now1, T) <= MaxBytes
    <3>1. IsFiniteSet(T)
      BY <2>5, FiniteIds, FS_Subset
    <3>2. Bytes(Both(p), T) = Bytes(now1, T)
      BY <2>7, <3>1, BytesEqual
    <3>3. /\ Bytes(Both(p), T) \in Nat /\ Bytes(Both(p), S) \in Nat
          /\ Bytes(Both(p), T) <= Bytes(Both(p), S)
      BY <2>5, <2>6, BytesMore
    <3>4. Bytes(Both(p), S) <= MaxBytes
      BY <2>1 DEF S
    <3> QED
      BY <3>2, <3>3, <3>4, Names
  <2>9. ASSUME NEW k \in Keys
        PROVE  Cardinality(OfKey(T, k)) <= MaxRecords
    <3>1. OfKey(T, k) \in SUBSET OfKey(S, k) /\ OfKey(S, k) \in SUBSET Ids
      BY <2>5 DEF OfKey
    <3>2. IsFiniteSet(OfKey(S, k)) /\ IsFiniteSet(OfKey(T, k))
      BY <3>1, FiniteIds, FS_Subset
    <3>3. Cardinality(OfKey(T, k)) <= Cardinality(OfKey(S, k))
      BY <3>1, <3>2, FS_Subset
    <3>4. Cardinality(OfKey(S, k)) <= MaxRecords
      BY <2>1 DEF S
    <3>5. Cardinality(OfKey(T, k)) \in Nat /\ Cardinality(OfKey(S, k)) \in Nat
      BY <3>2, FS_CardinalityType
    <3> QED
      BY <3>3, <3>4, <3>5, PolicyAssumption
  <2>10. \A id \in batch'[p] : dst[id] \in {Nothing, src'[id]} /\ TimeOf(id) <= now
    BY <1>2, <2>1
  <2> QED
    BY <1>1, <2>1, <2>3, <2>8, <2>9, <2>10 DEF Fits, T, now1
<1>5. Made(p)' /\ Published(p)' /\ Retiring(p)' /\ Restored(p)' /\ Through(p)'
  BY <1>1 DEF Made, Published, Retiring, Restored, Through, UnderLock
<1> QED
  BY <1>3, <1>4, <1>5 DEF Own

-----------------------------------------------------------------------------
(***************************************************************************)
(* What is there when all that was decided to go has gone                  *)
(***************************************************************************)

\* A plan that leaves nothing but live records leaves just those.
LEMMA Left ==
    ASSUME TypeOK, NEW store \in Stores, NEW kept \in SUBSET Live(store),
           dst = [id \in Ids |-> IF id \in Safe(store) \ kept THEN Nothing ELSE store[id]]
    PROVE  /\ Safe(dst) = kept /\ Live(dst) = kept
           /\ \A id \in kept : dst[id] = store[id] /\ dst[id] \in Nat
           /\ kept \in SUBSET Ids /\ kept \subseteq Safe(store)
           /\ \A ids \in SUBSET kept : Bytes(dst, ids) = Bytes(store, ids)
<1>1. Live(store) \in SUBSET Ids /\ \A id \in Live(store) : store[id] \in Sizes
  BY DEF Live, Valid
<1>2. kept \in SUBSET Ids /\ \A id \in kept : dst[id] = store[id] /\ store[id] \in Sizes
  BY <1>1
<1>3. \A id \in kept : store[id] \notin {Nothing, Foreign}
  BY <1>2, Names DEF Foreign
<1>4. ASSUME NEW id \in Ids
      PROVE  dst[id] \notin {Nothing, Foreign} <=> id \in kept
  BY <1>2, <1>3, <1>4 DEF Safe
<1>5. Safe(dst) = kept
  BY <1>2, <1>4 DEF Safe
<1>6. Live(dst) = kept
  <2>1. Live(dst) \subseteq Safe(dst)
    BY Names DEF Live, Valid, Safe, Foreign
  <2>2. kept \subseteq Live(dst)
    BY <1>2 DEF Live, Valid
  <2> QED
    BY <1>5, <2>1, <2>2
<1>7. ASSUME NEW ids \in SUBSET kept
      PROVE  Bytes(dst, ids) = Bytes(store, ids)
  <2>1. IsFiniteSet(ids)
    BY <1>2, FiniteIds, FS_Subset
  <2>2. \A id \in ids : dst[id] \in Int /\ store[id] = dst[id]
    BY <1>2, Names
  <2> QED
    BY <2>1, <2>2, BytesEqual
<1>8. kept \subseteq Safe(store)
  BY <1>2, <1>3 DEF Safe
<1> QED
  BY <1>2, <1>5, <1>6, <1>7, <1>8, Names

\* So it is once a record is made.
LEMMA RecordLeft ==
    ASSUME IInv, NEW p \in Procs, pc[p] = "remove", todo[p] = {}, calm[p], Recording(p),
           NEW b, b = before[p], NEW i, i = item[p], NEW kept, kept = Remaining(b, i)
    PROVE  /\ i \in Live(b) /\ i \in kept /\ i \in Slots(Contest(b, i), i)
           /\ b \in Stores /\ b[i] \in Sizes /\ b[i] <= MaxBytes
           /\ kept \in SUBSET Live(b) /\ kept \subseteq {i} \cup Active(b, i)
           /\ Bytes(b, kept) <= MaxBytes
           /\ dst = [id \in Ids |-> IF id \in Safe(b) \ kept THEN Nothing ELSE b[id]]
<1>0. TypeOK /\ Own(p)
  BY DEF IInv
<1>1. b \in Stores /\ i \in Ids /\ b[i] \in Sizes /\ b[i] <= MaxBytes
  BY <1>0 DEF Own, Retiring, Made, UnderLock, TypeOK
<1>2. i \in Live(b)
  BY <1>0, <1>1 DEF Own, Made, UnderLock, Live, Valid
<1>3. i \in Slots(Contest(b, i), i)
  BY <1>0 DEF Own, Retiring, Retained
<1>4. /\ {i} \in SUBSET Ids /\ Active(b, i) \in SUBSET Ids
      /\ \A j \in {i} \cup Active(b, i) : b[j] \in Nat
      /\ Active(b, i) \subseteq Live(b) \cup {i}
  BY <1>1, ActiveIs
<1>5. Bytes(b, {i}) <= MaxBytes
  <2>1. b[i] \in Int
    BY <1>1, Names
  <2>2. Bytes(b, {i}) = b[i]
    BY <2>1, BytesOne
  <2> QED
    BY <1>1, <2>2
<1>6. {i} \subseteq kept /\ kept \subseteq {i} \cup Active(b, i) /\ Bytes(b, kept) <= MaxBytes
  <2> DEFINE one == {i}
             A == Active(b, i)
  <2>1. one \in SUBSET Ids /\ A \in SUBSET Ids
    BY <1>4
  <2>2. \A j \in one \cup A : b[j] \in Nat
    BY <1>4
  <2>3. Bytes(b, one) <= MaxBytes
    BY <1>5
  <2>4. kept = Admit(b, one, A)
    BY DEF Remaining
  <2>5. one \cup A \in SUBSET Ids
    BY <2>1
  <2> HIDE DEF one, A
  <2>6. one \subseteq kept /\ kept \subseteq one \cup A /\ Bytes(b, kept) <= MaxBytes
    BY ONLY <2>1, <2>2, <2>3, <2>4, <2>5, AdmitKeeps
  <2> QED
    BY <2>6 DEF one, A
<1>7. PlanOf(p) = Safe(b) \ kept
  BY RecordPlanIs DEF PlanOf
<1>8. dst = [id \in Ids |-> IF id \in PlanOf(p) \ {} THEN Nothing ELSE b[id]]
  BY <1>0 DEF Own, Retiring
<1>9. dst = [id \in Ids |-> IF id \in Safe(b) \ kept THEN Nothing ELSE b[id]]
  <2>1. PlanOf(p) \ {} = Safe(b) \ kept
    BY <1>7
  <2> HIDE DEF PlanOf
  <2> QED
    BY <1>8, <2>1
<1> QED
  BY <1>1, <1>2, <1>3, <1>4, <1>6, <1>9

\* The record that is made is of a store within policy.
LEMMA RemovedAllRestores ==
    ASSUME IInv, NEW p \in Procs, RemovedAll(p)
    PROVE  Restored(p)'
<1>0. TypeOK /\ pc[p] = "remove" /\ todo[p] = {} /\ UNCHANGED <<disk, now, item, calm>>
  BY DEF IInv, RemovedAll, End, work, history
<1> SUFFICES ASSUME pc'[p] = "settle", calm[p]
             PROVE  /\ item[p] \in Live(dst)
                    /\ Safe(dst) = Live(dst)
                    /\ Bytes(dst, Live(dst)) <= MaxBytes
                    /\ Cardinality(OfKey(Live(dst), KeyOf(item[p]))) <= MaxRecords
  BY <1>0 DEF Restored, Live, Valid, Expired, disk
<1>1. Recording(p)
  <2>1. op[p] \notin {"prune", "clear"}
    BY <1>0 DEF RemovedAll, End, Go, TypeOK
  <2>2. op[p] # "none"
    BY <1>0 DEF IInv, Roles
  <2> QED
    BY <1>0, <2>1, <2>2 DEF Recording, TypeOK
<1> DEFINE b == before[p]
           i == item[p]
           kept == Remaining(b, i)
<1>2. /\ i \in kept /\ i \in Slots(Contest(b, i), i) /\ b \in Stores
      /\ kept \in SUBSET Live(b) /\ kept \subseteq {i} \cup Active(b, i)
      /\ Bytes(b, kept) <= MaxBytes
      /\ dst = [id \in Ids |-> IF id \in Safe(b) \ kept THEN Nothing ELSE b[id]]
  <2>1. b = before[p] /\ i = item[p] /\ kept = Remaining(b, i)
    OBVIOUS
  <2> HIDE DEF b, i, kept
  <2> QED
    BY <1>0, <1>1, <2>1, RecordLeft
<1> HIDE DEF b, i, kept
<1>3. /\ Safe(dst) = kept /\ Live(dst) = kept /\ kept \in SUBSET Ids
      /\ Bytes(dst, kept) = Bytes(b, kept)
  BY <1>0, <1>2, Left
<1>4. Cardinality(OfKey(kept, KeyOf(i))) <= MaxRecords
  <2>0. i \in Ids /\ Contest(b, i) \in SUBSET Ids
    BY <1>2, <1>3 DEF Contest, Live, Valid
  <2> DEFINE S == Slots(Contest(b, i), i)
  <2>1. OfKey(kept, KeyOf(i)) \in SUBSET S
    BY <1>2 DEF OfKey, Active
  <2>2. S \in SUBSET Ids
    BY <2>0, SlotsKeep DEF OfKey
  <2>3. Cardinality(S) <= MaxRecords
    BY <2>0, SlotsKeep
  <2> HIDE DEF S
  <2>4. IsFiniteSet(S) /\ IsFiniteSet(OfKey(kept, KeyOf(i)))
    BY <2>1, <2>2, FiniteIds, FS_Subset
  <2>5. /\ Cardinality(OfKey(kept, KeyOf(i))) <= Cardinality(S)
        /\ Cardinality(S) \in Nat /\ Cardinality(OfKey(kept, KeyOf(i))) \in Nat
    BY <2>1, <2>4, FS_Subset, FS_CardinalityType
  <2> QED
    BY <2>3, <2>5, PolicyAssumption
<1> QED
  BY <1>2, <1>3, <1>4 DEF i

-----------------------------------------------------------------------------
(***************************************************************************)
(* The invariant                                                           *)
(***************************************************************************)

\* A step of p that changes neither store leaves the others alone.
LEMMA OthersOwn ==
    ASSUME IInv, NEW p \in Procs, NEW q \in Procs, q # p,
           \/ Begin(p) \/ Lock(p) \/ Reserve(p) \/ Enforce(p) \/ Settle(p)
           \/ Plan(p) \/ RemovedAll(p)
           \/ LockSource(p) \/ Preflight(p) \/ NextEntry(p) \/ Load(p)
    PROVE  Own(q)'
<1>0. TypeOK /\ Own(q)
  BY DEF IInv
<1> DEFINE Still == Same(q) /\ disturbed'[q] = disturbed[q] /\ UNCHANGED disk /\ now' = now
<1> SUFFICES Still
  BY <1>0, OthersStay
<1>a. ASSUME NEW how, End(p, how) PROVE Still
  BY <1>0, <1>a DEF End, Go, TypeOK, Same, work, history
<1>b. ASSUME NEW ids, Decide(p, ids) PROVE Still
  BY <1>0, <1>b DEF Decide, Go, TypeOK, Same
<1>c. ASSUME NEW s, Go(p, s), UNCHANGED <<disk, now, work, history>> PROVE Still
  BY <1>0, <1>c DEF Go, TypeOK, Same, work, history
<1>1. CASE Begin(p)
  BY <1>0, <1>1 DEF Begin, Go, Ask, TypeOK, Same
<1>2. CASE Lock(p) \/ LockSource(p)
  BY <1>2, <1>c DEF Lock, LockSource
<1>3. CASE Reserve(p) \/ RemovedAll(p) \/ Load(p)
  BY <1>3, <1>a, <1>c DEF Reserve, RemovedAll, Load
<1>4. CASE Settle(p)
  BY <1>4, <1>a, <1>c DEF Settle
<1>5. CASE Enforce(p) \/ Plan(p)
  BY <1>5, <1>a, <1>b DEF Enforce, Plan
<1>6. CASE Preflight(p)
  <2>1. CASE End(p, "failed")
    BY <1>a, <2>1
  <2>2. CASE ~End(p, "failed")
    BY <1>0, <1>6, <2>2 DEF Preflight, Go, TypeOK, Same
  <2> QED
    BY <2>1, <2>2
<1>7. CASE NextEntry(p)
  <2>1. CASE End(p, "failed") \/ End(p, "ok")
    BY <1>a, <2>1
  <2>2. CASE ~(End(p, "failed") \/ End(p, "ok"))
    <3>1. PICK s, id, n : /\ Ask(p, id, n) /\ Go(p, s)
             /\ UNCHANGED <<disk, now, locks, op, todo, batch, obsolete, history>>
      BY <1>7, <2>2 DEF NextEntry
    <3> QED
      BY <1>0, <3>1 DEF Go, Ask, TypeOK, Same, history
  <2> QED
    BY <2>1, <2>2
<1> QED
  BY <1>1, <1>2, <1>3, <1>4, <1>5, <1>6, <1>7

\* A step of p that changes the destination, under its lock.
LEMMA OthersWatch ==
    ASSUME IInv, NEW p \in Procs, NEW q \in Procs, q # p, pc[p] \in UnderLock,
           Disturb(p), Same(q), src' = src, now' = now
    PROVE  Own(q)'
<1>1. TypeOK /\ Own(q) /\ pc[q] \notin UnderLock
  BY DEF IInv, Locks
<1>2. disturbed' = [r \in Procs |-> disturbed[r] \/ (r # p /\ sound[r])]
  BY DEF Disturb
<1>3. disturbed'[q] = (disturbed[q] \/ sound[q])
  BY <1>2
<1> QED
  BY <1>1, <1>3, OthersSee

\* A step of p that changes the source, under its lock.
LEMMA OthersLeave ==
    ASSUME IInv, NEW p \in Procs, NEW q \in Procs, q # p, pc[p] = "unlink",
           Same(q), disturbed' = disturbed, dst' = dst, now' = now
    PROVE  Own(q)'
<1>1. Own(q) /\ Roles
  BY DEF IInv
<1>2. Inside(p)
  BY <1>1 DEF Roles, Inside, Ended
<1>3. ~Inside(q)
  BY <1>2 DEF IInv, Locks
<1> QED
  BY <1>1, <1>3, OthersAway

LEMMA OwnStep ==
    ASSUME IInv, [Next]_vars, NEW q \in Procs
    PROVE  Own(q)'
<1>0. TypeOK /\ Own(q)
  BY DEF IInv
<1>1. CASE UNCHANGED vars
  BY <1>0, <1>1, OthersStay DEF vars, Same, work, history
<1>2. CASE Tick
  BY <1>2, TickOwns
<1>3. ASSUME NEW p \in Procs, Begin(p) \/ Advance(p), q = p
      PROVE  Own(q)'
  BY <1>3, BeginOwns, LockOwns, ReserveOwns, PublishOwns, EnforceOwns, SettleOwns, PlanOwns,
     RemoveNextOwns, RemovedAllOwns, RemovedAllRestores, LockSourceOwns, PreflightOwns,
     NextEntryOwns, LoadOwns, UnlinkOwns DEF Advance, Record, Retire, Migrate
<1>4. ASSUME NEW p \in Procs, Begin(p) \/ Advance(p), q # p
      PROVE  Own(q)'
  <2>1. CASE Publish(p)
    <3>1. Same(q) /\ src' = src /\ now' = now
      BY <1>0, <1>4, <2>1 DEF Publish, Go, TypeOK, Same, work
    <3>2. Disturb(p) /\ pc[p] \in UnderLock
      BY <2>1 DEF Publish, UnderLock
    <3> QED
      BY <1>4, <3>1, <3>2, OthersWatch
  <2>2. CASE RemoveNext(p)
    <3>1. Same(q) /\ src' = src /\ now' = now
      BY <1>0, <1>4, <2>2 DEF RemoveNext, Drop, TypeOK, Same
    <3>2. Disturb(p) /\ pc[p] \in UnderLock
      BY <2>2 DEF RemoveNext, Drop, UnderLock
    <3> QED
      BY <1>4, <3>1, <3>2, OthersWatch
  <2>3. CASE Unlink(p)
    <3>1. Same(q) /\ dst' = dst /\ now' = now /\ disturbed' = disturbed /\ pc[p] = "unlink"
      BY <1>0, <1>4, <2>3 DEF Unlink, Leave, Go, TypeOK, Same
    <3> QED
      BY <1>4, <3>1, OthersLeave
  <2>4. CASE ~(Publish(p) \/ RemoveNext(p) \/ Unlink(p))
    BY <1>4, <2>4, OthersOwn DEF Advance, Record, Retire, Migrate
  <2> QED
    BY <2>1, <2>2, <2>3, <2>4
<1>5. ASSUME NEW p \in Procs, Fail(p)
      PROVE  Own(q)'
  <2>0. /\ pc' = [pc EXCEPT ![p] = "failed"] /\ calm' = [calm EXCEPT ![p] = FALSE]
        /\ now' = now /\ UNCHANGED <<op, item, size, sound, before>>
    BY <1>5 DEF Fail, Go
  <2>1. CASE q = p
    <3>1. pc'[q] = "failed" /\ ~calm'[q]
      BY <1>0, <2>0, <2>1 DEF TypeOK
    <3> QED
      BY <3>1, EndedOwns DEF Ended
  <2>2. CASE q # p
    <3>1. /\ pc'[q] = pc[q] /\ calm'[q] = calm[q] /\ op'[q] = op[q] /\ item'[q] = item[q]
          /\ size'[q] = size[q] /\ sound'[q] = sound[q] /\ before'[q] = before[q]
      BY <1>0, <2>0, <2>2 DEF TypeOK
    <3>2. CASE UNCHANGED <<disk, todo, batch, obsolete, moved, excused, disturbed>>
      BY <1>0, <2>0, <3>1, <3>2, OthersStay DEF Same
    <3>3. CASE pc[p] = "publish" /\ Disturb(p) /\ UNCHANGED <<src, todo, batch, obsolete, moved, excused>>
      BY <2>0, <2>2, <3>1, <3>3, OthersWatch DEF Same, UnderLock
    <3>4. CASE /\ pc[p] = "remove" /\ Drop(p, FirstOf(todo[p]))
               /\ UNCHANGED <<src, batch, obsolete, moved, excused>>
      <4>1. todo'[q] = todo[q] /\ Disturb(p)
        BY <1>0, <2>2, <3>4 DEF Drop, TypeOK
      <4> QED
        BY <2>0, <2>2, <3>1, <3>4, <4>1, OthersWatch DEF Same, UnderLock
    <3>5. CASE pc[p] = "unlink" /\ Leave(p) /\ UNCHANGED <<dst, todo, excused, disturbed>>
      <4>1. batch'[q] = batch[q] /\ obsolete'[q] = obsolete[q]
        BY <1>0, <2>2, <3>5 DEF Leave, TypeOK
      <4> QED
        BY <2>0, <2>2, <3>1, <3>5, <4>1, OthersLeave DEF Same
    <3> QED
      BY <1>5, <3>2, <3>3, <3>4, <3>5 DEF Fail
  <2> QED
    BY <2>1, <2>2
<1> QED
  BY <1>1, <1>2, <1>3, <1>4, <1>5 DEF Next

LEMMA ClaimsAre ==
    ASSUME IInv, NEW q \in Procs, NEW m \in Claims(q)
    PROVE  m[1] \in Ids /\ m[2] \in Sizes /\ op[q] = "migrate" /\ Stays(q, m[1], m[2])
<1>1. Stays(q, m[1], m[2])
  BY DEF IInv, Kept
<1>2. CASE m \in moved[q]
  <2>1. moved[q] \in SUBSET (Ids \X Sizes)
    BY DEF IInv, TypeOK
  <2>2. op[q] = "migrate"
    BY <1>2 DEF IInv, Roles
  <2> QED
    BY <1>1, <1>2, <2>1, <2>2
<1>3. CASE pc[q] \in {"load", "unlink"} /\ item[q] \in batch[q] /\ m = <<item[q], size[q]>>
  <2>1. op[q] = "migrate" /\ Moving(q) /\ Recording(q)
    BY <1>3 DEF IInv, Roles, Moving, Inside, Ended, Recording
  <2>2. Own(q) /\ batch[q] \in SUBSET Ids
    BY DEF IInv, TypeOK
  <2>3. size[q] = src[item[q]] /\ src[item[q]] \in Sizes /\ item[q] \in Ids
    BY <1>3, <2>1, <2>2 DEF Own, Made, Batched
  <2> QED
    BY <1>1, <1>3, <2>1, <2>3
<1> QED
  BY <1>2, <1>3 DEF Claims

\* Where it stays nothing touches it.
LEMMA StillStays ==
    ASSUME NEW q \in Procs, NEW id, NEW n, Stays(q, id, n), excused[q] \subseteq excused'[q],
           dst[id] = n /\ (\A r \in Procs : pc[r] = "remove" => id \notin todo[r]) => dst'[id] = n,
           \A r \in Procs : pc'[r] = "remove" =>
              (pc[r] = "remove" /\ todo'[r] \subseteq todo[r]) \/ todo'[r] \subseteq excused'[q]
    PROVE  Stays(q, id, n)'
BY DEF Stays

LEMMA KeptStep == IInv /\ [Next]_vars => Kept'
<1> SUFFICES ASSUME IInv, [Next]_vars, NEW q \in Procs, NEW m \in Claims(q)'
             PROVE  Stays(q, m[1], m[2])'
  BY DEF Kept
<1> DEFINE id == m[1]
           n == m[2]
<1>0. TypeOK /\ Roles /\ \A r \in Procs : Own(r)
  BY DEF IInv
<1>a. m \in Claims(q) => id \in Ids /\ n \in Sizes /\ op[q] = "migrate" /\ Stays(q, id, n)
  BY ClaimsAre
<1> HIDE DEF id, n
<1>b. ASSUME m \in Claims(q), dst' = dst, excused'[q] = excused[q],
             \A r \in Procs : pc'[r] = "remove" => pc[r] = "remove" /\ todo'[r] \subseteq todo[r]
      PROVE  Stays(q, id, n)'
  BY <1>a, <1>b, StillStays
<1>c. ASSUME NEW p \in Procs, NEW s, Go(p, s), UNCHANGED <<disk, now, work, history>>,
             s \notin {"remove", "load", "unlink"} \/ (s = "unlink" /\ pc[p] = "load")
      PROVE  Stays(q, id, n)'
  <2>1. m \in Claims(q)
    BY <1>0, <1>c DEF Claims, Go, TypeOK, work, history
  <2>2. \A r \in Procs : pc'[r] = "remove" => pc[r] = "remove" /\ todo'[r] \subseteq todo[r]
    BY <1>0, <1>c DEF Go, TypeOK, work
  <2> QED
    BY <1>b, <1>c, <2>1, <2>2 DEF disk, history
<1>d. ASSUME NEW p \in Procs, NEW how \in Ended, End(p, how)
      PROVE  Stays(q, id, n)'
  BY <1>c, <1>d DEF End, Ended
<1>e. ASSUME NEW p \in Procs, NEW ids, Decide(p, ids),
             Moving(p) /\ sound[p] /\ ~disturbed[p] => ids \cap Live(dst) = {},
             sound[p] => Moving(p)
      PROVE  Stays(q, id, n)'
  <2>1. m \in Claims(q)
    BY <1>0, <1>e DEF Decide, Claims, Go, TypeOK
  <2>2. excused'[q] = IF q # p \/ disturbed[p] \/ ~sound[p] THEN excused[q] \cup ids
                      ELSE excused[q] \cup (ids \ Live(dst))
    BY <1>a, <1>e, <2>1 DEF Decide
  <2>3. excused'[q] = excused[q] \cup ids
    BY <1>e, <2>2
  <2>4. /\ dst' = dst /\ todo'[p] = ids
        /\ \A r \in Procs : r # p => pc'[r] = pc[r] /\ todo'[r] = todo[r]
    BY <1>0, <1>e DEF Decide, Go, TypeOK, disk
  <2>5. \A r \in Procs : pc'[r] = "remove" =>
           (pc[r] = "remove" /\ todo'[r] \subseteq todo[r]) \/ todo'[r] \subseteq excused'[q]
    BY <2>3, <2>4
  <2> QED
    BY <1>a, <2>1, <2>3, <2>4, <2>5, StillStays
<1>f. ASSUME NEW p \in Procs, pc[p] = "remove", todo[p] # {}, Drop(p, FirstOf(todo[p])),
             pc' = pc \/ Go(p, "failed"), UNCHANGED <<item, size, batch, moved, excused>>
      PROVE  Stays(q, id, n)'
  <2> DEFINE x == FirstOf(todo[p])
  <2>1. x \in todo[p] /\ x \in Ids
    BY <1>0, <1>f, DropTypes
  <2> HIDE DEF x
  <2>2. m \in Claims(q)
    BY <1>0, <1>f DEF Claims, Go, TypeOK
  <2>3. dst' = [dst EXCEPT ![x] = Nothing] /\ todo' = [todo EXCEPT ![p] = @ \ {x}]
    BY <1>f DEF Drop, x
  <2>4. \A r \in Procs : pc'[r] = "remove" => pc[r] = "remove" /\ todo'[r] \subseteq todo[r]
    BY <1>0, <1>f, <2>3 DEF Go, TypeOK
  <2>5. id # x => dst'[id] = dst[id]
    BY <1>0, <1>a, <2>2, <2>3 DEF TypeOK, Stores
  <2> QED
    BY <1>a, <1>f, <2>1, <2>2, <2>4, <2>5, StillStays
<1>g. ASSUME NEW p \in Procs, pc[p] = "publish", Go(p, "enforce") \/ Go(p, "failed"),
             \/ dst' = [dst EXCEPT ![item[p]] = size[p]]
             \/ dst' = [dst EXCEPT ![<<KeyOf(item[p]), 0>>] = Broken],
             UNCHANGED <<item, size, todo, batch, moved, excused>>
      PROVE  Stays(q, id, n)'
  <2>1. m \in Claims(q)
    BY <1>0, <1>g DEF Claims, Go, TypeOK
  <2>2. \A r \in Procs : pc'[r] = "remove" => pc[r] = "remove" /\ todo'[r] \subseteq todo[r]
    BY <1>0, <1>g DEF Go, TypeOK
  <2>3. dst[id] = n => id # item[p] /\ id # <<KeyOf(item[p]), 0>>
    <3>1. dst[item[p]] = Nothing /\ KeyOf(item[p]) \in Keys
      BY <1>g, AtPublish
    <3>2. dst[<<KeyOf(item[p]), 0>>] \notin Sizes
      BY <3>1 DEF IInv, Temporaries
    <3>3. n \in Sizes /\ n # Nothing
      BY <1>a, <2>1, Names
    <3> QED
      BY <3>1, <3>2, <3>3
  <2>4. dst[id] = n => dst'[id] = n
    <3>1. dst \in [Ids -> Sizes \cup {Nothing, Broken, Foreign}] /\ id \in Ids
      BY <1>0, <1>a, <2>1 DEF TypeOK, Stores
    <3>2. CASE dst' = [dst EXCEPT ![item[p]] = size[p]]
      BY <2>3, <3>1, <3>2
    <3>3. CASE dst' = [dst EXCEPT ![<<KeyOf(item[p]), 0>>] = Broken]
      <4> DEFINE t == <<KeyOf(item[p]), 0>>
      <4>1. dst' = [dst EXCEPT ![t] = Broken] /\ (dst[id] = n => id # t)
        BY <2>3, <3>3
      <4> HIDE DEF t
      <4> QED
        BY <3>1, <4>1
    <3> QED
      BY <1>g, <3>2, <3>3
  <2> QED
    BY <1>a, <1>g, <2>1, <2>2, <2>4, StillStays
<1>h. ASSUME NEW p \in Procs, pc[p] = "unlink", Leave(p), Go(p, "next") \/ Go(p, "failed"),
             UNCHANGED <<dst, item, size, todo, excused>>
      PROVE  Stays(q, id, n)'
  <2>1. CASE q # p
    <3>1. moved'[q] = moved[q] /\ batch'[q] = batch[q] /\ pc'[q] = pc[q]
      BY <1>0, <1>h, <2>1 DEF Leave, Go, TypeOK
    <3>2. m \in Claims(q)
      BY <1>h, <3>1 DEF Claims
    <3> QED
      BY <1>0, <1>b, <1>h, <3>2 DEF Go, TypeOK
  <2>2. CASE q = p
    <3>1. /\ pc'[p] \notin {"load", "unlink"}
          /\ moved'[p] = IF item[p] \in batch[p] THEN moved[p] \cup {<<item[p], size[p]>>} ELSE moved[p]
      BY <1>0, <1>h DEF Leave, Go, TypeOK
    <3>2. m \in Claims(q)
      BY <1>h, <2>2, <3>1 DEF Claims
    <3> QED
      BY <1>0, <1>b, <1>h, <3>2 DEF Go, TypeOK
  <2> QED
    BY <2>1, <2>2
<1>1. ASSUME UNCHANGED vars PROVE Stays(q, id, n)'
  <2>1. m \in Claims(q)
    BY <1>1 DEF Claims, vars, work, history
  <2> QED
    BY <1>1, <1>b, <2>1 DEF vars, disk, work, history
<1>2. ASSUME Tick PROVE Stays(q, id, n)'
  <2>1. m \in Claims(q)
    BY <1>2 DEF Claims, Tick, work
  <2> QED
    BY <1>2, <1>b, <2>1 DEF Tick, disk, work
<1>3. ASSUME NEW p \in Procs, Begin(p) PROVE Stays(q, id, n)'
  <2>1. /\ pc'[p] \in {"lock", "lockSource"} /\ moved'[p] = {} /\ dst' = dst
        /\ \A r \in Procs : r # p =>
              /\ pc'[r] = pc[r] /\ todo'[r] = todo[r] /\ item'[r] = item[r] /\ size'[r] = size[r]
              /\ batch'[r] = batch[r] /\ moved'[r] = moved[r] /\ excused'[r] = excused[r]
    BY <1>0, <1>3 DEF Begin, Go, Ask, TypeOK, disk
  <2>2. q # p
    BY <2>1 DEF Claims
  <2>3. m \in Claims(q)
    BY <2>1, <2>2 DEF Claims
  <2> QED
    BY <1>b, <2>1, <2>2, <2>3
<1>4. ASSUME NEW p \in Procs, Lock(p) PROVE Stays(q, id, n)'
  BY <1>4, <1>c DEF Lock
<1>5. ASSUME NEW p \in Procs, Reserve(p) PROVE Stays(q, id, n)'
  BY <1>5, <1>c, <1>d DEF Reserve, Ended
<1>6. ASSUME NEW p \in Procs, Publish(p) PROVE Stays(q, id, n)'
  BY <1>6, <1>g DEF Publish, work
<1>7. ASSUME NEW p \in Procs, Enforce(p) PROVE Stays(q, id, n)'
  <2>1. pc[p] = "enforce" /\ (sound[p] => op[p] = "migrate")
    BY <1>0, <1>7 DEF Enforce, Roles
  <2>2. sound[p] => Moving(p)
    BY <2>1 DEF Moving, Inside, Ended
  <2>3. Moving(p) /\ sound[p] /\ ~disturbed[p] => RecordPlan(dst, item[p]) \cap Live(dst) = {}
    BY <2>1, SoundGoesFree DEF Moving, Inside
  <2> QED
    BY <1>7, <1>d, <1>e, <2>2, <2>3 DEF Enforce, Ended
<1>8. ASSUME NEW p \in Procs, Settle(p) PROVE Stays(q, id, n)'
  <2>1. CASE End(p, "failed") \/ End(p, "ok")
    BY <1>d, <2>1 DEF Ended
  <2>2. CASE ~(End(p, "failed") \/ End(p, "ok"))
    <3>1. /\ pc[p] = "settle" /\ op[p] # "record" /\ Go(p, "load")
          /\ UNCHANGED <<disk, now, srcLock, work, history>>
      BY <1>8, <2>2 DEF Settle
    <3>2. \A r \in Procs : pc[r] # "remove" /\ pc'[r] # "remove"
      <4>1. dstLock = p /\ \A r \in Procs : pc[r] = "remove" => dstLock = r
        BY <3>1 DEF IInv, Locks, UnderLock
      <4>2. \A r \in Procs : pc[r] # "remove"
        BY <3>1, <4>1
      <4> QED
        BY <1>0, <3>1, <4>2 DEF Go, TypeOK
    <3>3. CASE m \in Claims(q)
      BY <1>b, <3>1, <3>2, <3>3 DEF disk, history
    <3>4. CASE m \notin Claims(q)
      <4>1. q = p /\ id = item[p] /\ n = size[p]
        BY <1>0, <3>1, <3>4 DEF Claims, Go, TypeOK, work, history, id, n
      <4>2. dst[item[p]] = size[p]
        BY <1>0, <3>1 DEF Own, Published, Roles
      <4> QED
        BY <3>1, <3>2, <4>1, <4>2 DEF Stays, disk
    <3> QED
      BY <3>3, <3>4
  <2> QED
    BY <2>1, <2>2
<1>9. ASSUME NEW p \in Procs, Plan(p) PROVE Stays(q, id, n)'
  <2>1. ~sound[p]
    BY <1>0, <1>9 DEF Plan, Roles
  <2> QED
    BY <1>9, <1>e, <2>1 DEF Plan
<1>10. ASSUME NEW p \in Procs, RemoveNext(p) PROVE Stays(q, id, n)'
  BY <1>10, <1>f DEF RemoveNext
<1>11. ASSUME NEW p \in Procs, RemovedAll(p) PROVE Stays(q, id, n)'
  BY <1>11, <1>c, <1>d DEF RemovedAll, Ended
<1>12. ASSUME NEW p \in Procs, LockSource(p) PROVE Stays(q, id, n)'
  BY <1>12, <1>c DEF LockSource
<1>13. ASSUME NEW p \in Procs, Preflight(p) PROVE Stays(q, id, n)'
  <2>1. CASE End(p, "failed")
    BY <1>d, <2>1 DEF Ended
  <2>2. CASE ~End(p, "failed")
    <3>1. /\ pc'[p] = "next" /\ dst' = dst /\ UNCHANGED <<item, size, todo, moved, excused>>
          /\ \A r \in Procs : r # p => pc'[r] = pc[r] /\ batch'[r] = batch[r]
      BY <1>0, <1>13, <2>2 DEF Preflight, Go, TypeOK, disk
    <3>2. m \in Claims(q)
      BY <3>1 DEF Claims
    <3> QED
      BY <1>b, <3>1, <3>2
  <2> QED
    BY <2>1, <2>2
<1>14. ASSUME NEW p \in Procs, NextEntry(p) PROVE Stays(q, id, n)'
  <2>1. CASE End(p, "failed") \/ End(p, "ok")
    BY <1>d, <2>1 DEF Ended
  <2>2. CASE ~(End(p, "failed") \/ End(p, "ok"))
    <3>1. PICK x, k : /\ Ask(p, x, k) /\ Go(p, IF x \in batch[p] THEN "lock" ELSE "unlink")
             /\ UNCHANGED <<disk, now, locks, op, todo, batch, obsolete, history>>
      BY <1>14, <2>2 DEF NextEntry
    <3>2. /\ pc'[p] = (IF x \in batch[p] THEN "lock" ELSE "unlink") /\ item'[p] = x /\ dst' = dst
          /\ UNCHANGED <<todo, batch, moved, excused>>
          /\ \A r \in Procs : r # p => pc'[r] = pc[r] /\ item'[r] = item[r] /\ size'[r] = size[r]
      BY <1>0, <3>1 DEF Ask, Go, TypeOK, disk, history
    <3>3. m \in Claims(q)
      BY <3>2 DEF Claims
    <3> QED
      BY <1>b, <3>2, <3>3
  <2> QED
    BY <2>1, <2>2
<1>15. ASSUME NEW p \in Procs, Load(p) PROVE Stays(q, id, n)'
  BY <1>15, <1>c, <1>d DEF Load, Ended
<1>16. ASSUME NEW p \in Procs, Unlink(p) PROVE Stays(q, id, n)'
  BY <1>16, <1>h DEF Unlink
<1>17. ASSUME NEW p \in Procs, Fail(p) PROVE Stays(q, id, n)'
  <2>0. Go(p, "failed") /\ UNCHANGED <<op, item, size>>
    BY <1>17 DEF Fail
  <2>1. CASE UNCHANGED <<disk, todo, batch, obsolete, moved, excused, disturbed>>
    <3>1. m \in Claims(q)
      BY <1>0, <2>0, <2>1 DEF Claims, Go, TypeOK
    <3>2. \A r \in Procs : pc'[r] = "remove" => pc[r] = "remove" /\ todo'[r] \subseteq todo[r]
      BY <1>0, <2>0, <2>1 DEF Go, TypeOK
    <3> QED
      BY <1>b, <2>1, <3>1, <3>2 DEF disk
  <2>2. CASE /\ pc[p] = "publish"
             /\ \/ dst' = [dst EXCEPT ![item[p]] = size[p]]
                \/ dst' = [dst EXCEPT ![<<KeyOf(item[p]), 0>>] = Broken]
             /\ UNCHANGED <<src, todo, batch, obsolete, moved, excused>>
    BY <1>g, <2>0, <2>2
  <2>3. CASE /\ pc[p] = "remove" /\ todo[p] # {} /\ Drop(p, FirstOf(todo[p]))
             /\ UNCHANGED <<src, batch, obsolete, moved, excused>>
    BY <1>f, <2>0, <2>3
  <2>4. CASE pc[p] = "unlink" /\ Leave(p) /\ UNCHANGED <<dst, todo, excused, disturbed>>
    BY <1>h, <2>0, <2>4
  <2> QED
    BY <1>17, <2>1, <2>2, <2>3, <2>4 DEF Fail
<1>18. ASSUME NEW p \in Procs, Advance(p) PROVE Stays(q, id, n)'
  BY <1>4, <1>5, <1>6, <1>7, <1>8, <1>9, <1>10, <1>11, <1>12, <1>13, <1>14, <1>15, <1>16, <1>18
     DEF Advance, Record, Retire, Migrate
<1>19. Stays(q, id, n)'
  BY <1>1, <1>2, <1>3, <1>17, <1>18 DEF Next
<1> QED
  BY <1>19 DEF id, n

LEMMA Inductive == IInv /\ [Next]_vars => IInv'
BY TypesStep, LocksStep, RolesStep, TemporariesStep, KeptStep, OwnStep DEF IInv

\* In every reachable state the invariant holds.
THEOREM Invariant == Spec => []IInv
<1>1. Init => IInv
  BY InitHolds
<1>2. IInv /\ [Next]_vars => IInv'
  BY Inductive
<1> QED
  BY <1>1, <1>2, PTL DEF Spec

-----------------------------------------------------------------------------
(***************************************************************************)
(* What the store promises                                                 *)
(***************************************************************************)

\* A record that MigrateToContext took from the legacy store is in the current
\* one with the same bytes, however the calls interleave, fail or are cut
\* short, until a retention that does not stem from this migration takes it.
THEOREM MovedStays == Spec => []MovedIsKept
<1>1. IInv => MovedIsKept
  BY DEF IInv, Kept, Claims, Stays, MovedIsKept
<1> QED
  BY <1>1, Invariant, PTL

\* RecordSnapshotContext ends with the whole store within policy, whatever
\* earlier enforcements left undone.
THEOREM PolicyIsRestored == Spec => []RecordRestoresPolicy
<1>1. IInv => RecordRestoresPolicy
  BY DEF IInv, Own, Restored, RecordRestoresPolicy
<1> QED
  BY <1>1, Invariant, PTL

\* Who is not admitted does not fit beside what is left; and the newest of a
\* key not even beside the newest of the others and what came first.
LEMMA Rejected ==
    ASSUME TypeOK, NEW store \in Stores, NEW A \in SUBSET Live(store), NEW first \in SUBSET A,
           Bytes(store, first) <= MaxBytes, NEW kept, kept = Admit(store, first, A),
           dst = [i \in Ids |-> IF i \in Safe(store) \ kept THEN Nothing ELSE store[i]],
           NEW id \in A \ kept
    PROVE  /\ Bytes(dst, Live(dst)) + store[id] > MaxBytes
           /\ Newer(Live(store), id) = {} =>
                 Bytes(dst, NewestPerKey(Live(dst)) \cup first) + store[id] > MaxBytes
<1>1. /\ Live(store) \in SUBSET Ids /\ \A i \in Live(store) : store[i] \in Nat /\ store[i] \in Int
      /\ A \in SUBSET Ids /\ first \in SUBSET Ids /\ id \in Ids /\ id \in A /\ id \notin kept
      /\ \A i \in first \cup A : store[i] \in Nat
  BY Names DEF Live, Valid
<1>2. /\ first \subseteq kept /\ kept \subseteq first \cup A
      /\ ~(Bytes(store, kept \cup {id}) <= MaxBytes)
      /\ \A i \in NewestPerKey(A) \ kept :
            \E T \in SUBSET (first \cup (NewestPerKey(A) \cap kept)) :
               ~(Bytes(store, T \cup {i}) <= MaxBytes)
  BY <1>1, AdmitKeeps
<1>3. kept \in SUBSET A /\ kept \in SUBSET Live(store)
  BY <1>2
<1>4. /\ Live(dst) = kept /\ kept \in SUBSET Ids
      /\ \A ids \in SUBSET kept : Bytes(dst, ids) = Bytes(store, ids)
  BY <1>3, Left
<1>5. ASSUME NEW R \in SUBSET kept, NEW T \in SUBSET R, ~(Bytes(store, T \cup {id}) <= MaxBytes)
      PROVE  Bytes(dst, R) + store[id] > MaxBytes
  <2>1. IsFiniteSet(R) /\ \A i \in R : store[i] \in Int
    BY <1>1, <1>3, <1>4, FiniteIds, FS_Subset
  <2>2. id \notin R /\ store[id] \in Int /\ Bytes(dst, R) = Bytes(store, R)
    BY <1>1, <1>4
  <2>3. Bytes(store, R \cup {id}) = Bytes(store, R) + store[id]
    BY <2>1, <2>2, BytesAdd
  <2> DEFINE S == R \cup {id}
             U == T \cup {id}
  <2>4. S \in SUBSET Ids /\ U \in SUBSET S /\ \A i \in S : store[i] \in Nat
    BY <1>1, <1>3, <1>4
  <2>5. Bytes(store, S) = Bytes(store, R) + store[id] /\ ~(Bytes(store, U) <= MaxBytes)
    BY <1>5, <2>3
  <2> HIDE DEF S, U
  <2>6. /\ Bytes(store, U) \in Nat /\ Bytes(store, S) \in Nat
        /\ Bytes(store, U) <= Bytes(store, S)
    BY <2>4, BytesMore
  <2> QED
    BY <2>2, <2>5, <2>6, Names
<1>6. Bytes(dst, Live(dst)) + store[id] > MaxBytes
  BY <1>2, <1>4, <1>5
<1>7. ASSUME Newer(Live(store), id) = {}
      PROVE  Bytes(dst, NewestPerKey(Live(dst)) \cup first) + store[id] > MaxBytes
  <2>1. Newer(A, id) = {}
    BY <1>7 DEF Newer
  <2>2. id \in NewestPerKey(A)
    BY <1>1, <2>1 DEF NewestPerKey
  <2>3. NewestPerKey(A) \cap kept \subseteq NewestPerKey(kept)
    BY <1>3 DEF NewestPerKey, Newer
  <2>4. PICK T \in SUBSET (first \cup (NewestPerKey(A) \cap kept)) :
           ~(Bytes(store, T \cup {id}) <= MaxBytes)
    BY <1>1, <1>2, <2>2
  <2>5. /\ NewestPerKey(kept) \cup first \in SUBSET kept
        /\ T \in SUBSET (NewestPerKey(kept) \cup first)
    BY <1>2, <2>3 DEF NewestPerKey
  <2> QED
    BY <1>4, <1>5, <2>4, <2>5
<1> QED
  BY <1>6, <1>7

\* Of a plan that is carried out every removal has its reason.
LEMMA Justified == IInv => RemovedForAReason
<1> SUFFICES ASSUME IInv, NEW p \in Procs, pc[p] = "remove", todo[p] = {}, op[p] # "clear",
                    calm[p], NEW id \in Live(before[p]) \ Live(dst)
             PROVE  \/ /\ KeyOf(id) = KeyOf(item[p])
                       /\ Cardinality(Newer(Live(before[p]), id)) >= MaxRecords
                    \/ /\ Bytes(dst, Live(dst)) + before[p][id] > MaxBytes
                       /\ Newer(Live(before[p]), id) = {} =>
                             Bytes(dst, NewestPerKey(Live(dst)) \cup ({item[p]} \cap Ids))
                                + before[p][id] > MaxBytes
  BY DEF RemovedForAReason
<1>0. TypeOK /\ Own(p)
  BY DEF IInv
<1> DEFINE b == before[p]
           i == item[p]
<1>1. CASE Recording(p)
  <2> DEFINE kept == Remaining(b, i)
  <2>1. /\ i \in Live(b) /\ i \in kept /\ i \in Slots(Contest(b, i), i)
        /\ b \in Stores /\ b[i] \in Sizes /\ b[i] <= MaxBytes
        /\ kept \in SUBSET Live(b) /\ kept \subseteq {i} \cup Active(b, i)
        /\ dst = [j \in Ids |-> IF j \in Safe(b) \ kept THEN Nothing ELSE b[j]]
    <3>1. b = before[p] /\ i = item[p] /\ kept = Remaining(b, i)
      OBVIOUS
    <3> HIDE DEF b, i, kept
    <3> QED
      BY <1>1, <3>1, RecordLeft
  <2> HIDE DEF b, i, kept
  <2>2. Live(dst) = kept
    BY <1>0, <2>1, Left
  <2>3. id \in Live(b) /\ id \notin kept
    BY <2>2 DEF b
  <2>4. /\ Contest(b, i) = Live(b) /\ Live(b) \in SUBSET Ids /\ i \in Ids
        /\ Active(b, i) \in SUBSET Live(b) /\ i \in Active(b, i)
    BY <2>1, ActiveIs DEF Contest, Active, Live, Valid
  <2>5. CASE id \in Active(b, i)
    <3> DEFINE A == Active(b, i)
               one == {i}
    <3>1. A \in SUBSET Live(b) /\ one \in SUBSET A /\ id \in A \ kept
      BY <2>3, <2>4, <2>5
    <3>2. Bytes(b, one) <= MaxBytes
      <4>1. b[i] \in Int
        BY <2>1, Names
      <4>2. Bytes(b, {i}) = b[i]
        BY <4>1, BytesOne
      <4> QED
        BY <2>1, <4>2
    <3>3. kept = Admit(b, one, A)
      BY DEF kept, Remaining
    <3> HIDE DEF A, one
    <3>4. /\ Bytes(dst, Live(dst)) + b[id] > MaxBytes
          /\ Newer(Live(b), id) = {} =>
                Bytes(dst, NewestPerKey(Live(dst)) \cup one) + b[id] > MaxBytes
      <4>1. TypeOK /\ b \in Stores
        BY <1>0, <2>1
      <4>2. dst = [j \in Ids |-> IF j \in Safe(b) \ kept THEN Nothing ELSE b[j]]
        BY <2>1
      <4> QED
        BY ONLY <3>1, <3>2, <3>3, <4>1, <4>2, Rejected
    <3>5. one = {item[p]} \cap Ids
      BY <2>4 DEF one, i
    <3> QED
      BY <3>4, <3>5 DEF b
  <2>6. CASE id \notin Active(b, i)
    <3>1. id \in OfKey(Contest(b, i), KeyOf(i)) /\ id \notin Slots(Contest(b, i), i)
      BY <2>3, <2>4, <2>6 DEF Active
    <3>2. KeyOf(id) = KeyOf(i) /\ ~(Cardinality(Newer(Live(b), id)) < MaxRecords)
      BY <2>4, <3>1 DEF Slots, OfKey
    <3>3. Cardinality(Newer(Live(b), id)) \in Nat
      BY <2>4, FiniteIds, FS_Subset, FS_CardinalityType DEF Newer
    <3> QED
      BY <3>2, <3>3, PolicyAssumption DEF b, i
  <2> QED
    BY <2>5, <2>6
<1>2. CASE ~Recording(p)
  <2>1. op[p] = "prune" /\ item[p] = NoItem
    BY <1>0, <1>2 DEF IInv, Roles, Recording, TypeOK
  <2> DEFINE A == Live(b)
             first == {}
             kept == Admit(b, first, A)
  <2>2. b \in Stores /\ A \in SUBSET Ids /\ A \in SUBSET Live(b) /\ first \in SUBSET A
    BY <1>0 DEF TypeOK, Live, Valid
  <2>3. \A j \in first \cup A : b[j] \in Nat
    BY Names DEF Live, Valid
  <2>4. Bytes(b, first) <= MaxBytes
    <3>1. Bytes(b, {}) = 0
      BY FS_EmptySet, BytesStep
    <3> QED
      BY <3>1, PolicyAssumption
  <2>5. PlanOf(p) = Safe(b) \ kept
    BY <1>2, <2>1 DEF PlanOf, PrunePlan
  <2>6. dst = [j \in Ids |-> IF j \in Safe(b) \ kept THEN Nothing ELSE b[j]]
    <3>1. dst = [j \in Ids |-> IF j \in PlanOf(p) \ {} THEN Nothing ELSE b[j]]
      BY <1>0 DEF Own, Retiring
    <3>2. PlanOf(p) \ {} = Safe(b) \ kept
      BY <2>5
    <3> HIDE DEF kept, b
    <3> QED
      BY <3>1, <3>2 DEF b
  <2>7. id \in A /\ id \notin Live(dst)
    OBVIOUS
  <2>8. {item[p]} \cap Ids = first
    BY <2>1 DEF NoItem, Ids, Keys
  <2>9. b = before[p] /\ kept = Admit(b, first, A) /\ A = Live(b) /\ first = {}
    OBVIOUS
  <2>a. kept = Admit(b, first, A) /\ TypeOK /\ first \in SUBSET Ids /\ first \subseteq A
    BY <1>0
  <2> HIDE DEF b, A, first, kept
  <2>10. kept \in SUBSET A
    <3>1. kept \subseteq first \cup A
      BY ONLY <2>2, <2>3, <2>4, <2>a, AdmitKeeps
    <3> QED
      BY <2>a, <3>1
  <2>11. id \in A \ kept
    <3>1. kept \in SUBSET Live(b)
      BY <2>2, <2>10
    <3>2. Live(dst) = kept
      BY ONLY <2>2, <2>6, <2>a, <3>1, Left
    <3> QED
      BY <2>7, <3>2
  <2>12. /\ Bytes(dst, Live(dst)) + b[id] > MaxBytes
         /\ Newer(Live(b), id) = {} =>
               Bytes(dst, NewestPerKey(Live(dst)) \cup first) + b[id] > MaxBytes
    BY ONLY <2>2, <2>4, <2>6, <2>a, <2>11, Rejected
  <2> QED
    BY <2>8, <2>9, <2>12
<1> QED
  BY <1>1, <1>2

\* Neither recording nor pruning (applyRemovalsContext on what
\* recordReservationPlan or pruneGlobalUnlockedContext chose) takes a live
\* record without a reason: its key has its count of newer ones, or its bytes
\* do not fit; and never in favour of older ones.
THEOREM RemovalHasReason == Spec => []RemovedForAReason
BY Justified, Invariant, PTL

\* Under its lock a process changes the destination by publishing and removing
\* alone, and nobody else does.
LEMMA Touches ==
    ASSUME IInv, [Next]_vars, NEW p \in Procs, dstLock = p
    PROVE  \/ dst' = dst
           \/ /\ pc[p] = "publish"
              /\ \/ dst' = [dst EXCEPT ![item[p]] = size[p]]
                 \/ dst' = [dst EXCEPT ![<<KeyOf(item[p]), 0>>] = Broken]
           \/ /\ pc[p] = "remove" /\ todo[p] # {}
              /\ dst' = [dst EXCEPT ![FirstOf(todo[p])] = Nothing]
<1>1. CASE UNCHANGED vars \/ Tick
  BY <1>1 DEF vars, Tick, disk
<1>2. ASSUME NEW q \in Procs, pc[q] \in {"publish", "remove"}
      PROVE  q = p
  BY <1>2 DEF IInv, Locks, UnderLock
<1>3. ASSUME NEW q \in Procs, Begin(q) \/ Lock(q) \/ Reserve(q) \/ Enforce(q) \/ Settle(q)
      PROVE  dst' = dst
  BY <1>3 DEF Begin, Lock, Reserve, Enforce, Decide, Settle, End, disk
<1>4. ASSUME NEW q \in Procs, Plan(q) \/ RemovedAll(q) \/ Migrate(q)
      PROVE  dst' = dst
  BY <1>4 DEF Plan, Decide, RemovedAll, End, disk,
         Migrate, LockSource, Preflight, NextEntry, Load, Unlink
<1>5. ASSUME NEW q \in Procs, Publish(q)
      PROVE  q = p /\ pc[p] = "publish" /\ dst' = [dst EXCEPT ![item[p]] = size[p]]
  <2>1. pc[q] = "publish" /\ dst' = [dst EXCEPT ![item[q]] = size[q]]
    BY <1>5 DEF Publish
  <2> QED
    BY <1>2, <2>1
<1>6. ASSUME NEW q \in Procs, RemoveNext(q)
      PROVE  /\ q = p /\ pc[p] = "remove" /\ todo[p] # {}
             /\ dst' = [dst EXCEPT ![FirstOf(todo[p])] = Nothing]
  <2>1. /\ pc[q] = "remove" /\ todo[q] # {}
        /\ dst' = [dst EXCEPT ![FirstOf(todo[q])] = Nothing]
    BY <1>6 DEF RemoveNext, Drop
  <2> QED
    BY <1>2, <2>1
<1>7. ASSUME NEW q \in Procs, Fail(q)
      PROVE  \/ dst' = dst
             \/ /\ q = p /\ pc[q] = "publish"
                /\ \/ dst' = [dst EXCEPT ![item[q]] = size[q]]
                   \/ dst' = [dst EXCEPT ![<<KeyOf(item[q]), 0>>] = Broken]
             \/ /\ q = p /\ pc[q] = "remove" /\ todo[q] # {}
                /\ dst' = [dst EXCEPT ![FirstOf(todo[q])] = Nothing]
  BY <1>2, <1>7 DEF Fail, Drop, disk
<1>8. ASSUME NEW q \in Procs, Begin(q) \/ Advance(q) \/ Fail(q)
      PROVE  \/ dst' = dst
             \/ /\ pc[p] = "publish"
                /\ \/ dst' = [dst EXCEPT ![item[p]] = size[p]]
                   \/ dst' = [dst EXCEPT ![<<KeyOf(item[p]), 0>>] = Broken]
             \/ /\ pc[p] = "remove" /\ todo[p] # {}
                /\ dst' = [dst EXCEPT ![FirstOf(todo[p])] = Nothing]
  <2>1. CASE Begin(q)
    BY <1>3, <2>1
  <2>2. CASE Advance(q)
    BY <1>3, <1>4, <1>5, <1>6, <2>2 DEF Advance, Record, Retire
  <2>3. CASE Fail(q)
    BY <1>7, <2>3
  <2> QED
    BY <1>8, <2>1, <2>2, <2>3
<1> QED
  BY <1>1, <1>8 DEF Next

\* RecordSnapshotContext makes room only once its record is published: a
\* publication that fails has cost nothing.
THEOREM RoomIsMadeLast == Spec => PublishedFirst
<1> DEFINE Safely == \A p \in Procs : op[p] \in {"record", "migrate"} /\ dstLock = p =>
                        \A id \in Ids : dst[id] # Nothing /\ dst'[id] = Nothing =>
                            dst[item[p]] = size[p] /\ dst'[item[p]] = size[p]
<1>1. IInv /\ [Next]_vars => Safely
  <2> SUFFICES ASSUME IInv, [Next]_vars, NEW p \in Procs, op[p] \in {"record", "migrate"},
                      dstLock = p, NEW id \in Ids, dst[id] # Nothing, dst'[id] = Nothing
               PROVE  dst[item[p]] = size[p] /\ dst'[item[p]] = size[p]
    OBVIOUS
  <2>0. TypeOK /\ Own(p)
    BY DEF IInv
  <2>1. dst' # dst
    OBVIOUS
  <2>2. CASE /\ pc[p] = "publish"
             /\ \/ dst' = [dst EXCEPT ![item[p]] = size[p]]
                \/ dst' = [dst EXCEPT ![<<KeyOf(item[p]), 0>>] = Broken]
    <3>1. size[p] # Nothing /\ Broken # Nothing
      BY <2>2, AtPublish, Names DEF Broken
    <3>2. dst \in [Ids -> Sizes \cup {Nothing, Broken, Foreign}]
      BY <2>0 DEF TypeOK, Stores
    <3> DEFINE t == <<KeyOf(item[p]), 0>>
    <3>3. dst' = [dst EXCEPT ![item[p]] = size[p]] \/ dst' = [dst EXCEPT ![t] = Broken]
      BY <2>2
    <3> HIDE DEF t
    <3> QED
      BY <3>1, <3>2, <3>3
  <2>3. CASE /\ pc[p] = "remove" /\ todo[p] # {}
             /\ dst' = [dst EXCEPT ![FirstOf(todo[p])] = Nothing]
    <3> DEFINE x == FirstOf(todo[p])
    <3>1. x \in todo[p]
      BY <2>0, <2>3, FirstIsOne DEF TypeOK
    <3>2. dst[item[p]] = size[p] /\ item[p] \notin todo[p]
      BY <2>0, <2>3 DEF Own, Published, Recording
    <3>3. dst' = [dst EXCEPT ![x] = Nothing] /\ dst \in [Ids -> Sizes \cup {Nothing, Broken, Foreign}]
      BY <2>0, <2>3 DEF TypeOK, Stores
    <3>4. item[p] \in Ids
      BY <2>0, <2>3 DEF Own, Made, UnderLock, Recording
    <3> HIDE DEF x
    <3> QED
      BY <3>1, <3>2, <3>3, <3>4
  <2> QED
    BY <2>1, <2>2, <2>3, Touches
<1> QED
  BY <1>1, Invariant, PTL DEF Spec, PublishedFirst

\* A migration that preflightMigrationBatch accepts goes through, unless a call
\* fails, the clock moves or another process changes the destination, and
\* retires no live record on the way.
THEOREM AcceptedIsFree == Spec => MigrationIsFree
<1> DEFINE Spares == \A p \in Procs, id \in Ids :
                        /\ op[p] = "migrate" /\ sound[p] /\ calm[p] /\ ~disturbed[p]
                        /\ dstLock = p /\ id \in Live(dst)
                        => dst'[id] = dst[id]
<1>1. IInv => TypeOK /\ AcceptedGoesThrough
  BY DEF IInv, Own, Through, AcceptedGoesThrough
<1>2. IInv /\ [Next]_vars => Spares
  <2> SUFFICES ASSUME IInv, [Next]_vars, NEW p \in Procs, NEW id \in Ids,
                      op[p] = "migrate", sound[p], calm[p], ~disturbed[p],
                      dstLock = p, id \in Live(dst)
               PROVE  dst'[id] = dst[id]
    OBVIOUS
  <2>0. TypeOK /\ Own(p)
    BY DEF IInv
  <2>1. dst \in [Ids -> Sizes \cup {Nothing, Broken, Foreign}] /\ dst[id] \in Sizes
    BY <2>0 DEF TypeOK, Stores, Live, Valid
  <2>2. CASE dst' = dst
    BY <2>2
  <2>3. CASE /\ pc[p] = "publish"
             /\ \/ dst' = [dst EXCEPT ![item[p]] = size[p]]
                \/ dst' = [dst EXCEPT ![<<KeyOf(item[p]), 0>>] = Broken]
    <3> DEFINE t == <<KeyOf(item[p]), 0>>
    <3>1. dst[item[p]] = Nothing /\ KeyOf(item[p]) \in Keys
      BY <2>3, AtPublish
    <3>2. dst[t] \notin Sizes
      BY <3>1 DEF IInv, Temporaries
    <3>3. dst' = [dst EXCEPT ![item[p]] = size[p]] \/ dst' = [dst EXCEPT ![t] = Broken]
      BY <2>3
    <3> HIDE DEF t
    <3>4. id # item[p] /\ id # t
      BY <2>1, <3>1, <3>2, Names
    <3> QED
      BY <2>1, <3>3, <3>4
  <2>4. CASE /\ pc[p] = "remove" /\ todo[p] # {}
             /\ dst' = [dst EXCEPT ![FirstOf(todo[p])] = Nothing]
    <3> DEFINE x == FirstOf(todo[p])
    <3>1. x \in todo[p]
      BY <2>0, <2>4, FirstIsOne DEF TypeOK
    <3>2. Moving(p)
      BY <2>4 DEF Moving, Inside, Ended
    <3>3. todo[p] \cap Live(dst) = {}
      BY <2>0, <2>4, <3>2 DEF Own, Fits
    <3>4. dst' = [dst EXCEPT ![x] = Nothing] /\ id # x
      BY <2>4, <3>1, <3>3
    <3> HIDE DEF x
    <3> QED
      BY <2>1, <3>4
  <2> QED
    BY <2>2, <2>3, <2>4, Touches
<1>3. Spec => [](TypeOK /\ AcceptedGoesThrough)
  BY <1>1, Invariant, PTL
<1>4. Spec => MigrationSpares
  BY <1>2, Invariant, PTL DEF Spec, MigrationSpares
<1> QED
  BY <1>3, <1>4 DEF MigrationIsFree

=============================================================================
