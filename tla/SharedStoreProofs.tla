--------------------------- MODULE SharedStoreProofs ---------------------------
(***************************************************************************)
(* Theorems about SharedStore.tla, for any number of keys, values and      *)
(* windows, any limits, and behaviours of any length.                      *)
(***************************************************************************)
EXTENDS SharedStore, NaturalsInduction, WellFoundedInduction, FiniteSetTheorems,
        SequenceTheorems, TLAPS

----------------------------------------------------------------------------
(* The inductive invariant. *)

Entries == [key : Keys, value : Values]
Nodes == [by : Windows, value : Values]
WriteRecords == [by : Windows \union Untracked, key : Keys, value : Values]

StoreTypes ==
    /\ map \in Contents
    /\ chain \in [Keys -> Seq(Nodes)]
    /\ baseline \in Contents
    /\ agentDeltas \in [Windows -> Seq(Entries)]
    /\ fate \in [Windows -> {"idle", "active", "committed", "discarded", "retired"}]
    /\ disposed \in BOOLEAN
    /\ written \in Seq(WriteRecords)

IsLast(S, j) == j \in S /\ \A i \in S : i <= j

\* A write that no rollback can take back any more.
Fixed(j) == written[j].by \in Untracked \/ fate[written[j].by] = "committed"

\* What a key shows without the nodes of its chain.
Ground(k) == IF chain[k] = <<>> THEN map[k] ELSE baseline[k]
Below(k, b) == {j \in Survivors(k) : j <= b}

\* The nodes of a chain stand for writes of the log, behind the first b; each write
\* behind them that counts is covered by a later node of its window, and among the
\* first b the last one that counts is final and its value is the ground.
ChainStands(k, b, pos) ==
    /\ \A i, j \in 1..Len(chain[k]) : i < j => pos[i] < pos[j]
    /\ \A i \in 1..Len(chain[k]) : written[pos[i]] = Write(chain[k][i].by, k, chain[k][i].value)
    /\ \A j \in Survivors(k) : j > b =>
          \E i \in 1..Len(chain[k]) : j <= pos[i] /\ chain[k][i].by = written[j].by
    /\ \/ Below(k, b) = {} /\ Ground(k) = NoValue
       \/ \E j \in Below(k, b) :
             IsLast(Below(k, b), j) /\ Fixed(j) /\ Ground(k) = written[j].value

Stands(k) ==
    \E b \in 0..Len(written) : \E pos \in [1..Len(chain[k]) -> (b + 1)..Len(written)] :
        ChainStands(k, b, pos)

\* A chain has an active window at its head, whose value is the one that shows, and
\* each active window of it has the key in its delta.
HeadShows(k) ==
    LET nodes == chain[k]
    IN  /\ nodes # <<>> =>
              /\ map[k] = nodes[Len(nodes)].value
              /\ fate[nodes[Len(nodes)].by] = "active"
        /\ \A i \in 1..Len(nodes) :
              /\ fate[nodes[i].by] \in {"active", "committed", "discarded"}
              /\ fate[nodes[i].by] = "active" => k \in KeysOf(agentDeltas[nodes[i].by])

Chains == \A k \in Keys : Stands(k) /\ HeadShows(k)

\* A write of a window on a key that is its last one, with no put() behind it.
OwnLast(w, k, j) ==
    /\ j \in DOMAIN written /\ written[j].by = w /\ written[j].key = k
    /\ \A i \in DOMAIN written : written[i].by = w /\ written[i].key = k => i <= j
    /\ \A i \in DOMAIN written : written[i].by = "put" /\ written[i].key = k => i < j

\* No key is in a delta twice.
Unique(delta) == \A i, j \in 1..Len(delta) : delta[i].key = delta[j].key => i = j

\* The delta of an active window: its own last writes.
DeltaStands(w) ==
    /\ Unique(agentDeltas[w])
    /\ \A e \in ToSet(agentDeltas[w]) :
          \E j \in DOMAIN written : OwnLast(w, e.key, j) /\ e.value = written[j].value
    /\ \A k \in Keys, j \in DOMAIN written :
          OwnLast(w, k, j) /\ fate[w] = "active" => k \in KeysOf(agentDeltas[w])

Windowed ==
    /\ \A i \in DOMAIN written : written[i].by \in Windows =>
          fate[written[i].by] \in {"active", "committed", "discarded"}
    /\ \A w \in Windows : DeltaStands(w)

StoreInv == StoreTypes /\ (~disposed => Chains /\ Windowed)

----------------------------------------------------------------------------
(* Numbers. *)

LEMMA LeastElement ==
    ASSUME NEW S, S \subseteq Nat, S # {}
    PROVE  \E m \in S : \A n \in S : m <= n
<1> DEFINE R == OpToRel(<, Nat)
<1>1. IsWellFoundedOn(R, Nat)
    BY NatLessThanWellFounded
<1>2. \A x, y \in Nat : x < y => <<x, y>> \in R
    BY DEF OpToRel
<1> HIDE DEF R
<1>3. PICK x \in S : \A y \in S : ~ (<<y, x>> \in R)
    BY <1>1, WFMin
<1>4. \A y \in S : y \in Nat /\ ~(y < x)
    BY <1>2, <1>3
<1>5. \A y \in S : x <= y
    BY <1>4
<1> QED BY <1>3, <1>5

LEMMA Induction ==
    ASSUME NEW S, 0 \in S, \A n \in Nat : n \in S => n + 1 \in S
    PROVE  Nat \subseteq S
<1> DEFINE T == Nat \ S
<1> SUFFICES ASSUME T # {} PROVE FALSE
    OBVIOUS
<1>1. PICK m \in T : \A n \in T : m <= n
    BY LeastElement
<1>2. m # 0 /\ m - 1 \in Nat /\ m - 1 \notin T
    BY <1>1
<1> QED BY <1>1, <1>2

LEMMA LastExists ==
    ASSUME NEW n \in Nat, NEW S, S \subseteq 1..n, S # {}
    PROVE  \E j \in S : IsLast(S, j)
<1> DEFINE T == {n - x : x \in S}
<1>0. \A x \in S : x \in Nat /\ x <= n /\ n - x \in Nat
    OBVIOUS
<1>1. T \subseteq Nat /\ T # {}
    BY <1>0
<1>2. PICK t \in T : \A y \in T : t <= y
    BY <1>1, LeastElement
<1>3. n - t \in S
    BY <1>1, <1>2
<1>4. \A x \in S : x \in Int /\ t <= n - x
    BY <1>2
<1>5. \A x \in S : x <= n - t
    BY <1>1, <1>2, <1>4
<1> QED BY <1>3, <1>5 DEF IsLast

LEMMA LastIsMax ==
    ASSUME NEW S, S \subseteq Int, NEW j, IsLast(S, j)
    PROVE  Max(S) = j
<1>1. j \in S /\ \A i \in S : j >= i
    BY DEF IsLast
<1>2. Max(S) \in S /\ \A i \in S : Max(S) >= i
    BY <1>1 DEF Max
<1>3. Max(S) \in Int /\ j \in Int /\ Max(S) >= j /\ j >= Max(S)
    BY <1>1, <1>2
<1> QED BY <1>3

----------------------------------------------------------------------------
(* A delta that is applied. *)

IndexesOf(delta, k) == {i \in 1..Len(delta) : delta[i].key = k}

\* What Applied() returns for a delta that has been let in as far as `done'.
AppliedTo(content, r) ==
    /\ r.map \in Contents
    /\ r.done \in Seq(Entries)
    /\ \A k \in Keys : IndexesOf(r.done, k) = {} => r.map[k] = content[k]
    /\ \A k \in Keys, j \in 1..Len(r.done) :
          IsLast(IndexesOf(r.done, k), j) => r.map[k] = r.done[j].value

LEMMA NextApplied ==
    ASSUME NEW content, NEW r, AppliedTo(content, r), NEW e \in Entries,
           r = [map |-> r.map, thrown |-> r.thrown, done |-> r.done]
    PROVE  /\ AppliedTo(content, WithNext(r, e))
           /\ WithNext(r, e) = [map |-> WithNext(r, e).map, thrown |-> WithNext(r, e).thrown,
                                done |-> WithNext(r, e).done]
<1>1. CASE r.thrown \/ ~Admits(r.map, e.key, e.value)
    <2>1. WithNext(r, e) = [map |-> r.map, thrown |-> TRUE, done |-> r.done]
        <3>1. WithNext(r, e) = [r EXCEPT !.thrown = TRUE]
            BY <1>1 DEF WithNext
        <3> QED BY <3>1
    <2> QED BY <2>1 DEF AppliedTo
<1>2. CASE ~(r.thrown \/ ~Admits(r.map, e.key, e.value))
    <2> DEFINE m == [r.map EXCEPT ![e.key] = e.value]
               d == Append(r.done, e)
    <2>1. WithNext(r, e) = [map |-> m, thrown |-> r.thrown, done |-> d]
        <3>1. WithNext(r, e) = [r EXCEPT !.map = [@ EXCEPT ![e.key] = e.value], !.done = Append(@, e)]
            BY <1>2 DEF WithNext
        <3> QED BY <3>1
    <2>2. r.done \in Seq(Entries) /\ Len(r.done) \in Nat
        BY LenProperties DEF AppliedTo
    <2>3. /\ d \in Seq(Entries) /\ Len(d) = Len(r.done) + 1
          /\ \A i \in 1..Len(r.done) : d[i] = r.done[i]
          /\ d[Len(r.done) + 1] = e
        BY <2>2, AppendProperties
    <2>4. e.key \in Keys /\ e.value \in Values
        BY DEF Entries
    <2>5. /\ m \in Contents
          /\ m[e.key] = e.value
          /\ \A k \in Keys : k # e.key => m[k] = r.map[k]
        BY <2>4 DEF AppliedTo, Contents
    <2> HIDE DEF m, d
    <2>6. \A k \in Keys : k # e.key => IndexesOf(d, k) = IndexesOf(r.done, k)
        BY <2>2, <2>3 DEF IndexesOf
    <2>7. Len(r.done) + 1 \in IndexesOf(d, e.key)
        BY <2>2, <2>3 DEF IndexesOf
    <2>8. \A k \in Keys : IndexesOf(d, k) = {} => m[k] = content[k]
        BY <2>5, <2>6, <2>7 DEF AppliedTo
    <2>9. ASSUME NEW k \in Keys, NEW j \in 1..Len(d), IsLast(IndexesOf(d, k), j)
          PROVE  m[k] = d[j].value
        <3>1. CASE k = e.key
            <4>1. j = Len(r.done) + 1
                BY <2>2, <2>3, <2>7, <2>9, <3>1 DEF IsLast
            <4> QED BY <2>3, <2>5, <3>1, <4>1
        <3>2. CASE k # e.key
            <4>1. j \in 1..Len(r.done) /\ IsLast(IndexesOf(r.done, k), j)
                BY <2>6, <2>9, <3>2 DEF IsLast, IndexesOf
            <4> QED BY <2>3, <2>5, <3>2, <4>1 DEF AppliedTo
        <3> QED BY <3>1, <3>2
    <2>10. AppliedTo(content, [map |-> m, thrown |-> r.thrown, done |-> d])
        BY <2>3, <2>5, <2>8, <2>9 DEF AppliedTo
    <2> QED BY <2>1, <2>10
<1> QED BY <1>1, <1>2

AppliedStep(g, content, delta, n) ==
    IF n = 0 THEN [map |-> content, thrown |-> FALSE, done |-> <<>>] ELSE WithNext(g[n - 1], delta[n])

IsRun(g, content, delta, to) == g = [n \in 0..to |-> AppliedStep(g, content, delta, n)]

LEMMA RunExists ==
    ASSUME NEW content, NEW delta, NEW to \in Nat
    PROVE  \E g : IsRun(g, content, delta, to)
<1> DEFINE S == {k \in Nat : \E g : IsRun(g, content, delta, k)}
<1>1. 0 \in S
    <2> DEFINE g == [n \in 0..0 |-> [map |-> content, thrown |-> FALSE, done |-> <<>>]]
    <2>1. IsRun(g, content, delta, 0)
        BY DEF IsRun, AppliedStep
    <2> QED BY <2>1
<1>2. ASSUME NEW k \in Nat, k \in S PROVE k + 1 \in S
    <2>1. PICK g : IsRun(g, content, delta, k)
        BY <1>2
    <2> DEFINE h == [n \in 0..(k + 1) |-> IF n = k + 1 THEN WithNext(g[k], delta[k + 1]) ELSE g[n]]
    <2>2. \A n \in 0..k : h[n] = g[n] /\ g[n] = AppliedStep(g, content, delta, n)
        BY <2>1 DEF IsRun
    <2>3. \A n \in 0..k : n # 0 => n - 1 \in 0..k
        OBVIOUS
    <2>4. ASSUME NEW n \in 0..k PROVE h[n] = AppliedStep(h, content, delta, n)
        <3>1. h[n] = AppliedStep(g, content, delta, n)
            BY <2>2
        <3>2. n # 0 => h[n - 1] = g[n - 1]
            BY <2>2, <2>3
        <3> HIDE DEF h
        <3> QED BY <3>1, <3>2 DEF AppliedStep
    <2>5. h[k + 1] = AppliedStep(h, content, delta, k + 1)
        BY DEF AppliedStep
    <2>6. \A n \in 0..(k + 1) : h[n] = AppliedStep(h, content, delta, n)
        BY <2>4, <2>5
    <2>7. h = [n \in 0..(k + 1) |-> h[n]]
        OBVIOUS
    <2> HIDE DEF h
    <2>8. IsRun(h, content, delta, k + 1)
        BY <2>6, <2>7 DEF IsRun
    <2> QED BY <2>8
<1> QED BY <1>1, <1>2, Induction

LEMMA AppliedIs ==
    ASSUME NEW content \in Contents, NEW delta \in Seq(Entries)
    PROVE  AppliedTo(content, Applied(content, delta))
<1> DEFINE g == CHOOSE f : IsRun(f, content, delta, Len(delta))
           Good(r) == AppliedTo(content, r) /\ r = [map |-> r.map, thrown |-> r.thrown, done |-> r.done]
           S == {n \in Nat : n <= Len(delta) => Good(g[n])}
<1>1. Len(delta) \in Nat /\ \A n \in 1..Len(delta) : delta[n] \in Entries
    BY LenProperties, ElementOfSeq
<1>2. Applied(content, delta) = g[Len(delta)]
    BY DEF Applied, IsRun, AppliedStep
<1>3. IsRun(g, content, delta, Len(delta))
    BY <1>1, RunExists
<1> HIDE DEF g
<1>4. \A n \in 0..Len(delta) : g[n] = AppliedStep(g, content, delta, n)
    BY <1>1, <1>3 DEF IsRun
<1>5. 0 \in S
    <2>1. g[0] = [map |-> content, thrown |-> FALSE, done |-> <<>>]
        <3>1. 0 \in 0..Len(delta)
            BY <1>1
        <3> QED BY <1>4, <3>1 DEF AppliedStep
    <2>2. \A k : IndexesOf(<<>>, k) = {} /\ <<>> \in Seq(Entries)
        BY DEF IndexesOf
    <2>3. Good(g[0])
        BY <2>1, <2>2 DEF AppliedTo
    <2> QED BY <2>3
<1>6. ASSUME NEW n \in Nat, n \in S PROVE n + 1 \in S
    <2> SUFFICES ASSUME n + 1 <= Len(delta) PROVE Good(g[n + 1])
        OBVIOUS
    <2>1. g[n + 1] = WithNext(g[n], delta[n + 1])
        <3>1. n + 1 \in 0..Len(delta) /\ n + 1 # 0 /\ (n + 1) - 1 = n
            BY <1>1
        <3> QED BY <1>4, <3>1 DEF AppliedStep
    <2>2. Good(g[n]) /\ delta[n + 1] \in Entries
        BY <1>1, <1>6
    <2> QED BY <2>1, <2>2, NextApplied
<1> HIDE DEF S, Good
<1>7. Len(delta) \in S
    BY <1>1, <1>5, <1>6, Induction
<1>8. Good(g[Len(delta)])
    BY <1>1, <1>7 DEF S
<1> QED BY <1>2, <1>8 DEF Good

----------------------------------------------------------------------------
(* Deltas of windows as sets of entries. *)

LEMMA KeysAre ==
    ASSUME NEW d
    PROVE  KeysOf(d) = {e.key : e \in ToSet(d)}
BY DEF KeysOf, ToSet

LEMMA RemovedAt ==
    ASSUME NEW S, NEW d \in Seq(S), NEW a \in 1..Len(d)
    PROVE  /\ RemoveAt(d, a) \in Seq(S) /\ Len(RemoveAt(d, a)) = Len(d) - 1
           /\ \A i \in 1..(Len(d) - 1) :
                 RemoveAt(d, a)[i] = IF i < a THEN d[i] ELSE d[i + 1]
<1> DEFINE front == SubSeq(d, 1, a - 1)
           back == SubSeq(d, a + 1, Len(d))
<1>1. Len(d) \in Nat /\ a \in Nat /\ a >= 1 /\ a <= Len(d)
    BY LenProperties
<1>2. /\ front \in Seq(S) /\ Len(front) = a - 1
      /\ \A i \in 1..(a - 1) : front[i] = d[i]
    <2>1. \A i \in 1..(a - 1) : d[i] \in S
        BY <1>1, ElementOfSeq
    <2> QED BY <1>1, <2>1, SubSeqProperties
<1>3. /\ back \in Seq(S) /\ Len(back) = Len(d) - a
      /\ \A i \in 1..(Len(d) - a) : back[i] = d[a + i]
    <2>1. \A i \in (a + 1)..Len(d) : d[i] \in S
        BY <1>1, ElementOfSeq
    <2> QED BY <1>1, <2>1, SubSeqProperties
<1> HIDE DEF front, back
<1>4. /\ front \o back \in Seq(S) /\ Len(front \o back) = Len(front) + Len(back)
      /\ \A i \in 1..(Len(front) + Len(back)) :
            (front \o back)[i] = IF i <= Len(front) THEN front[i] ELSE back[i - Len(front)]
    BY <1>2, <1>3, ConcatProperties
<1>5. RemoveAt(d, a) = front \o back
    BY DEF RemoveAt, front, back
<1>6. Len(RemoveAt(d, a)) = Len(d) - 1
    <2>1. Len(front \o back) = (a - 1) + (Len(d) - a)
        BY <1>2, <1>3, <1>4
    <2>2. (a - 1) + (Len(d) - a) = Len(d) - 1
        BY <1>1
    <2> QED BY <1>5, <2>1, <2>2
<1>7. ASSUME NEW i \in 1..(Len(d) - 1)
      PROVE  RemoveAt(d, a)[i] = IF i < a THEN d[i] ELSE d[i + 1]
    <2>1. RemoveAt(d, a)[i] = IF i <= a - 1 THEN front[i] ELSE back[i - (a - 1)]
        BY <1>1, <1>2, <1>3, <1>4, <1>5
    <2>2. CASE i < a
        BY <1>1, <1>2, <2>1, <2>2
    <2>3. CASE ~(i < a)
        <3>1. i - (a - 1) \in 1..(Len(d) - a) /\ a + (i - (a - 1)) = i + 1
            BY <1>1, <2>3
        <3> QED BY <1>1, <1>3, <2>1, <2>3, <3>1
    <2> QED BY <2>2, <2>3
<1> QED BY <1>4, <1>5, <1>6, <1>7

LEMMA WithoutKeyIs ==
    ASSUME NEW d \in Seq(Entries), Unique(d), NEW k
    PROVE  /\ WithoutKey(d, k) \in Seq(Entries) /\ Unique(WithoutKey(d, k))
           /\ ToSet(WithoutKey(d, k)) = {e \in ToSet(d) : e.key # k}
<1>1. Len(d) \in Nat /\ DOMAIN d = 1..Len(d)
    BY LenProperties
<1>2. CASE \E i \in DOMAIN d : d[i].key = k
    <2> DEFINE a == CHOOSE i \in DOMAIN d : d[i].key = k
               f == RemoveAt(d, a)
    <2>1. a \in 1..Len(d) /\ d[a].key = k /\ WithoutKey(d, k) = f
        BY <1>1, <1>2 DEF WithoutKey
    <2> HIDE DEF a
    <2>2. /\ f \in Seq(Entries) /\ Len(f) = Len(d) - 1
          /\ \A i \in 1..(Len(d) - 1) : f[i] = IF i < a THEN d[i] ELSE d[i + 1]
        BY <2>1, RemovedAt
    <2> HIDE DEF f
    <2>3. DOMAIN f = 1..(Len(d) - 1)
        BY <1>1, <2>2, LenProperties
    <2>4. \A i \in 1..(Len(d) - 1) : i \in 1..Len(d) /\ i + 1 \in 1..Len(d)
        BY <1>1
    <2>5. Unique(f)
        <3>1. ASSUME NEW i \in 1..(Len(d) - 1), NEW j \in 1..(Len(d) - 1), f[i].key = f[j].key
              PROVE  i = j
            <4>1. (IF i < a THEN i ELSE i + 1) = (IF j < a THEN j ELSE j + 1)
                BY <1>1, <2>1, <2>2, <2>4, <3>1 DEF Unique
            <4> QED BY <1>1, <2>1, <4>1
        <3> QED BY <2>2, <3>1 DEF Unique
    <2>6. \A x \in ToSet(f) : x \in ToSet(d) /\ x.key # k
        <3> SUFFICES ASSUME NEW i \in 1..(Len(d) - 1) PROVE f[i] \in ToSet(d) /\ f[i].key # k
            BY <2>3 DEF ToSet
        <3> DEFINE j == IF i < a THEN i ELSE i + 1
        <3>1. f[i] = d[j] /\ j \in 1..Len(d) /\ j # a
            BY <1>1, <2>1, <2>2, <2>4
        <3> HIDE DEF j
        <3> QED BY <1>1, <2>1, <3>1 DEF ToSet, Unique
    <2>7. \A x \in ToSet(d) : x.key # k => x \in ToSet(f)
        <3> SUFFICES ASSUME NEW j \in 1..Len(d), d[j].key # k PROVE d[j] \in ToSet(f)
            BY <1>1 DEF ToSet
        <3> DEFINE i == IF j < a THEN j ELSE j - 1
        <3>1. i \in 1..(Len(d) - 1) /\ f[i] = d[j]
            BY <1>1, <2>1, <2>2
        <3> HIDE DEF i
        <3> QED BY <2>3, <3>1 DEF ToSet
    <2>8. ToSet(f) = {e \in ToSet(d) : e.key # k}
        BY <2>6, <2>7
    <2> QED BY <2>1, <2>2, <2>5, <2>8
<1>3. CASE ~(\E i \in DOMAIN d : d[i].key = k)
    <2>1. WithoutKey(d, k) = d
        BY <1>3 DEF WithoutKey
    <2>2. ToSet(d) = {e \in ToSet(d) : e.key # k}
        BY <1>3 DEF ToSet
    <2> QED BY <2>1, <2>2
<1> QED BY <1>2, <1>3

LEMMA WithEntryIs ==
    ASSUME NEW d \in Seq(Entries), Unique(d), NEW k \in Keys, NEW v \in Values
    PROVE  /\ WithEntry(d, k, v) \in Seq(Entries) /\ Unique(WithEntry(d, k, v))
           /\ ToSet(WithEntry(d, k, v)) = {e \in ToSet(d) : e.key # k} \union {Entry(k, v)}
<1>1. Len(d) \in Nat /\ DOMAIN d = 1..Len(d) /\ \A i \in 1..Len(d) : d[i] \in Entries
    BY LenProperties, ElementOfSeq
<1>2. Entry(k, v) \in Entries /\ Entry(k, v).key = k
    BY DEF Entry, Entries
<1>3. CASE \E i \in DOMAIN d : d[i].key = k
    <2> DEFINE f == [i \in DOMAIN d |-> IF d[i].key = k THEN Entry(k, v) ELSE d[i]]
    <2>1. WithEntry(d, k, v) = f
        BY <1>3 DEF WithEntry
    <2>2. f \in [1..Len(d) -> Entries]
        BY <1>1, <1>2
    <2>3. f \in Seq(Entries) /\ Len(f) = Len(d) /\ DOMAIN f = 1..Len(d)
        BY <1>1, <2>2
    <2>4. \A i \in 1..Len(d) : f[i] = IF d[i].key = k THEN Entry(k, v) ELSE d[i]
        BY <1>1
    <2> HIDE DEF f
    <2>5. \A i \in 1..Len(d) : f[i].key = d[i].key
        BY <1>2, <2>4
    <2>6. Unique(f)
        BY <2>3, <2>5 DEF Unique
    <2>7. PICK a \in 1..Len(d) : d[a].key = k
        BY <1>1, <1>3
    <2>8. Entry(k, v) \in ToSet(f)
        BY <2>3, <2>4, <2>7 DEF ToSet
    <2>9. \A x \in ToSet(f) : x = Entry(k, v) \/ (x \in ToSet(d) /\ x.key # k)
        BY <1>1, <2>3, <2>4 DEF ToSet
    <2>10. \A x \in ToSet(d) : x.key # k => x \in ToSet(f)
        BY <1>1, <2>3, <2>4 DEF ToSet
    <2>11. ToSet(f) = {e \in ToSet(d) : e.key # k} \union {Entry(k, v)}
        BY <2>8, <2>9, <2>10
    <2> QED BY <2>1, <2>3, <2>6, <2>11
<1>4. CASE ~(\E i \in DOMAIN d : d[i].key = k)
    <2> DEFINE f == Append(d, Entry(k, v))
    <2>1. WithEntry(d, k, v) = f
        BY <1>4 DEF WithEntry
    <2>2. /\ f \in Seq(Entries) /\ Len(f) = Len(d) + 1
          /\ \A i \in 1..Len(d) : f[i] = d[i]
          /\ f[Len(d) + 1] = Entry(k, v)
        BY <1>2, AppendProperties
    <2> HIDE DEF f
    <2>3. DOMAIN f = 1..(Len(d) + 1)
        BY <2>2, LenProperties
    <2>4. \A i \in 1..Len(d) : d[i].key # k
        BY <1>1, <1>4
    <2>5. Unique(f)
        BY <1>1, <1>2, <2>2, <2>4 DEF Unique
    <2>6. ToSet(f) = ToSet(d) \union {Entry(k, v)}
        BY <1>1, <2>2, <2>3 DEF ToSet
    <2>7. ToSet(d) = {e \in ToSet(d) : e.key # k}
        BY <1>1, <2>4 DEF ToSet
    <2> QED BY <2>1, <2>2, <2>5, <2>6, <2>7
<1> QED BY <1>3, <1>4

----------------------------------------------------------------------------
(* Keys whose chain stays, and keys whose chain ends. *)

LEMMA SurvivorsAre ==
    ASSUME StoreTypes, NEW k
    PROVE  /\ Len(written) \in Nat /\ DOMAIN written = 1..Len(written)
           /\ Survivors(k) \subseteq 1..Len(written)
BY LenProperties DEF StoreTypes, Survivors

LEMMA Kept ==
    ASSUME StoreTypes, StoreTypes', NEW k \in Keys, Stands(k),
           chain'[k] = chain[k], Ground(k)' = Ground(k), Len(written) <= Len(written'),
           \A j \in 1..Len(written) : written'[j] = written[j],
           \A j \in Survivors(k)' : j \in Survivors(k),
           \A j \in Survivors(k) : Fixed(j) => j \in Survivors(k)' /\ Fixed(j)'
    PROVE  Stands(k)'
<1>1. PICK b \in 0..Len(written) : \E pos \in [1..Len(chain[k]) -> (b + 1)..Len(written)] :
          ChainStands(k, b, pos)
    BY DEF Stands
<1>2. PICK pos \in [1..Len(chain[k]) -> (b + 1)..Len(written)] : ChainStands(k, b, pos)
    BY <1>1
<1>3. Len(written) \in Nat /\ Len(written') \in Nat /\ Survivors(k) \subseteq 1..Len(written)
    <2>1. Len(written') \in Nat
        BY LenProperties DEF StoreTypes
    <2> QED BY <2>1, SurvivorsAre
<1>4. b \in 0..Len(written') /\ pos \in [1..Len(chain'[k]) -> (b + 1)..Len(written')]
    BY <1>3
<1>5. \A i \in 1..Len(chain[k]) : pos[i] \in 1..Len(written)
    BY <1>3
<1>6. \A i \in 1..Len(chain'[k]) : written'[pos[i]] = Write(chain'[k][i].by, k, chain'[k][i].value)
    BY <1>2, <1>5 DEF ChainStands
<1>7. \A j \in Survivors(k)' : j > b =>
          \E i \in 1..Len(chain'[k]) : j <= pos[i] /\ chain'[k][i].by = written'[j].by
    BY <1>2, <1>3 DEF ChainStands
<1>8. \/ Below(k, b)' = {} /\ Ground(k)' = NoValue
      \/ \E j \in Below(k, b)' : IsLast(Below(k, b)', j) /\ Fixed(j)' /\ Ground(k)' = written'[j].value
    <2>1. \A j \in Below(k, b)' : j \in Below(k, b)
        BY DEF Below
    <2>2. CASE Below(k, b) = {} /\ Ground(k) = NoValue
        BY <2>1, <2>2
    <2>3. CASE \E j \in Below(k, b) : IsLast(Below(k, b), j) /\ Fixed(j) /\ Ground(k) = written[j].value
        <3>1. PICK j \in Below(k, b) : IsLast(Below(k, b), j) /\ Fixed(j) /\ Ground(k) = written[j].value
            BY <2>3
        <3>2. j \in Below(k, b)' /\ Fixed(j)' /\ written'[j] = written[j]
            BY <1>3, <3>1 DEF Below
        <3>3. IsLast(Below(k, b)', j)
            BY <2>1, <3>1, <3>2 DEF IsLast
        <3> QED BY <3>1, <3>2, <3>3
    <2> QED BY <1>2, <2>2, <2>3 DEF ChainStands
<1>9. ChainStands(k, b, pos)'
    BY <1>2, <1>6, <1>7, <1>8 DEF ChainStands
<1> QED BY <1>4, <1>9 DEF Stands

LEMMA Cleared ==
    ASSUME StoreTypes', NEW k \in Keys, chain'[k] = <<>>,
           \/ Survivors(k)' = {} /\ map'[k] = NoValue
           \/ \E j \in Survivors(k)' :
                 IsLast(Survivors(k)', j) /\ Fixed(j)' /\ map'[k] = written'[j].value
    PROVE  Stands(k)' /\ HeadShows(k)'
<1>1. PICK b \in Nat : b = Len(written') /\ DOMAIN written' = 1..b
    BY LenProperties DEF StoreTypes
<1>2. PICK pos : pos \in [1..0 -> {0}]
    <2>1. [i \in 1..0 |-> 0] \in [1..0 -> {0}]
        OBVIOUS
    <2> QED BY <2>1
<1>3. Survivors(k)' \subseteq 1..b
    BY <1>1 DEF Survivors
<1>4. Below(k, b)' = Survivors(k)' /\ \A j \in Survivors(k)' : ~(j > b)
    BY <1>3 DEF Below
<1>5. Ground(k)' = map'[k] /\ Len(chain'[k]) = 0
    BY DEF Ground
<1>6. ChainStands(k, b, pos)'
    BY <1>4, <1>5 DEF ChainStands
<1>7. b \in 0..Len(written') /\ pos \in [1..Len(chain'[k]) -> (b + 1)..Len(written')]
    BY <1>1, <1>2, <1>5
<1>8. Stands(k)'
    BY <1>6, <1>7 DEF Stands
<1> QED BY <1>5, <1>8 DEF HeadShows

----------------------------------------------------------------------------
(* Types. *)

LEMMA ReplayedIs ==
    ASSUME NEW done \in Seq(Entries)
    PROVE  /\ Replayed(done) \in Seq(WriteRecords) /\ Len(Replayed(done)) = Len(done)
           /\ \A i \in 1..Len(done) :
                 Replayed(done)[i] = Write("replay", done[i].key, done[i].value)
<1>1. Len(done) \in Nat /\ DOMAIN done = 1..Len(done) /\ \A i \in 1..Len(done) : done[i] \in Entries
    BY LenProperties, ElementOfSeq
<1>2. Replayed(done) = [i \in 1..Len(done) |-> Write("replay", done[i].key, done[i].value)]
    BY <1>1 DEF Replayed
<1>3. \A i \in 1..Len(done) : Write("replay", done[i].key, done[i].value) \in WriteRecords
    BY <1>1 DEF Write, WriteRecords, Entries, Untracked
<1>4. Replayed(done) \in [1..Len(done) -> WriteRecords]
    BY <1>2, <1>3
<1> QED BY <1>1, <1>2, <1>4

LEMMA DeltasAreEntries == \A delta \in Deltas : delta \in Seq(Entries)
<1>1. \A k \in Keys, v \in Values : Entry(k, v) \in Entries
    BY DEF Entry, Entries
<1>2. \A e, f \in Entries : <<e>> \in Seq(Entries) /\ <<e, f>> \in Seq(Entries)
    OBVIOUS
<1> SUFFICES ASSUME NEW delta \in Deltas PROVE delta \in Seq(Entries)
    OBVIOUS
<1>3. CASE \E k \in Keys, v \in Values : delta = <<Entry(k, v)>>
    <2>1. PICK k \in Keys, v \in Values : delta = <<Entry(k, v)>>
        BY <1>3
    <2> HIDE DEF Entry
    <2> QED BY <1>1, <1>2, <2>1
<1>4. CASE \E k, j \in Keys, v \in Values : delta = <<Entry(k, v), Entry(j, v)>>
    <2>1. PICK k \in Keys, j \in Keys, v \in Values : delta = <<Entry(k, v), Entry(j, v)>>
        BY <1>4
    <2>2. Entry(k, v) \in Entries /\ Entry(j, v) \in Entries
        BY <1>1
    <2> QED BY <1>2, <2>1, <2>2
<1> QED BY <1>3, <1>4 DEF Deltas

\* What a chain is resolved to.
LEMMA ResolvedIs ==
    ASSUME StoreTypes, NEW k \in Keys, NEW fates
    PROVE  /\ Resolved(k, fates).nodes \in Seq(Nodes)
           /\ Resolved(k, fates).value \in Values \union {NoValue}
           /\ \/ chain[k] = <<>> /\ Resolved(k, fates) = [value |-> map[k], nodes |-> <<>>]
              \/ /\ chain[k] # <<>>
                 /\ \A i \in 1..Len(chain[k]) : fates[chain[k][i].by] = "discarded"
                 /\ Resolved(k, fates) = [value |-> baseline[k], nodes |-> <<>>]
              \/ /\ chain[k] # <<>>
                 /\ \E top \in 1..Len(chain[k]) :
                      /\ fates[chain[k][top].by] # "discarded"
                      /\ \A i \in 1..Len(chain[k]) :
                            fates[chain[k][i].by] # "discarded" => i <= top
                      /\ Resolved(k, fates) =
                            [value |-> chain[k][top].value,
                             nodes |-> IF fates[chain[k][top].by] = "active"
                                       THEN SubSeq(chain[k], 1, top) ELSE <<>>]
<1> DEFINE nodes == chain[k]
           alive == {i \in DOMAIN nodes : fates[nodes[i].by] # "discarded"}
<1>1. nodes \in Seq(Nodes) /\ map[k] \in Values \union {NoValue} /\ baseline[k] \in Values \union {NoValue}
    BY DEF StoreTypes, Contents
<1>2. Len(nodes) \in Nat /\ DOMAIN nodes = 1..Len(nodes) /\ \A i \in 1..Len(nodes) : nodes[i] \in Nodes
    BY <1>1, LenProperties, ElementOfSeq
<1>3. CASE nodes = <<>>
    <2>1. Resolved(k, fates) = [value |-> map[k], nodes |-> <<>>]
        BY <1>3 DEF Resolved
    <2> QED BY <1>1, <1>3, <2>1
<1>4. CASE nodes # <<>> /\ alive = {}
    <2>1. Resolved(k, fates) = [value |-> baseline[k], nodes |-> <<>>]
        BY <1>4 DEF Resolved
    <2>2. \A i \in 1..Len(nodes) : fates[nodes[i].by] = "discarded"
        BY <1>2, <1>4
    <2> QED BY <1>1, <1>4, <2>1, <2>2
<1>5. CASE nodes # <<>> /\ alive # {}
    <2>1. PICK top \in alive : IsLast(alive, top)
        BY <1>2, <1>5, LastExists
    <2>2. Max(alive) = top
        BY <1>2, <2>1, LastIsMax
    <2>3. Resolved(k, fates) = [value |-> nodes[top].value,
              nodes |-> IF fates[nodes[top].by] = "active" THEN SubSeq(nodes, 1, top) ELSE <<>>]
        BY <1>5, <2>2 DEF Resolved
    <2>4. top \in 1..Len(nodes) /\ nodes[top].value \in Values
        BY <1>2, <2>1 DEF Nodes
    <2>5. SubSeq(nodes, 1, top) \in Seq(Nodes)
        <3>1. \A i \in 1..top : nodes[i] \in Nodes
            BY <1>2, <2>4
        <3> QED BY <1>1, <1>2, <2>4, <3>1, SubSeqProperties
    <2>6. \A i \in 1..Len(nodes) : fates[nodes[i].by] # "discarded" => i <= top
        BY <1>2, <2>1 DEF IsLast
    <2>7. fates[nodes[top].by] # "discarded"
        BY <2>1
    <2> HIDE DEF nodes, alive
    <2>8. Resolved(k, fates).nodes \in Seq(Nodes) /\ Resolved(k, fates).value \in Values
        BY <2>3, <2>4, <2>5
    <2> QED BY <1>5, <2>3, <2>4, <2>6, <2>7, <2>8 DEF nodes
<1> QED BY <1>3, <1>4, <1>5

LEMMA InitStoreTypes == StoreInit => StoreTypes
<1> SUFFICES ASSUME StoreInit PROVE StoreTypes
    OBVIOUS
<1>1. EmptyContent \in Contents
    BY DEF EmptyContent, Contents
<1> HIDE DEF EmptyContent
<1>2. map \in Contents /\ baseline \in Contents /\ disposed \in BOOLEAN
    BY <1>1 DEF StoreInit
<1>3. chain \in [Keys -> Seq(Nodes)] /\ agentDeltas \in [Windows -> Seq(Entries)]
    BY DEF StoreInit
<1>4. fate \in [Windows -> {"idle", "active", "committed", "discarded", "retired"}]
    BY DEF StoreInit
<1>5. written \in Seq(WriteRecords)
    BY DEF StoreInit
<1> QED BY <1>2, <1>3, <1>4, <1>5 DEF StoreTypes

LEMMA PutTypes ==
    ASSUME StoreTypes, \A w \in Windows : Unique(agentDeltas[w]),
           NEW k \in Keys, NEW v \in Values, Put(k, v)
    PROVE  StoreTypes'
<1>1. map' \in Contents /\ baseline' \in Contents
    BY DEF Put, StoreTypes, Contents
<1>2. chain' \in [Keys -> Seq(Nodes)]
    BY DEF Put, StoreTypes
<1>3. agentDeltas' \in [Windows -> Seq(Entries)]
    <2>1. \A w \in Windows : WithoutKey(agentDeltas[w], k) \in Seq(Entries)
        BY WithoutKeyIs DEF StoreTypes
    <2> QED BY <2>1 DEF Put
<1>4. written' \in Seq(WriteRecords)
    <2>1. Write("put", k, v) \in WriteRecords
        BY DEF Write, WriteRecords, Untracked
    <2> QED BY <2>1, AppendProperties DEF Put, StoreTypes
<1> QED BY <1>1, <1>2, <1>3, <1>4 DEF Put, StoreTypes

LEMMA TrackTypes ==
    ASSUME StoreTypes, \A w \in Windows : Unique(agentDeltas[w]),
           NEW w \in Windows, NEW k \in Keys, NEW v \in Values, TrackPut(w, k, v)
    PROVE  StoreTypes'
<1>1. map' \in Contents /\ baseline' \in Contents
    BY DEF TrackPut, StoreTypes, Contents
<1>2. chain' \in [Keys -> Seq(Nodes)]
    <2>1. Node(w, v) \in Nodes /\ chain[k] \in Seq(Nodes)
        BY DEF Node, Nodes, StoreTypes
    <2>2. Append(chain[k], Node(w, v)) \in Seq(Nodes)
        BY <2>1, AppendProperties
    <2>3. [chain[k] EXCEPT ![Len(chain[k])] = Node(w, v)] \in Seq(Nodes)
        <3>1. Len(chain[k]) \in Nat /\ chain[k] \in [1..Len(chain[k]) -> Nodes]
            BY <2>1, LenProperties, ElementOfSeq
        <3>2. [chain[k] EXCEPT ![Len(chain[k])] = Node(w, v)] \in [1..Len(chain[k]) -> Nodes]
            BY <2>1, <3>1
        <3> QED BY <3>1, <3>2
    <2> QED BY <2>2, <2>3 DEF TrackPut, StoreTypes
<1>3. agentDeltas' \in [Windows -> Seq(Entries)]
    <2>1. WithEntry(agentDeltas[w], k, v) \in Seq(Entries)
        BY WithEntryIs DEF StoreTypes
    <2> QED BY <2>1 DEF TrackPut, StoreTypes
<1>4. written' \in Seq(WriteRecords)
    <2>1. Write(w, k, v) \in WriteRecords
        BY DEF Write, WriteRecords
    <2> QED BY <2>1, AppendProperties DEF TrackPut, StoreTypes
<1>5. fate' \in [Windows -> {"idle", "active", "committed", "discarded", "retired"}]
    BY DEF TrackPut, StoreTypes
<1> QED BY <1>1, <1>2, <1>3, <1>4, <1>5 DEF TrackPut, StoreTypes

LEMMA RetireTypes ==
    ASSUME StoreTypes, NEW w \in Windows, NEW how \in {"committed", "discarded"}, Retire(w, how)
    PROVE  StoreTypes'
<1> DEFINE fates == [fate EXCEPT ![w] = how]
           touched == KeysOf(agentDeltas[w])
           after == [k \in Keys |-> IF k \in touched THEN Resolved(k, fates)
                                    ELSE [value |-> map[k], nodes |-> chain[k]]]
<1>1. /\ fate' = fates
      /\ map' = [k \in Keys |-> after[k].value]
      /\ chain' = [k \in Keys |-> after[k].nodes]
      /\ baseline' = [k \in Keys |-> IF after[k].nodes = <<>> THEN NoValue ELSE baseline[k]]
      /\ agentDeltas' = [agentDeltas EXCEPT ![w] = <<>>]
      /\ UNCHANGED <<disposed, written>>
    BY DEF Retire
<1>2. \A k \in Keys : after[k].value \in Values \union {NoValue} /\ after[k].nodes \in Seq(Nodes)
    <2> SUFFICES ASSUME NEW k \in Keys
                 PROVE  after[k].value \in Values \union {NoValue} /\ after[k].nodes \in Seq(Nodes)
        OBVIOUS
    <2>1. /\ Resolved(k, fates).nodes \in Seq(Nodes)
          /\ Resolved(k, fates).value \in Values \union {NoValue}
        BY ResolvedIs
    <2>2. map[k] \in Values \union {NoValue} /\ chain[k] \in Seq(Nodes)
        BY DEF StoreTypes, Contents
    <2> HIDE DEF fates, touched
    <2> QED BY <2>1, <2>2
<1>3. fates \in [Windows -> {"idle", "active", "committed", "discarded", "retired"}]
    BY DEF StoreTypes
<1> HIDE DEF after, fates
<1>4. map' \in Contents /\ baseline' \in Contents /\ chain' \in [Keys -> Seq(Nodes)]
    BY <1>1, <1>2 DEF Contents, StoreTypes
<1>5. agentDeltas' \in [Windows -> Seq(Entries)]
    BY <1>1 DEF StoreTypes
<1> QED BY <1>1, <1>3, <1>4, <1>5 DEF StoreTypes

LEMMA ReplayTypes ==
    ASSUME StoreTypes,
           (\E delta \in Deltas : ApplyDelta(delta)) \/ (\E snapshot \in Snapshots : Restore(snapshot))
    PROVE  StoreTypes'
<1>1. EmptyContent \in Contents /\ map \in Contents /\ written \in Seq(WriteRecords)
    BY DEF EmptyContent, Contents, StoreTypes
<1>2. CASE \E delta \in Deltas : ApplyDelta(delta)
    <2>1. PICK delta \in Deltas : ApplyDelta(delta)
        BY <1>2
    <2> DEFINE r == Applied(map, delta)
    <2>2. r.map \in Contents /\ r.done \in Seq(Entries)
        BY <1>1, DeltasAreEntries, AppliedIs DEF AppliedTo
    <2>3. Replayed(r.done) \in Seq(WriteRecords)
        BY <2>2, ReplayedIs
    <2>4. written \o Replayed(r.done) \in Seq(WriteRecords)
        BY <1>1, <2>3, ConcatProperties
    <2>5. /\ map' = r.map /\ written' = written \o Replayed(r.done)
          /\ chain' = [k \in Keys |-> IF k \in KeysOf(r.done) THEN <<>> ELSE chain[k]]
          /\ baseline' = [k \in Keys |-> IF k \in KeysOf(r.done) THEN NoValue ELSE baseline[k]]
          /\ UNCHANGED <<agentDeltas, fate, disposed>>
        BY <2>1 DEF ApplyDelta
    <2> HIDE DEF r
    <2>6. chain' \in [Keys -> Seq(Nodes)] /\ baseline' \in Contents
        BY <2>5 DEF StoreTypes, Contents
    <2> QED BY <2>2, <2>4, <2>5, <2>6 DEF StoreTypes
<1>3. CASE \E snapshot \in Snapshots : Restore(snapshot)
    <2>1. PICK snapshot \in Snapshots : Restore(snapshot)
        BY <1>3
    <2> DEFINE r == Applied(EmptyContent, snapshot)
    <2>2. snapshot \in Seq(Entries)
        BY SharedStoreAssumption DEF Entries
    <2>3. r.map \in Contents /\ r.done \in Seq(Entries)
        BY <1>1, <2>2, AppliedIs DEF AppliedTo
    <2>4. Replayed(r.done) \in Seq(WriteRecords)
        BY <2>3, ReplayedIs
    <2>5. map' = r.map /\ written' = Replayed(r.done)
        BY <2>1 DEF Restore
    <2> HIDE DEF r
    <2>6. chain' \in [Keys -> Seq(Nodes)] /\ agentDeltas' \in [Windows -> Seq(Entries)]
        BY <2>1 DEF Restore
    <2>7. fate' \in [Windows -> {"idle", "active", "committed", "discarded", "retired"}]
        BY <2>1 DEF Restore, StoreTypes
    <2> QED BY <1>1, <2>1, <2>3, <2>4, <2>5, <2>6, <2>7 DEF StoreTypes, Restore
<1> QED BY <1>2, <1>3

LEMMA DisposeTypes ==
    ASSUME StoreTypes, Dispose
    PROVE  StoreTypes'
BY DEF Dispose, StoreTypes, EmptyContent, Contents

----------------------------------------------------------------------------
(* Version chains. *)

LEMMA AppendedIs ==
    ASSUME StoreTypes, NEW e \in WriteRecords, written' = Append(written, e)
    PROVE  /\ Len(written) \in Nat /\ Len(written') = Len(written) + 1
           /\ DOMAIN written = 1..Len(written) /\ DOMAIN written' = 1..(Len(written) + 1)
           /\ \A i \in 1..Len(written) : written'[i] = written[i]
           /\ written'[Len(written) + 1] = e
<1>1. written \in Seq(WriteRecords)
    BY DEF StoreTypes
<1>2. /\ written' \in Seq(WriteRecords) /\ Len(written') = Len(written) + 1
      /\ \A i \in 1..Len(written) : written'[i] = written[i]
      /\ written'[Len(written) + 1] = e
    BY <1>1, AppendProperties
<1> QED BY <1>1, <1>2, LenProperties

LEMMA NodesAre ==
    ASSUME StoreTypes, NEW k \in Keys
    PROVE  /\ chain[k] \in Seq(Nodes) /\ Len(chain[k]) \in Nat /\ DOMAIN chain[k] = 1..Len(chain[k])
           /\ chain[k] # <<>> => Len(chain[k]) > 0
           /\ \A i \in 1..Len(chain[k]) : chain[k][i].by \in Windows
<1>1. chain[k] \in Seq(Nodes)
    BY DEF StoreTypes
<1>2. \A i \in 1..Len(chain[k]) : chain[k][i] \in Nodes
    BY <1>1, ElementOfSeq
<1> QED BY <1>1, <1>2, LenProperties, EmptySeq DEF Nodes

LEMMA HeadKept ==
    ASSUME StoreTypes, NEW k \in Keys, HeadShows(k), chain'[k] = chain[k],
           chain[k] # <<>> => map'[k] = map[k],
           \A i \in 1..Len(chain[k]) : fate'[chain[k][i].by] = fate[chain[k][i].by],
           \A w \in Windows :
              fate'[w] = "active" /\ k \in KeysOf(agentDeltas[w]) => k \in KeysOf(agentDeltas'[w])
    PROVE  HeadShows(k)'
<1>1. /\ Len(chain[k]) \in Nat /\ chain[k] # <<>> => Len(chain[k]) \in 1..Len(chain[k])
      /\ \A i \in 1..Len(chain[k]) : chain[k][i].by \in Windows
    BY NodesAre
<1> QED BY <1>1 DEF HeadShows

LEMMA PutChains ==
    ASSUME StoreTypes, StoreTypes', Chains, \A w \in Windows : Unique(agentDeltas[w]),
           NEW k \in Keys, NEW v \in Values, Put(k, v)
    PROVE  Chains'
<1> DEFINE n == Len(written)
           e == Write("put", k, v)
<1>1. /\ written' = Append(written, e) /\ fate' = fate
      /\ map' = [map EXCEPT ![k] = v]
      /\ chain' = [chain EXCEPT ![k] = <<>>]
      /\ baseline' = [baseline EXCEPT ![k] = NoValue]
      /\ agentDeltas' = [w \in Windows |-> WithoutKey(agentDeltas[w], k)]
    BY DEF Put
<1>2. e \in WriteRecords /\ e.key = k /\ e.by = "put" /\ e.value = v
    BY DEF Write, WriteRecords, Untracked
<1> HIDE DEF e
<1>3. /\ n \in Nat /\ Len(written') = n + 1 /\ DOMAIN written = 1..n /\ DOMAIN written' = 1..(n + 1)
      /\ \A i \in 1..n : written'[i] = written[i]
      /\ written'[n + 1] = e
    BY <1>1, <1>2, AppendedIs
<1> HIDE DEF n
<1>4. Stands(k)' /\ HeadShows(k)'
    <2>1. PICK j : j = n + 1
        OBVIOUS
    <2>2. j \in Survivors(k)'
        BY <1>2, <1>3, <2>1 DEF Survivors, Untracked
    <2>3. IsLast(Survivors(k)', j) /\ Fixed(j)'
        BY <1>2, <1>3, <2>1, <2>2 DEF IsLast, Survivors, Fixed, Untracked
    <2>4. chain'[k] = <<>> /\ map'[k] = written'[j].value
        BY <1>1, <1>2, <1>3, <2>1 DEF StoreTypes, Contents
    <2> QED BY <2>2, <2>3, <2>4, Cleared
<1>5. ASSUME NEW m \in Keys, m # k PROVE Stands(m)' /\ HeadShows(m)'
    <2>1. chain'[m] = chain[m] /\ map'[m] = map[m] /\ baseline'[m] = baseline[m]
        BY <1>1, <1>5 DEF StoreTypes, Contents
    <2>2. Ground(m)' = Ground(m)
        BY <2>1 DEF Ground
    <2>3. Survivors(m)' = Survivors(m) /\ \A j \in Survivors(m) : Fixed(j) => Fixed(j)'
        BY <1>1, <1>2, <1>3, <1>5 DEF Survivors, Fixed
    <2>4. n <= Len(written')
        BY <1>3
    <2>5. Stands(m)'
        BY <1>3, <2>1, <2>2, <2>3, <2>4, Kept DEF Chains, n
    <2>6. \A w \in Windows : m \in KeysOf(agentDeltas[w]) => m \in KeysOf(agentDeltas'[w])
        <3> SUFFICES ASSUME NEW w \in Windows, m \in KeysOf(agentDeltas[w])
                     PROVE  m \in KeysOf(agentDeltas'[w])
            OBVIOUS
        <3>1. ToSet(agentDeltas'[w]) = {f \in ToSet(agentDeltas[w]) : f.key # k}
            BY <1>1, WithoutKeyIs DEF StoreTypes
        <3> QED BY <1>5, <3>1, KeysAre
    <2>7. HeadShows(m)'
        BY <1>1, <2>1, <2>6, HeadKept DEF Chains
    <2> QED BY <2>5, <2>7
<1> QED BY <1>4, <1>5 DEF Chains

LEMMA TrackChains ==
    ASSUME StoreTypes, StoreTypes', Chains, \A w \in Windows : Unique(agentDeltas[w]),
           NEW w \in Windows, NEW k \in Keys, NEW v \in Values, TrackPut(w, k, v)
    PROVE  Chains'
<1> DEFINE n == Len(written)
           e == Write(w, k, v)
           nodes == chain[k]
           own == nodes # <<>> /\ Last(nodes).by = w
<1>1. /\ written' = Append(written, e)
      /\ map' = [map EXCEPT ![k] = v]
      /\ chain' = [chain EXCEPT ![k] =
                      IF own THEN [nodes EXCEPT ![Len(nodes)] = Node(w, v)]
                             ELSE Append(nodes, Node(w, v))]
      /\ baseline' = [baseline EXCEPT ![k] = IF nodes = <<>> THEN map[k] ELSE @]
      /\ agentDeltas' = [agentDeltas EXCEPT ![w] = WithEntry(@, k, v)]
      /\ fate' = [fate EXCEPT ![w] = "active"] /\ fate[w] \in {"idle", "active"}
    BY DEF TrackPut
<1>2. e \in WriteRecords /\ e.key = k /\ e.by = w /\ e.value = v /\ e = Write(w, k, v)
    BY DEF Write, WriteRecords
<1> HIDE DEF e
<1>3. /\ n \in Nat /\ Len(written') = n + 1 /\ DOMAIN written = 1..n /\ DOMAIN written' = 1..(n + 1)
      /\ \A i \in 1..n : written'[i] = written[i]
      /\ written'[n + 1] = e
    BY <1>1, <1>2, AppendedIs
<1> HIDE DEF n
<1>4. \A u \in Windows : /\ fate'[u] = "discarded" <=> fate[u] = "discarded"
                         /\ fate[u] = "committed" => fate'[u] = "committed"
                         /\ u # w => fate'[u] = fate[u]
    BY <1>1 DEF StoreTypes
<1>5. fate'[w] = "active"
    BY <1>1 DEF StoreTypes
<1>6. \A i \in 1..n : written[i].by \in Windows \/ written[i].by \in Untracked
    <2>1. \A i \in 1..n : written[i] \in WriteRecords
        BY ElementOfSeq DEF StoreTypes, n
    <2> QED BY <2>1 DEF WriteRecords
<1>7. \A u \in Windows, m \in Keys : m \in KeysOf(agentDeltas[u]) => m \in KeysOf(agentDeltas'[u])
    <2> SUFFICES ASSUME NEW u \in Windows, NEW m \in Keys, m \in KeysOf(agentDeltas[u])
                 PROVE  m \in KeysOf(agentDeltas'[u])
        OBVIOUS
    <2>1. CASE u = w
        <3>1. ToSet(agentDeltas'[w]) = {f \in ToSet(agentDeltas[w]) : f.key # k} \union {Entry(k, v)}
            <4>1. agentDeltas'[w] = WithEntry(agentDeltas[w], k, v)
                BY <1>1 DEF StoreTypes
            <4>2. agentDeltas[w] \in Seq(Entries)
                BY DEF StoreTypes
            <4> QED BY <4>1, <4>2, WithEntryIs
        <3>2. Entry(k, v).key = k
            BY DEF Entry
        <3> QED BY <2>1, <3>1, <3>2, KeysAre
    <2>2. CASE u # w
        BY <1>1, <2>2 DEF StoreTypes
    <2> QED BY <2>1, <2>2
<1>8. k \in KeysOf(agentDeltas'[w])
    <2>1. ToSet(agentDeltas'[w]) = {f \in ToSet(agentDeltas[w]) : f.key # k} \union {Entry(k, v)}
        BY <1>1, WithEntryIs DEF StoreTypes
    <2>2. Entry(k, v).key = k
        BY DEF Entry
    <2> QED BY <2>1, <2>2, KeysAre
<1>9. ASSUME NEW m \in Keys, m # k PROVE Stands(m)' /\ HeadShows(m)'
    <2>1. chain'[m] = chain[m] /\ map'[m] = map[m] /\ baseline'[m] = baseline[m]
        BY <1>1, <1>9 DEF StoreTypes, Contents
    <2>2. Ground(m)' = Ground(m)
        BY <2>1 DEF Ground
    <2>3. Survivors(m)' = Survivors(m) /\ \A j \in Survivors(m) : Fixed(j) => Fixed(j)'
        BY <1>2, <1>3, <1>4, <1>6, <1>9 DEF Survivors, Fixed
    <2>4. n <= Len(written')
        BY <1>3
    <2>5. Stands(m)'
        BY <1>3, <2>1, <2>2, <2>3, <2>4, Kept DEF Chains, n
    <2>6. \A i \in 1..Len(chain[m]) : fate'[chain[m][i].by] = fate[chain[m][i].by]
        <3>2. \A i \in 1..Len(chain[m]) : chain[m][i].by \in Windows
            BY NodesAre
        <3> QED BY <1>1, <1>4, <1>5, <3>2 DEF Chains, HeadShows
    <2>7. HeadShows(m)'
        BY <1>7, <2>1, <2>6, HeadKept DEF Chains
    <2> QED BY <2>5, <2>7
<1>10. Stands(k)' /\ HeadShows(k)'
    <2>1. PICK b \in 0..n : \E pos \in [1..Len(nodes) -> (b + 1)..n] : ChainStands(k, b, pos)
        BY DEF Chains, Stands, n
    <2>2. PICK pos \in [1..Len(nodes) -> (b + 1)..n] : ChainStands(k, b, pos)
        BY <2>1
    <2>3. /\ nodes \in Seq(Nodes) /\ Len(nodes) \in Nat /\ DOMAIN nodes = 1..Len(nodes)
          /\ nodes # <<>> => Len(nodes) > 0
          /\ \A i \in 1..Len(nodes) : nodes[i].by \in Windows
        BY NodesAre
    <2> DEFINE size == IF own THEN Len(nodes) ELSE Len(nodes) + 1
    <2>4. /\ Len(chain'[k]) = size /\ chain'[k] # <<>> /\ size \in Nat /\ size >= 1
          /\ \A i \in 1..size : chain'[k][i] = IF i = size THEN Node(w, v) ELSE nodes[i]
          /\ \A i \in 1..size : i # size => i \in 1..Len(nodes)
          /\ \A i \in 1..Len(nodes) : i \in 1..size /\ (i = size => nodes[i].by = w)
        <3>1. Node(w, v) \in Nodes
            BY DEF Node, Nodes
        <3>2. CASE own
            <4>1. chain'[k] = [nodes EXCEPT ![Len(nodes)] = Node(w, v)]
                BY <1>1, <3>2 DEF StoreTypes
            <4>2. chain'[k] \in Seq(Nodes)
                BY DEF StoreTypes
            <4>3. DOMAIN chain'[k] = 1..Len(nodes)
                BY <2>3, <4>1
            <4>4. Len(chain'[k]) = Len(nodes)
                BY <2>3, <4>2, <4>3, LenProperties
            <4>5. nodes[Len(nodes)].by = w
                BY <3>2 DEF Last
            <4>6. chain'[k] # <<>>
                BY <2>3, <3>2, <4>4
            <4> QED BY <2>3, <3>2, <4>1, <4>4, <4>5, <4>6
        <3>3. CASE ~own
            <4>1. chain'[k] = Append(nodes, Node(w, v))
                BY <1>1, <3>3 DEF StoreTypes
            <4>2. /\ Len(chain'[k]) = Len(nodes) + 1 /\ chain'[k] # <<>>
                  /\ \A i \in 1..Len(nodes) : chain'[k][i] = nodes[i]
                  /\ chain'[k][Len(nodes) + 1] = Node(w, v)
                BY <2>3, <3>1, <4>1, AppendProperties
            <4> QED BY <2>3, <3>3, <4>2
        <3> QED BY <3>2, <3>3
    <2> HIDE DEF nodes, own, size
    <2>5. PICK place : place = [i \in 1..size |-> IF i = size THEN n + 1 ELSE pos[i]]
        OBVIOUS
    <2>15. /\ \A i \in 1..size : place[i] = IF i = size THEN n + 1 ELSE pos[i]
           /\ \A i \in 1..Len(nodes) : pos[i] \in (b + 1)..n
           /\ \A i, j \in 1..Len(nodes) : i < j => pos[i] < pos[j]
           /\ b \in Nat /\ b <= n
        <3>1. \A i \in 1..size : place[i] = IF i = size THEN n + 1 ELSE pos[i]
            BY <2>5
        <3>2. \A i \in 1..Len(nodes) : pos[i] \in (b + 1)..n
            BY <2>2
        <3>3. \A i, j \in 1..Len(nodes) : i < j => pos[i] < pos[j]
            BY <2>2 DEF ChainStands, nodes
        <3>4. b \in Nat /\ b <= n
            BY <1>3
        <3> QED BY <3>1, <3>2, <3>3, <3>4
    <2>6. place \in [1..size -> (b + 1)..(n + 1)] /\ b \in 0..(n + 1)
        <3>1. \A i \in 1..size : place[i] \in (b + 1)..(n + 1)
            BY <1>3, <2>4, <2>15
        <3> QED BY <1>3, <2>5, <2>15, <3>1
    <2>7. \A i, j \in 1..size : i < j => place[i] < place[j]
        <3> SUFFICES ASSUME NEW i \in 1..size, NEW j \in 1..size, i < j PROVE place[i] < place[j]
            OBVIOUS
        <3>1. i # size /\ i \in 1..Len(nodes)
            BY <2>4
        <3>2. CASE j = size
            BY <1>3, <2>15, <3>1, <3>2
        <3>3. CASE j # size
            BY <2>4, <2>15, <3>1, <3>3
        <3> QED BY <3>2, <3>3
    <2>8. \A i \in 1..size : written'[place[i]] = Write(chain'[k][i].by, k, chain'[k][i].value)
        <3>1. Node(w, v).by = w /\ Node(w, v).value = v
            BY DEF Node
        <3>2. \A i \in 1..Len(nodes) : pos[i] \in 1..n
            BY <1>3, <2>15
        <3>3. \A i \in 1..Len(nodes) : written[pos[i]] = Write(nodes[i].by, k, nodes[i].value)
            BY <2>2 DEF ChainStands, nodes
        <3> SUFFICES ASSUME NEW i \in 1..size
                     PROVE  written'[place[i]] = Write(chain'[k][i].by, k, chain'[k][i].value)
            OBVIOUS
        <3>4. CASE i = size
            BY <1>2, <1>3, <2>4, <2>15, <3>1, <3>4
        <3>5. CASE i # size
            BY <1>3, <2>4, <2>15, <3>2, <3>3, <3>5
        <3> QED BY <3>4, <3>5
    <2>9. Survivors(k)' = Survivors(k) \union {n + 1} /\ Survivors(k) \subseteq 1..n
        BY <1>2, <1>3, <1>4, <1>5, <1>6 DEF Survivors
    <2>10. \A j \in Survivors(k)' : j > b =>
              \E i \in 1..size : j <= place[i] /\ chain'[k][i].by = written'[j].by
        <3> SUFFICES ASSUME NEW j \in Survivors(k)', j > b
                     PROVE  \E i \in 1..size : j <= place[i] /\ chain'[k][i].by = written'[j].by
            OBVIOUS
        <3>1. size \in 1..size /\ place[size] = n + 1 /\ chain'[k][size].by = w
            BY <2>4, <2>5 DEF Node
        <3>2. CASE j = n + 1
            BY <1>2, <1>3, <3>1, <3>2
        <3>3. CASE j \in Survivors(k)
            <4>1. PICK i \in 1..Len(nodes) : j <= pos[i] /\ nodes[i].by = written[j].by
                BY <2>2, <3>3 DEF ChainStands, nodes
            <4>2. j \in 1..n /\ written'[j] = written[j]
                BY <1>3, <2>9, <3>3
            <4>3. CASE i = size
                BY <1>3, <2>4, <3>1, <4>1, <4>2, <4>3
            <4>4. CASE i # size
                BY <2>4, <2>15, <4>1, <4>2, <4>4
            <4> QED BY <4>3, <4>4
        <3> QED BY <2>9, <3>2, <3>3
    <2>11. \/ Below(k, b)' = {} /\ Ground(k)' = NoValue
           \/ \E j \in Below(k, b)' :
                 IsLast(Below(k, b)', j) /\ Fixed(j)' /\ Ground(k)' = written'[j].value
        <3>1. Below(k, b)' = Below(k, b)
            BY <1>3, <2>1, <2>9 DEF Below
        <3>2. Ground(k)' = Ground(k)
            <4>1. baseline'[k] = IF nodes = <<>> THEN map[k] ELSE baseline[k]
                BY <1>1 DEF StoreTypes, Contents, nodes
            <4> QED BY <2>4, <4>1 DEF Ground, nodes
        <3>3. \A j \in Below(k, b) : written'[j] = written[j] /\ (Fixed(j) => Fixed(j)')
            BY <1>3, <1>4, <1>6, <2>9 DEF Below, Fixed
        <3> QED BY <2>2, <3>1, <3>2, <3>3 DEF ChainStands
    <2>12. ChainStands(k, b, place)'
        BY <2>4, <2>7, <2>8, <2>10, <2>11 DEF ChainStands
    <2>13. Stands(k)'
        BY <1>3, <2>4, <2>6, <2>12 DEF Stands
    <2>14. HeadShows(k)'
        <3>1. map'[k] = v
            BY <1>1 DEF StoreTypes, Contents
        <3>2. \A i \in 1..Len(nodes) :
                  /\ fate'[nodes[i].by] \in {"active", "committed", "discarded"}
                  /\ fate'[nodes[i].by] = "active" => k \in KeysOf(agentDeltas'[nodes[i].by])
            <4> SUFFICES ASSUME NEW i \in 1..Len(nodes)
                         PROVE  /\ fate'[nodes[i].by] \in {"active", "committed", "discarded"}
                                /\ fate'[nodes[i].by] = "active" =>
                                        k \in KeysOf(agentDeltas'[nodes[i].by])
                OBVIOUS
            <4>1. /\ fate[nodes[i].by] \in {"active", "committed", "discarded"}
                  /\ fate[nodes[i].by] = "active" => k \in KeysOf(agentDeltas[nodes[i].by])
                BY DEF Chains, HeadShows, nodes
            <4>2. nodes[i].by \in Windows
                BY <2>3
            <4>3. CASE nodes[i].by = w
                BY <1>5, <1>8, <4>3
            <4>4. CASE nodes[i].by # w
                BY <1>4, <1>7, <4>1, <4>2, <4>4
            <4> QED BY <4>3, <4>4
        <3>3. Node(w, v).by = w /\ Node(w, v).value = v
            BY DEF Node
        <3> QED BY <1>5, <1>8, <2>4, <3>1, <3>2, <3>3 DEF HeadShows
    <2> QED BY <2>13, <2>14
<1> QED BY <1>9, <1>10 DEF Chains

LEMMA RetireChains ==
    ASSUME StoreTypes, StoreTypes', Chains, NEW w \in Windows, NEW how \in {"committed", "discarded"},
           Retire(w, how)
    PROVE  Chains'
<1> DEFINE fates == [fate EXCEPT ![w] = how]
           touched == KeysOf(agentDeltas[w])
           after == [k \in Keys |-> IF k \in touched THEN Resolved(k, fates)
                                    ELSE [value |-> map[k], nodes |-> chain[k]]]
<1>1. /\ fate' = fates
      /\ map' = [k \in Keys |-> after[k].value]
      /\ chain' = [k \in Keys |-> after[k].nodes]
      /\ baseline' = [k \in Keys |-> IF after[k].nodes = <<>> THEN NoValue ELSE baseline[k]]
      /\ agentDeltas' = [agentDeltas EXCEPT ![w] = <<>>]
      /\ written' = written /\ fate[w] \in {"idle", "active"}
    BY DEF Retire
<1>2. /\ fates[w] = how /\ \A u \in Windows : u # w => fates[u] = fate[u]
      /\ how # "active" /\ how # "idle"
    BY DEF StoreTypes
<1>3. /\ Len(written) \in Nat
      /\ \A i \in 1..Len(written) : written[i].by \in Windows \/ written[i].by \in Untracked
    <2>1. Len(written) \in Nat /\ \A i \in 1..Len(written) : written[i] \in WriteRecords
        BY LenProperties, ElementOfSeq DEF StoreTypes
    <2> QED BY <2>1 DEF WriteRecords
<1> SUFFICES ASSUME NEW k \in Keys PROVE Stands(k)' /\ HeadShows(k)'
    BY DEF Chains
<1> DEFINE nodes == chain[k]
<1>4. /\ nodes \in Seq(Nodes) /\ Len(nodes) \in Nat /\ (nodes # <<>> => Len(nodes) > 0)
      /\ \A i \in 1..Len(nodes) : nodes[i].by \in Windows
    BY NodesAre
<1>5. /\ map'[k] = after[k].value /\ chain'[k] = after[k].nodes
      /\ baseline'[k] = IF after[k].nodes = <<>> THEN NoValue ELSE baseline[k]
    BY <1>1
<1>6. /\ \A j \in Survivors(k)' : j \in Survivors(k) /\ j \in 1..Len(written)
      /\ \A j \in Survivors(k) : Fixed(j) => j \in Survivors(k)' /\ Fixed(j)'
      /\ \A j \in Survivors(k)' : written[j].by \in Windows => fates[written[j].by] # "discarded"
    <2>1. \A u \in Windows : /\ fate[u] = "discarded" => fates[u] = "discarded"
                             /\ fate[u] = "committed" => fates[u] = "committed"
        BY <1>1, <1>2
    <2>2. Windows \cap Untracked = {}
        BY SharedStoreAssumption
    <2>3. DOMAIN written = 1..Len(written)
        BY SurvivorsAre
    <2>4. \A j \in Survivors(k)' : j \in Survivors(k) /\ j \in 1..Len(written)
        BY <1>1, <1>3, <2>1, <2>3 DEF Survivors
    <2>5. \A j \in Survivors(k) : Fixed(j) => j \in Survivors(k)' /\ Fixed(j)'
        BY <1>1, <1>3, <2>1, <2>3 DEF Survivors, Fixed
    <2>6. \A j \in Survivors(k)' : written[j].by \in Windows => fates[written[j].by] # "discarded"
        BY <1>1, <2>2 DEF Survivors
    <2> QED BY <2>4, <2>5, <2>6
<1>7. \A u \in Windows :
          fate'[u] = "active" /\ k \in KeysOf(agentDeltas[u]) => k \in KeysOf(agentDeltas'[u])
    <2>1. \A u \in Windows : u # w => agentDeltas'[u] = agentDeltas[u]
        BY <1>1 DEF StoreTypes
    <2> QED BY <1>1, <1>2, <2>1
<1> HIDE DEF fates
\* The chain stays as it is: no node of it is the window's.
<1>8. ASSUME chain'[k] = nodes, map'[k] = map[k], nodes # <<>> => baseline'[k] = baseline[k],
             \A i \in 1..Len(nodes) : nodes[i].by # w
      PROVE  Stands(k)' /\ HeadShows(k)'
    <2>1. Ground(k)' = Ground(k)
        BY <1>8 DEF Ground
    <2>2. Stands(k)'
        BY <1>1, <1>3, <1>6, <1>8, <2>1, Kept DEF Chains
    <2>3. \A i \in 1..Len(chain[k]) : fate'[chain[k][i].by] = fate[chain[k][i].by]
        BY <1>1, <1>2, <1>4, <1>8
    <2>4. HeadShows(k)'
        BY <1>7, <1>8, <2>3, HeadKept DEF Chains
    <2> QED BY <2>2, <2>4
<1>9. CASE k \notin touched
    <2>1. after[k] = [value |-> map[k], nodes |-> chain[k]]
        BY <1>9
    <2>2. \A i \in 1..Len(nodes) : nodes[i].by # w
        BY <1>1, <1>9 DEF Chains, HeadShows
    <2> HIDE DEF after
    <2> QED BY <1>5, <1>8, <2>1, <2>2
<1>10. CASE k \in touched /\ nodes = <<>>
    <2>1. after[k] = [value |-> map[k], nodes |-> <<>>]
        BY <1>10 DEF Resolved
    <2>2. \A i \in 1..Len(nodes) : nodes[i].by # w
        BY <1>10
    <2> HIDE DEF after
    <2> QED BY <1>5, <1>8, <1>10, <2>1, <2>2
<1>11. CASE k \in touched /\ nodes # <<>>
    <2>0. after[k] = Resolved(k, fates)
        BY <1>11
    <2> HIDE DEF after, touched
    <2>1. PICK b \in 0..Len(written) : \E pos \in [1..Len(nodes) -> (b + 1)..Len(written)] :
              ChainStands(k, b, pos)
        BY DEF Chains, Stands
    <2>2. PICK pos \in [1..Len(nodes) -> (b + 1)..Len(written)] : ChainStands(k, b, pos)
        BY <2>1
    <2>3. /\ b \in Nat /\ b <= Len(written)
          /\ \A i \in 1..Len(nodes) : pos[i] \in (b + 1)..Len(written) /\ pos[i] \in 1..Len(written)
        BY <1>3, <2>1, <2>2
    <2>4. /\ \A i, j \in 1..Len(nodes) : i < j => pos[i] < pos[j]
          /\ \A i \in 1..Len(nodes) : written[pos[i]] = Write(nodes[i].by, k, nodes[i].value)
          /\ \A j \in Survivors(k) : j > b =>
                \E i \in 1..Len(nodes) : j <= pos[i] /\ nodes[i].by = written[j].by
        BY <2>2 DEF ChainStands
    <2>5. \/ Below(k, b) = {} /\ baseline[k] = NoValue
          \/ \E j \in Below(k, b) :
                IsLast(Below(k, b), j) /\ Fixed(j) /\ baseline[k] = written[j].value
        BY <1>11, <2>2 DEF ChainStands, Ground
    <2>6. \/ Below(k, b)' = {} /\ baseline[k] = NoValue
          \/ \E j \in Below(k, b)' :
                IsLast(Below(k, b)', j) /\ Fixed(j)' /\ baseline[k] = written'[j].value
        <3>1. \A j \in Below(k, b)' : j \in Below(k, b)
            BY <1>6 DEF Below
        <3>2. CASE Below(k, b) = {} /\ baseline[k] = NoValue
            BY <3>1, <3>2
        <3>3. CASE \E j \in Below(k, b) : IsLast(Below(k, b), j) /\ Fixed(j) /\ baseline[k] = written[j].value
            <4>1. PICK j \in Below(k, b) : IsLast(Below(k, b), j) /\ Fixed(j) /\ baseline[k] = written[j].value
                BY <3>3
            <4>2. j \in Below(k, b)' /\ Fixed(j)'
                BY <1>6, <4>1 DEF Below
            <4>3. IsLast(Below(k, b)', j)
                BY <3>1, <4>1, <4>2 DEF IsLast
            <4> QED BY <1>1, <4>1, <4>2, <4>3
        <3> QED BY <2>5, <3>2, <3>3
    <2>7. \A j \in Survivors(k)' : j > b =>
              \E i \in 1..Len(nodes) : /\ j <= pos[i] /\ nodes[i].by = written[j].by
                                       /\ fates[nodes[i].by] # "discarded"
        BY <1>4, <1>6, <2>4
    <2> HIDE DEF nodes
    <2>8. CASE /\ \A i \in 1..Len(nodes) : fates[nodes[i].by] = "discarded"
               /\ Resolved(k, fates) = [value |-> baseline[k], nodes |-> <<>>]
        <3>1. Below(k, b)' = Survivors(k)'
            <4>1. \A j \in Survivors(k)' : j <= b
                BY <1>3, <1>6, <2>3, <2>7, <2>8
            <4> QED BY <4>1 DEF Below
        <3>2. chain'[k] = <<>> /\ map'[k] = baseline[k]
            BY <1>5, <2>0, <2>8
        <3> QED BY <2>6, <3>1, <3>2, Cleared
    <2>9. ASSUME NEW top \in 1..Len(nodes), fates[nodes[top].by] # "discarded",
                 \A i \in 1..Len(nodes) : fates[nodes[i].by] # "discarded" => i <= top,
                 Resolved(k, fates) = [value |-> nodes[top].value,
                                       nodes |-> IF fates[nodes[top].by] = "active"
                                                 THEN SubSeq(nodes, 1, top) ELSE <<>>]
          PROVE  Stands(k)' /\ HeadShows(k)'
        <3>1. map'[k] = nodes[top].value
            BY <1>5, <2>0, <2>9
        <3>2. \A j \in Survivors(k)' : j > b =>
                  \E i \in 1..top : j <= pos[i] /\ nodes[i].by = written[j].by
            BY <1>4, <2>7, <2>9
        <3>3. \A i \in 1..top : i \in 1..Len(nodes) /\ pos[i] <= pos[top]
            <4> SUFFICES ASSUME NEW i \in 1..top PROVE i \in 1..Len(nodes) /\ pos[i] <= pos[top]
                OBVIOUS
            <4>1. i \in 1..Len(nodes) /\ (i < top \/ i = top)
                BY <1>4
            <4> QED BY <2>3, <2>4, <4>1
        <3>4. CASE fates[nodes[top].by] = "active"
            <4>1. chain'[k] = SubSeq(nodes, 1, top)
                BY <1>5, <2>0, <2>9, <3>4
            <4>2. /\ Len(chain'[k]) = top /\ chain'[k] # <<>>
                  /\ \A i \in 1..top : chain'[k][i] = nodes[i]
                <5>1. \A i \in 1..top : nodes[i] \in Nodes
                    BY <1>4, <3>3, ElementOfSeq
                <5>2. Len(SubSeq(nodes, 1, top)) = top /\ \A i \in 1..top : SubSeq(nodes, 1, top)[i] = nodes[i]
                    BY <1>4, <5>1, SubSeqProperties
                <5>3. chain'[k] # <<>>
                    BY <1>4, <4>1, <5>2
                <5> QED BY <4>1, <5>2, <5>3
            <4>3. PICK place : place = [i \in 1..top |-> pos[i]]
                OBVIOUS
            <4>4. place \in [1..top -> (b + 1)..Len(written')] /\ b \in 0..Len(written')
                BY <1>1, <1>3, <2>3, <3>3, <4>3
            <4>5. Ground(k)' = baseline[k]
                BY <1>5, <4>2 DEF Ground
            <4>6. ChainStands(k, b, place)'
                <5>1. \A i, j \in 1..Len(chain'[k]) : i < j => place[i] < place[j]
                    BY <2>4, <3>3, <4>2, <4>3
                <5>2. \A i \in 1..Len(chain'[k]) :
                          written'[place[i]] = Write(chain'[k][i].by, k, chain'[k][i].value)
                    BY <1>1, <2>4, <3>3, <4>2, <4>3
                <5>3. \A j \in Survivors(k)' : j > b =>
                          \E i \in 1..Len(chain'[k]) : j <= place[i] /\ chain'[k][i].by = written'[j].by
                    <6> SUFFICES ASSUME NEW j \in Survivors(k)', j > b
                                 PROVE  \E i \in 1..Len(chain'[k]) :
                                            j <= place[i] /\ chain'[k][i].by = written'[j].by
                        OBVIOUS
                    <6>1. PICK i \in 1..top : j <= pos[i] /\ nodes[i].by = written[j].by
                        BY <3>2
                    <6>2. place[i] = pos[i] /\ chain'[k][i] = nodes[i] /\ i \in 1..Len(chain'[k])
                        BY <4>2, <4>3
                    <6> QED BY <1>1, <6>1, <6>2
                <5>4. \/ Below(k, b)' = {} /\ Ground(k)' = NoValue
                      \/ \E j \in Below(k, b)' :
                            IsLast(Below(k, b)', j) /\ Fixed(j)' /\ Ground(k)' = written'[j].value
                    BY <2>6, <4>5
                <5> QED BY <5>1, <5>2, <5>3, <5>4 DEF ChainStands
            <4>7. Stands(k)'
                BY <4>2, <4>4, <4>6 DEF Stands
            <4>8. HeadShows(k)'
                <5>1. \A i \in 1..top : /\ fate'[nodes[i].by] \in {"active", "committed", "discarded"}
                                        /\ fate'[nodes[i].by] = "active" =>
                                               k \in KeysOf(agentDeltas'[nodes[i].by])
                    <6> SUFFICES ASSUME NEW i \in 1..top
                                 PROVE  /\ fate'[nodes[i].by] \in {"active", "committed", "discarded"}
                                        /\ fate'[nodes[i].by] = "active" =>
                                               k \in KeysOf(agentDeltas'[nodes[i].by])
                        OBVIOUS
                    <6>1. /\ nodes[i].by \in Windows
                          /\ fate[nodes[i].by] \in {"active", "committed", "discarded"}
                          /\ fate[nodes[i].by] = "active" => k \in KeysOf(agentDeltas[nodes[i].by])
                        BY <1>4, <3>3 DEF Chains, HeadShows, nodes
                    <6> QED BY <1>1, <1>2, <1>7, <6>1
                <5>2. top \in 1..top
                    BY <1>4
                <5> QED BY <1>1, <3>1, <3>4, <4>2, <5>1, <5>2 DEF HeadShows
            <4> QED BY <4>7, <4>8
        <3>5. CASE fates[nodes[top].by] # "active"
            <4>1. chain'[k] = <<>>
                BY <1>5, <2>0, <2>9, <3>5
            <4>2. PICK j : j = pos[top]
                OBVIOUS
            <4>3. j \in 1..Len(written) /\ j > b /\ written[j] = Write(nodes[top].by, k, nodes[top].value)
                BY <2>3, <2>4, <4>2
            <4>4. written[j].by = nodes[top].by /\ written[j].key = k /\ written[j].value = nodes[top].value
                BY <4>3 DEF Write
            <4>5. fates[nodes[top].by] = "committed"
                BY <1>2, <1>4, <2>9, <3>5 DEF Chains, HeadShows, nodes
            <4>6. j \in Survivors(k)' /\ Fixed(j)'
                BY <1>1, <4>3, <4>4, <4>5, SurvivorsAre DEF Survivors, Fixed
            <4>7. \A i \in Survivors(k)' : i <= j
                <5> SUFFICES ASSUME NEW i \in Survivors(k)' PROVE i <= j
                    OBVIOUS
                <5>1. i \in 1..Len(written)
                    BY <1>6
                <5>2. CASE i <= b
                    BY <1>3, <2>3, <4>3, <5>1, <5>2
                <5>3. CASE i > b
                    <6>1. PICK m \in 1..top : i <= pos[m]
                        BY <3>2, <5>3
                    <6> QED BY <1>3, <2>3, <3>3, <4>2, <5>1, <6>1
                <5> QED BY <1>3, <2>3, <5>1, <5>2, <5>3
            <4>8. IsLast(Survivors(k)', j) /\ map'[k] = written'[j].value
                BY <1>1, <3>1, <4>4, <4>6, <4>7 DEF IsLast
            <4> QED BY <4>1, <4>6, <4>8, Cleared
        <3> QED BY <3>4, <3>5
    <2>10. \/ /\ \A i \in 1..Len(nodes) : fates[nodes[i].by] = "discarded"
              /\ Resolved(k, fates) = [value |-> baseline[k], nodes |-> <<>>]
           \/ \E top \in 1..Len(nodes) :
                 /\ fates[nodes[top].by] # "discarded"
                 /\ \A i \in 1..Len(nodes) : fates[nodes[i].by] # "discarded" => i <= top
                 /\ Resolved(k, fates) = [value |-> nodes[top].value,
                                          nodes |-> IF fates[nodes[top].by] = "active"
                                                    THEN SubSeq(nodes, 1, top) ELSE <<>>]
        BY <1>11, ResolvedIs DEF nodes
    <2> QED BY <2>8, <2>9, <2>10
<1> QED BY <1>9, <1>10, <1>11

\* The log with a replayed delta behind it.
LEMMA ReplayedLog ==
    ASSUME StoreTypes, StoreTypes', NEW done \in Seq(Entries), written' = written \o Replayed(done)
    PROVE  LET n == Len(written)
           IN  /\ n \in Nat /\ DOMAIN written = 1..n /\ DOMAIN written' = 1..(n + Len(done))
               /\ Len(written') = n + Len(done)
               /\ \A i \in 1..n : written'[i] = written[i]
               /\ \A i \in 1..Len(done) :
                     /\ written'[n + i].by = "replay" /\ written'[n + i].key = done[i].key
                     /\ written'[n + i].value = done[i].value
<1> DEFINE n == Len(written)
<1>0. Len(done) \in Nat
    BY LenProperties
<1>1. /\ Replayed(done) \in Seq(WriteRecords) /\ Len(Replayed(done)) = Len(done)
      /\ \A i \in 1..Len(done) :
            Replayed(done)[i] = Write("replay", done[i].key, done[i].value)
    BY ReplayedIs
<1>2. written \in Seq(WriteRecords) /\ written' \in Seq(WriteRecords) /\ n \in Nat
    BY LenProperties DEF StoreTypes
<1>3. /\ Len(written') = n + Len(done)
      /\ \A i \in 1..(n + Len(done)) :
            written'[i] = IF i <= n THEN written[i] ELSE Replayed(done)[i - n]
    <2>1. PICK rep \in Seq(WriteRecords) : rep = Replayed(done)
        BY <1>1
    <2>2. /\ Len(written \o rep) = n + Len(rep)
          /\ \A i \in 1..(n + Len(rep)) :
                (written \o rep)[i] = IF i <= n THEN written[i] ELSE rep[i - n]
        BY <1>2, <2>1, ConcatProperties
    <2> QED BY <1>1, <2>1, <2>2
<1>4. \A i \in 1..Len(done) : written'[n + i] = Replayed(done)[i]
    <2> SUFFICES ASSUME NEW i \in 1..Len(done) PROVE written'[n + i] = Replayed(done)[i]
        OBVIOUS
    <2>1. n + i \in 1..(n + Len(done)) /\ ~(n + i <= n) /\ (n + i) - n = i
        BY <1>1, <1>2
    <2> QED BY <1>3, <2>1
<1>5. \A i \in 1..n : written'[i] = written[i]
    BY <1>1, <1>2, <1>3
<1>6. DOMAIN written = 1..n /\ DOMAIN written' = 1..(n + Len(done))
    BY <1>2, <1>3, LenProperties
<1>7. \A k, v : /\ Write("replay", k, v).by = "replay" /\ Write("replay", k, v).key = k
                /\ Write("replay", k, v).value = v
    BY DEF Write
<1> HIDE DEF n
<1>8. \A i \in 1..Len(done) : /\ written'[n + i].by = "replay" /\ written'[n + i].key = done[i].key
                               /\ written'[n + i].value = done[i].value
    <2> SUFFICES ASSUME NEW i \in 1..Len(done)
                 PROVE  /\ written'[n + i].by = "replay" /\ written'[n + i].key = done[i].key
                        /\ written'[n + i].value = done[i].value
        OBVIOUS
    <2>1. written'[n + i] = Replayed(done)[i]
        BY <1>4
    <2>2. Replayed(done)[i] = Write("replay", done[i].key, done[i].value)
        BY <1>1
    <2> QED BY <2>1, <2>2, <1>7
<1>9. n \in Nat /\ Len(written') = n + Len(done)
    BY <1>2, <1>3
<1> QED BY <1>5, <1>6, <1>8, <1>9 DEF n

LEMMA ReplayChains ==
    ASSUME StoreTypes, StoreTypes', Chains, NEW delta \in Deltas, ApplyDelta(delta)
    PROVE  Chains'
<1> DEFINE r == Applied(map, delta)
           n == Len(written)
<1>1. /\ AppliedTo(map, r) /\ r.done \in Seq(Entries) /\ Len(r.done) \in Nat
    BY DeltasAreEntries, AppliedIs, LenProperties DEF StoreTypes, AppliedTo
<1>2. /\ map' = r.map /\ written' = written \o Replayed(r.done)
      /\ chain' = [k \in Keys |-> IF k \in KeysOf(r.done) THEN <<>> ELSE chain[k]]
      /\ baseline' = [k \in Keys |-> IF k \in KeysOf(r.done) THEN NoValue ELSE baseline[k]]
      /\ agentDeltas' = agentDeltas /\ fate' = fate
    BY DEF ApplyDelta
<1> HIDE DEF r
<1>3. /\ n \in Nat /\ DOMAIN written = 1..n /\ DOMAIN written' = 1..(n + Len(r.done))
      /\ Len(written') = n + Len(r.done)
      /\ \A i \in 1..n : written'[i] = written[i]
      /\ \A i \in 1..Len(r.done) :
            /\ written'[n + i].by = "replay" /\ written'[n + i].key = r.done[i].key
            /\ written'[n + i].value = r.done[i].value
    BY <1>1, <1>2, ReplayedLog
<1> HIDE DEF n
<1> SUFFICES ASSUME NEW k \in Keys PROVE Stands(k)' /\ HeadShows(k)'
    BY DEF Chains
<1>4. DOMAIN r.done = 1..Len(r.done)
    BY <1>1, LenProperties
<1>5. CASE k \in KeysOf(r.done)
    <2>1. IndexesOf(r.done, k) # {} /\ IndexesOf(r.done, k) \subseteq 1..Len(r.done)
        BY <1>4, <1>5 DEF KeysOf, IndexesOf
    <2>2. PICK i \in 1..Len(r.done) : IsLast(IndexesOf(r.done, k), i)
        BY <1>1, <2>1, LastExists
    <2>3. r.done[i].key = k /\ map'[k] = r.done[i].value
        BY <1>1, <1>2, <2>2 DEF AppliedTo, IsLast, IndexesOf
    <2>4. PICK j : j = n + i
        OBVIOUS
    <2>5. j \in Survivors(k)' /\ Fixed(j)'
        BY <1>1, <1>3, <2>3, <2>4 DEF Survivors, Fixed, Untracked
    <2>6. ASSUME NEW m \in Survivors(k)' PROVE m <= j
        <3>1. m \in 1..(n + Len(r.done)) /\ written'[m].key = k
            BY <1>3 DEF Survivors
        <3>2. CASE m <= n
            BY <1>1, <1>3, <2>4, <3>1, <3>2
        <3>3. CASE ~(m <= n)
            <4>1. m - n \in 1..Len(r.done) /\ n + (m - n) = m
                BY <1>1, <1>3, <3>1, <3>3
            <4>2. m - n \in IndexesOf(r.done, k)
                BY <1>3, <3>1, <4>1 DEF IndexesOf
            <4>3. m - n <= i
                BY <2>2, <4>2 DEF IsLast
            <4> QED BY <1>1, <1>3, <2>4, <3>1, <4>3
        <3> QED BY <3>2, <3>3
    <2>7. IsLast(Survivors(k)', j) /\ map'[k] = written'[j].value
        BY <1>3, <2>3, <2>4, <2>5, <2>6 DEF IsLast
    <2>8. chain'[k] = <<>>
        BY <1>2, <1>5
    <2> QED BY <2>5, <2>7, <2>8, Cleared
<1>6. CASE k \notin KeysOf(r.done)
    <2>1. IndexesOf(r.done, k) = {} /\ \A i \in 1..Len(r.done) : r.done[i].key # k
        BY <1>4, <1>6 DEF KeysOf, IndexesOf
    <2>2. map'[k] = map[k] /\ chain'[k] = chain[k] /\ baseline'[k] = baseline[k]
        BY <1>1, <1>2, <1>6, <2>1 DEF AppliedTo
    <2>3. Ground(k)' = Ground(k)
        BY <2>2 DEF Ground
    <2>4. Survivors(k)' = Survivors(k) /\ \A j \in Survivors(k) : Fixed(j) => Fixed(j)'
        <3>1. \A i \in 1..(n + Len(r.done)) : i \in 1..n \/ written'[i].key # k
            <4> SUFFICES ASSUME NEW i \in 1..(n + Len(r.done)), i > n PROVE written'[i].key # k
                BY <1>1, <1>3
            <4> DEFINE m == i - n
            <4>1. m \in 1..Len(r.done) /\ n + m = i
                BY <1>1, <1>3
            <4> HIDE DEF m
            <4>2. written'[n + m].key = r.done[m].key
                BY <1>3, <4>1
            <4>3. r.done[m].key # k
                BY <2>1, <4>1
            <4> QED BY <4>1, <4>2, <4>3
        <3>2. \A i \in 1..n : i \in 1..(n + Len(r.done))
            BY <1>1, <1>3
        <3>3. Survivors(k)' = Survivors(k)
            BY <1>2, <1>3, <3>1, <3>2 DEF Survivors
        <3> QED BY <1>2, <1>3, <3>3 DEF Survivors, Fixed
    <2>5. n <= Len(written')
        BY <1>1, <1>3
    <2>6. Stands(k)'
        BY <1>3, <2>2, <2>3, <2>4, <2>5, Kept DEF Chains, n
    <2>7. HeadShows(k)'
        BY <1>2, <2>2, HeadKept DEF Chains
    <2> QED BY <2>6, <2>7
<1> QED BY <1>5, <1>6

LEMMA RestoreChains ==
    ASSUME StoreTypes', NEW snapshot \in Snapshots, Restore(snapshot)
    PROVE  Chains'
<1> DEFINE r == Applied(EmptyContent, snapshot)
<1>1. /\ AppliedTo(EmptyContent, r) /\ r.done \in Seq(Entries) /\ Len(r.done) \in Nat
    <2>1. EmptyContent \in Contents /\ snapshot \in Seq(Entries)
        BY SharedStoreAssumption DEF EmptyContent, Contents, Entries
    <2> QED BY <2>1, AppliedIs, LenProperties DEF AppliedTo
<1>2. /\ map' = r.map /\ written' = Replayed(r.done) /\ chain' = [k \in Keys |-> <<>>]
    BY DEF Restore
<1> HIDE DEF r
<1>3. /\ DOMAIN written' = 1..Len(r.done)
      /\ \A i \in 1..Len(r.done) :
            /\ written'[i].by = "replay" /\ written'[i].key = r.done[i].key
            /\ written'[i].value = r.done[i].value
    <2>1. /\ Replayed(r.done) \in Seq(WriteRecords) /\ Len(Replayed(r.done)) = Len(r.done)
          /\ \A i \in 1..Len(r.done) :
                Replayed(r.done)[i] = Write("replay", r.done[i].key, r.done[i].value)
        BY <1>1, ReplayedIs
    <2>2. \A k, v : /\ Write("replay", k, v).by = "replay" /\ Write("replay", k, v).key = k
                    /\ Write("replay", k, v).value = v
        BY DEF Write
    <2>3. DOMAIN written' = 1..Len(r.done)
        BY <1>2, <2>1, LenProperties
    <2> QED BY <1>2, <2>1, <2>2, <2>3
<1> SUFFICES ASSUME NEW k \in Keys PROVE Stands(k)' /\ HeadShows(k)'
    BY DEF Chains
<1>4. Survivors(k)' = IndexesOf(r.done, k)
    BY <1>3 DEF Survivors, IndexesOf, Untracked
<1>5. chain'[k] = <<>>
    BY <1>2
<1>6. CASE IndexesOf(r.done, k) = {}
    <2>1. map'[k] = NoValue
        BY <1>1, <1>2, <1>6 DEF AppliedTo, EmptyContent
    <2> QED BY <1>4, <1>5, <1>6, <2>1, Cleared
<1>7. CASE IndexesOf(r.done, k) # {}
    <2>1. PICK j \in 1..Len(r.done) : IsLast(IndexesOf(r.done, k), j)
        <3>1. IndexesOf(r.done, k) \subseteq 1..Len(r.done)
            BY DEF IndexesOf
        <3> QED BY <1>1, <1>7, <3>1, LastExists
    <2>2. map'[k] = written'[j].value /\ Fixed(j)'
        BY <1>1, <1>2, <1>3, <2>1 DEF AppliedTo, Fixed, Untracked
    <2>3. j \in Survivors(k)' /\ IsLast(Survivors(k)', j)
        BY <1>4, <2>1 DEF IsLast
    <2> QED BY <1>5, <2>2, <2>3, Cleared
<1> QED BY <1>6, <1>7

----------------------------------------------------------------------------
(* Deltas of windows. *)

\* Writes that are neither the window's nor a put() on the key say nothing new.
LEMMA OwnLastKept ==
    ASSUME NEW w, NEW k, NEW n \in Nat, NEW m \in Nat,
           DOMAIN written = 1..n, DOMAIN written' = 1..(n + m),
           \A i \in 1..n : written'[i] = written[i],
           \A i \in 1..(n + m) : i > n /\ written'[i].key = k =>
               written'[i].by # w /\ written'[i].by # "put"
    PROVE  \A j : OwnLast(w, k, j)' <=> OwnLast(w, k, j)
<1>1. \A i \in 1..n : i \in 1..(n + m)
    OBVIOUS
<1>2. \A i \in 1..(n + m) : i \in 1..n \/ i > n
    OBVIOUS
<1> SUFFICES ASSUME NEW j PROVE OwnLast(w, k, j)' <=> OwnLast(w, k, j)
    OBVIOUS
<1>3. ASSUME OwnLast(w, k, j) PROVE OwnLast(w, k, j)'
    BY <1>1, <1>2, <1>3 DEF OwnLast
<1>4. ASSUME OwnLast(w, k, j)' PROVE OwnLast(w, k, j)
    BY <1>1, <1>2, <1>4 DEF OwnLast
<1> QED BY <1>3, <1>4

\* A window that is left alone.
LEMMA DeltaKept ==
    ASSUME NEW w \in Windows, DeltaStands(w), agentDeltas'[w] = agentDeltas[w],
           fate'[w] = "active" => fate[w] = "active",
           \A j \in DOMAIN written : j \in DOMAIN written' /\ written'[j] = written[j],
           \A k, j : OwnLast(w, k, j)' <=> OwnLast(w, k, j)
    PROVE  DeltaStands(w)'
<1>1. \A e \in ToSet(agentDeltas'[w]) :
          \E j \in DOMAIN written' : OwnLast(w, e.key, j)' /\ e.value = written'[j].value
    BY DEF DeltaStands
<1>2. \A k \in Keys, j \in DOMAIN written' :
          OwnLast(w, k, j)' /\ fate'[w] = "active" => k \in KeysOf(agentDeltas'[w])
    <2>1. \A k, j : OwnLast(w, k, j) => j \in DOMAIN written
        BY DEF OwnLast
    <2> QED BY <2>1 DEF DeltaStands
<1> QED BY <1>1, <1>2 DEF DeltaStands

\* A window without a delta.
LEMMA DeltaEmpty ==
    ASSUME NEW w \in Windows, agentDeltas'[w] = <<>>,
           \/ fate'[w] # "active"
           \/ \A i \in DOMAIN written' : written'[i].by # w
    PROVE  DeltaStands(w)'
<1>1. Unique(<<>>) /\ ToSet(<<>>) = {}
    BY DEF Unique, ToSet
<1>2. \A k \in Keys, j \in DOMAIN written' : OwnLast(w, k, j)' => written'[j].by = w
    BY DEF OwnLast
<1> QED BY <1>1, <1>2 DEF DeltaStands

LEMMA PutWindowed ==
    ASSUME StoreTypes, Windowed, NEW k \in Keys, NEW v \in Values, Put(k, v)
    PROVE  Windowed'
<1> DEFINE n == Len(written)
           e == Write("put", k, v)
<1>1. /\ written' = Append(written, e) /\ fate' = fate
      /\ agentDeltas' = [w \in Windows |-> WithoutKey(agentDeltas[w], k)]
    BY DEF Put
<1>2. e \in WriteRecords /\ e.key = k /\ e.by = "put" /\ "put" \notin Windows
    BY SharedStoreAssumption DEF Write, WriteRecords, Untracked
<1> HIDE DEF e
<1>3. /\ n \in Nat /\ DOMAIN written = 1..n /\ DOMAIN written' = 1..(n + 1)
      /\ \A i \in 1..n : written'[i] = written[i]
      /\ written'[n + 1] = e
    BY <1>1, <1>2, AppendedIs
<1> HIDE DEF n
<1>4. \A i \in 1..(n + 1) : i \in 1..n \/ i = n + 1
    BY <1>3
<1>5. ASSUME NEW w \in Windows PROVE DeltaStands(w)'
    <2>1. DeltaStands(w)
        BY DEF Windowed
    <2>2. /\ Unique(agentDeltas'[w])
          /\ ToSet(agentDeltas'[w]) = {f \in ToSet(agentDeltas[w]) : f.key # k}
        BY <1>1, <2>1, WithoutKeyIs DEF StoreTypes, DeltaStands
    <2>3. ASSUME NEW m, m # k PROVE \A j : OwnLast(w, m, j)' <=> OwnLast(w, m, j)
        <3>1. \A i \in 1..(n + 1) : i > n /\ written'[i].key = m =>
                  written'[i].by # w /\ written'[i].by # "put"
            BY <1>2, <1>3, <1>4, <2>3
        <3> QED BY <1>3, <3>1, OwnLastKept
    <2>4. \A j \in DOMAIN written' : ~OwnLast(w, k, j)'
        <3> SUFFICES ASSUME NEW j \in DOMAIN written', OwnLast(w, k, j)' PROVE FALSE
            OBVIOUS
        <3>1. n + 1 \in DOMAIN written' /\ written'[n + 1].by = "put" /\ written'[n + 1].key = k
            BY <1>2, <1>3
        <3>2. n + 1 < j
            BY <3>1 DEF OwnLast
        <3> QED BY <1>3, <3>2
    <2>5. \A f \in ToSet(agentDeltas'[w]) :
              \E j \in DOMAIN written' : OwnLast(w, f.key, j)' /\ f.value = written'[j].value
        <3> SUFFICES ASSUME NEW f \in ToSet(agentDeltas'[w])
                     PROVE  \E j \in DOMAIN written' : OwnLast(w, f.key, j)' /\ f.value = written'[j].value
            OBVIOUS
        <3>1. f \in ToSet(agentDeltas[w]) /\ f.key # k
            BY <2>2
        <3>2. PICK j \in DOMAIN written : OwnLast(w, f.key, j) /\ f.value = written[j].value
            BY <2>1, <3>1 DEF DeltaStands
        <3>3. j \in DOMAIN written' /\ written'[j] = written[j]
            BY <1>3
        <3> QED BY <2>3, <3>1, <3>2, <3>3
    <2>6. \A m \in Keys, j \in DOMAIN written' :
              OwnLast(w, m, j)' /\ fate'[w] = "active" => m \in KeysOf(agentDeltas'[w])
        <3> SUFFICES ASSUME NEW m \in Keys, NEW j \in DOMAIN written', OwnLast(w, m, j)', fate'[w] = "active"
                     PROVE  m \in KeysOf(agentDeltas'[w])
            OBVIOUS
        <3>1. m # k /\ OwnLast(w, m, j)
            BY <2>3, <2>4
        <3>2. j \in DOMAIN written
            BY <3>1 DEF OwnLast
        <3>3. m \in KeysOf(agentDeltas[w])
            BY <1>1, <2>1, <3>1, <3>2 DEF DeltaStands
        <3> QED BY <2>2, <3>1, <3>3, KeysAre
    <2> QED BY <2>2, <2>5, <2>6 DEF DeltaStands
<1>6. \A i \in DOMAIN written' : written'[i].by \in Windows =>
          fate'[written'[i].by] \in {"active", "committed", "discarded"}
    BY <1>1, <1>2, <1>3, <1>4 DEF Windowed
<1> QED BY <1>5, <1>6 DEF Windowed

LEMMA TrackWindowed ==
    ASSUME StoreTypes, Windowed, NEW w \in Windows, NEW k \in Keys, NEW v \in Values,
           TrackPut(w, k, v)
    PROVE  Windowed'
<1> DEFINE n == Len(written)
           e == Write(w, k, v)
<1>1. /\ written' = Append(written, e) /\ fate' = [fate EXCEPT ![w] = "active"]
      /\ agentDeltas' = [agentDeltas EXCEPT ![w] = WithEntry(@, k, v)]
      /\ fate[w] \in {"idle", "active"}
    BY DEF TrackPut
<1>2. e \in WriteRecords /\ e.key = k /\ e.by = w /\ e.value = v /\ w # "put"
    BY SharedStoreAssumption DEF Write, WriteRecords, Untracked
<1> HIDE DEF e
<1>3. /\ n \in Nat /\ DOMAIN written = 1..n /\ DOMAIN written' = 1..(n + 1)
      /\ \A i \in 1..n : written'[i] = written[i]
      /\ written'[n + 1] = e
    BY <1>1, <1>2, AppendedIs
<1> HIDE DEF n
<1>4. \A i \in 1..(n + 1) : i \in 1..n \/ i = n + 1
    BY <1>3
<1>5. \A u \in Windows : u # w => fate'[u] = fate[u] /\ agentDeltas'[u] = agentDeltas[u]
    BY <1>1 DEF StoreTypes
<1>6. ASSUME NEW u, NEW m, u # w \/ m # k
      PROVE  \A j : OwnLast(u, m, j)' <=> OwnLast(u, m, j)
    <2>1. \A i \in 1..(n + 1) : i > n /\ written'[i].key = m =>
              written'[i].by # u /\ written'[i].by # "put"
        BY <1>2, <1>3, <1>4, <1>6
    <2> QED BY <1>3, <2>1, OwnLastKept
<1>7. ASSUME NEW u \in Windows, u # w PROVE DeltaStands(u)'
    <2>1. \A m, j : OwnLast(u, m, j)' <=> OwnLast(u, m, j)
        BY <1>6, <1>7
    <2>2. \A j \in DOMAIN written : j \in DOMAIN written' /\ written'[j] = written[j]
        BY <1>3
    <2> QED BY <1>5, <1>7, <2>1, <2>2, DeltaKept DEF Windowed
<1>8. DeltaStands(w)'
    <2>1. DeltaStands(w)
        BY DEF Windowed
    <2>2. /\ Unique(agentDeltas'[w])
          /\ ToSet(agentDeltas'[w]) = {f \in ToSet(agentDeltas[w]) : f.key # k} \union {Entry(k, v)}
        BY <1>1, <2>1, WithEntryIs DEF StoreTypes, DeltaStands
    <2>0. PICK last : last = n + 1
        OBVIOUS
    <2>3. OwnLast(w, k, last)' /\ last \in DOMAIN written' /\ written'[last] = e
        <3>1. last \in 1..(n + 1) /\ \A i \in 1..(n + 1) : i <= last
            BY <1>3, <2>0
        <3>2. \A i \in 1..(n + 1) : written'[i].by = "put" /\ written'[i].key = k => i < last
            BY <1>2, <1>3, <1>4, <2>0
        <3> QED BY <1>2, <1>3, <2>0, <3>1, <3>2 DEF OwnLast
    <2>4. \A f \in ToSet(agentDeltas'[w]) :
              \E j \in DOMAIN written' : OwnLast(w, f.key, j)' /\ f.value = written'[j].value
        <3> SUFFICES ASSUME NEW f \in ToSet(agentDeltas'[w])
                     PROVE  \E j \in DOMAIN written' : OwnLast(w, f.key, j)' /\ f.value = written'[j].value
            OBVIOUS
        <3>1. CASE f = Entry(k, v)
            <4>1. f.key = k /\ f.value = written'[last].value
                BY <1>2, <2>3, <3>1 DEF Entry
            <4> QED BY <2>3, <4>1
        <3>2. CASE f \in ToSet(agentDeltas[w]) /\ f.key # k
            <4>1. PICK j \in DOMAIN written : OwnLast(w, f.key, j) /\ f.value = written[j].value
                BY <2>1, <3>2 DEF DeltaStands
            <4>2. j \in DOMAIN written' /\ written'[j] = written[j]
                BY <1>3
            <4> QED BY <1>6, <3>2, <4>1, <4>2
        <3> QED BY <2>2, <3>1, <3>2
    <2>5. \A m \in Keys, j \in DOMAIN written' :
              OwnLast(w, m, j)' /\ fate'[w] = "active" => m \in KeysOf(agentDeltas'[w])
        <3> SUFFICES ASSUME NEW m \in Keys, NEW j \in DOMAIN written', OwnLast(w, m, j)'
                     PROVE  m \in KeysOf(agentDeltas'[w])
            OBVIOUS
        <3>1. CASE m = k
            <4>1. Entry(k, v).key = k
                BY DEF Entry
            <4> QED BY <2>2, <3>1, <4>1, KeysAre
        <3>2. CASE m # k
            <4>1. OwnLast(w, m, j)
                BY <1>6, <3>2
            <4>2. j \in DOMAIN written /\ written[j].by = w
                BY <4>1 DEF OwnLast
            <4>3. fate[w] = "active"
                BY <1>1, <4>2 DEF Windowed
            <4>4. m \in KeysOf(agentDeltas[w])
                BY <2>1, <4>1, <4>2, <4>3 DEF DeltaStands
            <4> QED BY <2>2, <3>2, <4>4, KeysAre
        <3> QED BY <3>1, <3>2
    <2> QED BY <2>2, <2>4, <2>5 DEF DeltaStands
<1>9. \A i \in DOMAIN written' : written'[i].by \in Windows =>
          fate'[written'[i].by] \in {"active", "committed", "discarded"}
    <2>1. fate'[w] = "active"
        BY <1>1 DEF StoreTypes
    <2> QED BY <1>2, <1>3, <1>4, <1>5, <2>1 DEF Windowed
<1> QED BY <1>7, <1>8, <1>9 DEF Windowed

LEMMA RetireWindowed ==
    ASSUME StoreTypes, Windowed, NEW w \in Windows, NEW how \in {"committed", "discarded"},
           Retire(w, how)
    PROVE  Windowed'
<1>1. /\ fate' = [fate EXCEPT ![w] = how] /\ written' = written
      /\ agentDeltas' = [agentDeltas EXCEPT ![w] = <<>>]
    BY DEF Retire
<1>2. /\ fate'[w] = how /\ agentDeltas'[w] = <<>>
      /\ \A u \in Windows : u # w => fate'[u] = fate[u] /\ agentDeltas'[u] = agentDeltas[u]
    BY <1>1 DEF StoreTypes
<1>3. DeltaStands(w)'
    BY <1>2, DeltaEmpty
<1>4. ASSUME NEW u \in Windows, u # w PROVE DeltaStands(u)'
    <2>1. \A m, j : OwnLast(u, m, j)' <=> OwnLast(u, m, j)
        BY <1>1 DEF OwnLast
    <2> QED BY <1>1, <1>2, <1>4, <2>1, DeltaKept DEF Windowed
<1>5. \A i \in DOMAIN written' : written'[i].by \in Windows =>
          fate'[written'[i].by] \in {"active", "committed", "discarded"}
    BY <1>1, <1>2 DEF Windowed
<1> QED BY <1>3, <1>4, <1>5 DEF Windowed

LEMMA ReplayWindowed ==
    ASSUME StoreTypes, StoreTypes', Windowed, NEW delta \in Deltas, ApplyDelta(delta)
    PROVE  Windowed'
<1> DEFINE r == Applied(map, delta)
           n == Len(written)
<1>1. r.done \in Seq(Entries) /\ Len(r.done) \in Nat
    BY DeltasAreEntries, AppliedIs, LenProperties DEF StoreTypes, AppliedTo
<1>2. written' = written \o Replayed(r.done) /\ agentDeltas' = agentDeltas /\ fate' = fate
    BY DEF ApplyDelta
<1> HIDE DEF r
<1>3. /\ n \in Nat /\ DOMAIN written = 1..n /\ DOMAIN written' = 1..(n + Len(r.done))
      /\ \A i \in 1..n : written'[i] = written[i]
      /\ \A i \in 1..Len(r.done) : written'[n + i].by = "replay"
    BY <1>1, <1>2, ReplayedLog
<1> HIDE DEF n
<1>4. \A i \in 1..(n + Len(r.done)) : i > n => written'[i].by = "replay"
    <2> SUFFICES ASSUME NEW i \in 1..(n + Len(r.done)), i > n PROVE written'[i].by = "replay"
        OBVIOUS
    <2>1. i - n \in 1..Len(r.done) /\ n + (i - n) = i
        BY <1>1, <1>3
    <2> QED BY <1>3, <2>1
<1>5. \A w \in Windows : w # "replay"
    BY SharedStoreAssumption DEF Untracked
<1>6. \A i \in 1..(n + Len(r.done)) : i \in 1..n \/ i > n
    BY <1>1, <1>3
<1>7. ASSUME NEW w \in Windows PROVE DeltaStands(w)'
    <2>1. \A k, j : OwnLast(w, k, j)' <=> OwnLast(w, k, j)
        BY <1>1, <1>3, <1>4, <1>5, OwnLastKept
    <2>2. \A j \in DOMAIN written : j \in DOMAIN written' /\ written'[j] = written[j]
        BY <1>1, <1>3
    <2> QED BY <1>2, <2>1, <2>2, DeltaKept DEF Windowed
<1>8. \A i \in DOMAIN written' : written'[i].by \in Windows =>
          fate'[written'[i].by] \in {"active", "committed", "discarded"}
    BY <1>2, <1>3, <1>4, <1>5, <1>6 DEF Windowed
<1> QED BY <1>7, <1>8 DEF Windowed

LEMMA RestoreWindowed ==
    ASSUME NEW snapshot \in Snapshots, Restore(snapshot)
    PROVE  Windowed'
<1> DEFINE r == Applied(EmptyContent, snapshot)
<1>1. r.done \in Seq(Entries)
    <2>1. EmptyContent \in Contents /\ snapshot \in Seq(Entries)
        BY SharedStoreAssumption DEF EmptyContent, Contents, Entries
    <2> QED BY <2>1, AppliedIs DEF AppliedTo
<1>2. written' = Replayed(r.done) /\ agentDeltas' = [w \in Windows |-> <<>>]
    BY DEF Restore
<1> HIDE DEF r
<1>3. \A i \in DOMAIN written' : written'[i].by = "replay"
    <2>1. Replayed(r.done) \in Seq(WriteRecords) /\ Len(Replayed(r.done)) = Len(r.done)
        BY <1>1, ReplayedIs
    <2>2. DOMAIN Replayed(r.done) = 1..Len(r.done)
        BY <2>1, LenProperties
    <2>3. \A k, v : Write("replay", k, v).by = "replay"
        BY DEF Write
    <2> QED BY <1>1, <1>2, <2>2, <2>3, ReplayedIs
<1>4. \A w \in Windows : w # "replay"
    BY SharedStoreAssumption DEF Untracked
<1>5. \A w \in Windows : DeltaStands(w)'
    BY <1>2, <1>3, <1>4, DeltaEmpty
<1> QED BY <1>3, <1>4, <1>5 DEF Windowed

----------------------------------------------------------------------------
(* The theorems. *)

\* However the windows of a store overlap and end: a version chain stands for the writes
\* that may still come to show or be taken back, on a ground that is final, and the delta
\* of a window is made of its own last writes (trackPut, commitDelta, discardDelta,
\* put, applyDelta, restore).
THEOREM StoreInvariant == StoreSpec => []StoreInv
<1>1. StoreInit => StoreInv
    <2> SUFFICES ASSUME StoreInit PROVE StoreInv
        OBVIOUS
    <2>1. StoreTypes
        BY InitStoreTypes
    <2>2. /\ chain = [k \in Keys |-> <<>>] /\ written = <<>> /\ map = EmptyContent
          /\ agentDeltas = [w \in Windows |-> <<>>]
        BY DEF StoreInit
    <2>3. ASSUME NEW k \in Keys PROVE Stands(k) /\ HeadShows(k)
        <3>1. Survivors(k) = {} /\ Below(k, 0) = {}
            BY <2>2 DEF Survivors, Below
        <3>2. chain[k] = <<>> /\ Ground(k) = NoValue /\ Len(chain[k]) = 0
            BY <2>2, <2>3 DEF Ground, EmptyContent
        <3>3. PICK pos : pos \in [1..0 -> 1..0]
            <4>1. [i \in 1..0 |-> 0] \in [1..0 -> 1..0]
                OBVIOUS
            <4> QED BY <4>1
        <3>4. ChainStands(k, 0, pos)
            BY <3>1, <3>2 DEF ChainStands
        <3>5. Len(written) = 0
            BY <2>2
        <3>6. \E b \in 0..0 : \E p \in [1..0 -> (b + 1)..0] : ChainStands(k, b, p)
            <4>1. 0 \in 0..0 /\ pos \in [1..0 -> (0 + 1)..0]
                BY <3>3
            <4> QED BY <3>4, <4>1
        <3>7. Stands(k)
            BY <3>2, <3>5, <3>6 DEF Stands
        <3> QED BY <3>2, <3>7 DEF HeadShows
    <2>4. Windowed
        <3>1. Unique(<<>>) /\ ToSet(<<>>) = {}
            BY DEF Unique, ToSet
        <3> QED BY <2>2, <3>1 DEF Windowed, DeltaStands
    <2> QED BY <2>1, <2>3, <2>4 DEF StoreInv, Chains
<1>2. StoreInv /\ [StoreNext]_storeVars => StoreInv'
    <2> SUFFICES ASSUME StoreInv, [StoreNext]_storeVars PROVE StoreInv'
        OBVIOUS
    <2>1. CASE UNCHANGED storeVars
        <3>1. StoreTypes'
            BY <2>1 DEF storeVars, StoreInv, StoreTypes
        <3>2. \A k \in Keys : Stands(k) => Stands(k)'
            <4>1. \A k : Ground(k)' = Ground(k) /\ Survivors(k)' = Survivors(k)
                BY <2>1 DEF storeVars, Ground, Survivors
            <4>2. \A k, b : Below(k, b)' = Below(k, b)
                BY <4>1 DEF Below
            <4>3. \A j : Fixed(j)' <=> Fixed(j)
                BY <2>1 DEF storeVars, Fixed
            <4>4. \A k, b, pos : ChainStands(k, b, pos) => ChainStands(k, b, pos)'
                BY <2>1, <4>1, <4>2, <4>3 DEF storeVars, ChainStands
            <4> QED BY <2>1, <4>4 DEF storeVars, Stands
        <3>3. \A k \in Keys : HeadShows(k) => HeadShows(k)'
            BY <2>1 DEF storeVars, HeadShows
        <3>4. \A w, k, j : OwnLast(w, k, j)' <=> OwnLast(w, k, j)
            BY <2>1 DEF storeVars, OwnLast
        <3>5. Windowed => Windowed'
            BY <2>1, <3>4 DEF storeVars, Windowed, DeltaStands
        <3> QED BY <2>1, <3>1, <3>2, <3>3, <3>5 DEF storeVars, StoreInv, Chains
    <2>2. CASE StoreNext
        <3>1. StoreTypes /\ ~disposed /\ Chains /\ Windowed
            BY <2>2 DEF StoreInv, StoreNext, Put, MayWrite, TrackPut, CommitDelta, DiscardDelta, Retire,
                        ApplyDelta, Restore, Dispose
        <3>2. \A w \in Windows : Unique(agentDeltas[w])
            BY <3>1 DEF Windowed, DeltaStands
        <3>3. CASE \E k \in Keys, v \in Values : Put(k, v)
            BY <3>1, <3>2, <3>3, PutTypes, PutChains, PutWindowed DEF StoreInv
        <3>4. CASE \E w \in Windows, k \in Keys, v \in Values : TrackPut(w, k, v)
            BY <3>1, <3>2, <3>4, TrackTypes, TrackChains, TrackWindowed DEF StoreInv
        <3>5. CASE (\E w \in Windows : CommitDelta(w)) \/ (\E w \in Windows : DiscardDelta(w))
            <4>1. PICK w \in Windows, how \in {"committed", "discarded"} : Retire(w, how)
                BY <3>5 DEF CommitDelta, DiscardDelta
            <4>2. StoreTypes'
                BY <3>1, <4>1, RetireTypes
            <4>3. Chains' /\ Windowed'
                BY <3>1, <4>1, <4>2, RetireChains, RetireWindowed
            <4> QED BY <4>2, <4>3 DEF StoreInv
        <3>6. CASE \E delta \in Deltas : ApplyDelta(delta)
            BY <3>1, <3>6, ReplayTypes, ReplayChains, ReplayWindowed DEF StoreInv
        <3>7. CASE \E snapshot \in Snapshots : Restore(snapshot)
            BY <3>1, <3>7, ReplayTypes, RestoreChains, RestoreWindowed DEF StoreInv
        <3>8. CASE Dispose
            <4>1. disposed' = TRUE
                BY <3>8 DEF Dispose
            <4> QED BY <3>1, <3>8, <4>1, DisposeTypes DEF StoreInv
        <3> QED BY <2>2, <3>3, <3>4, <3>5, <3>6, <3>7, <3>8 DEF StoreNext
    <2> QED BY <2>1, <2>2
<1> QED BY <1>1, <1>2, PTL DEF StoreSpec

LEMMA ShowsLast ==
    ASSUME StoreTypes, NEW k \in Keys, Stands(k), HeadShows(k)
    PROVE  map[k] = IF Survivors(k) = {} THEN NoValue ELSE written[Max(Survivors(k))].value
<1>1. PICK b \in 0..Len(written) : \E pos \in [1..Len(chain[k]) -> (b + 1)..Len(written)] :
          ChainStands(k, b, pos)
    BY DEF Stands
<1>2. PICK pos \in [1..Len(chain[k]) -> (b + 1)..Len(written)] : ChainStands(k, b, pos)
    BY <1>1
<1> DEFINE nodes == chain[k]
           size == Len(nodes)
<1>3. /\ Len(written) \in Nat /\ DOMAIN written = 1..Len(written)
      /\ Survivors(k) \subseteq 1..Len(written) /\ Survivors(k) \subseteq Int
    BY SurvivorsAre
<1>4. CASE nodes = <<>>
    <2>1. Below(k, b) = Survivors(k)
        <3>1. size = 0
            BY <1>4
        <3>2. \A j \in Survivors(k) : ~(j > b)
            BY <1>2, <3>1 DEF ChainStands
        <3> QED BY <1>3, <3>2 DEF Below
    <2>2. Ground(k) = map[k]
        BY <1>4 DEF Ground
    <2>3. CASE Survivors(k) = {} /\ map[k] = NoValue
        BY <2>3
    <2>4. CASE \E j \in Survivors(k) : IsLast(Survivors(k), j) /\ map[k] = written[j].value
        <3>1. PICK j \in Survivors(k) : IsLast(Survivors(k), j) /\ map[k] = written[j].value
            BY <2>4
        <3>2. Max(Survivors(k)) = j
            BY <1>3, <3>1, LastIsMax
        <3> QED BY <3>1, <3>2
    <2> QED BY <1>2, <2>1, <2>2, <2>3, <2>4 DEF ChainStands
<1>5. CASE nodes # <<>>
    <2>1. /\ size \in Nat /\ size \in 1..size /\ map[k] = nodes[size].value
          /\ fate[nodes[size].by] = "active" /\ nodes[size].by \in Windows
        BY <1>5, NodesAre DEF HeadShows
    <2>2. PICK j : j = pos[size]
        OBVIOUS
    <2>3. j \in 1..Len(written) /\ j > b /\ written[j] = Write(nodes[size].by, k, nodes[size].value)
        BY <1>1, <1>2, <1>3, <2>1, <2>2 DEF ChainStands
    <2>4. written[j].by = nodes[size].by /\ written[j].key = k /\ written[j].value = nodes[size].value
        BY <2>3 DEF Write
    <2>5. j \in Survivors(k)
        BY <1>3, <2>1, <2>3, <2>4 DEF Survivors
    <2>6. \A i \in 1..size : pos[i] \in Int /\ pos[i] <= j
        <3> SUFFICES ASSUME NEW i \in 1..size PROVE pos[i] \in Int /\ pos[i] <= j
            OBVIOUS
        <3>1. pos[i] \in Int /\ pos[size] \in Int /\ (i < size \/ i = size)
            <4>1. \A i2 \in 1..size : pos[i2] \in (b + 1)..Len(written)
                BY <1>2
            <4>2. \A m \in (b + 1)..Len(written) : m \in Int
                BY <1>1, <1>3
            <4>3. i < size \/ i = size
                BY <2>1
            <4> QED BY <2>1, <4>1, <4>2, <4>3
        <3>2. i < size => pos[i] < pos[size]
            BY <1>2, <2>1 DEF ChainStands
        <3> QED BY <2>2, <3>1, <3>2
    <2>7. ASSUME NEW i \in Survivors(k) PROVE i <= j
        <3>1. i \in 1..Len(written)
            BY <1>3
        <3>2. CASE i <= b
            BY <1>1, <1>3, <2>3, <3>1, <3>2
        <3>3. CASE i > b
            <4>1. PICK m \in 1..size : i <= pos[m]
                BY <1>2, <3>3 DEF ChainStands
            <4> QED BY <2>3, <2>6, <3>1, <4>1
        <3> QED BY <1>1, <1>3, <3>1, <3>2, <3>3
    <2>8. Max(Survivors(k)) = j
        BY <1>3, <2>5, <2>7, LastIsMax DEF IsLast
    <2> QED BY <2>1, <2>4, <2>5, <2>8
<1> QED BY <1>4, <1>5

LEMMA DeltaIsOwn ==
    ASSUME StoreTypes, Windowed, NEW w \in Windows, fate[w] = "active", NEW k \in Keys
    PROVE  LET own == {i \in DOMAIN written : written[i].key = k /\ written[i].by = w}
               put == {i \in DOMAIN written : written[i].key = k /\ written[i].by = "put"}
               counts == own # {} /\ \A i \in put : i < Max(own)
           IN  /\ k \in KeysOf(agentDeltas[w]) <=> counts
               /\ counts => Entry(k, written[Max(own)].value) \in ToSet(agentDeltas[w])
<1> DEFINE own == {i \in DOMAIN written : written[i].key = k /\ written[i].by = w}
           put == {i \in DOMAIN written : written[i].key = k /\ written[i].by = "put"}
           counts == own # {} /\ \A i \in put : i < Max(own)
<1>1. Len(written) \in Nat /\ DOMAIN written = 1..Len(written)
    BY SurvivorsAre
<1>2. own \subseteq 1..Len(written) /\ own \subseteq Int
    BY <1>1
<1>3. \A j : OwnLast(w, k, j) => IsLast(own, j) /\ \A i \in put : i < j
    BY DEF OwnLast, IsLast
<1>4. \A j : IsLast(own, j) /\ (\A i \in put : i < j) => OwnLast(w, k, j)
    BY DEF OwnLast, IsLast
<1>5. \A j : IsLast(own, j) => Max(own) = j
    BY <1>2, LastIsMax
<1>6. own # {} => \E j \in own : IsLast(own, j)
    BY <1>1, <1>2, LastExists
<1> HIDE DEF own, put
<1>7. counts => OwnLast(w, k, Max(own))
    BY <1>4, <1>5, <1>6
<1>8. (\E j : OwnLast(w, k, j)) => counts
    BY <1>3, <1>5 DEF IsLast
<1>9. DeltaStands(w)
    BY DEF Windowed
<1>10. k \in KeysOf(agentDeltas[w]) => counts
    <2> SUFFICES ASSUME k \in KeysOf(agentDeltas[w]) PROVE counts
        OBVIOUS
    <2>1. PICK e \in ToSet(agentDeltas[w]) : e.key = k
        BY KeysAre
    <2> QED BY <1>8, <1>9, <2>1 DEF DeltaStands
<1>11. counts => k \in KeysOf(agentDeltas[w])
    <2>1. counts => Max(own) \in DOMAIN written
        BY <1>7 DEF OwnLast
    <2> QED BY <1>7, <1>9, <2>1 DEF DeltaStands
<1>12. counts => Entry(k, written[Max(own)].value) \in ToSet(agentDeltas[w])
    <2> SUFFICES ASSUME counts PROVE Entry(k, written[Max(own)].value) \in ToSet(agentDeltas[w])
        OBVIOUS
    <2>1. PICK e \in ToSet(agentDeltas[w]) : e.key = k
        BY <1>11, KeysAre
    <2>2. PICK j \in DOMAIN written : OwnLast(w, e.key, j) /\ e.value = written[j].value
        BY <1>9 DEF DeltaStands
    <2>3. j = Max(own)
        BY <1>3, <1>5, <2>1, <2>2
    <2>4. e = Entry(k, written[Max(own)].value)
        <3>1. e \in Entries
            <4>1. agentDeltas[w] \in Seq(Entries)
                BY DEF StoreTypes
            <4>2. DOMAIN agentDeltas[w] = 1..Len(agentDeltas[w])
                BY <4>1, LenProperties
            <4> QED BY <4>1, <4>2, ElementOfSeq DEF ToSet
        <3>2. e.value = written[Max(own)].value
            BY <2>2, <2>3
        <3> QED BY <2>1, <3>1, <3>2 DEF Entry, Entries
    <2> QED BY <2>4
<1> QED BY <1>10, <1>11, <1>12 DEF own, put

\* In whatever order windows are committed and rolled back, a key shows the last write
\* that was not rolled back, and a window would hand the journal its own last write of
\* each key that no put() has overwritten since (trackPut, resolveVersionHead).
THEOREM StoreAgrees == StoreSpec => []StoreAgreesWithLog
<1>1. StoreInv => StoreAgreesWithLog
    <2> SUFFICES ASSUME StoreInv PROVE StoreAgreesWithLog
        OBVIOUS
    <2>1. ShowsLastSurvivor
        BY ShowsLast DEF StoreInv, Chains, ShowsLastSurvivor
    <2>2. DeltaIsOwnWrites
        BY DeltaIsOwn DEF StoreInv, DeltaIsOwnWrites
    <2> QED BY <2>1, <2>2 DEF StoreAgreesWithLog
<1> QED BY <1>1, StoreInvariant, PTL
================================================================================
