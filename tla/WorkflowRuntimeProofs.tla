------------------------- MODULE WorkflowRuntimeProofs -------------------------
(***************************************************************************)
(* Theorems about WorkflowRuntime.tla, for any number of lanes, stages and *)
(* slots, any script and any content of the store.                         *)
(*                                                                         *)
(* Induction is stated over sets: the set of the numbers a fact holds for  *)
(* has 0 and every successor, so that it has all of them.                  *)
(***************************************************************************)
EXTENDS WorkflowRuntime, NaturalsInduction, WellFoundedInduction, FiniteSetTheorems,
        SequenceTheorems, TLAPS

LEMMA LeastElement ==
    ASSUME NEW S, S \subseteq Nat, S # {}
    PROVE  \E m \in S : \A n \in S : m <= n
<1> DEFINE R == OpToRel(<, Nat)
<1>1. IsWellFoundedOn(R, Nat)
    BY NatLessThanWellFounded
<1>2. \A x, y \in Nat : x < y => <<x, y>> \in R
    BY DEF OpToRel
<1> HIDE DEF R
<1>3. PICK x \in S : \A y \in S : ~ (<<y, x>> \in R)
    BY <1>1, WFMin
<1>4. \A y \in S : y \in Nat /\ ~(y < x)
    BY <1>2, <1>3
<1>5. \A y \in S : x <= y
    BY <1>4
<1> QED BY <1>3, <1>5

LEMMA Induction ==
    ASSUME NEW S, 0 \in S, \A n \in Nat : n \in S => n + 1 \in S
    PROVE  Nat \subseteq S
<1> DEFINE T == Nat \ S
<1> SUFFICES ASSUME T # {} PROVE FALSE
    OBVIOUS
<1>1. PICK m \in T : \A n \in T : m <= n
    BY LeastElement
<1>2. m # 0 /\ m - 1 \in Nat /\ m - 1 \notin T
    BY <1>1
<1> QED BY <1>1, <1>2

----------------------------------------------------------------------------
(* Deltas applied one after the other. *)

Step(g, content, deltas, from, n) ==
    IF n = from THEN content ELSE Applied(g[n - 1], deltas[n - 1]).map

IsChain(g, content, deltas, from, to) ==
    g = [n \in from..to |-> Step(g, content, deltas, from, n)]

Chain(content, deltas, from, to) == CHOOSE g : IsChain(g, content, deltas, from, to)

LEMMA AppliedFromChain ==
    ASSUME NEW content, NEW deltas, NEW from, NEW to
    PROVE  AppliedFrom(content, deltas, from, to) = Chain(content, deltas, from, to)[to]
BY DEF AppliedFrom, Chain, IsChain, Step

LEMMA ChainIs ==
    ASSUME NEW content, NEW deltas, NEW from \in Int, NEW to \in Int, from <= to
    PROVE  IsChain(Chain(content, deltas, from, to), content, deltas, from, to)
<1> DEFINE S == {k \in Nat : \E g : IsChain(g, content, deltas, from, from + k)}
<1>1. 0 \in S
    <2> DEFINE g == [n \in from..(from + 0) |-> content]
    <2>1. IsChain(g, content, deltas, from, from + 0)
        BY DEF IsChain, Step
    <2> QED BY <2>1
<1>2. ASSUME NEW k \in Nat, k \in S PROVE k + 1 \in S
    <2>1. PICK g : IsChain(g, content, deltas, from, from + k)
        BY <1>2
    <2> DEFINE h == [n \in from..(from + k + 1) |->
                       IF n = from + k + 1 THEN Applied(g[from + k], deltas[from + k]).map ELSE g[n]]
    <2>2. \A n \in from..(from + k) : h[n] = g[n] /\ g[n] = Step(g, content, deltas, from, n)
        <3>1. g = [n \in from..(from + k) |-> Step(g, content, deltas, from, n)]
            BY <2>1 DEF IsChain
        <3>2. \A n \in from..(from + k) : g[n] = Step(g, content, deltas, from, n)
            BY <3>1
        <3>3. \A n \in from..(from + k) : n \in from..(from + k + 1) /\ n # from + k + 1
            OBVIOUS
        <3>4. \A n \in from..(from + k) : h[n] = g[n]
            BY <3>3
        <3> QED BY <3>2, <3>4
    <2>3. \A n \in from..(from + k) : n # from => n - 1 \in from..(from + k)
        OBVIOUS
    <2>4. ASSUME NEW n \in from..(from + k) PROVE h[n] = Step(h, content, deltas, from, n)
        <3>1. h[n] = Step(g, content, deltas, from, n)
            BY <2>2
        <3>2. n # from => h[n - 1] = g[n - 1]
            BY <2>2, <2>3
        <3> HIDE DEF h
        <3> QED BY <3>1, <3>2 DEF Step
    <2>5. h[from + k + 1] = Step(h, content, deltas, from, from + k + 1)
        BY DEF Step
    <2>6. \A n \in from..(from + k + 1) : h[n] = Step(h, content, deltas, from, n)
        BY <2>4, <2>5
    <2>7. h = [n \in from..(from + k + 1) |-> h[n]]
        OBVIOUS
    <2> HIDE DEF h
    <2>8. IsChain(h, content, deltas, from, from + (k + 1))
        BY <2>6, <2>7 DEF IsChain
    <2> QED BY <2>8
<1> HIDE DEF S
<1>3. to - from \in S
    BY <1>1, <1>2, Induction
<1>4. \E g : IsChain(g, content, deltas, from, to)
    BY <1>3 DEF S
<1> QED BY <1>4 DEF Chain

LEMMA ChainPrefix ==
    ASSUME NEW content, NEW deltas, NEW from \in Int, NEW to \in Int, from <= to
    PROVE  Chain(content, deltas, from, to + 1)[to] = Chain(content, deltas, from, to)[to]
<1> DEFINE g == Chain(content, deltas, from, to)
           h == Chain(content, deltas, from, to + 1)
           S == {k \in Nat : from + k <= to => g[from + k] = h[from + k]}
<1>1. IsChain(g, content, deltas, from, to) /\ IsChain(h, content, deltas, from, to + 1)
    BY ChainIs
<1> HIDE DEF g, h
<1>2. 0 \in S
    BY <1>1 DEF IsChain, Step
<1>3. ASSUME NEW k \in Nat, k \in S PROVE k + 1 \in S
    <2> SUFFICES ASSUME from + (k + 1) <= to PROVE g[from + (k + 1)] = h[from + (k + 1)]
        OBVIOUS
    <2>1. /\ g[from + (k + 1)] = Step(g, content, deltas, from, from + (k + 1))
          /\ h[from + (k + 1)] = Step(h, content, deltas, from, from + (k + 1))
        <3>1. from + (k + 1) \in from..to /\ from + (k + 1) \in from..(to + 1)
            OBVIOUS
        <3> QED BY <1>1, <3>1 DEF IsChain
    <2>2. g[from + k] = h[from + k]
        BY <1>3
    <2>3. (from + (k + 1)) - 1 = from + k /\ from + (k + 1) # from
        OBVIOUS
    <2> QED BY <2>1, <2>2, <2>3 DEF Step
<1> HIDE DEF S
<1>4. to - from \in S
    BY <1>2, <1>3, Induction
<1> QED BY <1>4 DEF S, g, h

\* No delta, and one more.
LEMMA AppliedNone ==
    ASSUME NEW content, NEW deltas, NEW n \in Int
    PROVE  AppliedFrom(content, deltas, n, n) = content
BY AppliedFromChain, ChainIs DEF IsChain, Step

LEMMA AppliedOneMore ==
    ASSUME NEW content, NEW deltas, NEW from \in Int, NEW to \in Int, from <= to
    PROVE  AppliedFrom(content, deltas, from, to + 1)
              = Applied(AppliedFrom(content, deltas, from, to), deltas[to]).map
<1> DEFINE h == Chain(content, deltas, from, to + 1)
<1>1. IsChain(h, content, deltas, from, to + 1)
    BY ChainIs
<1>2. h[to] = AppliedFrom(content, deltas, from, to)
    BY ChainPrefix, AppliedFromChain
<1> HIDE DEF h
<1>3. h[to + 1] = Step(h, content, deltas, from, to + 1)
    BY <1>1 DEF IsChain
<1>4. to + 1 # from /\ (to + 1) - 1 = to
    OBVIOUS
<1>5. h[to + 1] = Applied(h[to], deltas[to]).map
    BY <1>3, <1>4 DEF Step
<1>6. AppliedFrom(content, deltas, from, to + 1) = h[to + 1]
    BY AppliedFromChain DEF h
<1> QED BY <1>2, <1>5, <1>6

\* Only the deltas in between count.
LEMMA AppliedAgrees ==
    ASSUME NEW content, NEW d, NEW e, NEW from \in Int, NEW to \in Int, from <= to,
           \A n \in from..(to - 1) : d[n] = e[n]
    PROVE  AppliedFrom(content, d, from, to) = AppliedFrom(content, e, from, to)
<1> DEFINE S == {k \in Nat : from + k <= to =>
                    AppliedFrom(content, d, from, from + k) = AppliedFrom(content, e, from, from + k)}
<1>1. 0 \in S
    BY AppliedNone
<1>2. ASSUME NEW k \in Nat, k \in S PROVE k + 1 \in S
    <2> SUFFICES ASSUME from + (k + 1) <= to
                 PROVE  AppliedFrom(content, d, from, from + (k + 1))
                           = AppliedFrom(content, e, from, from + (k + 1))
        OBVIOUS
    <2>1. AppliedFrom(content, d, from, from + k) = AppliedFrom(content, e, from, from + k)
        BY <1>2
    <2>2. d[from + k] = e[from + k]
        OBVIOUS
    <2>3. from + (k + 1) = (from + k) + 1 /\ from + k \in Int /\ from <= from + k
        OBVIOUS
    <2> QED BY <2>1, <2>2, <2>3, AppliedOneMore
<1> HIDE DEF S
<1>3. to - from \in S
    BY <1>1, <1>2, Induction
<1> QED BY <1>3 DEF S

\* One stretch after the other.
LEMMA AppliedInTwo ==
    ASSUME NEW content, NEW d, NEW from \in Int, NEW mid \in Int, NEW to \in Int,
           from <= mid, mid <= to
    PROVE  AppliedFrom(AppliedFrom(content, d, from, mid), d, mid, to)
              = AppliedFrom(content, d, from, to)
<1> DEFINE c == AppliedFrom(content, d, from, mid)
           S == {k \in Nat : AppliedFrom(c, d, mid, mid + k) = AppliedFrom(content, d, from, mid + k)}
<1> HIDE DEF c
<1>1. 0 \in S
    BY AppliedNone DEF c
<1>2. ASSUME NEW k \in Nat, k \in S PROVE k + 1 \in S
    <2>1. AppliedFrom(c, d, mid, mid + k) = AppliedFrom(content, d, from, mid + k)
        BY <1>2
    <2>2. mid + (k + 1) = (mid + k) + 1 /\ mid + k \in Int /\ mid <= mid + k /\ from <= mid + k
        OBVIOUS
    <2> QED BY <2>1, <2>2, AppliedOneMore
<1> HIDE DEF S
<1>3. to - mid \in S
    BY <1>1, <1>2, Induction
<1> QED BY <1>3 DEF S, c

----------------------------------------------------------------------------
(* Store commits. *)

\* Places: those below nextOrder have gone into the store, some wait for theirs.
Commits ==
    /\ orders \in Nat /\ nextOrder \in Nat /\ nextOrder <= orders
    /\ DOMAIN pending \subseteq (nextOrder + 1)..(orders - 1)
    /\ DOMAIN settled = 0..(nextOrder - 1) \union DOMAIN pending
    /\ \A n \in DOMAIN pending : pending[n] = settled[n]
    /\ store = AppliedFrom(EmptyContent, settled, 0, nextOrder)

LEMMA ReadyIs ==
    ASSUME NEW waiting, NEW from \in Nat, orders \in Nat, DOMAIN waiting \subseteq from..orders,
           from <= orders + 1
    PROVE  /\ Ready(waiting, from) \in from..(orders + 1)
           /\ \A m \in from..(Ready(waiting, from) - 1) : m \in DOMAIN waiting
           /\ Ready(waiting, from) \notin DOMAIN waiting
<1> DEFINE T == {n \in Nat : n >= from /\ n \notin DOMAIN waiting}
<1>1. orders + 1 \in T
    OBVIOUS
<1>2. PICK n \in T : \A m \in T : n <= m
    BY <1>1, LeastElement
<1>3. n \in from..(orders + 1) /\ n \notin DOMAIN waiting
    BY <1>1, <1>2
<1>4. \A m \in from..(n - 1) : m \in DOMAIN waiting
    BY <1>2
<1> QED BY <1>3, <1>4 DEF Ready

\* A settled delta goes in with those that have waited for it, and the content of the
\* store is again that of all places below the next, one after the other.
LEMMA SettleCommits ==
    ASSUME Commits, NEW order \in 0..orders, order \notin DOMAIN settled, NEW delta,
           SettleStoreDelta(order, delta), orders' \in {orders, orders + 1}, order < orders'
    PROVE  /\ Commits'
           /\ DOMAIN settled' = DOMAIN settled \union {order}
<1> DEFINE waiting == With(pending, order, delta)
           next == Ready(waiting, nextOrder)
<1>1. /\ store' = AppliedFrom(store, waiting, nextOrder, next)
      /\ nextOrder' = next
      /\ pending' = [n \in DOMAIN waiting \ (nextOrder..(next - 1)) |-> waiting[n]]
      /\ settled' = With(settled, order, delta)
    BY DEF SettleStoreDelta
<1>2. /\ DOMAIN waiting = DOMAIN pending \union {order}
      /\ waiting[order] = delta
      /\ \A n \in DOMAIN pending : n # order => waiting[n] = pending[n]
    BY DEF With
<1>3. /\ DOMAIN settled' = DOMAIN settled \union {order}
      /\ settled'[order] = delta
      /\ \A n \in DOMAIN settled : settled'[n] = settled[n]
    BY <1>1 DEF With
<1>4. order >= nextOrder /\ order \notin DOMAIN pending
    BY DEF Commits
<1> HIDE DEF waiting
<1>5. DOMAIN waiting \subseteq nextOrder..orders /\ \A n \in DOMAIN waiting : n < orders'
    BY <1>2, <1>4 DEF Commits
<1>6. /\ next \in nextOrder..(orders + 1)
      /\ \A m \in nextOrder..(next - 1) : m \in DOMAIN waiting
      /\ next \notin DOMAIN waiting
    BY <1>5, ReadyIs DEF Commits
<1> HIDE DEF next
<1>7. next <= orders'
    <2>1. next = nextOrder \/ next - 1 \in DOMAIN waiting
        BY <1>6 DEF Commits
    <2> QED BY <2>1, <1>5, <1>6 DEF Commits
<1>8. \A n \in DOMAIN waiting : waiting[n] = settled'[n]
    BY <1>2, <1>3, <1>4 DEF Commits
<1>9. orders' \in Nat /\ nextOrder' \in Nat /\ nextOrder' <= orders'
    BY <1>1, <1>6, <1>7 DEF Commits
<1>10. DOMAIN pending' = {n \in DOMAIN waiting : n > next}
    BY <1>1, <1>5, <1>6 DEF Commits
<1>11. DOMAIN pending' \subseteq (nextOrder' + 1)..(orders' - 1)
    BY <1>1, <1>5, <1>6, <1>9, <1>10 DEF Commits
<1>12. DOMAIN settled' = 0..(nextOrder' - 1) \union DOMAIN pending'
    <2>1. DOMAIN settled' = 0..(nextOrder - 1) \union DOMAIN waiting
        BY <1>2, <1>3 DEF Commits
    <2>2. DOMAIN waiting = nextOrder..(next - 1) \union DOMAIN pending'
        BY <1>5, <1>6, <1>10 DEF Commits
    <2> QED BY <2>1, <2>2, <1>1, <1>6 DEF Commits
<1>13. \A n \in DOMAIN pending' : pending'[n] = settled'[n]
    BY <1>1, <1>8
<1>14. store' = AppliedFrom(EmptyContent, settled', 0, nextOrder')
    <2>1. store = AppliedFrom(EmptyContent, settled', 0, nextOrder)
        BY <1>3, AppliedAgrees DEF Commits
    <2>2. AppliedFrom(store, waiting, nextOrder, next) = AppliedFrom(store, settled', nextOrder, next)
        BY <1>6, <1>8, AppliedAgrees DEF Commits
    <2> QED BY <2>1, <2>2, <1>1, <1>6, AppliedInTwo DEF Commits
<1> QED BY <1>3, <1>9, <1>11, <1>12, <1>13, <1>14 DEF Commits

----------------------------------------------------------------------------
(* Types. *)

Outcomes == Results \union {"none", "null", "throw"}
CallDeltas == {Writes[l] : l \in Lanes} \union {<<>>}
Hashes == {<<s[l], n, r>> : s \in Scripts, l \in Lanes, n \in Nat, r \in Outcomes} \union {<<>>}
CallRecords == [index : Nat, order : Nat, hash : Hashes, result : Outcomes, delta : CallDeltas]
JournalEntries == [hash : Hashes, result : Outcomes, delta : CallDeltas, by : Nat]
Places == {"ready", "asking", "queued", "running", "returned", "left", "settled", "failed"}

IsJournal(entries) ==
    \A i \in DOMAIN entries : i \in Nat /\ entries[i] \in JournalEntries

Types ==
    /\ execution \in Nat
    /\ script \in Scripts
    /\ admission \in {"open", "closing", "closed"}
    /\ callSeq \in [Frames -> Nat]
    /\ firstMiss \in [Frames -> Int]
    /\ nestedIndex \in [Nested -> Int]
    /\ agentCount \in 0..MaxAgents
    /\ stage \in [Lanes -> Nat]
    /\ at \in [Lanes -> Places]
    /\ call \in [Lanes -> CallRecords]
    /\ queue \in Seq(Lanes)
    /\ orders \in Nat
    /\ served \subseteq [frame : Frames, index : Nat, replayed : BOOLEAN]
    /\ DOMAIN journal = Frames /\ \A f \in Frames : IsJournal(journal[f])
    /\ DOMAIN resumeJournal = Frames /\ \A f \in Frames : IsJournal(resumeJournal[f])

LEMMA FramesOfLanes ==
    ASSUME NEW l \in Lanes
    PROVE  FrameOf(l) \in Frames /\ Root \in Frames /\ Root \notin Lanes
BY RuntimeAssumption DEF FrameOf, Frames, Root, Lanes

LEMMA MinOfTwo ==
    ASSUME NEW a \in Int, NEW b \in Int
    PROVE  /\ Min({a, b}) \in {a, b}
           /\ Min({a, b}) <= a /\ Min({a, b}) <= b
<1>1. \E m \in {a, b} : \A n \in {a, b} : m <= n
    OBVIOUS
<1>2. Min({a, b}) \in {a, b} /\ \A n \in {a, b} : Min({a, b}) <= n
    BY <1>1 DEF Min
<1> QED BY <1>2

\* A miss only ever lowers the first miss of a frame.
LEMMA MissedLowers ==
    ASSUME Types, NEW l \in Lanes, NEW index \in Nat
    PROVE  /\ Missed(l, index) \in [Frames -> Int]
           /\ \A f \in Frames : Missed(l, index)[f] <= firstMiss[f]
           /\ Missed(l, index)[FrameOf(l)] <= index
<1>1. ASSUME NEW f \in Frames
      PROVE  /\ Missed(l, index)[f] \in Int
             /\ Missed(l, index)[f] <= firstMiss[f]
             /\ f = FrameOf(l) => Missed(l, index)[f] <= index
    <2>1. firstMiss[f] \in Int /\ firstMiss[Root] \in Int
        BY FramesOfLanes DEF Types
    <2>2. Missed(l, index)[f] =
            IF f = FrameOf(l) THEN Min({firstMiss[f], index})
            ELSE IF f = Root /\ index < firstMiss[l] THEN Min({firstMiss[Root], nestedIndex[l]})
            ELSE firstMiss[f]
        BY DEF Missed
    <2>3. CASE f = FrameOf(l)
        <3>1. Min({firstMiss[f], index}) \in Int /\ Min({firstMiss[f], index}) <= firstMiss[f]
              /\ Min({firstMiss[f], index}) <= index
            <4>1. index \in Int
                OBVIOUS
            <4> QED BY <4>1, <2>1, MinOfTwo, Zenon
        <3> QED BY <2>2, <2>3, <3>1
    <2>4. CASE f # FrameOf(l) /\ f = Root /\ index < firstMiss[l]
        <3>1. nestedIndex[l] \in Int
            BY <2>4 DEF FrameOf, Types
        <3> QED BY <2>1, <2>2, <2>4, <3>1, MinOfTwo
    <2>5. CASE f # FrameOf(l) /\ ~(f = Root /\ index < firstMiss[l])
        BY <2>1, <2>2, <2>5
    <2> QED BY <2>3, <2>4, <2>5
<1> QED BY <1>1, FramesOfLanes DEF Missed

LEMMA InitTypes == RuntimeInit => Types
<1> SUFFICES ASSUME RuntimeInit PROVE Types
    OBVIOUS
<1>1. NoCall \in CallRecords
    BY DEF NoCall, CallRecords, Hashes, Outcomes, CallDeltas
<1> HIDE DEF NoCall
<1>2. call \in [Lanes -> CallRecords]
    BY <1>1 DEF RuntimeInit
<1>3. Infinity \in Int
    BY RuntimeAssumption DEF Infinity
<1>4. /\ callSeq \in [Frames -> Nat] /\ firstMiss \in [Frames -> Int]
      /\ nestedIndex \in [Nested -> Int] /\ stage \in [Lanes -> Nat]
      /\ at \in [Lanes -> Places] /\ agentCount \in 0..MaxAgents
    BY <1>3, RuntimeAssumption DEF RuntimeInit, Places
<1>5. queue \in Seq(Lanes)
    BY DEF RuntimeInit
<1>6. \A f \in Frames : IsJournal(journal[f])
    BY DEF RuntimeInit, IsJournal
<1> QED BY <1>2, <1>4, <1>5, <1>6 DEF RuntimeInit, Types

\* What a call finds in the journal is an entry of the run.
LEMMA CachedTypes ==
    ASSUME Types, NEW l \in Lanes
    PROVE  IsJournal(Cached(l))
BY FramesOfLanes DEF Types, Cached, IsJournal

LEMMA HashTypes ==
    ASSUME Types, NEW l \in Lanes
    PROVE  HashOf(l) \in Hashes
<1>1. Input(l) \in Outcomes
    BY DEF Types, Input, CallRecords, Outcomes
<1> QED BY <1>1 DEF Types, HashOf, Hashes

\* A call that starts, whatever becomes of it then.
LEMMA StartedTypes ==
    ASSUME Types, NEW l \in Lanes, NEW record \in CallRecords, NEW replayed \in BOOLEAN,
           Started(l, record, replayed), NEW p \in Places, at' = [at EXCEPT ![l] = p],
           firstMiss' \in [Frames -> Int], queue' = queue \/ queue' = Append(queue, l),
           orders' \in {orders, orders + 1}
    PROVE  Types'
<1>1. record.index \in Nat /\ FrameOf(l) \in Frames
    BY FramesOfLanes DEF CallRecords
<1>2. callSeq' \in [Frames -> Nat]
    BY <1>1 DEF Types, Started
<1>3. at' \in [Lanes -> Places] /\ call' \in [Lanes -> CallRecords] /\ orders' \in Nat
    BY DEF Types, Started
<1>4. queue' \in Seq(Lanes)
    <2>1. queue \in Seq(Lanes)
        BY DEF Types
    <2>2. Append(queue, l) \in Seq(Lanes)
        BY <2>1, AppendProperties
    <2> QED BY <2>1, <2>2
<1>5. served' \subseteq [frame : Frames, index : Nat, replayed : BOOLEAN]
    BY <1>1 DEF Types, Started
<1>6. agentCount' \in 0..MaxAgents
    BY RuntimeAssumption DEF Types, Started
<1> QED BY <1>2, <1>3, <1>4, <1>5, <1>6 DEF Types, Started, fateVars

LEMMA StartTypes ==
    ASSUME Types, NEW l \in Lanes, Replay(l) \/ Ask(l) \/ Go(l)
    PROVE  Types'
<1> DEFINE index == callSeq[FrameOf(l)]
<1>1. index \in Nat /\ FrameOf(l) \in Frames
    BY FramesOfLanes DEF Types
<1>2. CASE Replay(l)
    <2> DEFINE entry == Cached(l)[index]
               record == [index |-> index, order |-> IF IsAsk(l) THEN 0 ELSE orders, hash |-> HashOf(l),
                          result |-> entry.result, delta |-> entry.delta]
    <2>1. entry \in JournalEntries
        BY <1>2, CachedTypes DEF Replay, Serving, Matches, IsJournal
    <2>2. record \in CallRecords
        BY <1>1, <2>1, HashTypes DEF CallRecords, JournalEntries, Types
    <2>3. Started(l, record, TRUE) /\ at' = [at EXCEPT ![l] = "settled"] /\ UNCHANGED <<firstMiss, queue>>
          /\ orders' \in {orders, orders + 1}
        BY <1>2 DEF Replay, commitVars
    <2> HIDE DEF record, index
    <2>4. firstMiss' \in [Frames -> Int] /\ "settled" \in Places
        BY <2>3 DEF Types, Places
    <2> QED BY <2>2, <2>3, <2>4, StartedTypes
<1>3. CASE Ask(l) \/ Go(l)
    <2>1. PICK record \in CallRecords : Started(l, record, FALSE)
        <3>1. [NoCall EXCEPT !.index = index, !.hash = HashOf(l)] \in CallRecords
            BY <1>1, HashTypes DEF NoCall, CallRecords, Outcomes, CallDeltas
        <3>2. [NoCall EXCEPT !.index = index, !.order = orders, !.hash = HashOf(l)] \in CallRecords
            BY <1>1, HashTypes DEF NoCall, CallRecords, Outcomes, CallDeltas, Types
        <3> QED BY <1>3, <3>1, <3>2 DEF Ask, Go
    <2>2. /\ firstMiss' = firstMiss \/ firstMiss' = Missed(l, index)
          /\ \E p \in Places : at' = [at EXCEPT ![l] = p]
          /\ queue' = queue \/ queue' = Append(queue, l)
          /\ orders' \in {orders, orders + 1}
        BY <1>3 DEF Ask, Go, Places
    <2> HIDE DEF index
    <2>3. firstMiss \in [Frames -> Int] /\ Missed(l, index) \in [Frames -> Int]
        BY <1>1, MissedLowers DEF Types
    <2>4. firstMiss' \in [Frames -> Int]
        BY <2>2, <2>3
    <2> QED BY <2>1, <2>2, <2>4, StartedTypes
<1> QED BY <1>2, <1>3

LEMMA QuietTypes ==
    ASSUME Types, NEW l \in Lanes,
           StartNested(l) \/ Breach(l) \/ Settle(l) \/ Advance(l)
    PROVE  Types'
<1>1. FrameOf(l) \in Frames /\ Root \in Frames /\ {"failed", "settled", "ready"} \subseteq Places
    BY FramesOfLanes DEF Places
<1>2. CASE StartNested(l)
    <2>1. callSeq' \in [Frames -> Nat]
        BY <1>1, <1>2 DEF Types, StartNested
    <2>2. nestedIndex' \in [Nested -> Int]
        BY <1>1, <1>2 DEF Types, StartNested
    <2>3. DOMAIN resumeJournal' = Frames /\ \A f \in Frames : IsJournal(resumeJournal'[f])
        BY <1>1, <1>2 DEF Types, StartNested, ChildJournal, IsJournal
    <2> QED BY <1>2, <2>1, <2>2, <2>3 DEF Types, StartNested, fateVars
<1>3. CASE Breach(l)
    <2>1. callSeq' \in [Frames -> Nat] /\ at' \in [Lanes -> Places]
        BY <1>1, <1>3 DEF Types, Breach
    <2> QED BY <1>3, <2>1 DEF Types, Breach
<1>4. CASE Settle(l)
    <2>1. at' \in [Lanes -> Places]
        BY <1>1, <1>4 DEF Types, Settle
    <2> QED BY <1>4, <2>1 DEF Types, Settle, frameVars
<1>5. CASE Advance(l)
    <2>1. at' \in [Lanes -> Places] /\ stage' \in [Lanes -> Nat]
        BY <1>1, <1>5 DEF Types, Advance
    <2> QED BY <1>5, <2>1 DEF Types, Advance, fateVars, frameVars
<1> QED BY <1>2, <1>3, <1>4, <1>5

LEMMA EnteredTypes ==
    ASSUME Types, NEW l \in Lanes, NEW result \in Results, NEW delta \in CallDeltas,
           Entered(l, result, delta)
    PROVE  DOMAIN journal' = Frames /\ \A f \in Frames : IsJournal(journal'[f])
<1> DEFINE entry == [hash |-> call[l].hash, result |-> result, delta |-> delta, by |-> execution]
<1>1. call[l] \in CallRecords /\ execution \in Nat /\ FrameOf(l) \in Frames
    BY FramesOfLanes DEF Types
<1>2. entry \in JournalEntries /\ call[l].index \in Nat
    BY <1>1 DEF JournalEntries, CallRecords, Outcomes
<1> HIDE DEF entry
<1>3. IsJournal(With(journal[FrameOf(l)], call[l].index, entry))
    BY <1>1, <1>2 DEF With, IsJournal, Types
<1>4. journal' = [journal EXCEPT ![FrameOf(l)] = With(@, call[l].index, entry)]
    BY DEF Entered, entry
<1> QED BY <1>1, <1>3, <1>4 DEF Types

LEMMA RunningTypes ==
    ASSUME Types, NEW l \in Lanes,
           \/ \E r \in Results : Finish(l, r) \/ Answer(l, r)
           \/ Exhaust(l) \/ Throw(l) \/ Leave(l)
    PROVE  Types'
<1>1. call[l] \in CallRecords /\ Writes[l] \in CallDeltas /\ <<>> \in CallDeltas
      /\ {"returned", "settled", "left", "running"} \subseteq Places
    BY DEF Types, CallDeltas, Places
<1>2. ASSUME NEW r \in Outcomes, NEW delta \in CallDeltas, Returns(l, r, delta),
             DOMAIN journal' = Frames /\ \A f \in Frames : IsJournal(journal'[f])
      PROVE  Types'
    <2>1. call' \in [Lanes -> CallRecords]
        BY <1>1, <1>2 DEF Types, Returns, CallRecords
    <2>2. at' \in [Lanes -> Places]
        BY <1>1, <1>2 DEF Types, Returns
    <2> QED BY <1>2, <2>1, <2>2 DEF Types, Returns, fateVars, frameVars
<1>3. ASSUME NEW r \in Results, Finish(l, r) PROVE Types'
    <2>1. r \in Outcomes
        BY DEF Outcomes
    <2> QED BY <1>1, <1>2, <1>3, <2>1, EnteredTypes DEF Finish
<1>4. CASE Exhaust(l) \/ Throw(l)
    <2>1. {"null", "throw"} \subseteq Outcomes
        BY DEF Outcomes
    <2>2. DOMAIN journal' = Frames /\ \A f \in Frames : IsJournal(journal'[f])
        BY <1>4 DEF Types, Exhaust, Throw
    <2> QED BY <1>1, <1>2, <1>4, <2>1, <2>2 DEF Exhaust, Throw
<1>5. ASSUME NEW r \in Results, Answer(l, r) PROVE Types'
    <2>1. DOMAIN journal' = Frames /\ \A f \in Frames : IsJournal(journal'[f])
        BY <1>1, <1>5, EnteredTypes DEF Answer
    <2>2. call' \in [Lanes -> CallRecords]
        BY <1>1, <1>5 DEF Types, Answer, CallRecords, Outcomes
    <2>3. at' \in [Lanes -> Places]
        BY <1>1, <1>5 DEF Types, Answer
    <2> QED BY <1>5, <2>1, <2>2, <2>3 DEF Types, Answer, fateVars, frameVars
<1>6. CASE Leave(l)
    <2>1. CASE admission = "open" /\ queue # <<>> /\ Cardinality(Active) <= Concurrency
        <3>1. queue \in Seq(Lanes) /\ Head(queue) \in Lanes /\ Tail(queue) \in Seq(Lanes)
            BY <2>1, HeadTailProperties DEF Types
        <3>2. PICK r \in Outcomes \union {call[Head(queue)].result} :
                  call' = [call EXCEPT ![Head(queue)].result = r]
            BY <1>6, <2>1 DEF Leave, Outcomes
        <3>3. call[Head(queue)] \in CallRecords /\ r \in Outcomes
            BY <3>1 DEF Types, CallRecords
        <3>4. call' \in [Lanes -> CallRecords]
            BY <3>1, <3>2, <3>3 DEF Types, CallRecords
        <3>5. at' \in [Lanes -> Places] /\ queue' = Tail(queue)
            BY <1>1, <1>6, <2>1, <3>1 DEF Types, Leave
        <3> QED BY <1>6, <3>1, <3>4, <3>5 DEF Types, Leave, fateVars, frameVars
    <2>2. CASE ~(admission = "open" /\ queue # <<>> /\ Cardinality(Active) <= Concurrency)
        <3>1. at' \in [Lanes -> Places] /\ UNCHANGED <<queue, call>>
            BY <1>1, <1>6, <2>2 DEF Types, Leave
        <3> QED BY <1>6, <3>1 DEF Types, Leave, fateVars, frameVars
    <2> QED BY <2>1, <2>2
<1> QED BY <1>3, <1>4, <1>5, <1>6

LEMMA EndTypes ==
    ASSUME Types, Interrupt \/ Escape \/ Complete \/ Drained \/ Resume
    PROVE  Types'
<1>1. CASE Interrupt \/ Escape
    <2>1. Abort
        BY <1>1 DEF Interrupt, Escape
    <2>2. at' \in [Lanes -> Places]
        BY <2>1 DEF Types, Abort, Places
    <2>3. call' \in [Lanes -> CallRecords]
        <3>1. \A l \in Lanes : call[l] \in CallRecords /\ [call[l] EXCEPT !.result = "throw"] \in CallRecords
            BY DEF Types, CallRecords, Outcomes
        <3> QED BY <2>1, <3>1 DEF Abort
    <2>4. queue' \in Seq(Lanes)
        BY <2>1 DEF Abort
    <2> QED BY <2>1, <2>2, <2>3, <2>4 DEF Types, Abort, frameVars
<1>2. CASE Complete \/ Drained
    BY <1>2 DEF Types, Complete, Drained, frameVars
<1>3. CASE Resume
    <2>1. NoCall \in CallRecords
        BY DEF NoCall, CallRecords, Hashes, Outcomes, CallDeltas
    <2> HIDE DEF NoCall
    <2>2. call' \in [Lanes -> CallRecords]
        BY <1>3, <2>1 DEF Resume
    <2>3. Infinity \in Int
        BY RuntimeAssumption DEF Infinity
    <2>4. /\ callSeq' \in [Frames -> Nat] /\ firstMiss' \in [Frames -> Int]
          /\ nestedIndex' \in [Nested -> Int] /\ stage' \in [Lanes -> Nat]
          /\ at' \in [Lanes -> Places] /\ agentCount' \in 0..MaxAgents
        BY <1>3, <2>3, RuntimeAssumption DEF Resume, Places
    <2>5. queue' \in Seq(Lanes)
        BY <1>3 DEF Resume
    <2>6. /\ execution' \in Nat /\ script' \in Scripts /\ admission' = "open"
          /\ orders' = 0 /\ served' = {} /\ journal' = journal /\ resumeJournal' = journal
        BY <1>3 DEF Resume, Types
    <2> QED BY <2>2, <2>4, <2>5, <2>6 DEF Types
<1> QED BY <1>1, <1>2, <1>3

LEMMA NextTypes == Types /\ [RuntimeNext]_runtimeVars => Types'
<1> SUFFICES ASSUME Types, [RuntimeNext]_runtimeVars PROVE Types'
    OBVIOUS
<1>1. CASE UNCHANGED runtimeVars
    BY <1>1 DEF Types, runtimeVars
<1>2. ASSUME NEW l \in Lanes, LaneStep(l) PROVE Types'
    BY <1>2, StartTypes, QuietTypes, RunningTypes DEF LaneStep
<1>3. CASE Interrupt \/ Escape \/ Complete \/ Drained \/ Resume
    BY <1>3, EndTypes
<1> QED BY <1>1, <1>2, <1>3 DEF RuntimeNext

----------------------------------------------------------------------------
(* The replayed prefix. *)

ReplayedBefore(index) == \A d \in served : d.frame = Root /\ d.index < index => d.replayed

\* A call that ran live lies at or behind the first miss of its frame, and whatever is
\* numbered next comes after all that were served; before a nested workflow that was
\* given its journal everything was replayed.
Prefix ==
    /\ \A d \in served :
        /\ d.index < callSeq[d.frame]
        /\ ~d.replayed => firstMiss[d.frame] <= d.index
        /\ d.frame \in Nested => nestedIndex[d.frame] # -1
    /\ \A l \in Nested : nestedIndex[l] < callSeq[Root]
    /\ \A l \in Nested : nestedIndex[l] # -1 /\ resumeJournal[l] # <<>> => ReplayedBefore(nestedIndex[l])
    /\ ReplaysPrefix

LEMMA ServePrefix ==
    ASSUME Types, Prefix, NEW l \in Lanes, NEW e, e.frame = FrameOf(l), e.index = callSeq[FrameOf(l)],
           e.replayed \in BOOLEAN,
           served' = served \union {e}, callSeq' = [callSeq EXCEPT ![FrameOf(l)] = @ + 1],
           l \in Nested => nestedIndex[l] # -1, nestedIndex' = nestedIndex,
           \A f \in Frames : firstMiss'[f] <= firstMiss[f] /\ firstMiss'[f] \in Int,
           ~e.replayed => firstMiss'[FrameOf(l)] <= e.index,
           e.replayed => /\ e.index < firstMiss[FrameOf(l)]
                         /\ l \in Nested => resumeJournal[l] # <<>>,
           resumeJournal' = resumeJournal
    PROVE  Prefix'
<1>1. FrameOf(l) \in Frames /\ Root \in Frames /\ Root \notin Nested /\ e.index \in Nat
    BY FramesOfLanes, RuntimeAssumption DEF Types
<1>2. \A d \in served : d.frame \in Frames /\ d.index \in Nat
    BY DEF Types
<1>3. \A f \in Frames : /\ callSeq[f] \in Nat /\ firstMiss[f] \in Int
                        /\ callSeq'[f] >= callSeq[f] /\ callSeq'[f] \in Nat
    BY DEF Types
<1>4. ASSUME NEW d \in served'
      PROVE  /\ d.index < callSeq'[d.frame]
             /\ ~d.replayed => firstMiss'[d.frame] <= d.index
             /\ d.frame \in Nested => nestedIndex'[d.frame] # -1
    <2>1. CASE d \in served
        BY <1>2, <1>3, <2>1 DEF Prefix
    <2>2. CASE d = e
        <3>1. callSeq'[FrameOf(l)] = callSeq[FrameOf(l)] + 1
            BY <1>1 DEF Types
        <3>2. FrameOf(l) \in Nested => FrameOf(l) = l
            BY <1>1 DEF FrameOf
        <3> QED BY <1>1, <1>3, <2>2, <3>1, <3>2
    <2> QED BY <2>1, <2>2
<1>5. \A m \in Nested : nestedIndex'[m] < callSeq'[Root]
    BY <1>1, <1>3 DEF Prefix, Types
<1>6. ASSUME NEW c \in served', c.replayed, NEW d \in served',
             \/ d.frame = c.frame /\ d.index < c.index
             \/ d.frame = Root /\ c.frame \in Nested /\ d.index < nestedIndex'[c.frame]
      PROVE  d.replayed
    <2>1. CASE c \in served /\ d \in served
        BY <1>6, <2>1 DEF Prefix, ReplaysPrefix
    <2>2. CASE d = e /\ c \in served
        <3>1. c.index < callSeq[c.frame] /\ c.frame \in Frames /\ c.index \in Nat
            BY <1>2, <2>2 DEF Prefix
        <3>2. ~(d.frame = c.frame /\ d.index < c.index)
            BY <1>1, <1>3, <2>2, <3>1
        <3>3. ASSUME d.frame = Root, c.frame \in Nested PROVE ~(d.index < nestedIndex'[c.frame])
            <4>1. nestedIndex[c.frame] \in Int /\ nestedIndex[c.frame] < callSeq[Root]
                BY <3>3 DEF Prefix, Types
            <4>2. d.index = callSeq[Root] /\ callSeq[Root] \in Nat
                BY <1>1, <1>3, <2>2, <3>3
            <4> QED BY <4>1, <4>2
        <3> QED BY <1>6, <3>2, <3>3
    <2>3. CASE c = e /\ d \in served
        <3>1. CASE d.frame = c.frame /\ d.index < c.index
            <4>1. d.index < firstMiss[d.frame]
                BY <1>1, <1>2, <1>3, <1>6, <2>3, <3>1
            <4> QED BY <1>2, <1>3, <2>3, <4>1 DEF Prefix
        <3>2. CASE d.frame = Root /\ c.frame \in Nested /\ d.index < nestedIndex'[c.frame]
            <4>1. c.frame = l /\ l \in Nested
                BY <1>1, <2>3, <3>2 DEF FrameOf
            <4> QED BY <1>6, <2>3, <3>2, <4>1 DEF Prefix, ReplayedBefore
        <3> QED BY <1>6, <3>1, <3>2
    <2>4. CASE c = e /\ d = e
        BY <1>1, <1>6, <2>4
    <2> QED BY <2>1, <2>2, <2>3, <2>4
<1>7. ASSUME NEW m \in Nested, nestedIndex'[m] # -1, resumeJournal'[m] # <<>>,
             NEW d \in served', d.frame = Root, d.index < nestedIndex'[m]
      PROVE  d.replayed
    <2>1. nestedIndex[m] \in Int /\ nestedIndex[m] < callSeq[Root] /\ ReplayedBefore(nestedIndex[m])
        BY <1>7 DEF Prefix, Types
    <2>2. d # e
        BY <1>1, <1>3, <1>7, <2>1
    <2> QED BY <1>7, <2>1, <2>2 DEF ReplayedBefore
<1> QED BY <1>4, <1>5, <1>6, <1>7 DEF Prefix, ReplaysPrefix, ReplayedBefore

LEMMA StartPrefix ==
    ASSUME Types, Prefix, NEW l \in Lanes, Replay(l) \/ Ask(l) \/ Go(l)
    PROVE  Prefix'
<1> DEFINE index == callSeq[FrameOf(l)]
           e(replayed) == [frame |-> FrameOf(l), index |-> index, replayed |-> replayed]
<1>1. index \in Nat /\ FrameOf(l) \in Frames /\ Root \in Frames
    BY FramesOfLanes DEF Types
<1>2. \A f \in Frames : firstMiss[f] \in Int
    BY DEF Types
<1>3. \A b \in BOOLEAN :
        e(b).frame = FrameOf(l) /\ e(b).index = callSeq[FrameOf(l)] /\ e(b).replayed = b
    OBVIOUS
<1>4. CASE Replay(l)
    <2>1. /\ served' = served \union {e(TRUE)}
          /\ callSeq' = [callSeq EXCEPT ![FrameOf(l)] = @ + 1]
          /\ l \in Nested => nestedIndex[l] # -1
          /\ nestedIndex' = nestedIndex /\ firstMiss' = firstMiss /\ resumeJournal' = resumeJournal
        BY <1>4 DEF Replay, Started
    <2>2. index < firstMiss[FrameOf(l)] /\ Cached(l) # <<>>
        BY <1>4 DEF Replay, Serving, Matches
    <2>3. l \in Nested => resumeJournal[l] # <<>>
        BY <2>2 DEF Cached, FrameOf
    <2>4. \A f \in Frames : firstMiss'[f] <= firstMiss[f] /\ firstMiss'[f] \in Int
        BY <1>2, <2>1
    <2>5. e(TRUE).index < firstMiss[FrameOf(l)] /\ e(TRUE).replayed
        BY <2>2
    <2> HIDE DEF e
    <2> QED BY <1>3, <2>1, <2>3, <2>4, <2>5, ServePrefix
<1>5. CASE Ask(l) \/ Go(l)
    <2>1. /\ served' = served \union {e(FALSE)}
          /\ callSeq' = [callSeq EXCEPT ![FrameOf(l)] = @ + 1]
          /\ l \in Nested => nestedIndex[l] # -1
          /\ nestedIndex' = nestedIndex /\ resumeJournal' = resumeJournal
        BY <1>5 DEF Ask, Go, Started, NoCall
    <2>2. \/ firstMiss' = firstMiss /\ ~(index < firstMiss[FrameOf(l)])
          \/ firstMiss' = Missed(l, index)
        BY <1>5 DEF Ask, Go, Serving
    <2>3. /\ \A f \in Frames : firstMiss'[f] <= firstMiss[f] /\ firstMiss'[f] \in Int
          /\ firstMiss'[FrameOf(l)] <= index
        BY <1>1, <1>2, <2>2, MissedLowers
    <2> HIDE DEF e
    <2> QED BY <1>2, <1>3, <2>1, <2>3, ServePrefix
<1> QED BY <1>4, <1>5

LEMMA OtherPrefix ==
    ASSUME Types, Prefix, NEW l \in Lanes, StartNested(l) \/ Breach(l)
    PROVE  Prefix'
<1>1. FrameOf(l) \in Frames /\ Root \in Frames /\ \A f \in Frames : callSeq[f] \in Nat
    BY FramesOfLanes DEF Types
<1>3. /\ UNCHANGED <<served, firstMiss>>
      /\ \A g \in Frames : callSeq'[g] >= callSeq[g] /\ callSeq'[g] \in Nat
    <2>1. UNCHANGED <<served, firstMiss>>
        BY DEF StartNested, Breach
    <2>2. CASE callSeq' = callSeq
        BY <1>1, <2>1, <2>2
    <2>3. CASE \E f \in Frames : callSeq' = [callSeq EXCEPT ![f] = @ + 1]
        <3>1. PICK f \in Frames : callSeq' = [callSeq EXCEPT ![f] = @ + 1]
            BY <2>3
        <3>2. DOMAIN callSeq = Frames
            BY DEF Types
        <3>3. \A g \in Frames : callSeq'[g] = IF g = f THEN callSeq[g] + 1 ELSE callSeq[g]
            BY <3>1, <3>2
        <3> QED BY <1>1, <2>1, <3>3
    <2>4. callSeq' = callSeq \/ \E f \in Frames : callSeq' = [callSeq EXCEPT ![f] = @ + 1]
        BY <1>1 DEF StartNested, Breach
    <2> QED BY <2>2, <2>3, <2>4
<1>4. \A d \in served : d.frame \in Frames /\ d.index \in Nat
    BY DEF Types
<1>5. CASE StartNested(l)
    <2>1. /\ nestedIndex' = [nestedIndex EXCEPT ![l] = callSeq[Root]] /\ l \in Nested
          /\ callSeq'[Root] = callSeq[Root] + 1
        BY <1>1, <1>5 DEF StartNested, Types
    <2>2. \A d \in served : d.frame # l
        BY <1>5 DEF StartNested, Prefix
    <2>3. \A m \in Nested : nestedIndex'[m] < callSeq'[Root] /\ (m # l => nestedIndex'[m] = nestedIndex[m])
        BY <1>1, <1>3, <2>1 DEF Prefix, Types
    <2>4. ReplaysPrefix'
        BY <1>3, <2>2, <2>3 DEF Prefix, ReplaysPrefix
    <2>5. ASSUME NEW m \in Nested, nestedIndex'[m] # -1, resumeJournal'[m] # <<>>
          PROVE  ReplayedBefore(nestedIndex[m])'
        <3>1. CASE m # l
            <4>1. resumeJournal'[m] = resumeJournal[m]
                BY <1>5, <3>1 DEF StartNested
            <4> QED BY <1>3, <2>3, <2>5, <3>1, <4>1 DEF Prefix, ReplayedBefore
        <3>2. CASE m = l
            <4>1. /\ resumeJournal'[l] = ChildJournal(l) /\ nestedIndex'[l] = callSeq[Root]
                  /\ firstMiss[Root] \in Int
                BY <1>1, <1>5, <2>1 DEF StartNested, Types, Frames
            <4>2. callSeq[Root] < firstMiss[Root]
                BY <2>5, <3>2, <4>1 DEF ChildJournal
            <4>3. \A d \in served : d.frame = Root /\ d.index < callSeq[Root] => d.replayed
                BY <1>1, <1>4, <4>1, <4>2 DEF Prefix
            <4> QED BY <1>3, <3>2, <4>1, <4>3 DEF ReplayedBefore
        <3> QED BY <3>1, <3>2
    <2> QED BY <1>1, <1>3, <1>4, <2>2, <2>3, <2>4, <2>5 DEF Prefix
<1>6. CASE Breach(l)
    <2>1. nestedIndex' = nestedIndex /\ resumeJournal' = resumeJournal
        BY <1>6 DEF Breach
    <2>2. ReplaysPrefix'
        BY <1>3, <2>1 DEF Prefix, ReplaysPrefix
    <2>3. \A m \in Nested : nestedIndex'[m] < callSeq'[Root]
        BY <1>1, <1>3, <2>1 DEF Prefix, Types
    <2>4. ASSUME NEW d \in served'
          PROVE  /\ d.index < callSeq'[d.frame]
                 /\ ~d.replayed => firstMiss'[d.frame] <= d.index
                 /\ d.frame \in Nested => nestedIndex'[d.frame] # -1
        BY <1>1, <1>3, <1>4, <2>1 DEF Prefix
    <2>5. \A m \in Nested : nestedIndex'[m] # -1 /\ resumeJournal'[m] # <<>> => ReplayedBefore(nestedIndex[m])'
        BY <1>3, <2>1 DEF Prefix, ReplayedBefore
    <2> QED BY <2>2, <2>3, <2>4, <2>5 DEF Prefix
<1> QED BY <1>5, <1>6

LEMMA NextPrefix == Types /\ Prefix /\ [RuntimeNext]_runtimeVars => Prefix'
<1> SUFFICES ASSUME Types, Prefix, [RuntimeNext]_runtimeVars PROVE Prefix'
    OBVIOUS
<1>1. ASSUME UNCHANGED <<served, callSeq, firstMiss, nestedIndex, resumeJournal>> PROVE Prefix'
    BY <1>1 DEF Prefix, ReplaysPrefix, ReplayedBefore
<1>2. CASE UNCHANGED runtimeVars
    BY <1>1, <1>2 DEF runtimeVars
<1>3. ASSUME NEW l \in Lanes, LaneStep(l) PROVE Prefix'
    <2>1. CASE Replay(l) \/ Ask(l) \/ Go(l)
        BY <2>1, StartPrefix
    <2>2. CASE StartNested(l) \/ Breach(l)
        BY <2>2, OtherPrefix
    <2>3. CASE \/ \E r \in Results : Finish(l, r) \/ Answer(l, r)
               \/ Exhaust(l) \/ Throw(l) \/ Leave(l) \/ Settle(l) \/ Advance(l)
        BY <1>1, <2>3 DEF Finish, Answer, Exhaust, Throw, Leave, Settle, Advance, Returns, frameVars,
                          fateVars
    <2> QED BY <1>3, <2>1, <2>2, <2>3 DEF LaneStep
<1>4. CASE Interrupt \/ Escape \/ Complete \/ Drained
    BY <1>1, <1>4 DEF Interrupt, Escape, Complete, Drained, Abort, frameVars, fateVars
<1>5. CASE Resume
    <2>1. served' = {} /\ nestedIndex' = [l \in Nested |-> -1] /\ callSeq' = [f \in Frames |-> 0]
        BY <1>5 DEF Resume
    <2> QED BY <2>1, FramesOfLanes DEF Prefix, ReplaysPrefix, Frames
<1> QED BY <1>2, <1>3, <1>4, <1>5 DEF RuntimeNext

----------------------------------------------------------------------------
(* The slots of the limiter, and the places in flight. *)

Distinct(s) == \A i, j \in DOMAIN s : s[i] = s[j] => i = j

\* Every waiter of the queue waits once, and nobody waits while a slot is free.
Slots ==
    /\ Cardinality(Active) <= Concurrency
    /\ queue # <<>> => Cardinality(Active) = Concurrency
    /\ ToSet(queue) = {l \in Lanes : at[l] = "queued"}
    /\ Distinct(queue)
    /\ admission # "open" => queue = <<>>

\* Every place given out has settled or belongs to one call in flight.
Flight ==
    /\ \A l \in InFlight : call[l].order \in 0..(orders - 1) /\ call[l].order \notin DOMAIN settled
    /\ \A l, m \in InFlight : call[l].order = call[m].order => l = m
    /\ \A n \in 0..(orders - 1) : n \in DOMAIN settled \/ \E l \in InFlight : call[l].order = n
    /\ admission = "closed" => InFlight = {}

ActiveAt(p) == p \in {"running", "returned"}
FlyingAt(p) == p \in {"queued", "running", "returned", "left"}

LEMMA ActiveFinite ==
    /\ IsFiniteSet(Active) /\ Cardinality(Active) \in Nat
    /\ \A S : S \subseteq Lanes => IsFiniteSet(S) /\ Cardinality(S) \in Nat
<1>1. IsFiniteSet(Lanes)
    BY RuntimeAssumption, FS_Interval DEF Lanes
<1>2. \A S : S \subseteq Lanes => IsFiniteSet(S) /\ Cardinality(S) \in Nat
    BY <1>1, FS_Subset, FS_CardinalityType
<1>3. Active \subseteq Lanes
    BY DEF Active
<1> QED BY <1>2, <1>3

\* What a queue loses with its head, and gains with a new last element.
LEMMA QueueHead ==
    ASSUME NEW S, NEW q \in Seq(S), q # <<>>, Distinct(q)
    PROVE  /\ Head(q) \in S /\ Tail(q) \in Seq(S) /\ Distinct(Tail(q))
           /\ Head(q) \in ToSet(q)
           /\ ToSet(Tail(q)) = ToSet(q) \ {Head(q)}
<1>1. /\ Head(q) \in S /\ Tail(q) \in Seq(S) /\ Len(Tail(q)) = Len(q) - 1
      /\ \A i \in 1..Len(Tail(q)) : Tail(q)[i] = q[i + 1]
    BY HeadTailProperties
<1>2. /\ Len(q) \in Nat /\ Len(q) > 0 /\ DOMAIN q = 1..Len(q) /\ DOMAIN Tail(q) = 1..(Len(q) - 1)
      /\ Head(q) = q[1]
    BY <1>1, LenProperties, EmptySeq
<1>3. Distinct(Tail(q))
    BY <1>1, <1>2 DEF Distinct
<1>4. \A x \in ToSet(Tail(q)) : x \in ToSet(q) \ {Head(q)}
    BY <1>1, <1>2 DEF ToSet, Distinct
<1>5. \A x \in ToSet(q) \ {Head(q)} : x \in ToSet(Tail(q))
    <2> SUFFICES ASSUME NEW i \in 1..Len(q), q[i] # q[1] PROVE q[i] \in ToSet(Tail(q))
        BY <1>2 DEF ToSet
    <2>1. i - 1 \in DOMAIN Tail(q) /\ Tail(q)[i - 1] = q[i]
        BY <1>1, <1>2
    <2> QED BY <2>1 DEF ToSet
<1>6. Head(q) \in ToSet(q)
    <2>1. 1 \in DOMAIN q /\ q[1] = Head(q)
        BY <1>2
    <2> QED BY <2>1 DEF ToSet
<1>7. ToSet(Tail(q)) = ToSet(q) \ {Head(q)}
    BY <1>4, <1>5
<1> QED BY <1>1, <1>3, <1>6, <1>7

LEMMA QueueAppend ==
    ASSUME NEW S, NEW q \in Seq(S), NEW x \in S, Distinct(q), x \notin ToSet(q)
    PROVE  /\ Append(q, x) # <<>> /\ Distinct(Append(q, x))
           /\ ToSet(Append(q, x)) = ToSet(q) \union {x}
<1>1. /\ Append(q, x) \in Seq(S) /\ Append(q, x) # <<>> /\ Len(Append(q, x)) = Len(q) + 1
      /\ \A i \in 1..Len(q) : Append(q, x)[i] = q[i]
      /\ Append(q, x)[Len(q) + 1] = x
    BY AppendProperties
<1>2. Len(q) \in Nat /\ DOMAIN q = 1..Len(q) /\ DOMAIN Append(q, x) = 1..(Len(q) + 1)
    BY <1>1, LenProperties
<1>3. Distinct(Append(q, x))
    BY <1>1, <1>2 DEF Distinct, ToSet
<1>4. ToSet(Append(q, x)) = ToSet(q) \union {x}
    BY <1>1, <1>2 DEF ToSet
<1> QED BY <1>1, <1>3, <1>4

\* A step of one lane that neither takes nor leaves a slot, and no place in the queue.
LEMMA IdleSlots ==
    ASSUME Types, Slots, NEW l \in Lanes, NEW p \in Places, at' = [at EXCEPT ![l] = p],
           ActiveAt(p) <=> ActiveAt(at[l]), p # "queued", at[l] # "queued",
           queue' = queue, admission' = admission
    PROVE  Slots'
<1>1. Active' = Active
    BY DEF Active, ActiveAt, Types
<1>2. {m \in Lanes : at'[m] = "queued"} = {m \in Lanes : at[m] = "queued"}
    BY DEF Types
<1> QED BY <1>1, <1>2 DEF Slots

LEMMA GoSlots ==
    ASSUME Types, Slots, NEW l \in Lanes, Go(l)
    PROVE  Slots'
<1>1. at[l] = "ready" /\ admission = "open" /\ admission' = admission
    BY DEF Go, Started, MayStart, fateVars
<1>2. Cardinality(Active) \in Nat /\ IsFiniteSet(Active) /\ Concurrency \in Nat
    BY ActiveFinite, RuntimeAssumption
<1>3. CASE Cardinality(Active) < Concurrency
    <2>1. at' = [at EXCEPT ![l] = "running"] /\ queue' = queue
        BY <1>3 DEF Go
    <2>2. Active' = Active \union {l} /\ l \notin Active
        BY <1>1, <2>1 DEF Active, Types
    <2>3. Cardinality(Active') = Cardinality(Active) + 1
        BY <1>2, <2>2, FS_AddElement
    <2>4. {m \in Lanes : at'[m] = "queued"} = {m \in Lanes : at[m] = "queued"}
        BY <1>1, <2>1 DEF Types
    <2>5. queue = <<>>
        BY <1>2, <1>3 DEF Slots
    <2> QED BY <1>1, <1>2, <1>3, <2>1, <2>3, <2>4, <2>5 DEF Slots
<1>4. CASE ~(Cardinality(Active) < Concurrency)
    <2>1. at' = [at EXCEPT ![l] = "queued"] /\ queue' = Append(queue, l)
        BY <1>4 DEF Go
    <2>2. Active' = Active
        BY <1>1, <2>1 DEF Active, Types
    <2>3. {m \in Lanes : at'[m] = "queued"} = {m \in Lanes : at[m] = "queued"} \union {l}
        BY <1>1, <2>1 DEF Types
    <2>4. l \notin ToSet(queue) /\ queue \in Seq(Lanes)
        BY <1>1 DEF Slots, Types
    <2>5. /\ queue' # <<>> /\ Distinct(queue')
          /\ ToSet(queue') = ToSet(queue) \union {l}
        BY <2>1, <2>4, QueueAppend DEF Slots
    <2> QED BY <1>1, <1>2, <1>4, <2>2, <2>3, <2>5 DEF Slots
<1> QED BY <1>3, <1>4

LEMMA LeaveSlots ==
    ASSUME Types, Slots, NEW l \in Lanes, Leave(l)
    PROVE  Slots'
<1>1. at[l] = "returned" /\ admission' = admission /\ l \in Active
    BY DEF Leave, fateVars, Active
<1>2. Cardinality(Active) \in Nat /\ IsFiniteSet(Active) /\ Concurrency \in Nat
    BY ActiveFinite, RuntimeAssumption
<1>3. Cardinality(Active \ {l}) = Cardinality(Active) - 1 /\ IsFiniteSet(Active \ {l})
    BY <1>1, <1>2, FS_RemoveElement
<1>4. CASE admission = "open" /\ queue # <<>> /\ Cardinality(Active) <= Concurrency
    <2> DEFINE next == Head(queue)
    <2>1. /\ next \in Lanes /\ Distinct(Tail(queue)) /\ at[next] = "queued"
          /\ ToSet(Tail(queue)) = {m \in Lanes : at[m] = "queued"} \ {next}
        BY <1>4, QueueHead DEF Slots, Types
    <2>2. PICK p \in {"returned", "running"} :
              at' = [at EXCEPT ![l] = "left", ![next] = p] /\ queue' = Tail(queue)
        BY <1>4 DEF Leave
    <2> HIDE DEF next
    <2>3. next # l /\ next \notin Active
        BY <1>1, <2>1 DEF Active
    <2>4. Active' = (Active \ {l}) \union {next}
        BY <1>1, <2>1, <2>2, <2>3 DEF Active, Types
    <2>5. Cardinality(Active') = Cardinality(Active)
        <3>1. next \notin Active \ {l}
            BY <2>3
        <3>2. Cardinality((Active \ {l}) \union {next}) = Cardinality(Active \ {l}) + 1
            BY <1>3, <3>1, FS_AddElement
        <3> QED BY <1>2, <1>3, <2>4, <3>2
    <2>6. {m \in Lanes : at'[m] = "queued"} = {m \in Lanes : at[m] = "queued"} \ {next}
        BY <1>1, <2>1, <2>2, <2>3 DEF Types
    <2>7. Cardinality(Active) = Concurrency
        BY <1>4 DEF Slots
    <2> QED BY <1>1, <1>4, <2>1, <2>2, <2>5, <2>6, <2>7, <1>2 DEF Slots
<1>5. CASE ~(admission = "open" /\ queue # <<>> /\ Cardinality(Active) <= Concurrency)
    <2>1. at' = [at EXCEPT ![l] = "left"] /\ queue' = queue /\ queue = <<>>
        BY <1>5 DEF Leave, Slots
    <2>2. Active' = Active \ {l}
        BY <1>1, <2>1 DEF Active, Types
    <2>3. {m \in Lanes : at'[m] = "queued"} = {m \in Lanes : at[m] = "queued"}
        BY <1>1, <2>1 DEF Types
    <2> QED BY <1>1, <1>2, <1>3, <2>1, <2>2, <2>3 DEF Slots
<1> QED BY <1>4, <1>5

LEMMA EndSlots ==
    ASSUME Types, Slots, Interrupt \/ Escape \/ Complete \/ Drained \/ Resume
    PROVE  Slots'
<1>1. Distinct(<<>>) /\ ToSet(<<>>) = {}
    BY DEF Distinct, ToSet
<1>2. CASE Interrupt \/ Escape
    <2>1. queue' = <<>> /\ at' = [l \in Lanes |-> IF at[l] = "queued" THEN "left" ELSE at[l]]
        BY <1>2 DEF Interrupt, Escape, Abort
    <2>2. Active' = Active
        BY <2>1 DEF Active, Types
    <2>3. {m \in Lanes : at'[m] = "queued"} = {}
        BY <2>1
    <2> QED BY <1>1, <2>1, <2>2, <2>3 DEF Slots
<1>3. CASE Complete
    <2>1. \A l \in Lanes : at[l] = "settled"
        BY <1>3 DEF Complete, LaneDone
    <2>2. ToSet(queue) = {}
        BY <2>1 DEF Slots
    <2>3. queue = <<>>
        <3>1. queue \in Seq(Lanes)
            BY DEF Types
        <3>2. queue # <<>> => Head(queue) \in ToSet(queue)
            BY <3>1, QueueHead DEF Slots
        <3> QED BY <2>2, <3>2
    <2> QED BY <1>3, <2>3 DEF Complete, Slots, Active
<1>4. CASE Drained
    BY <1>4 DEF Drained, Slots, Active
<1>5. CASE Resume
    <2>1. Active' = {} /\ queue' = <<>> /\ {m \in Lanes : at'[m] = "queued"} = {}
        BY <1>5 DEF Resume, Active
    <2>2. Cardinality(Active') = 0
        BY <2>1, FS_EmptySet
    <2> QED BY <1>1, <2>1, <2>2, RuntimeAssumption DEF Slots
<1> QED BY <1>2, <1>3, <1>4, <1>5

LEMMA NextSlots == Types /\ Slots /\ [RuntimeNext]_runtimeVars => Slots'
<1> SUFFICES ASSUME Types, Slots, [RuntimeNext]_runtimeVars PROVE Slots'
    OBVIOUS
<1>1. CASE UNCHANGED runtimeVars
    BY <1>1 DEF runtimeVars, Slots, Active
<1>2. ASSUME NEW l \in Lanes, LaneStep(l) PROVE Slots'
    <2>1. CASE StartNested(l)
        BY <2>1 DEF StartNested, fateVars, Slots, Active
    <2>2. CASE Replay(l) \/ Ask(l) \/ Breach(l)
        BY <2>2, IdleSlots DEF Replay, Ask, Breach, Started, MayStart, ActiveAt, Places, fateVars
    <2>3. CASE Go(l)
        BY <2>3, GoSlots
    <2>4. CASE (\E r \in Results : Finish(l, r)) \/ Exhaust(l) \/ Throw(l)
        BY <2>4, IdleSlots DEF Finish, Exhaust, Throw, RunsOn, Returns, ActiveAt, Places, fateVars
    <2>5. CASE (\E r \in Results : Answer(l, r)) \/ Settle(l) \/ Advance(l)
        BY <2>5, IdleSlots DEF Answer, Settle, Advance, ActiveAt, Places, fateVars
    <2>6. CASE Leave(l)
        BY <2>6, LeaveSlots
    <2> QED BY <1>2, <2>1, <2>2, <2>3, <2>4, <2>5, <2>6 DEF LaneStep
<1>3. CASE Interrupt \/ Escape \/ Complete \/ Drained \/ Resume
    BY <1>3, EndSlots
<1> QED BY <1>1, <1>2, <1>3 DEF RuntimeNext

----------------------------------------------------------------------------
(* Places in flight. *)

\* A step that gives out no place and settles none.
LEMMA QuietFlight ==
    ASSUME Commits, Flight, UNCHANGED <<orders, nextOrder, pending, store, settled>>,
           InFlight' = InFlight, \A l \in InFlight : call'[l].order = call[l].order,
           admission' = admission \/ admission' # "closed" \/ InFlight = {}
    PROVE  Commits' /\ Flight'
<1>1. Commits'
    BY DEF Commits
<1>2. Flight'
    BY DEF Flight
<1> QED BY <1>1, <1>2

LEMMA GoFlight ==
    ASSUME Types, Commits, Flight, NEW l \in Lanes, Go(l)
    PROVE  Commits' /\ Flight'
<1>1. /\ UNCHANGED <<nextOrder, pending, store, settled, admission>> /\ orders' = orders + 1
      /\ at[l] = "ready" /\ at' \in {[at EXCEPT ![l] = "running"], [at EXCEPT ![l] = "queued"]}
      /\ admission = "open"
    BY DEF Go, Started, MayStart, fateVars, commitVars
<1>2. call'[l].order = orders /\ \A m \in Lanes : m # l => call'[m] = call[m]
    BY DEF Go, Started, NoCall, Types
<1>3. InFlight' = InFlight \union {l} /\ l \notin InFlight /\ InFlight \subseteq Lanes
    BY <1>1 DEF InFlight, Types
<1>4. Commits'
    BY <1>1 DEF Commits
<1>5. orders \in Nat /\ orders \notin DOMAIN settled
    BY DEF Commits
<1>6. \A m \in InFlight' :
          call'[m].order \in 0..(orders' - 1) /\ call'[m].order \notin DOMAIN settled'
    BY <1>1, <1>2, <1>3, <1>5 DEF Flight
<1>7. \A m, n \in InFlight' : call'[m].order = call'[n].order => m = n
    <2>1. \A m \in InFlight : call'[m].order = call[m].order /\ call[m].order # orders
        BY <1>2, <1>3, <1>5 DEF Flight
    <2> QED BY <2>1, <1>2, <1>3 DEF Flight
<1>8. \A n \in 0..(orders' - 1) :
          n \in DOMAIN settled' \/ \E m \in InFlight' : call'[m].order = n
    <2>1. \A n \in 0..(orders' - 1) : n = orders \/ n \in 0..(orders - 1)
        BY <1>1, <1>5
    <2>2. \A m \in InFlight : m \in InFlight' /\ call'[m].order = call[m].order
        BY <1>2, <1>3
    <2> QED BY <1>1, <1>2, <1>3, <2>1, <2>2 DEF Flight
<1> QED BY <1>1, <1>4, <1>6, <1>7, <1>8 DEF Flight

LEMMA ReplayFlight ==
    ASSUME Types, Commits, Flight, NEW l \in Lanes, Replay(l)
    PROVE  Commits' /\ Flight'
<1>1. /\ at[l] = "ready" /\ at' = [at EXCEPT ![l] = "settled"]
      /\ admission' = admission /\ admission = "open"
    BY DEF Replay, Started, MayStart, fateVars
<1>2. \A m \in Lanes : m # l => call'[m] = call[m]
    BY DEF Replay, Started, Types
<1>3. InFlight' = InFlight /\ l \notin InFlight /\ InFlight \subseteq Lanes
    BY <1>1 DEF InFlight, Types
<1>4. CASE IsAsk(l)
    BY <1>1, <1>2, <1>3, <1>4, QuietFlight DEF Replay, commitVars
<1>5. CASE ~IsAsk(l)
    <2>1. PICK delta : SettleStoreDelta(orders, delta)
        BY <1>5 DEF Replay
    <2>2. orders' = orders + 1
        BY <1>5 DEF Replay
    <2>3. orders \in Nat /\ orders \in 0..orders /\ orders \notin DOMAIN settled
        BY DEF Commits
    <2>4. Commits' /\ DOMAIN settled' = DOMAIN settled \union {orders}
        <3>1. orders' \in {orders, orders + 1} /\ orders < orders'
            BY <2>2, <2>3
        <3> QED BY <2>1, <2>3, <3>1, SettleCommits
    <2>5. \A m \in InFlight : call'[m] = call[m] /\ call[m].order \in 0..(orders - 1)
        BY <1>2, <1>3 DEF Flight
    <2>6. \A m \in InFlight' :
              call'[m].order \in 0..(orders' - 1) /\ call'[m].order \notin DOMAIN settled'
        BY <1>3, <2>2, <2>3, <2>4, <2>5 DEF Flight
    <2>7. \A n \in 0..(orders' - 1) :
              n \in DOMAIN settled' \/ \E m \in InFlight' : call'[m].order = n
        <3>1. \A n \in 0..(orders' - 1) : n = orders \/ n \in 0..(orders - 1)
            BY <2>2, <2>3
        <3> QED BY <1>3, <2>4, <2>5, <3>1 DEF Flight
    <2> QED BY <1>1, <1>3, <2>4, <2>5, <2>6, <2>7 DEF Flight
<1> QED BY <1>4, <1>5

LEMMA SettleFlight ==
    ASSUME Types, Commits, Flight, NEW l \in Lanes, Settle(l)
    PROVE  Commits' /\ Flight'
<1> DEFINE order == call[l].order
<1>1. /\ at[l] = "left" /\ SettleStoreDelta(order, call[l].delta)
      /\ UNCHANGED <<call, orders, admission>>
    BY DEF Settle, frameVars
<1>2. /\ InFlight' = InFlight \ {l} /\ l \in InFlight
    BY DEF Settle, InFlight, Types
<1>3. order \in 0..(orders - 1) /\ order \notin DOMAIN settled
    BY <1>2 DEF Flight
<1> HIDE DEF order
<1>4. Commits' /\ DOMAIN settled' = DOMAIN settled \union {order}
    <2>1. order \in 0..orders /\ order < orders' /\ orders' \in {orders, orders + 1}
        BY <1>1, <1>3 DEF Commits
    <2> QED BY <1>1, <1>3, <2>1, SettleCommits
<1>5. \A m \in InFlight' : m \in InFlight /\ call'[m].order = call[m].order /\ call[m].order # order
    BY <1>1, <1>2 DEF Flight, order
<1>6. \A n \in 0..(orders - 1) : n \in DOMAIN settled' \/ \E m \in InFlight' : call[m].order = n
    BY <1>2, <1>4 DEF Flight, order
<1> QED BY <1>1, <1>2, <1>4, <1>5, <1>6 DEF Flight

LEMMA AbortFlight ==
    ASSUME Types, Commits, Flight, Abort
    PROVE  Commits' /\ Flight'
<1>1. InFlight' = InFlight /\ InFlight \subseteq Lanes
    BY DEF Abort, InFlight, Types
<1>2. \A l \in Lanes : call'[l].order = call[l].order
    BY DEF Abort, Types, CallRecords
<1>3. UNCHANGED <<orders, nextOrder, pending, store, settled>> /\ admission' = "closing"
    BY DEF Abort, frameVars, commitVars
<1> QED BY <1>1, <1>2, <1>3, QuietFlight

LEMMA ResumeFlight ==
    ASSUME Resume
    PROVE  Commits' /\ Flight'
<1>1. /\ orders' = 0 /\ nextOrder' = 0 /\ pending' = <<>> /\ settled' = <<>>
      /\ store' = EmptyContent /\ admission' = "open" /\ at' = [l \in Lanes |-> "ready"]
    BY DEF Resume
<1>2. InFlight' = {}
    BY <1>1 DEF InFlight
<1>3. AppliedFrom(EmptyContent, settled', 0, 0) = EmptyContent
    BY AppliedNone
<1>4. Commits'
    BY <1>1, <1>3 DEF Commits
<1> QED BY <1>1, <1>2, <1>4 DEF Flight

LEMMA NextFlight ==
    Types /\ Slots /\ Commits /\ Flight /\ [RuntimeNext]_runtimeVars => Commits' /\ Flight'
<1> SUFFICES ASSUME Types, Slots, Commits, Flight, [RuntimeNext]_runtimeVars PROVE Commits' /\ Flight'
    OBVIOUS
<1>0. InFlight \subseteq Lanes
    BY DEF InFlight
<1>1. CASE UNCHANGED runtimeVars
    BY <1>1, QuietFlight DEF runtimeVars, InFlight
<1>2. ASSUME NEW l \in Lanes, LaneStep(l) PROVE Commits' /\ Flight'
    <2>1. CASE StartNested(l)
        BY <2>1, QuietFlight DEF StartNested, fateVars, commitVars, InFlight
    <2>2. CASE Ask(l) \/ Breach(l)
        <3>1. /\ UNCHANGED <<orders, nextOrder, pending, store, settled, admission>>
              /\ \A m \in Lanes : m # l => call'[m] = call[m]
              /\ at[l] = "ready" /\ at' \in {[at EXCEPT ![l] = "asking"], [at EXCEPT ![l] = "failed"]}
            BY <2>2 DEF Ask, Breach, Started, MayStart, fateVars, commitVars, Types
        <3>2. InFlight' = InFlight /\ l \notin InFlight
            BY <3>1 DEF InFlight, Types
        <3> QED BY <1>0, <3>1, <3>2, QuietFlight
    <2>3. CASE Replay(l)
        BY <2>3, ReplayFlight
    <2>4. CASE Go(l)
        BY <2>4, GoFlight
    <2>5. CASE (\E r \in Results : Finish(l, r)) \/ Exhaust(l) \/ Throw(l)
        <3>1. /\ UNCHANGED <<orders, nextOrder, pending, store, settled, admission>>
              /\ at[l] = "running" /\ at' = [at EXCEPT ![l] = "returned"]
            BY <2>5 DEF Finish, Exhaust, Throw, RunsOn, Returns, fateVars, frameVars, commitVars
        <3>2. PICK r, d : call' = [call EXCEPT ![l].result = r, ![l].delta = d]
            BY <2>5 DEF Finish, Exhaust, Throw, Returns
        <3>3. \A m \in Lanes : call'[m].order = call[m].order
            BY <3>2 DEF Types, CallRecords
        <3>4. InFlight' = InFlight
            BY <3>1 DEF InFlight, Types
        <3> QED BY <1>0, <3>1, <3>3, <3>4, QuietFlight
    <2>6. CASE \E r \in Results : Answer(l, r)
        <3>1. /\ UNCHANGED <<orders, nextOrder, pending, store, settled, admission>>
              /\ at[l] = "asking" /\ at' = [at EXCEPT ![l] = "settled"]
              /\ \A m \in Lanes : m # l => call'[m] = call[m]
            BY <2>6 DEF Answer, fateVars, frameVars, commitVars, Types
        <3>2. InFlight' = InFlight /\ l \notin InFlight
            BY <3>1 DEF InFlight, Types
        <3> QED BY <1>0, <3>1, <3>2, QuietFlight
    <2>7. CASE Leave(l)
        <3>1. UNCHANGED <<orders, nextOrder, pending, store, settled, admission>> /\ at[l] = "returned"
            BY <2>7 DEF Leave, fateVars, frameVars, commitVars
        <3>2. CASE admission = "open" /\ queue # <<>> /\ Cardinality(Active) <= Concurrency
            <4> DEFINE next == Head(queue)
            <4>1. at[next] = "queued" /\ next \in Lanes
                BY <3>2, QueueHead DEF Types, Slots
            <4> DEFINE p == IF aborted \/ cancelled THEN "returned" ELSE "running"
            <4>2. /\ p \in {"returned", "running"}
                  /\ at' = [at EXCEPT ![l] = "left", ![next] = p]
                  /\ call' = [call EXCEPT ![next].result = IF aborted \/ cancelled THEN "throw" ELSE @]
                BY <2>7, <3>2 DEF Leave
            <4> HIDE DEF p
            <4> HIDE DEF next
            <4>3. InFlight' = InFlight
                BY <3>1, <4>1, <4>2 DEF InFlight, Types
            <4>4. \A m \in Lanes : call'[m].order = call[m].order
                BY <4>1, <4>2 DEF Types, CallRecords
            <4> QED BY <1>0, <3>1, <4>3, <4>4, QuietFlight
        <3>3. CASE ~(admission = "open" /\ queue # <<>> /\ Cardinality(Active) <= Concurrency)
            <4>1. at' = [at EXCEPT ![l] = "left"] /\ call' = call
                BY <2>7, <3>3 DEF Leave
            <4>2. InFlight' = InFlight
                BY <3>1, <4>1 DEF InFlight, Types
            <4> QED BY <1>0, <3>1, <4>1, <4>2, QuietFlight
        <3> QED BY <3>2, <3>3
    <2>8. CASE Settle(l)
        BY <2>8, SettleFlight
    <2>9. CASE Advance(l)
        <3>1. /\ UNCHANGED <<orders, nextOrder, pending, store, settled, admission, call>>
              /\ at[l] = "settled" /\ at' = [at EXCEPT ![l] = "ready"]
            BY <2>9 DEF Advance, fateVars, frameVars, commitVars
        <3>2. InFlight' = InFlight
            BY <3>1 DEF InFlight, Types
        <3> QED BY <1>0, <3>1, <3>2, QuietFlight
    <2> QED BY <1>2, <2>1, <2>2, <2>3, <2>4, <2>5, <2>6, <2>7, <2>8, <2>9 DEF LaneStep
<1>3. CASE Interrupt \/ Escape
    BY <1>3, AbortFlight DEF Interrupt, Escape
<1>4. CASE Complete \/ Drained
    BY <1>4, QuietFlight DEF Complete, Drained, frameVars, commitVars, InFlight
<1>5. CASE Resume
    BY <1>5, ResumeFlight
<1> QED BY <1>1, <1>2, <1>3, <1>4, <1>5 DEF RuntimeNext

----------------------------------------------------------------------------
(* The theorems. *)

RuntimeInv == Types /\ Prefix /\ Slots /\ Commits /\ Flight

LEMMA InitRuntimeInv == RuntimeInit => RuntimeInv
<1> SUFFICES ASSUME RuntimeInit PROVE RuntimeInv
    OBVIOUS
<1>1. Types
    BY InitTypes
<1>2. Prefix
    BY FramesOfLanes DEF RuntimeInit, Prefix, ReplaysPrefix, Frames
<1>3. Slots
    <2>1. Active = {} /\ queue = <<>> /\ {m \in Lanes : at[m] = "queued"} = {}
        BY DEF RuntimeInit, Active
    <2>2. Cardinality(Active) = 0
        BY <2>1, FS_EmptySet
    <2>3. Distinct(<<>>) /\ ToSet(<<>>) = {}
        BY DEF Distinct, ToSet
    <2> QED BY <2>1, <2>2, <2>3, RuntimeAssumption DEF Slots
<1>4. /\ orders = 0 /\ nextOrder = 0 /\ pending = <<>> /\ settled = <<>>
      /\ store = EmptyContent /\ admission = "open" /\ InFlight = {}
    BY DEF RuntimeInit, InFlight
<1>5. AppliedFrom(EmptyContent, settled, 0, 0) = EmptyContent
    BY AppliedNone
<1>6. Commits
    BY <1>4, <1>5 DEF Commits
<1>7. Flight
    BY <1>4, <1>6 DEF Flight
<1> QED BY <1>1, <1>2, <1>3, <1>6, <1>7 DEF RuntimeInv

\* What an execution keeps to, with every step of it: places among the commits are
\* given out once, belong to a call in flight until they settle, and have all gone
\* into the store below the next (agent, settleStoreDelta); waiters of the limiter
\* stand in its queue once, and only while no slot is free (createLimiter); what ran
\* live lies behind the first miss of its frame (markResumeMiss).
THEOREM RuntimeInvariant == RuntimeSpec => []RuntimeInv
<1>1. RuntimeInit => RuntimeInv
    BY InitRuntimeInv
<1>2. RuntimeInv /\ [RuntimeNext]_runtimeVars => RuntimeInv'
    BY NextTypes, NextPrefix, NextSlots, NextFlight DEF RuntimeInv
<1> QED BY <1>1, <1>2, PTL DEF RuntimeSpec

\* A replayed call is one of an unbroken prefix of its frame, and of its parent's
\* before the nested workflow, for any script, edited or not (markResumeMiss).
THEOREM ReplayedArePrefix == RuntimeSpec => []ReplaysPrefix
<1>1. RuntimeInv => ReplaysPrefix
    BY DEF RuntimeInv, Prefix
<1> QED BY <1>1, RuntimeInvariant, PTL

\* The store is what the deltas make of it in the order of the calls, whatever order
\* their answers come in, and when an execution is over none is left behind
\* (settleStoreDelta).
THEOREM StoreInCallOrder == RuntimeSpec => []StoreFollowsCallOrder
<1>1. ASSUME Commits, Flight, admission = "closed" PROVE DOMAIN pending = {}
    <2>1. \A n \in 0..(orders - 1) : n \in DOMAIN settled
        BY <1>1 DEF Flight
    <2>2. nextOrder = orders
        <3>1. nextOrder \in 0..orders /\ nextOrder \notin DOMAIN settled /\ orders \in Nat
            BY <1>1 DEF Commits
        <3> QED BY <2>1, <3>1
    <2>3. (orders + 1)..(orders - 1) = {}
        BY <1>1 DEF Commits
    <2> QED BY <1>1, <2>2, <2>3 DEF Commits
<1>2. RuntimeInv => StoreFollowsCallOrder
    BY <1>1 DEF RuntimeInv, Commits, StoreFollowsCallOrder
<1> QED BY <1>2, RuntimeInvariant, PTL

\* A sequence without repetition is as long as its set of elements.
LEMMA DistinctLength ==
    ASSUME NEW S, NEW q \in Seq(S), Distinct(q)
    PROVE  Len(q) = Cardinality(ToSet(q))
<1> DEFINE f == [i \in 1..Len(q) |-> q[i]]
<1>1. Len(q) \in Nat /\ DOMAIN q = 1..Len(q)
    BY LenProperties
<1>2. IsFiniteSet(1..Len(q)) /\ Cardinality(1..Len(q)) = Len(q)
    BY <1>1, FS_Interval
<1>3. f \in Bijection(1..Len(q), ToSet(q))
    <2>1. f \in [1..Len(q) -> ToSet(q)]
        BY <1>1 DEF ToSet
    <2>2. \A i, j \in 1..Len(q) : f[i] = f[j] => i = j
        BY <1>1 DEF Distinct
    <2>3. \A x \in ToSet(q) : \E i \in 1..Len(q) : f[i] = x
        BY <1>1 DEF ToSet
    <2> QED BY <2>1, <2>2, <2>3 DEF Bijection, Injection, Surjection, IsInjective
<1>4. ExistsBijection(1..Len(q), ToSet(q))
    BY <1>3 DEF ExistsBijection
<1> QED BY <1>2, <1>4, FS_Bijection

\* No slot of the limiter is idle while a call waits, and none is given twice, also when
\* a waiter turns back as soon as it is called (createLimiter).
THEOREM SlotsAreInUse == RuntimeSpec => []SlotsInUse
<1>1. RuntimeInv => SlotsInUse
    BY DistinctLength DEF RuntimeInv, Types, Slots, SlotsInUse
<1> QED BY <1>1, RuntimeInvariant, PTL
================================================================================
