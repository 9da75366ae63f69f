------------------------------- MODULE TeamProofs -------------------------------
(* Theorems about the team of a run (AgentTeam) and what its agents spend             *)
(* (TokenAccounts), for any number of members, calls and tasks, any quota, any number *)
(* of tries and any sizes.                                                           *)
EXTENDS AgentTeam, TokenAccounts, FiniteSetTheorems, SequenceTheorems, TLAPS

----------------------------------------------------------------------------
(* Sums counted as sets. *)

LEMMA ColumnCount ==
    ASSUME NEW x, NEW n \in Nat
    PROVE  IsFiniteSet({x} \X (1 .. n)) /\ Cardinality({x} \X (1 .. n)) = n
<1> DEFINE X == {x}
           N == 1 .. n
<1>1. IsFiniteSet(X) /\ Cardinality(X) = 1
    BY FS_Singleton
<1>2. IsFiniteSet(N) /\ Cardinality(N) = n
    BY FS_Interval
<1> SUFFICES IsFiniteSet(X \X N) /\ Cardinality(X \X N) = n
    OBVIOUS
<1> HIDE DEF X, N
<1>3. IsFiniteSet(X \X N) /\ Cardinality(X \X N) = Cardinality(X) * Cardinality(N)
    BY <1>1, <1>2, FS_Product
<1> QED BY <1>1, <1>2, <1>3

LEMMA UnitIs ==
    ASSUME NEW f, NEW S, NEW u
    PROVE  u \in Units(f, S) <=> \E x \in S : \E i \in 1 .. f[x] : u = <<x, i>>
BY DEF Units

LEMMA UnitsFinite ==
    ASSUME NEW S, IsFiniteSet(S), NEW f, \A x \in S : f[x] \in Nat
    PROVE  IsFiniteSet(Units(f, S)) /\ Total(f, S) \in Nat
<1> DEFINE Columns == {{x} \X (1 .. f[x]) : x \in S}
           column == [x \in S |-> {x} \X (1 .. f[x])]
<1>1. column \in Surjection(S, Columns)
    BY DEF Surjection
<1>2. IsFiniteSet(Columns)
    <2> HIDE DEF column, Columns
    <2> QED BY <1>1, FS_Surjection
<1>3. \A C \in Columns : IsFiniteSet(C)
    <2> SUFFICES ASSUME NEW x \in S PROVE IsFiniteSet({x} \X (1 .. f[x]))
        OBVIOUS
    <2> QED BY ColumnCount
<1>4. IsFiniteSet(UNION Columns)
    <2> HIDE DEF Columns
    <2> QED BY <1>2, <1>3, FS_UNION
<1> QED BY <1>4, FS_CardinalityType DEF Units, Total

LEMMA TotalEmpty ==
    ASSUME NEW f
    PROVE  Total(f, {}) = 0
<1>1. Units(f, {}) = {}
    BY DEF Units
<1> QED BY <1>1, FS_EmptySet DEF Total

LEMMA TotalZero ==
    ASSUME NEW S, NEW f, \A x \in S : f[x] = 0
    PROVE  Total(f, S) = 0
<1>1. Units(f, S) = {}
    BY DEF Units
<1> QED BY <1>1, FS_EmptySet DEF Total

LEMMA TotalSame ==
    ASSUME NEW S, NEW f, NEW g, \A x \in S : f[x] = g[x]
    PROVE  Units(f, S) = Units(g, S) /\ Total(f, S) = Total(g, S)
<1>1. \A u : u \in Units(f, S) <=> u \in Units(g, S)
    BY UnitIs
<1> QED BY <1>1 DEF Total

\* One element more.
LEMMA TotalWith ==
    ASSUME NEW S, IsFiniteSet(S), NEW y, y \notin S,
           NEW f, \A x \in S \cup {y} : f[x] \in Nat
    PROVE  Total(f, S \cup {y}) = Total(f, S) + f[y]
<1> DEFINE C == {y} \X (1 .. f[y])
<1>1. IsFiniteSet(C) /\ Cardinality(C) = f[y]
    BY ColumnCount
<1>2. Units(f, S \cup {y}) = Units(f, S) \cup C
    BY DEF Units
<1>3. Units(f, S) \cap C = {}
    BY UnitIs
<1>4. IsFiniteSet(Units(f, S)) /\ Total(f, S) \in Nat
    BY UnitsFinite
<1> HIDE DEF C
<1>5. Cardinality(Units(f, S) \cup C) = Cardinality(Units(f, S)) + Cardinality(C) - Cardinality({})
    BY <1>1, <1>3, <1>4, FS_Union
<1>6. Cardinality(Units(f, S) \cup C) = Cardinality(Units(f, S)) + f[y]
    BY <1>1, <1>4, <1>5, FS_EmptySet DEF Total
<1> QED BY <1>2, <1>6 DEF Total

LEMMA TotalWithout ==
    ASSUME NEW S, IsFiniteSet(S), NEW y \in S, NEW f, \A x \in S : f[x] \in Nat
    PROVE  /\ Total(f, S \ {y}) = Total(f, S) - f[y]
           /\ f[y] <= Total(f, S)
           /\ Total(f, S) \in Nat
<1>1. IsFiniteSet(S \ {y}) /\ (S \ {y}) \cup {y} = S
    BY FS_RemoveElement
<1>2. Total(f, S) = Total(f, S \ {y}) + f[y]
    BY <1>1, TotalWith
<1>3. Total(f, S \ {y}) \in Nat /\ Total(f, S) \in Nat
    BY <1>1, UnitsFinite
<1> QED BY <1>2, <1>3

----------------------------------------------------------------------------
(* AgentTeam *)

\* A call that has begun is made for a registered member; sessions and batches are of
\* calls that have begun; what is claimed is somebody's, what is absent nobody's.
Rostered ==
    /\ \A c \in TeamCalls : calls[c].at # "idle" => calls[c].member \in Registered
    /\ \A s \in sessions : calls[s.call].at # "idle"
    /\ IsFiniteSet(batches)
    /\ \A b \in batches : b.calls # {} /\ \A c \in b.calls : calls[c].at # "idle"
    /\ \A t \in Tasks : /\ board[t].status = "absent" => board[t].assignee = Nobody
                        /\ board[t].status = "claimed" => board[t].assignee \in Members

TeamInv == TeamTypeOK /\ Rostered /\ FailedMembersHoldNothing /\ ReservedIsHeld

\* The steps of a team by what they touch.
MailStep ==
    \/ \E s \in sessions : ReadInbox(s) \/ WaitForInbox(s)
    \/ \E m \in Members : \E i \in DOMAIN inboxWaiters[m] : WaitGivesUp(m, i)

BoardStep ==
    \/ \E T \in SUBSET Tasks, a \in Members \cup {Nobody} : AddTasks(T, a)
    \/ \E s \in sessions, t \in Tasks : ClaimTask(s, t) \/ CompleteTask(s, t)

QuietStep ==
    \/ PlainAgent \/ AbortTeamRun \/ CloseTeamAdmission
    \/ \E b \in batches : BatchSettles(b)

LEMMA TeamSteps ==
    ASSUME TeamNext
    PROVE  \/ \E c \in TeamCalls : CallStep(c)
           \/ \E s \in sessions : SessionReady(s) \/ SessionEnds(s)
           \/ \E to \in SUBSET Members : Post(to)
           \/ MailStep \/ BoardStep \/ QuietStep
           \/ \E S \in (SUBSET TeamCalls) \ {{}} : \E ids \in [S -> Members] : Spawn(ids)
<1>1. \A m \in Registered : {m} \in SUBSET Members
    BY DEF Registered
<1>2. \A m : Registered \in SUBSET Members /\ Registered \ {m} \in SUBSET Members
    BY DEF Registered
<1>3. ASSUME NEW s \in sessions, SessionStep(s)
      PROVE  \/ SessionReady(s) \/ SessionEnds(s)
             \/ \E to \in SUBSET Members : Post(to)
             \/ MailStep \/ BoardStep
    <2>1. CASE \E m \in Registered : MemberSends(s, m)
        BY <1>1, <2>1 DEF MemberSends
    <2>2. CASE MemberBroadcasts(s)
        BY <1>2, <2>2 DEF MemberBroadcasts
    <2>3. CASE \E t \in Tasks : MemberAddsTask(s, t)
        <3>1. PICK t \in Tasks : AddTasks({t}, Nobody)
            BY <2>3 DEF MemberAddsTask
        <3>2. {t} \in SUBSET Tasks /\ Nobody \in Members \cup {Nobody}
            OBVIOUS
        <3> QED BY <3>1, <3>2 DEF BoardStep
    <2> QED BY <1>3, <2>1, <2>2, <2>3 DEF SessionStep, MailStep, BoardStep
<1>4. ASSUME RunStepOfTeam
      PROVE  \/ \E to \in SUBSET Members : Post(to)
             \/ MailStep \/ BoardStep \/ QuietStep
             \/ \E S \in (SUBSET TeamCalls) \ {{}} : \E ids \in [S -> Members] : Spawn(ids)
    <2>1. CASE WorkflowBroadcasts
        BY <1>2, <2>1 DEF WorkflowBroadcasts
    <2>2. CASE \E m \in Registered : WorkflowSends(m)
        BY <1>1, <2>2 DEF WorkflowSends
    <2> QED BY <1>4, <2>1, <2>2 DEF RunStepOfTeam, MailStep, BoardStep, QuietStep
<1> QED BY <1>3, <1>4 DEF TeamNext

LEMMA TeamInitTypes == TeamInit => TeamTypeOK
<1> SUFFICES ASSUME TeamInit PROVE TeamTypeOK
    OBVIOUS
<1>1. Cardinality(Foreign) \in Nat
    BY FS_Subset, FS_CardinalityType, TeamAssumption
<1>2. \A m \in Members : <<>> \in Seq([call: TeamCalls, gen: Nat])
    OBVIOUS
<1> QED BY <1>1, <1>2 DEF TeamInit, TeamTypeOK, Quotas

LEMMA SpawnTypes ==
    ASSUME TeamTypeOK, NEW S \in SUBSET TeamCalls, NEW ids \in [S -> Members], Spawn(ids)
    PROVE  TeamTypeOK'
<1>1. /\ IsFiniteSet(NewMembers(ids)) /\ IsFiniteSet(DOMAIN ids)
      /\ NewMembers(ids) \subseteq Members /\ DOMAIN ids = S
    BY TeamAssumption, FS_Subset DEF NewMembers, Range
<1>2. Cardinality(NewMembers(ids)) \in Nat /\ Cardinality(DOMAIN ids) \in Nat
    BY <1>1, FS_CardinalityType
<1>3. ASSUME NEW k \in Nat, NEW l \in Nat PROVE Less(k, l) \in Nat
    BY DEF Less
<1>4. ASSUME NEW k \in Nat, NEW l \in Nat PROVE Reserved(k, l) \in [Quotas -> Nat]
    <2>1. quota \in [Quotas -> Nat]
        BY DEF TeamTypeOK
    <2>2. quota["members"] + k \in Nat /\ quota["slots"] + l \in Nat
        BY <2>1 DEF Quotas
    <2> QED BY <2>1, <2>2 DEF Reserved, Quotas
<1>r. ASSUME NEW q \in [Quotas -> Nat], NEW k \in Nat, NEW l \in Nat
      PROVE  Returned(q, k, l) \in [Quotas -> Nat]
    <2>1. Less(q["members"], k) \in Nat /\ Less(q["slots"], l) \in Nat
        BY <1>3 DEF Quotas
    <2> QED BY <2>1 DEF Returned, Quotas
<1> USE DEF TeamTypeOK
<1>5. CASE SpawnTurnedDown(ids)
    <2> DEFINE news == Cardinality(NewMembers(ids))
               slots == Cardinality(DOMAIN ids)
    <2>1. /\ Returned(Reserved(news, 0), news, 0) \in [Quotas -> Nat]
          /\ Returned(Reserved(news, slots), news, slots) \in [Quotas -> Nat]
        BY <1>2, <1>4, <1>r
    <2>2. quota' \in [Quotas -> Nat]
        BY <1>5, <2>1 DEF SpawnTurnedDown
    <2> QED BY <1>5, <2>2 DEF Spawn, SpawnTurnedDown, rosterVars, mailVars, slotVars, lifeVars
<1>6. ASSUME NEW refused \in SUBSET DOMAIN ids, NEW oversized \in SUBSET (DOMAIN ids \ refused),
             SpawnAccepted(ids, refused, oversized)
      PROVE  TeamTypeOK'
    <2>1. IsFiniteSet(refused) /\ IsFiniteSet(DOMAIN ids \ refused)
        BY <1>1, FS_Subset
    <2>2. Cardinality(refused) \in Nat /\ Cardinality(DOMAIN ids \ refused) \in Nat
        BY <2>1, FS_CardinalityType
    <2>3. quota' \in [Quotas -> Nat]
        BY <1>2, <1>4, <1>6, <2>2 DEF SpawnAccepted
    <2>4. calls' \in [TeamCalls -> [at: {"idle", "queued", "begun", "live", "returned",
                                     "done", "failed", "rejected", "aborted"},
                                    member: Members \cup {Nobody}, try: Nat, gen: Nat]]
        <3> DEFINE Call == [at: {"idle", "queued", "begun", "live", "returned",
                                 "done", "failed", "rejected", "aborted"},
                            member: Members \cup {Nobody}, try: Nat, gen: Nat]
        <3>1. calls' = [c \in TeamCalls |->
                    IF c \notin DOMAIN ids THEN calls[c]
                    ELSE [calls[c] EXCEPT !.member = ids[c],
                              !.at = IF c \in refused \cup oversized THEN "rejected" ELSE "queued"]]
            BY <1>6 DEF SpawnAccepted
        <3>2. ASSUME NEW c \in DOMAIN ids, NEW how \in {"rejected", "queued"}
              PROVE  [calls[c] EXCEPT !.member = ids[c], !.at = how] \in Call
            <4>1. c \in TeamCalls /\ ids[c] \in Members
                BY <1>1
            <4>2. calls[c] \in Call
                BY <4>1
            <4> HIDE DEF TeamTypeOK
            <4> QED BY <4>1, <4>2
        <3>3. ASSUME NEW c \in TeamCalls PROVE calls[c] \in Call
            OBVIOUS
        <3> HIDE DEF Call, TeamTypeOK
        <3>4. ASSUME NEW c \in TeamCalls PROVE calls'[c] \in Call
            BY <3>1, <3>2, <3>3
        <3>5. calls' \in [TeamCalls -> Call]
            BY <3>1, <3>4
        <3> QED BY <3>5 DEF Call
    <2>5. \A b \in batches' : b \in [calls: SUBSET TeamCalls, left: Nat]
        <3>1. batches' = batches \cup {[calls |-> DOMAIN ids, left |-> Cardinality(refused)]}
            BY <1>6 DEF SpawnAccepted
        <3>2. [calls |-> DOMAIN ids, left |-> Cardinality(refused)] \in [calls: SUBSET TeamCalls, left: Nat]
            BY <1>1, <2>2
        <3> QED BY <3>1, <3>2
    <2>6. status' \in [Members -> {"absent", "registered", "running", "done", "failed", "aborted"}]
        BY <1>6 DEF SpawnAccepted
    <2>7. agentCount' \in Nat
        <3>1. agentCount' = agentCount + Cardinality(DOMAIN ids \ refused)
            BY <1>6 DEF SpawnAccepted
        <3> QED BY <2>2, <3>1
    <2>8. UNCHANGED <<gen, inbox, inboxWaiters, messageCount, board, sessions, admitting, abortedRun>>
        BY <1>6 DEF Spawn, SpawnAccepted, mailVars, lifeVars
    <2> QED BY <2>3, <2>4, <2>5, <2>6, <2>7, <2>8
<1> QED BY <1>5, <1>6 DEF Spawn

LEMMA CatchTypes ==
    ASSUME TeamTypeOK, Rostered, NEW c \in TeamCalls, calls[c].at # "idle",
           NEW r \in BOOLEAN, Catch(c, r)
    PROVE  /\ board' \in [Tasks -> [status: {"absent", "pending", "claimed", "completed"},
                            assignee: Members \cup {Nobody}, by: TeamCalls \cup {Nobody}]]
           /\ status' \in [Members -> {"absent", "registered", "running", "done", "failed", "aborted"}]
           /\ gen' \in [Members -> Nat]
           /\ calls' \in [TeamCalls -> [at: {"idle", "queued", "begun", "live", "returned",
                                     "done", "failed", "rejected", "aborted"},
                                member: Members \cup {Nobody}, try: Nat, gen: Nat]]
<1>1. calls[c].member \in Members
    BY DEF Rostered, Registered
<1>2. board' \in [Tasks -> [status: {"absent", "pending", "claimed", "completed"},
                            assignee: Members \cup {Nobody}, by: TeamCalls \cup {Nobody}]]
    BY DEF Catch, ReleaseClaims, TeamTypeOK
<1> DEFINE Call == [at: {"idle", "queued", "begun", "live", "returned",
                         "done", "failed", "rejected", "aborted"},
                    member: Members \cup {Nobody}, try: Nat, gen: Nat]
<1>t. calls \in [TeamCalls -> Call]
    BY DEF TeamTypeOK
<1>3. ASSUME NEW how \in {"aborted", "failed", "rejected"}
      PROVE  [calls EXCEPT ![c].at = how] \in [TeamCalls -> Call]
    BY <1>t
<1>4. CASE TakeGeneration(c)
    <2>1. gen[calls[c].member] + 1 \in Nat /\ calls[c].try + 1 \in Nat
        BY <1>1 DEF TeamTypeOK
    <2>2. [calls[c] EXCEPT !.at = "begun", !.try = @ + 1, !.gen = gen[calls[c].member] + 1] \in Call
        BY <1>t, <2>1
    <2>3. calls' = [calls EXCEPT ![c] = [calls[c] EXCEPT !.at = "begun", !.try = @ + 1,
                                                   !.gen = gen[calls[c].member] + 1]]
        BY <1>4, <1>t DEF TakeGeneration
    <2>4. calls' \in [TeamCalls -> Call]
        <3> HIDE DEF Call
        <3> QED BY <1>t, <2>2, <2>3
    <2> QED BY <1>1, <1>2, <1>4, <2>1, <2>4 DEF TakeGeneration, TeamTypeOK
<1>5. CASE ~TakeGeneration(c)
    <2>1. PICK how \in {"aborted", "failed", "rejected"} :
              calls' = [calls EXCEPT ![c].at = how] /\ UNCHANGED gen
        BY <1>5 DEF Catch
    <2>2. PICK s \in {"aborted", "failed"} : Mark(calls[c].member, calls[c].gen, s)
        BY <1>5 DEF Catch
    <2>3. status' \in [Members -> {"absent", "registered", "running", "done", "failed", "aborted"}]
        BY <2>2 DEF Mark, TeamTypeOK
    <2>4. calls' \in [TeamCalls -> Call]
        BY <1>3, <2>1
    <2>5. gen' \in [Members -> Nat]
        BY <2>1 DEF TeamTypeOK
    <2> QED BY <1>2, <2>3, <2>4, <2>5
<1> QED BY <1>4, <1>5

\* A step of a call: everything that it may touch has its type.
LEMMA CallTypes ==
    ASSUME TeamTypeOK, Rostered, NEW c \in TeamCalls, CallStep(c)
    PROVE  TeamTypeOK'
<1> DEFINE Call == [at: {"idle", "queued", "begun", "live", "returned",
                         "done", "failed", "rejected", "aborted"},
                    member: Members \cup {Nobody}, try: Nat, gen: Nat]
<1>t. calls \in [TeamCalls -> Call] /\ sessions \subseteq SessionRecord
    BY DEF TeamTypeOK
<1>1. ASSUME NEW how \in {"live", "done"}
      PROVE  [calls EXCEPT ![c].at = how] \in [TeamCalls -> Call]
    BY <1>t
<1>2. ASSUME calls[c].at # "idle", NEW r \in BOOLEAN, Catch(c, r),
             UNCHANGED <<mailVars, quota, slotVars, lifeVars>>,
             sessions' \subseteq SessionRecord
      PROVE  TeamTypeOK'
    BY <1>2, CatchTypes DEF TeamTypeOK, mailVars, slotVars, lifeVars
<1>3. CASE BeginAttempt(c)
    <2>1. calls[c].member \in Members
        BY <1>3 DEF BeginAttempt, Rostered, Registered
    <2>2. gen[calls[c].member] + 1 \in Nat /\ calls[c].try + 1 \in Nat
        BY <2>1 DEF TeamTypeOK
    <2>3. [calls[c] EXCEPT !.at = "begun", !.try = @ + 1, !.gen = gen[calls[c].member] + 1] \in Call
        BY <1>t, <2>2
    <2>4. calls' = [calls EXCEPT ![c] = [calls[c] EXCEPT !.at = "begun", !.try = @ + 1,
                                                   !.gen = gen[calls[c].member] + 1]]
        BY <1>3, <1>t DEF BeginAttempt, TakeGeneration
    <2>5. calls' \in [TeamCalls -> Call]
        <3> HIDE DEF Call
        <3> QED BY <1>t, <2>3, <2>4
    <2> QED BY <1>3, <2>1, <2>2, <2>5
            DEF BeginAttempt, TakeGeneration, TeamTypeOK, mailVars, slotVars, lifeVars
<1>4. CASE FailsToStart(c)
    <2>1. calls[c].at # "idle" /\ sessions' \subseteq SessionRecord
        BY <1>t, <1>4 DEF FailsToStart
    <2> QED BY <1>2, <1>4, <2>1 DEF FailsToStart
<1>5. CASE StartSession(c)
    <2>1. [call |-> c, try |-> calls[c].try, gen |-> calls[c].gen,
           ready |-> FALSE, stopped |-> FALSE] \in SessionRecord
        BY <1>t DEF SessionRecord
    <2>2. sessions' \subseteq SessionRecord
        BY <1>5, <1>t, <2>1 DEF StartSession
    <2> QED BY <1>1, <1>5, <2>2 DEF StartSession, TeamTypeOK, rosterVars, mailVars, slotVars, lifeVars
<1>6. CASE CallSucceeds(c)
    BY <1>1, <1>6 DEF CallSucceeds, TeamTypeOK, rosterVars, mailVars, slotVars, lifeVars
<1>7. CASE CallFails(c)
    <2>1. calls[c].at # "idle" /\ sessions' \subseteq SessionRecord
        BY <1>t, <1>7 DEF CallFails
    <2> QED BY <1>2, <1>7, <2>1 DEF CallFails
<1>8. CASE CallTimesOut(c)
    <2>1. Stopped({s \in sessions : s.call = c /\ LastTry(s)}) \subseteq SessionRecord
        <3>1. \A s \in SessionRecord : [s EXCEPT !.stopped = TRUE] \in SessionRecord
            BY DEF SessionRecord
        <3> QED BY <1>t, <3>1 DEF Stopped
    <2> QED BY <1>2, <1>8, <2>1 DEF CallTimesOut
<1>9. CASE CallAborts(c)
    BY <1>2, <1>9 DEF CallAborts, TeamTypeOK
<1> QED BY <1>3, <1>4, <1>5, <1>6, <1>7, <1>8, <1>9 DEF CallStep

LEMMA MarkTypes ==
    ASSUME TeamTypeOK, NEW m, NEW g, NEW s \in {"running", "done"}, Mark(m, g, s)
    PROVE  status' \in [Members -> {"absent", "registered", "running", "done", "failed", "aborted"}]
BY DEF Mark, TeamTypeOK

LEMMA SessionTypes ==
    ASSUME TeamTypeOK, Rostered, NEW s \in sessions, SessionReady(s) \/ SessionEnds(s)
    PROVE  TeamTypeOK'
<1> DEFINE Call == [at: {"idle", "queued", "begun", "live", "returned",
                         "done", "failed", "rejected", "aborted"},
                    member: Members \cup {Nobody}, try: Nat, gen: Nat]
<1>1. s \in SessionRecord /\ sessions \subseteq SessionRecord /\ calls \in [TeamCalls -> Call]
    BY DEF TeamTypeOK
<1>2. CASE SessionReady(s)
    <2>1. [s EXCEPT !.ready = TRUE] \in SessionRecord
        BY <1>1 DEF SessionRecord
    <2>2. sessions' \subseteq SessionRecord
        BY <1>1, <1>2, <2>1 DEF SessionReady
    <2> QED BY <1>2, <2>2, MarkTypes DEF SessionReady, TeamTypeOK, mailVars, slotVars, lifeVars
<1>3. CASE SessionEnds(s)
    <2>1. sessions' \subseteq SessionRecord
        BY <1>1, <1>3 DEF SessionEnds
    <2>2. calls' \in [TeamCalls -> Call]
        <3>1. s.call \in TeamCalls
            BY <1>1 DEF SessionRecord
        <3>2. [calls[s.call] EXCEPT !.at = "returned"] \in Call
            BY <1>1, <3>1
        <3>3. calls' = calls \/ calls' = [calls EXCEPT ![s.call].at = "returned"]
            BY <1>3 DEF SessionEnds
        <3> HIDE DEF Call
        <3> QED BY <1>1, <3>1, <3>2, <3>3
    <2>3. status' \in [Members -> {"absent", "registered", "running", "done", "failed", "aborted"}]
        <3>1. CASE UNCHANGED status
            BY <3>1 DEF TeamTypeOK
        <3>2. CASE Mark(MemberOf(s), s.gen, "done")
            BY <3>2, MarkTypes
        <3> QED BY <1>3, <3>1, <3>2 DEF SessionEnds
    <2> QED BY <1>3, <2>1, <2>2, <2>3 DEF SessionEnds, TeamTypeOK, mailVars, slotVars, lifeVars
<1> QED BY <1>2, <1>3

Waiters == Seq([call: TeamCalls, gen: Nat])

LEMMA PostTypes ==
    ASSUME TeamTypeOK, NEW to \in SUBSET Members, Post(to)
    PROVE  TeamTypeOK'
<1> DEFINE taken == {m \in to : Takes(m)}
           more == [m \in taken |-> inbox[m] + 1]
           gone == Total(more, taken)
           n == Cardinality(to)
<1>1. IsFiniteSet(to) /\ IsFiniteSet(taken)
    BY FS_Subset, TeamAssumption
<1>2. inbox \in [Members -> Nat] /\ messageCount \in Nat /\ quota \in [Quotas -> Nat]
    BY DEF TeamTypeOK
<1>3. gone \in Nat
    <2>1. \A m \in taken : more[m] \in Nat
        BY <1>2
    <2> HIDE DEF taken, more
    <2> QED BY <1>1, <2>1, UnitsFinite
<1>4. n \in Nat
    BY <1>1, FS_CardinalityType
<1>5. inbox' = [m \in Members |-> IF m \in taken THEN 0
                                  ELSE IF m \in to THEN inbox[m] + 1 ELSE inbox[m]]
      /\ messageCount' = Less(messageCount + n, gone)
      /\ quota' = [quota EXCEPT !["messages"] = Less(@ + n, gone)]
    BY DEF Post
<1>6. inboxWaiters' \in [Members -> Waiters]
    <2>1. inboxWaiters' = [m \in Members |-> IF m \in to /\ Woken(m) THEN Tail(inboxWaiters[m])
                                                                      ELSE inboxWaiters[m]]
        BY DEF Post
    <2>2. ASSUME NEW m \in Members
          PROVE  inboxWaiters[m] \in Waiters /\ (Woken(m) => Tail(inboxWaiters[m]) \in Waiters)
        BY HeadTailProperties DEF TeamTypeOK, Woken, Waiters
    <2> QED BY <2>1, <2>2
<1> HIDE DEF taken, gone, n
<1>7. Less(messageCount + n, gone) \in Nat
    BY <1>2, <1>3, <1>4 DEF Less
<1>8. Less(quota["messages"] + n, gone) \in Nat
    BY <1>2, <1>3, <1>4 DEF Less, Quotas
<1>9. inbox' \in [Members -> Nat] /\ messageCount' \in Nat /\ quota' \in [Quotas -> Nat]
    BY <1>2, <1>5, <1>7, <1>8 DEF Quotas
<1>10. UNCHANGED <<status, gen, board, agentCount, batches, calls, sessions, admitting, abortedRun>>
    BY DEF Post, rosterVars, slotVars, lifeVars
<1> QED BY <1>6, <1>9, <1>10 DEF TeamTypeOK, Waiters

LEMMA MemberIs ==
    ASSUME TeamTypeOK, Rostered, NEW s \in sessions
    PROVE  /\ s \in SessionRecord /\ s.call \in TeamCalls /\ s.gen \in Nat
           /\ MemberOf(s) \in Members /\ MemberOf(s) \in Registered
<1>1. s \in SessionRecord
    BY DEF TeamTypeOK
<1>2. s.call \in TeamCalls /\ s.gen \in Nat
    BY <1>1 DEF SessionRecord
<1> QED BY <1>1, <1>2 DEF Rostered, MemberOf, Registered

LEMMA MailTypes ==
    ASSUME TeamTypeOK, Rostered,
           MailStep
    PROVE  TeamTypeOK'
<1>t. /\ inbox \in [Members -> Nat] /\ messageCount \in Nat /\ quota \in [Quotas -> Nat]
      /\ inboxWaiters \in [Members -> Waiters]
    BY DEF TeamTypeOK, Waiters
<1>1. ASSUME NEW s \in sessions, ReadInbox(s)
      PROVE  TeamTypeOK'
    <2>1. MemberOf(s) \in Members
        BY MemberIs
    <2>2. ASSUME NEW k \in Nat, NEW l \in Nat PROVE Less(k, l) \in Nat
        BY DEF Less
    <2>3. /\ Less(messageCount, inbox[MemberOf(s)]) \in Nat
          /\ Less(quota["messages"], inbox[MemberOf(s)]) \in Nat
        BY <1>t, <2>1, <2>2 DEF Quotas
    <2>4. inbox' \in [Members -> Nat] /\ messageCount' \in Nat /\ quota' \in [Quotas -> Nat]
        BY <1>1, <1>t, <2>3 DEF ReadInbox, Quotas
    <2> QED BY <1>1, <2>4 DEF ReadInbox, TeamTypeOK, rosterVars, slotVars, lifeVars
<1>2. ASSUME NEW s \in sessions, WaitForInbox(s)
      PROVE  TeamTypeOK'
    <2> DEFINE m == MemberOf(s)
    <2>1. m \in Members /\ AsWaiter(s) \in [call: TeamCalls, gen: Nat]
        BY MemberIs DEF AsWaiter
    <2>2. Append(inboxWaiters[m], AsWaiter(s)) \in Waiters
        BY <1>t, <2>1, AppendProperties DEF Waiters
    <2>3. inboxWaiters' = [inboxWaiters EXCEPT ![m] = Append(inboxWaiters[m], AsWaiter(s))]
        BY <1>2 DEF WaitForInbox
    <2>4. inboxWaiters' \in [Members -> Waiters]
        <3> HIDE DEF m
        <3> QED BY <1>t, <2>1, <2>2, <2>3
    <2> QED BY <1>2, <2>4 DEF WaitForInbox, TeamTypeOK, rosterVars, slotVars, lifeVars, Waiters
<1>3. ASSUME NEW m \in Members, NEW i \in DOMAIN inboxWaiters[m], WaitGivesUp(m, i)
      PROVE  TeamTypeOK'
    <2> DEFINE w == inboxWaiters[m]
               Without == SubSeq(w, 1, i - 1) \o SubSeq(w, i + 1, Len(w))
    <2>1. w \in Waiters /\ i \in 1 .. Len(w) /\ Len(w) \in Nat
        BY <1>t, LenProperties DEF Waiters
    <2>2. Without \in Waiters
        <3> DEFINE R == [call: TeamCalls, gen: Nat]
        <3>1. w \in Seq(R) /\ i \in Int /\ Len(w) \in Int
            BY <2>1 DEF Waiters
        <3> SUFFICES Without \in Seq(R)
            BY DEF Waiters
        <3> HIDE DEF w, R
        <3>2. \A k \in 1 .. Len(w) : w[k] \in R
            BY <3>1, ElementOfSeq
        <3>3. (\A k \in 1 .. i - 1 : w[k] \in R) /\ (\A k \in i + 1 .. Len(w) : w[k] \in R)
            BY <2>1, <3>2
        <3>4. SubSeq(w, 1, i - 1) \in Seq(R) /\ SubSeq(w, i + 1, Len(w)) \in Seq(R)
            BY <3>1, <3>3, SubSeqProperties
        <3> QED BY <3>4, ConcatProperties
    <2>3. inboxWaiters' = [inboxWaiters EXCEPT ![m] = Without]
        BY <1>3 DEF WaitGivesUp
    <2>4. inboxWaiters' \in [Members -> Waiters]
        <3> HIDE DEF Without
        <3> QED BY <1>t, <2>2, <2>3
    <2> QED BY <1>3, <2>4 DEF WaitGivesUp, TeamTypeOK, rosterVars, slotVars, lifeVars, Waiters
<1> QED BY <1>1, <1>2, <1>3 DEF MailStep

LEMMA BoardTypes ==
    ASSUME TeamTypeOK, Rostered,
           BoardStep
    PROVE  TeamTypeOK'
<1> DEFINE Task == [status: {"absent", "pending", "claimed", "completed"},
                    assignee: Members \cup {Nobody}, by: TeamCalls \cup {Nobody}]
<1>t. board \in [Tasks -> Task]
    BY DEF TeamTypeOK
<1>1. ASSUME NEW T \in SUBSET Tasks, NEW a \in Members \cup {Nobody}, AddTasks(T, a)
      PROVE  TeamTypeOK'
    <2>1. Cardinality(T) \in Nat
        BY TeamAssumption, FS_Subset, FS_CardinalityType
    <2>2. quota' \in [Quotas -> Nat]
        BY <1>1, <2>1 DEF AddTasks, TeamTypeOK, Quotas
    <2>3. ASSUME NEW how \in {"pending", "claimed"}
          PROVE  [status |-> how, assignee |-> a, by |-> Nobody] \in Task
        OBVIOUS
    <2>4. board' = [t \in Tasks |->
                 IF t \notin T THEN board[t]
                 ELSE [status |-> IF a = Nobody THEN "pending" ELSE "claimed",
                       assignee |-> a, by |-> Nobody]]
        BY <1>1 DEF AddTasks, Posted
    <2>5. board' \in [Tasks -> Task]
        <3> HIDE DEF Task
        <3> QED BY <1>t, <2>3, <2>4
    <2> QED BY <1>1, <2>2, <2>5 DEF AddTasks, TeamTypeOK, rosterVars, mailVars, slotVars, lifeVars
<1>2. ASSUME NEW s \in sessions, NEW t \in Tasks, ClaimTask(s, t) \/ CompleteTask(s, t)
      PROVE  TeamTypeOK'
    <2>1. MemberOf(s) \in Members /\ s.call \in TeamCalls
        BY MemberIs
    <2>2. ASSUME NEW how \in {"claimed", "completed"}
          PROVE  [status |-> how, assignee |-> MemberOf(s), by |-> s.call] \in Task
        BY <2>1
    <2>3. \E how \in {"claimed", "completed"} :
            board' = [board EXCEPT ![t] = [status |-> how, assignee |-> MemberOf(s), by |-> s.call]]
        BY <1>2 DEF ClaimTask, CompleteTask
    <2>4. board' \in [Tasks -> Task]
        <3> HIDE DEF Task
        <3> QED BY <1>t, <2>2, <2>3
    <2> QED BY <1>2, <2>4
            DEF ClaimTask, CompleteTask, TeamTypeOK, rosterVars, mailVars, slotVars, lifeVars
<1> QED BY <1>1, <1>2 DEF BoardStep

LEMMA QuietTypes ==
    ASSUME TeamTypeOK, Rostered,
           QuietStep
    PROVE  TeamTypeOK'
<1>1. CASE PlainAgent
    <2>1. agentCount' \in Nat
        BY <1>1 DEF PlainAgent, TeamTypeOK
    <2>2. UNCHANGED <<status, gen, inbox, inboxWaiters, messageCount, board, quota, batches,
                      calls, sessions, admitting, abortedRun>>
        BY <1>1 DEF PlainAgent, rosterVars, mailVars, lifeVars
    <2> QED BY <2>1, <2>2 DEF TeamTypeOK
<1>2. CASE AbortTeamRun
    <2>1. Stopped(sessions) \subseteq SessionRecord
        <3>1. sessions \subseteq SessionRecord
            BY DEF TeamTypeOK
        <3> QED BY <3>1 DEF Stopped, SessionRecord
    <2> QED BY <1>2, <2>1 DEF AbortTeamRun, TeamTypeOK, rosterVars, mailVars, slotVars
<1>3. CASE CloseTeamAdmission
    BY <1>3 DEF CloseTeamAdmission, TeamTypeOK, rosterVars, mailVars, slotVars
<1>4. ASSUME NEW b \in batches, BatchSettles(b)
      PROVE  TeamTypeOK'
    <2>1. b.left \in Nat /\ quota \in [Quotas -> Nat]
        BY DEF TeamTypeOK
    <2>2. Less(quota["slots"], b.left) \in Nat
        BY <2>1 DEF Less, Quotas
    <2>3. quota' \in [Quotas -> Nat]
        BY <1>4, <2>1, <2>2 DEF BatchSettles, Quotas
    <2> QED BY <1>4, <2>3 DEF BatchSettles, TeamTypeOK, rosterVars, mailVars, lifeVars
<1> QED BY <1>1, <1>2, <1>3, <1>4 DEF QuietStep

LEMMA TeamTyped ==
    ASSUME TeamTypeOK, Rostered, [TeamNext]_teamVars
    PROVE  TeamTypeOK'
<1>1. CASE UNCHANGED teamVars
    BY <1>1 DEF TeamTypeOK, teamVars, rosterVars, mailVars, slotVars, lifeVars
<1>2. CASE TeamNext
    BY <1>2, TeamSteps, CallTypes, SessionTypes, PostTypes, MailTypes, BoardTypes, QuietTypes, SpawnTypes
<1> QED BY <1>1, <1>2

\* The catch clause: everybody stays registered, and the tasks of the member are free
\* again if the attempt is its current one.
LEMMA CatchEffects ==
    ASSUME TeamTypeOK, Rostered, NEW c \in TeamCalls, calls[c].at # "idle",
           NEW r \in BOOLEAN, Catch(c, r)
    PROVE  /\ Registered' = Registered
           /\ \A d \in TeamCalls : /\ calls'[d].member = calls[d].member
                                   /\ calls'[d].at = "idle" <=> calls[d].at = "idle"
           /\ \A t \in Tasks :
                \/ board'[t] = board[t]
                \/ /\ board[t].assignee \in Members
                   /\ board'[t] = [status |-> "pending", assignee |-> Nobody, by |-> Nobody]
           /\ \A m \in Members : status'[m] \in {"failed", "aborted"} =>
                \/ status'[m] = status[m] /\ \A t \in Tasks : board'[t].status = "claimed" => board'[t] = board[t]
                \/ \A t \in Tasks : board'[t].assignee = m => board'[t].status = "completed"
<1> DEFINE m == calls[c].member
           g == calls[c].gen
<1>1. m \in Members /\ status[m] # "absent"
    BY DEF Rostered, Registered
<1>2. /\ status \in [Members -> {"absent", "registered", "running", "done", "failed", "aborted"}]
      /\ \A d \in TeamCalls : d \in DOMAIN calls /\ DOMAIN calls = TeamCalls
      /\ DOMAIN board = Tasks
      /\ m # Nobody
    BY <1>1, TeamAssumption DEF TeamTypeOK
<1>3. board' = [t \in Tasks |->
                 IF Current(m, g) /\ board[t].assignee = m /\ board[t].status # "completed"
                 THEN [status |-> "pending", assignee |-> Nobody, by |-> Nobody]
                 ELSE board[t]]
    BY DEF Catch, ReleaseClaims
<1>4. \A t \in Tasks :
         \/ board'[t] = board[t]
         \/ /\ board[t].assignee \in Members
            /\ board'[t] = [status |-> "pending", assignee |-> Nobody, by |-> Nobody]
    BY <1>1, <1>3
<1>5. \/ \E how \in {"aborted", "failed", "rejected"} :
            /\ calls' = [calls EXCEPT ![c].at = how] /\ UNCHANGED gen
            /\ \/ Mark(m, g, "aborted") \/ Mark(m, g, "failed")
      \/ TakeGeneration(c)
    BY DEF Catch
<1>6. CASE TakeGeneration(c)
    <2>1. status' = [status EXCEPT ![m] = "running"]
        BY <1>6 DEF TakeGeneration
    <2>2. \A d \in TeamCalls : /\ calls'[d].member = calls[d].member
                               /\ calls'[d].at = "idle" <=> calls[d].at = "idle"
        BY <1>2, <1>6 DEF TakeGeneration, TeamTypeOK
    <2>3. \A t \in Tasks : board'[t].status = "claimed" => board'[t] = board[t]
        BY <1>4
    <2> QED BY <1>1, <1>2, <1>4, <2>1, <2>2, <2>3 DEF Registered
<1>7. CASE \E how \in {"aborted", "failed", "rejected"} :
            /\ calls' = [calls EXCEPT ![c].at = how] /\ UNCHANGED gen
            /\ \/ Mark(m, g, "aborted") \/ Mark(m, g, "failed")
    <2>1. PICK how \in {"aborted", "failed", "rejected"} : calls' = [calls EXCEPT ![c].at = how]
        BY <1>7
    <2>2. PICK s \in {"aborted", "failed"} : Mark(m, g, s)
        BY <1>7
    <2>3. \A d \in TeamCalls : /\ calls'[d].member = calls[d].member
                               /\ calls'[d].at = "idle" <=> calls[d].at = "idle"
        BY <1>2, <2>1 DEF TeamTypeOK
    <2>4. CASE Current(m, g)
        <3>1. status' = [status EXCEPT ![m] = s]
            BY <2>2, <2>4 DEF Mark
        <3>2. \A t \in Tasks : board'[t].assignee = m => board'[t].status = "completed"
            BY <1>2, <1>3, <2>4
        <3>3. \A t \in Tasks : board'[t].status = "claimed" => board'[t] = board[t]
            BY <1>4
        <3> QED BY <1>1, <1>2, <1>4, <2>3, <3>1, <3>2, <3>3 DEF Registered
    <2>5. CASE ~Current(m, g)
        <3>1. status' = status /\ \A t \in Tasks : board'[t] = board[t]
            BY <1>3, <2>2, <2>5 DEF Mark
        <3> QED BY <1>4, <2>3, <3>1 DEF Registered
    <2> QED BY <2>4, <2>5
<1> QED BY <1>5, <1>6, <1>7

\* What the steps of calls leave alone or do to the board and the roster.
CallsGoOn ==
    /\ Registered' = Registered
    /\ \A d \in TeamCalls : /\ calls'[d].member = calls[d].member
                            /\ calls'[d].at = "idle" <=> calls[d].at = "idle"
    /\ \A s \in sessions' : calls[s.call].at # "idle"
    /\ \A t \in Tasks :
         \/ board'[t] = board[t]
         \/ /\ board[t].assignee \in Members
            /\ board'[t] = [status |-> "pending", assignee |-> Nobody, by |-> Nobody]
    /\ \A m \in Members : status'[m] \in {"failed", "aborted"} =>
         \/ status'[m] = status[m] /\ \A t \in Tasks : board'[t].status = "claimed" => board'[t] = board[t]
         \/ \A t \in Tasks : board'[t].assignee = m => board'[t].status = "completed"
    /\ UNCHANGED <<inbox, messageCount, quota, agentCount, batches>>

LEMMA CallEffects ==
    ASSUME TeamTypeOK, Rostered, NEW c \in TeamCalls, CallStep(c)
    PROVE  CallsGoOn
<1>0. /\ status \in [Members -> {"absent", "registered", "running", "done", "failed", "aborted"}]
      /\ DOMAIN calls = TeamCalls
    BY DEF TeamTypeOK
<1>1. CASE BeginAttempt(c)
    <2> DEFINE m == calls[c].member
    <2>1. m \in Members /\ status[m] # "absent"
        BY <1>1 DEF BeginAttempt, Rostered, Registered
    <2>2. status' = [status EXCEPT ![m] = "running"]
        BY <1>1 DEF BeginAttempt, TakeGeneration
    <2>3. \A d \in TeamCalls : /\ calls'[d].member = calls[d].member
                               /\ calls'[d].at = "idle" <=> calls[d].at = "idle"
        BY <1>0, <1>1 DEF BeginAttempt, TakeGeneration, TeamTypeOK
    <2>4. UNCHANGED <<inbox, messageCount, quota, agentCount, batches, board, sessions>>
        BY <1>1 DEF BeginAttempt, mailVars, slotVars
    <2> QED BY <1>0, <2>1, <2>2, <2>3, <2>4 DEF CallsGoOn, Registered, Rostered
<1>2. ASSUME calls[c].at # "idle", NEW r \in BOOLEAN, Catch(c, r),
             UNCHANGED <<inbox, messageCount, quota, agentCount, batches>>,
             \A s \in sessions' : calls[s.call].at # "idle"
      PROVE  CallsGoOn
    BY <1>2, CatchEffects DEF CallsGoOn
<1>3. CASE FailsToStart(c)
    BY <1>2, <1>3 DEF FailsToStart, mailVars, slotVars, Rostered
<1>4. CASE StartSession(c)
    <2>1. \A s \in sessions' : calls[s.call].at # "idle"
        BY <1>4 DEF StartSession, Rostered
    <2>2. \A d \in TeamCalls : /\ calls'[d].member = calls[d].member
                               /\ calls'[d].at = "idle" <=> calls[d].at = "idle"
        BY <1>0, <1>4 DEF StartSession, TeamTypeOK
    <2>3. UNCHANGED <<status, inbox, messageCount, quota, agentCount, batches, board>>
        BY <1>4 DEF StartSession, mailVars, slotVars, rosterVars
    <2> QED BY <2>1, <2>2, <2>3 DEF CallsGoOn, Registered
<1>5. CASE CallSucceeds(c)
    <2>1. \A d \in TeamCalls : /\ calls'[d].member = calls[d].member
                               /\ calls'[d].at = "idle" <=> calls[d].at = "idle"
        BY <1>0, <1>5 DEF CallSucceeds, TeamTypeOK
    <2>2. UNCHANGED <<status, inbox, messageCount, quota, agentCount, batches, board, sessions>>
        BY <1>5 DEF CallSucceeds, mailVars, slotVars, rosterVars
    <2> QED BY <2>1, <2>2 DEF CallsGoOn, Registered, Rostered
<1>6. CASE CallFails(c)
    BY <1>2, <1>6 DEF CallFails, mailVars, slotVars, Rostered
<1>7. CASE CallTimesOut(c)
    <2>1. \A s \in Stopped({s \in sessions : s.call = c /\ LastTry(s)}) : \E q \in sessions : s.call = q.call
        <3>1. \A q \in sessions : [q EXCEPT !.stopped = TRUE].call = q.call
            BY DEF TeamTypeOK, SessionRecord
        <3> QED BY <3>1 DEF Stopped
    <2>2. \A s \in sessions' : calls[s.call].at # "idle"
        BY <1>7, <2>1 DEF CallTimesOut, Rostered
    <2> QED BY <1>2, <1>7, <2>2 DEF CallTimesOut, mailVars, slotVars
<1>8. CASE CallAborts(c)
    BY <1>2, <1>8 DEF CallAborts, mailVars, slotVars, Rostered
<1> QED BY <1>1, <1>3, <1>4, <1>5, <1>6, <1>7, <1>8 DEF CallStep

LEMMA HeldKept ==
    ASSUME ReservedIsHeld, Registered' = Registered,
           \A t \in Tasks : board'[t].status = "absent" <=> board[t].status = "absent",
           UNCHANGED <<inbox, messageCount, quota, agentCount, batches>>
    PROVE  ReservedIsHeld'
<1>1. {t \in Tasks : board[t].status # "absent"}' = {t \in Tasks : board[t].status # "absent"}
    OBVIOUS
<1>2. Total(inbox, Members)' = Total(inbox, Members)
    OBVIOUS
<1>3. Total([b \in batches |-> b.left], batches)' = Total([b \in batches |-> b.left], batches)
    OBVIOUS
<1> QED BY <1>1, <1>2, <1>3 DEF ReservedIsHeld

LEMMA CallKeeps ==
    ASSUME TeamInv, NEW c \in TeamCalls, CallStep(c)
    PROVE  TeamInv'
<1>0. TeamTypeOK /\ Rostered /\ FailedMembersHoldNothing /\ ReservedIsHeld
    BY DEF TeamInv
<1>1. TeamTypeOK'
    BY <1>0, CallTypes
<1>2. CallsGoOn
    BY <1>0, CallEffects
<1>3. Nobody \notin Members
    BY TeamAssumption
<1>4. \A t \in Tasks : /\ board[t].assignee \in Members => board[t].status # "absent"
                       /\ board'[t].status = "claimed" => board'[t] = board[t]
                       /\ board'[t].status = "absent" <=> board[t].status = "absent"
    BY <1>0, <1>2, <1>3 DEF CallsGoOn, Rostered
<1>5. Rostered'
    <2>1. \A d \in TeamCalls : calls'[d].at # "idle" => calls'[d].member \in Registered'
        BY <1>0, <1>2 DEF CallsGoOn, Rostered
    <2>2. \A s \in sessions' : calls'[s.call].at # "idle"
        <3>1. \A s \in sessions' : s.call \in TeamCalls
            BY <1>1 DEF TeamTypeOK, SessionRecord
        <3> QED BY <1>2, <3>1 DEF CallsGoOn
    <2>3. \A b \in batches' : b.calls # {} /\ \A d \in b.calls : calls'[d].at # "idle"
        <3>1. \A b \in batches : b.calls \subseteq TeamCalls
            BY <1>0 DEF TeamTypeOK
        <3> QED BY <1>0, <1>2, <3>1 DEF CallsGoOn, Rostered
    <2>4. \A t \in Tasks : /\ board'[t].status = "absent" => board'[t].assignee = Nobody
                           /\ board'[t].status = "claimed" => board'[t].assignee \in Members
        BY <1>0, <1>2, <1>4 DEF CallsGoOn, Rostered
    <2> QED BY <1>0, <1>2, <2>1, <2>2, <2>3, <2>4 DEF CallsGoOn, Rostered
<1>6. FailedMembersHoldNothing'
    <2> SUFFICES ASSUME NEW t \in Tasks, board'[t].status = "claimed", board'[t].by # Nobody,
                        status'[board'[t].assignee] \in {"failed", "aborted"}
                 PROVE  FALSE
        BY DEF FailedMembersHoldNothing
    <2>1. board'[t] = board[t] /\ board[t].assignee \in Members
        BY <1>0, <1>4 DEF Rostered
    <2> QED BY <1>0, <1>2, <2>1 DEF CallsGoOn, FailedMembersHoldNothing
<1>7. ReservedIsHeld'
    BY <1>0, <1>2, <1>4, HeldKept DEF CallsGoOn
<1> QED BY <1>1, <1>5, <1>6, <1>7 DEF TeamInv

LEMMA SessionKeeps ==
    ASSUME TeamInv, NEW s \in sessions, SessionReady(s) \/ SessionEnds(s)
    PROVE  TeamInv'
<1>0. TeamTypeOK /\ Rostered /\ FailedMembersHoldNothing /\ ReservedIsHeld
    BY DEF TeamInv
<1>1. TeamTypeOK'
    BY <1>0, SessionTypes
<1>2. MemberOf(s) \in Registered /\ s.call \in TeamCalls /\ s \in SessionRecord
    BY <1>0, MemberIs
<1>3. /\ \/ status' = status
         \/ \E how \in {"running", "done"} : status' = [status EXCEPT ![MemberOf(s)] = how]
      /\ UNCHANGED <<inbox, messageCount, board, quota, agentCount, batches>>
    BY DEF SessionReady, SessionEnds, Mark, mailVars, slotVars
<1>4. Registered' = Registered
    BY <1>0, <1>2, <1>3 DEF Registered, TeamTypeOK
<1>5. \A d \in TeamCalls : /\ calls'[d].member = calls[d].member
                           /\ calls'[d].at = "idle" <=> calls[d].at = "idle"
    <2>1. CASE SessionReady(s)
        BY <2>1 DEF SessionReady
    <2>2. CASE SessionEnds(s)
        BY <1>0, <1>2, <2>2 DEF SessionEnds, TeamTypeOK
    <2> QED BY <2>1, <2>2
<1>6. \A q \in sessions' : \E p \in sessions : q.call = p.call
    BY <1>2 DEF SessionReady, SessionEnds, SessionRecord
<1>7. Rostered'
    <2>1. \A q \in sessions' : calls'[q.call].at # "idle"
        <3>1. \A q \in sessions' : q.call \in TeamCalls
            BY <1>1 DEF TeamTypeOK, SessionRecord
        <3>2. \A q \in sessions' : calls[q.call].at # "idle"
            BY <1>0, <1>6 DEF Rostered
        <3> QED BY <1>5, <3>1, <3>2
    <2>2. \A d \in TeamCalls : calls'[d].at # "idle" => calls'[d].member \in Registered'
        BY <1>0, <1>4, <1>5 DEF Rostered
    <2>3. \A b \in batches' : b.calls # {} /\ \A d \in b.calls : calls'[d].at # "idle"
        <3>1. \A b \in batches : b.calls \subseteq TeamCalls
            BY <1>0 DEF TeamTypeOK
        <3> QED BY <1>0, <1>3, <1>5, <3>1 DEF Rostered
    <2> QED BY <1>0, <1>3, <2>1, <2>2, <2>3 DEF Rostered
<1>8. FailedMembersHoldNothing'
    BY <1>0, <1>3 DEF FailedMembersHoldNothing, TeamTypeOK, Rostered
<1>9. ReservedIsHeld'
    BY <1>0, <1>3, <1>4, HeldKept
<1> QED BY <1>1, <1>7, <1>8, <1>9 DEF TeamInv

\* A step that leaves the roster, the board, the calls and the batches alone.
LEMMA RosterKept ==
    ASSUME Rostered, FailedMembersHoldNothing,
           UNCHANGED <<status, board, calls, sessions, batches>>
    PROVE  Rostered' /\ FailedMembersHoldNothing'
<1>1. Registered' = Registered
    BY DEF Registered
<1> QED BY <1>1 DEF Rostered, FailedMembersHoldNothing

LEMMA PostUnits ==
    ASSUME TeamTypeOK, NEW to \in SUBSET Members, Post(to)
    PROVE  LET taken == {m \in to : Takes(m)}
               gone == Total([m \in taken |-> inbox[m] + 1], taken)
           IN  /\ gone \in Nat /\ Cardinality(to) \in Nat
               /\ Total(inbox, Members) \in Nat
               /\ gone <= Total(inbox, Members) + Cardinality(to)
               /\ Total(inbox', Members) = Total(inbox, Members) + Cardinality(to) - gone
<1> DEFINE taken == {m \in to : Takes(m)}
           more == [m \in taken |-> inbox[m] + 1]
           New == {<<m, inbox[m] + 1>> : m \in to}
           tag == [m \in to |-> <<m, inbox[m] + 1>>]
           Old == Units(inbox, Members)
           Gone == Units(more, taken)
           Next1 == Units(inbox', Members)
<1>1. /\ IsFiniteSet(to) /\ IsFiniteSet(taken) /\ IsFiniteSet(Members)
      /\ taken \subseteq to /\ to \subseteq Members
    BY FS_Subset, TeamAssumption
<1>2. inbox \in [Members -> Nat]
    BY DEF TeamTypeOK
<1>3. IsFiniteSet(Old) /\ Total(inbox, Members) \in Nat
    BY <1>1, <1>2, UnitsFinite
<1>4. IsFiniteSet(New) /\ Cardinality(New) = Cardinality(to) /\ Cardinality(to) \in Nat
    <2>1. tag \in Bijection(to, New)
        BY DEF Bijection, Injection, Surjection, IsInjective
    <2>2. ExistsBijection(to, New)
        BY <2>1 DEF ExistsBijection
    <2> HIDE DEF New, tag
    <2> QED BY <1>1, <2>2, FS_Bijection, FS_CardinalityType
<1>5. Old \cap New = {}
    BY <1>2, UnitIs
<1>6. \A u \in Gone : u \in Old \cup New
    <2> SUFFICES ASSUME NEW m \in taken, NEW i \in 1 .. inbox[m] + 1
                 PROVE  <<m, i>> \in Old \cup New
        BY <1>1, UnitIs
    <2>1. m \in to /\ m \in Members /\ inbox[m] \in Nat
        BY <1>1, <1>2
    <2>2. CASE i = inbox[m] + 1
        BY <2>1, <2>2
    <2>3. CASE i \in 1 .. inbox[m]
        BY <2>1, <2>3, UnitIs
    <2> QED BY <2>1, <2>2, <2>3
<1>7. inbox' = [m \in Members |-> IF m \in taken THEN 0
                                  ELSE IF m \in to THEN inbox[m] + 1 ELSE inbox[m]]
    BY DEF Post
<1>8. \A u : u \in Next1 <=> u \in (Old \cup New) \ Gone
    <2> SUFFICES ASSUME NEW u PROVE u \in Next1 <=> u \in (Old \cup New) \ Gone
        OBVIOUS
    <2>1. u \in Gone <=> \E m \in taken : \E i \in 1 .. inbox[m] + 1 : u = <<m, i>>
        BY UnitIs
    <2>2. u \in Old <=> \E m \in Members : \E i \in 1 .. inbox[m] : u = <<m, i>>
        BY UnitIs
    <2>3. u \in Next1 <=> \E m \in Members : \E i \in 1 .. inbox'[m] : u = <<m, i>>
        BY UnitIs
    <2> HIDE DEF Gone, Old, Next1, taken
    <2>4. ASSUME u \in Next1 PROVE u \in (Old \cup New) \ Gone
        <3>1. PICK m \in Members : \E i \in 1 .. inbox'[m] : u = <<m, i>>
            BY <2>3, <2>4
        <3>2. PICK i \in 1 .. inbox'[m] : u = <<m, i>>
            BY <3>1
        <3>3. m \notin taken /\ inbox[m] \in Nat
            BY <1>2, <1>7
        <3>4. u \notin Gone
            BY <2>1, <3>2, <3>3
        <3>5. CASE m \in to
            <4>1. inbox'[m] = inbox[m] + 1
                BY <1>7, <3>3, <3>5
            <4>2. i = inbox[m] + 1 \/ i \in 1 .. inbox[m]
                BY <3>2, <3>3, <4>1
            <4> QED BY <2>2, <3>2, <3>4, <3>5, <4>2
        <3>6. CASE m \notin to
            BY <1>7, <2>2, <3>2, <3>3, <3>4, <3>6
        <3> QED BY <3>5, <3>6
    <2>5. ASSUME u \in (Old \cup New) \ Gone PROVE u \in Next1
        <3>1. CASE u \in Old
            <4>1. PICK m \in Members : \E i \in 1 .. inbox[m] : u = <<m, i>>
                BY <2>2, <3>1
            <4>2. PICK i \in 1 .. inbox[m] : u = <<m, i>>
                BY <4>1
            <4>3. inbox[m] \in Nat
                BY <1>2
            <4>4. m \notin taken
                BY <2>1, <2>5, <4>2, <4>3
            <4>5. i \in 1 .. inbox'[m]
                BY <1>7, <4>2, <4>3, <4>4
            <4> QED BY <2>3, <4>2, <4>5
        <3>2. CASE u \in New
            <4>1. PICK m \in to : u = <<m, inbox[m] + 1>>
                BY <3>2
            <4>2. m \in Members /\ inbox[m] \in Nat
                BY <1>1, <1>2
            <4>3. m \notin taken
                BY <2>1, <2>5, <4>1, <4>2
            <4>4. inbox[m] + 1 \in 1 .. inbox'[m]
                BY <1>7, <4>2, <4>3
            <4> QED BY <2>3, <4>1, <4>2, <4>4
        <3> QED BY <2>5, <3>1, <3>2
    <2> QED BY <2>4, <2>5
<1>9. Next1 = (Old \cup New) \ Gone
    BY <1>8
<1> HIDE DEF Old, New, Gone, Next1
<1>10. /\ IsFiniteSet(Old \cup New)
       /\ Cardinality(Old \cup New) = Cardinality(Old) + Cardinality(New)
    <2>1. /\ IsFiniteSet(Old \cup New)
          /\ Cardinality(Old \cup New) = Cardinality(Old) + Cardinality(New) - Cardinality(Old \cap New)
        BY <1>3, <1>4, FS_Union
    <2>2. Cardinality(Old \cap New) = 0
        BY <1>5, FS_EmptySet
    <2>3. Cardinality(Old) \in Nat /\ Cardinality(New) \in Nat
        BY <1>3, <1>4, FS_CardinalityType
    <2> QED BY <2>1, <2>2, <2>3
<1>11. (Old \cup New) \cap Gone = Gone /\ Gone \in SUBSET (Old \cup New)
    BY <1>6
<1>12. IsFiniteSet(Gone) /\ Cardinality(Gone) <= Cardinality(Old \cup New)
    BY <1>10, <1>11, FS_Subset
<1>13. Cardinality(Next1) = Cardinality(Old \cup New) - Cardinality(Gone)
    <2> DEFINE Both == Old \cup New
    <2>1. IsFiniteSet(Both) /\ Both \cap Gone = Gone /\ Next1 = Both \ Gone
        BY <1>9, <1>10, <1>11
    <2> SUFFICES Cardinality(Next1) = Cardinality(Both) - Cardinality(Gone)
        OBVIOUS
    <2> HIDE DEF Both
    <2>2. Cardinality(Both \ Gone) = Cardinality(Both) - Cardinality(Both \cap Gone)
        BY <2>1, FS_Difference
    <2> QED BY <2>1, <2>2
<1>14. /\ Total(inbox, Members) = Cardinality(Old) /\ Total(inbox', Members) = Cardinality(Next1)
       /\ Total(more, taken) = Cardinality(Gone) /\ Cardinality(Gone) \in Nat
    BY <1>12, FS_CardinalityType DEF Old, Next1, Gone, Total
<1> HIDE DEF taken, more
<1>15. /\ Total(more, taken) \in Nat
       /\ Total(more, taken) <= Total(inbox, Members) + Cardinality(to)
       /\ Total(inbox', Members) = Total(inbox, Members) + Cardinality(to) - Total(more, taken)
    BY <1>3, <1>4, <1>10, <1>12, <1>13, <1>14
<1> QED BY <1>3, <1>4, <1>15 DEF taken, more

LEMMA PostKeeps ==
    ASSUME TeamInv, NEW to \in SUBSET Members, Post(to)
    PROVE  TeamInv'
<1> DEFINE taken == {m \in to : Takes(m)}
           gone == Total([m \in taken |-> inbox[m] + 1], taken)
           n == Cardinality(to)
           all == Total(inbox, Members)
<1>0. TeamTypeOK /\ Rostered /\ FailedMembersHoldNothing /\ ReservedIsHeld
    BY DEF TeamInv
<1>1. TeamTypeOK'
    BY <1>0, PostTypes
<1>2. UNCHANGED <<status, gen, board, calls, sessions, batches, agentCount>>
    BY DEF Post, rosterVars, slotVars
<1>3. Rostered' /\ FailedMembersHoldNothing'
    BY <1>0, <1>2, RosterKept
<1>4. /\ gone \in Nat /\ n \in Nat /\ all \in Nat
      /\ gone <= all + n
      /\ Total(inbox', Members) = all + n - gone
    BY <1>0, PostUnits
<1>5. messageCount = all /\ quota["messages"] = all
    BY <1>0 DEF ReservedIsHeld
<1>6. /\ messageCount' = Less(messageCount + n, gone)
      /\ quota' = [quota EXCEPT !["messages"] = Less(quota["messages"] + n, gone)]
    BY DEF Post
<1> HIDE DEF taken, gone, n, all
<1>7. Less(all + n, gone) = all + n - gone
    BY <1>4 DEF Less
<1>8. /\ quota'["messages"] = all + n - gone /\ messageCount' = all + n - gone
      /\ quota'["members"] = quota["members"] /\ quota'["tasks"] = quota["tasks"]
      /\ quota'["slots"] = quota["slots"]
    BY <1>0, <1>5, <1>6, <1>7 DEF TeamTypeOK, Quotas
<1>9. Registered' = Registered
    BY <1>2 DEF Registered
<1>10. ReservedIsHeld'
    BY <1>0, <1>2, <1>4, <1>8, <1>9 DEF ReservedIsHeld
<1> QED BY <1>1, <1>3, <1>10 DEF TeamInv

LEMMA ReadUnits ==
    ASSUME TeamTypeOK, NEW m \in Members, inbox' = [inbox EXCEPT ![m] = 0]
    PROVE  /\ Total(inbox, Members) \in Nat
           /\ inbox[m] <= Total(inbox, Members)
           /\ Total(inbox', Members) = Total(inbox, Members) - inbox[m]
<1>0. IsFiniteSet(Members) /\ inbox \in [Members -> Nat]
    BY TeamAssumption DEF TeamTypeOK
<1>1. /\ Total(inbox, Members \ {m}) = Total(inbox, Members) - inbox[m]
      /\ inbox[m] <= Total(inbox, Members) /\ Total(inbox, Members) \in Nat
    BY <1>0, TotalWithout
<1>2. inbox' \in [Members -> Nat] /\ inbox'[m] = 0
    BY <1>0
<1>3. /\ Total(inbox', Members \ {m}) = Total(inbox', Members) - inbox'[m]
      /\ Total(inbox', Members) \in Nat
    BY <1>0, <1>2, TotalWithout
<1>4. Total(inbox', Members \ {m}) = Total(inbox, Members \ {m})
    <2>1. \A x \in Members \ {m} : inbox'[x] = inbox[x]
        BY <1>0
    <2> QED BY <2>1, TotalSame
<1> QED BY <1>0, <1>1, <1>2, <1>3, <1>4

LEMMA MailKeeps ==
    ASSUME TeamInv, MailStep
    PROVE  TeamInv'
<1>0. TeamTypeOK /\ Rostered /\ FailedMembersHoldNothing /\ ReservedIsHeld
    BY DEF TeamInv
<1>1. TeamTypeOK'
    BY <1>0, MailTypes
<1>2. UNCHANGED <<status, gen, board, calls, sessions, batches, agentCount>>
    BY DEF MailStep, ReadInbox, WaitForInbox, WaitGivesUp, rosterVars, slotVars
<1>3. Rostered' /\ FailedMembersHoldNothing'
    BY <1>0, <1>2, RosterKept
<1>4. Registered' = Registered
    BY <1>2 DEF Registered
<1>5. ASSUME NEW s \in sessions, ReadInbox(s)
      PROVE  ReservedIsHeld'
    <2> DEFINE m == MemberOf(s)
               all == Total(inbox, Members)
    <2>1. m \in Members
        BY <1>0, MemberIs
    <2>2. /\ inbox' = [inbox EXCEPT ![m] = 0]
          /\ messageCount' = Less(messageCount, inbox[m])
          /\ quota' = [quota EXCEPT !["messages"] = Less(quota["messages"], inbox[m])]
        BY <1>5 DEF ReadInbox
    <2>3. all \in Nat /\ inbox[m] <= all /\ Total(inbox', Members) = all - inbox[m]
        BY <1>0, <2>1, <2>2, ReadUnits
    <2>4. messageCount = all /\ quota["messages"] = all /\ inbox[m] \in Nat
        BY <1>0, <2>1 DEF ReservedIsHeld, TeamTypeOK
    <2> HIDE DEF m, all
    <2>5. Less(all, inbox[m]) = all - inbox[m]
        BY <2>3, <2>4 DEF Less
    <2>6. /\ quota'["messages"] = all - inbox[m] /\ messageCount' = all - inbox[m]
          /\ quota'["members"] = quota["members"] /\ quota'["tasks"] = quota["tasks"]
          /\ quota'["slots"] = quota["slots"]
        BY <1>0, <2>2, <2>4, <2>5 DEF TeamTypeOK, Quotas
    <2> QED BY <1>0, <1>2, <1>4, <2>3, <2>6 DEF ReservedIsHeld
<1>6. ASSUME UNCHANGED <<inbox, messageCount, quota>>
      PROVE  ReservedIsHeld'
    <2>1. \A t \in Tasks : board'[t].status = "absent" <=> board[t].status = "absent"
        BY <1>2
    <2>2. UNCHANGED <<inbox, messageCount, quota, agentCount, batches>>
        BY <1>2, <1>6
    <2> QED BY <1>0, <1>4, <2>1, <2>2, HeldKept
<1>7. CASE \E s \in sessions : ReadInbox(s)
    BY <1>1, <1>3, <1>5, <1>7 DEF TeamInv
<1>8. CASE \/ \E s \in sessions : WaitForInbox(s)
           \/ \E m \in Members : \E i \in DOMAIN inboxWaiters[m] : WaitGivesUp(m, i)
    <2>1. UNCHANGED <<inbox, messageCount, quota>>
        BY <1>8 DEF WaitForInbox, WaitGivesUp
    <2> QED BY <1>1, <1>3, <1>6, <2>1 DEF TeamInv
<1> QED BY <1>7, <1>8 DEF MailStep

LEMMA BoardKeeps ==
    ASSUME TeamInv, BoardStep
    PROVE  TeamInv'
<1>0. TeamTypeOK /\ Rostered /\ FailedMembersHoldNothing /\ ReservedIsHeld
    BY DEF TeamInv
<1>1. TeamTypeOK'
    BY <1>0, BoardTypes
<1>2. UNCHANGED <<status, gen, inbox, messageCount, calls, sessions, batches, agentCount>>
    BY DEF BoardStep, AddTasks, ClaimTask, CompleteTask, rosterVars, slotVars, mailVars
<1>3. Registered' = Registered
    BY <1>2 DEF Registered
<1>4. ASSUME NEW T \in SUBSET Tasks, NEW a \in Members \cup {Nobody}, AddTasks(T, a)
      PROVE  Rostered' /\ FailedMembersHoldNothing' /\ ReservedIsHeld'
    <2> DEFINE There == {t \in Tasks : board[t].status # "absent"}
    <2>1. board' = [t \in Tasks |->
                 IF t \notin T THEN board[t]
                 ELSE [status |-> IF a = Nobody THEN "pending" ELSE "claimed",
                       assignee |-> a, by |-> Nobody]]
        BY <1>4 DEF AddTasks, Posted
    <2>2. Rostered'
        BY <1>0, <1>2, <1>3, <2>1 DEF Rostered
    <2>3. FailedMembersHoldNothing'
        BY <1>0, <1>2, <2>1 DEF FailedMembersHoldNothing
    <2>4. There \cap T = {} /\ There' = There \cup T
        BY <1>4, <2>1 DEF AddTasks
    <2>5. IsFiniteSet(There) /\ IsFiniteSet(T) /\ Cardinality(There) \in Nat /\ Cardinality(T) \in Nat
        BY FS_Subset, FS_CardinalityType, TeamAssumption
    <2>6. Cardinality(There \cup T) = Cardinality(There) + Cardinality(T)
        <3> HIDE DEF There
        <3>1. Cardinality(There \cup T) = Cardinality(There) + Cardinality(T) - Cardinality(There \cap T)
            BY <2>5, FS_Union
        <3>2. Cardinality(There \cap T) = 0
            BY <2>4, FS_EmptySet
        <3> QED BY <2>5, <3>1, <3>2
    <2>7. quota' = [quota EXCEPT !["tasks"] = quota["tasks"] + Cardinality(T)]
        BY <1>4 DEF AddTasks
    <2>8. quota["tasks"] = Cardinality(There)
        BY <1>0 DEF ReservedIsHeld
    <2>9. /\ quota'["tasks"] = Cardinality(There')
          /\ quota'["members"] = quota["members"] /\ quota'["messages"] = quota["messages"]
          /\ quota'["slots"] = quota["slots"]
        <3> HIDE DEF There
        <3> QED BY <1>0, <2>4, <2>5, <2>6, <2>7, <2>8 DEF TeamTypeOK, Quotas
    <2>10. ReservedIsHeld'
        BY <1>0, <1>2, <1>3, <2>9 DEF ReservedIsHeld
    <2> QED BY <2>2, <2>3, <2>10
<1>5. ASSUME NEW s \in sessions, NEW t \in Tasks, ClaimTask(s, t) \/ CompleteTask(s, t)
      PROVE  Rostered' /\ FailedMembersHoldNothing' /\ ReservedIsHeld'
    <2>1. MemberOf(s) \in Members
        BY <1>0, MemberIs
    <2>2. /\ board[t].status # "absent"
          /\ status[MemberOf(s)] = "running"
          /\ quota' = quota
        BY <1>5 DEF ClaimTask, CompleteTask, FreeFor, IsMemberAttempt
    <2>3. PICK how \in {"claimed", "completed"} :
            board' = [board EXCEPT ![t] = [status |-> how, assignee |-> MemberOf(s), by |-> s.call]]
        BY <1>5 DEF ClaimTask, CompleteTask
    <2>4. \A u \in Tasks : board'[u] = IF u = t THEN [status |-> how, assignee |-> MemberOf(s), by |-> s.call]
                                                ELSE board[u]
        BY <1>0, <2>3 DEF TeamTypeOK
    <2>5. \A u \in Tasks : board'[u].status = "absent" <=> board[u].status = "absent"
        BY <2>2, <2>4
    <2>6. Rostered'
        BY <1>0, <1>2, <1>3, <2>1, <2>4 DEF Rostered
    <2>7. FailedMembersHoldNothing'
        BY <1>0, <1>2, <2>2, <2>4 DEF FailedMembersHoldNothing
    <2>8. ReservedIsHeld'
        BY <1>0, <1>2, <1>3, <2>2, <2>5, HeldKept
    <2> QED BY <2>6, <2>7, <2>8
<1> QED BY <1>1, <1>4, <1>5 DEF TeamInv, BoardStep

LEMMA SettlesHeld ==
    ASSUME TeamTypeOK, Rostered, ReservedIsHeld, NEW b \in batches, BatchSettles(b)
    PROVE  ReservedIsHeld'
<1> DEFINE left == [x \in batches |-> x.left]
           less == [x \in batches \ {b} |-> x.left]
           all == Total(left, batches)
<1>1. IsFiniteSet(batches) /\ (\A x \in batches : left[x] \in Nat) /\ left[b] = b.left
    BY DEF Rostered, TeamTypeOK
<1>2. \A x \in batches \ {b} : less[x] = left[x]
    OBVIOUS
<1> HIDE DEF left, less
<1>3. /\ Total(left, batches \ {b}) = all - b.left
      /\ b.left <= all /\ all \in Nat /\ b.left \in Nat
    BY <1>1, TotalWithout
<1>4. Total(less, batches \ {b}) = Total(left, batches \ {b})
    BY <1>2, TotalSame
<1>5. /\ batches' = batches \ {b}
      /\ quota' = [quota EXCEPT !["slots"] = Less(quota["slots"], b.left)]
      /\ UNCHANGED <<status, inbox, messageCount, board, agentCount>>
    BY DEF BatchSettles, rosterVars, mailVars
<1>6. quota["slots"] = all /\ agentCount + all =< MaxAgents /\ agentCount \in Nat
    BY DEF ReservedIsHeld, left, TeamTypeOK
<1> HIDE DEF all
<1>7. Less(all, b.left) = all - b.left
    BY <1>3 DEF Less
<1>8. /\ quota'["slots"] = all - b.left
      /\ quota'["members"] = quota["members"] /\ quota'["tasks"] = quota["tasks"]
      /\ quota'["messages"] = quota["messages"]
    BY <1>5, <1>6, <1>7 DEF TeamTypeOK, Quotas
<1>9. Total([x \in batches' |-> x.left], batches') = all - b.left
    BY <1>3, <1>4, <1>5 DEF less
<1>10. agentCount' + quota'["slots"] =< MaxAgents
    BY <1>3, <1>5, <1>6, <1>8, TeamAssumption
<1>11. Registered' = Registered
    BY <1>5 DEF Registered
<1> QED BY <1>5, <1>8, <1>9, <1>10, <1>11 DEF ReservedIsHeld

LEMMA QuietKeeps ==
    ASSUME TeamInv, QuietStep
    PROVE  TeamInv'
<1>0. TeamTypeOK /\ Rostered /\ FailedMembersHoldNothing /\ ReservedIsHeld
    BY DEF TeamInv
<1>1. TeamTypeOK'
    BY <1>0, QuietTypes
<1>2. CASE PlainAgent
    <2>1. UNCHANGED <<status, inbox, messageCount, board, quota, batches, calls, sessions>>
        BY <1>2 DEF PlainAgent, rosterVars, mailVars
    <2>2. agentCount' + quota'["slots"] =< MaxAgents
        BY <1>0, <1>2, <2>1 DEF PlainAgent, SlotsFit, TeamTypeOK, Quotas
    <2>3. Registered' = Registered
        BY <2>1 DEF Registered
    <2>4. ReservedIsHeld'
        BY <1>0, <2>1, <2>2, <2>3 DEF ReservedIsHeld
    <2> QED BY <1>0, <1>1, <2>1, <2>4, RosterKept DEF TeamInv
<1>3. CASE AbortTeamRun \/ CloseTeamAdmission
    <2>1. UNCHANGED <<status, inbox, messageCount, board, quota, agentCount, batches, calls>>
        BY <1>3 DEF AbortTeamRun, CloseTeamAdmission, rosterVars, mailVars, slotVars
    <2>2. \A s \in sessions' : \E q \in sessions : s.call = q.call
        <3>1. \A q \in sessions : [q EXCEPT !.stopped = TRUE].call = q.call
            BY <1>0 DEF TeamTypeOK, SessionRecord
        <3>2. sessions' = sessions \/ sessions' = Stopped(sessions)
            BY <1>3 DEF AbortTeamRun, CloseTeamAdmission
        <3>3. \A s \in Stopped(sessions) : \E q \in sessions : s.call = q.call
            BY <3>1 DEF Stopped
        <3> QED BY <3>2, <3>3
    <2>3. Registered' = Registered
        BY <2>1 DEF Registered
    <2>4. Rostered' /\ FailedMembersHoldNothing'
        BY <1>0, <2>1, <2>2, <2>3 DEF Rostered, FailedMembersHoldNothing
    <2>5. ReservedIsHeld'
        BY <1>0, <2>1, <2>3, HeldKept
    <2> QED BY <1>1, <2>4, <2>5 DEF TeamInv
<1>4. ASSUME NEW b \in batches, BatchSettles(b)
      PROVE  TeamInv'
    <2>1. ReservedIsHeld'
        BY <1>0, <1>4, SettlesHeld
    <2>2. UNCHANGED <<status, board, calls, sessions>> /\ batches' = batches \ {b}
        BY <1>4 DEF BatchSettles, rosterVars
    <2>3. IsFiniteSet(batches')
        BY <1>0, <2>2, FS_RemoveElement DEF Rostered
    <2>4. Registered' = Registered
        BY <2>2 DEF Registered
    <2>5. Rostered' /\ FailedMembersHoldNothing'
        BY <1>0, <2>2, <2>3, <2>4 DEF Rostered, FailedMembersHoldNothing
    <2> QED BY <1>1, <2>1, <2>5 DEF TeamInv
<1> QED BY <1>2, <1>3, <1>4 DEF QuietStep

LEMMA TurnedDownKeeps ==
    ASSUME TeamInv, NEW S \in SUBSET TeamCalls, NEW ids \in [S -> Members],
           Spawn(ids), SpawnTurnedDown(ids)
    PROVE  TeamInv'
<1>0. TeamTypeOK /\ Rostered /\ FailedMembersHoldNothing /\ ReservedIsHeld
    BY DEF TeamInv
<1>1. TeamTypeOK'
    BY <1>0, SpawnTypes
<1> DEFINE news == Cardinality(NewMembers(ids))
           slots == Cardinality(DOMAIN ids)
<1>2. news \in Nat /\ slots \in Nat
    <2>1. NewMembers(ids) \subseteq Members /\ DOMAIN ids \subseteq TeamCalls
        BY DEF NewMembers, Range
    <2> QED BY <2>1, TeamAssumption, FS_Subset, FS_CardinalityType
<1>3. quota \in [Quotas -> Nat]
    BY <1>0 DEF TeamTypeOK
<1> HIDE DEF news, slots
<1>4. ASSUME NEW k \in Nat, NEW l \in Nat
      PROVE  Returned(Reserved(k, l), k, l) = quota
    <2>1. \A i, j \in Nat : Less(i + j, j) = i
        BY DEF Less
    <2>2. quota["members"] \in Nat /\ quota["slots"] \in Nat
        BY <1>3 DEF Quotas
    <2>3. /\ Reserved(k, l) \in [Quotas -> Int]
          /\ Reserved(k, l)["members"] = quota["members"] + k
          /\ Reserved(k, l)["slots"] = quota["slots"] + l
          /\ Reserved(k, l)["tasks"] = quota["tasks"]
          /\ Reserved(k, l)["messages"] = quota["messages"]
        BY <1>3, <2>2 DEF Reserved, Quotas
    <2> HIDE DEF Reserved
    <2>4. \A q \in Quotas : Returned(Reserved(k, l), k, l)[q] = quota[q]
        BY <2>1, <2>2, <2>3 DEF Returned, Quotas
    <2>5. Returned(Reserved(k, l), k, l) = [q \in Quotas |-> Returned(Reserved(k, l), k, l)[q]]
        BY <2>3 DEF Returned
    <2> QED BY <1>3, <2>4, <2>5
<1>5. \/ quota' = Returned(Reserved(news, 0), news, 0)
      \/ quota' = Returned(Reserved(news, slots), news, slots)
    BY DEF SpawnTurnedDown, news, slots
<1>6. quota' = quota
    BY <1>2, <1>4, <1>5
<1>7. UNCHANGED <<status, inbox, messageCount, board, agentCount, batches, calls, sessions>>
    BY DEF Spawn, SpawnTurnedDown, rosterVars, mailVars, slotVars
<1>8. Rostered' /\ FailedMembersHoldNothing'
    BY <1>0, <1>7, RosterKept
<1>9. Registered' = Registered
    BY <1>7 DEF Registered
<1>10. ReservedIsHeld'
    BY <1>0, <1>6, <1>7, <1>9, HeldKept
<1> QED BY <1>1, <1>8, <1>10 DEF TeamInv

LEMMA AcceptedKeeps ==
    ASSUME TeamInv, NEW S \in SUBSET TeamCalls, S # {}, NEW ids \in [S -> Members], Spawn(ids),
           NEW refused \in SUBSET S, NEW oversized \in SUBSET (S \ refused),
           SpawnAccepted(ids, refused, oversized)
    PROVE  TeamInv'
<1>0. TeamTypeOK /\ Rostered /\ FailedMembersHoldNothing /\ ReservedIsHeld
    BY DEF TeamInv
<1>1. TeamTypeOK'
    BY <1>0, SpawnTypes
<1> DEFINE New == NewMembers(ids)
           batch == [calls |-> S, left |-> Cardinality(refused)]
<1>2. /\ DOMAIN ids = S /\ Range(ids) \subseteq Members /\ New = Range(ids) \ Registered
      /\ \A c \in S : ids[c] \in Range(ids)
      /\ Registered \subseteq Members
    BY DEF NewMembers, Range, Registered
<1>3. /\ IsFiniteSet(New) /\ IsFiniteSet(Registered) /\ IsFiniteSet(S) /\ IsFiniteSet(refused)
      /\ IsFiniteSet(S \ refused)
    BY <1>2, TeamAssumption, FS_Subset
<1>4. /\ Cardinality(New) \in Nat /\ Cardinality(Registered) \in Nat /\ Cardinality(S) \in Nat
      /\ Cardinality(refused) \in Nat /\ Cardinality(S \ refused) \in Nat
    BY <1>3, FS_CardinalityType
<1>5. Cardinality(S \ refused) + Cardinality(refused) = Cardinality(S)
    <2>1. Cardinality(S \ refused) = Cardinality(S) - Cardinality(S \cap refused)
        BY <1>3, FS_Difference
    <2>2. S \cap refused = refused
        OBVIOUS
    <2> QED BY <1>4, <2>1, <2>2
<1>6. /\ status' = [m \in Members |-> IF m \in New THEN "registered" ELSE status[m]]
      /\ quota' = Reserved(Cardinality(New), Cardinality(refused))
      /\ agentCount' = agentCount + Cardinality(S \ refused)
      /\ batches' = batches \cup {batch}
      /\ UNCHANGED <<inbox, messageCount, board, sessions>>
      /\ SlotsFit(Cardinality(S))
    BY <1>2 DEF Spawn, SpawnAccepted, mailVars
<1>7. \A c \in TeamCalls :
        IF c \in S THEN calls[c].at = "idle" /\ calls'[c].member = ids[c] /\ calls'[c].at # "idle"
                   ELSE calls'[c] = calls[c]
    <2>1. \A c \in TeamCalls :
             calls'[c] = IF c \notin S THEN calls[c]
                         ELSE [calls[c] EXCEPT !.member = ids[c],
                                  !.at = IF c \in refused \cup oversized THEN "rejected" ELSE "queued"]
        BY <1>2 DEF SpawnAccepted
    <2>2. \A c \in S : calls[c].at = "idle"
        BY <1>2 DEF Spawn
    <2>3. \A c \in TeamCalls : calls[c] \in [at: {"idle", "queued", "begun", "live", "returned",
                                     "done", "failed", "rejected", "aborted"},
                                member: Members \cup {Nobody}, try: Nat, gen: Nat]
        BY <1>0 DEF TeamTypeOK
    <2>4. ASSUME NEW c \in TeamCalls, c \in S, NEW how \in {"rejected", "queued"}
          PROVE  /\ [calls[c] EXCEPT !.member = ids[c], !.at = how].member = ids[c]
                 /\ [calls[c] EXCEPT !.member = ids[c], !.at = how].at = how
        BY <2>3
    <2>5. ASSUME NEW c \in TeamCalls, c \in S
          PROVE  calls'[c].member = ids[c] /\ calls'[c].at # "idle"
        <3>1. PICK how \in {"rejected", "queued"} :
                calls'[c] = [calls[c] EXCEPT !.member = ids[c], !.at = how]
            BY <2>1, <2>5
        <3> QED BY <2>4, <2>5, <3>1
    <2> QED BY <2>1, <2>2, <2>5
<1>8. Registered' = Registered \cup New
    BY <1>2, <1>6 DEF Registered
<1> HIDE DEF New
<1>9. Rostered'
    <2>1. \A c \in TeamCalls : calls'[c].at # "idle" => calls'[c].member \in Registered'
        BY <1>0, <1>2, <1>7, <1>8 DEF Rostered
    <2>2. \A s \in sessions' : calls'[s.call].at # "idle"
        <3>1. \A s \in sessions : s.call \in TeamCalls
            BY <1>0 DEF TeamTypeOK, SessionRecord
        <3> QED BY <1>0, <1>6, <1>7, <3>1 DEF Rostered
    <2>3. IsFiniteSet(batches')
        BY <1>0, <1>6, FS_AddElement DEF Rostered
    <2>4. \A b \in batches' : b.calls # {} /\ \A c \in b.calls : calls'[c].at # "idle"
        <3>1. \A b \in batches : b.calls \subseteq TeamCalls
            BY <1>0 DEF TeamTypeOK
        <3> QED BY <1>0, <1>6, <1>7, <3>1 DEF Rostered
    <2> QED BY <1>0, <1>6, <2>1, <2>2, <2>3, <2>4 DEF Rostered
<1>10. FailedMembersHoldNothing'
    BY <1>0, <1>6 DEF FailedMembersHoldNothing, Rostered
<1>11. batch \notin batches
    BY <1>0, <1>7 DEF Rostered
<1>12. Total([b \in batches' |-> b.left], batches') = quota["slots"] + Cardinality(refused)
    <2> DEFINE left == [b \in batches |-> b.left]
               more == [b \in batches \cup {batch} |-> b.left]
    <2>1. IsFiniteSet(batches) /\ (\A b \in batches \cup {batch} : more[b] \in Nat)
        BY <1>0, <1>4 DEF Rostered, TeamTypeOK
    <2>2. (\A b \in batches : more[b] = left[b]) /\ more[batch] = Cardinality(refused)
        OBVIOUS
    <2>3. Total(left, batches) = quota["slots"]
        BY <1>0 DEF ReservedIsHeld
    <2> SUFFICES Total(more, batches \cup {batch}) = quota["slots"] + Cardinality(refused)
        BY <1>6
    <2> HIDE DEF left, more, batch
    <2>4. Total(more, batches \cup {batch}) = Total(more, batches) + more[batch]
        BY <1>11, <2>1, TotalWith
    <2>5. Total(more, batches) = Total(left, batches)
        BY <2>2, TotalSame
    <2> QED BY <2>2, <2>3, <2>4, <2>5
<1>13. Cardinality(Registered') = Cardinality(Registered) + Cardinality(New)
    <2>1. Registered \cap New = {}
        BY <1>2
    <2>2. Cardinality(Registered \cup New)
            = Cardinality(Registered) + Cardinality(New) - Cardinality(Registered \cap New)
        BY <1>3, FS_Union
    <2>3. Cardinality(Registered \cap New) = 0
        BY <2>1, FS_EmptySet
    <2> QED BY <1>4, <1>8, <2>2, <2>3
<1>14. /\ quota["members"] \in Nat /\ quota["slots"] \in Nat /\ agentCount \in Nat
       /\ quota \in [Quotas -> Nat] /\ Cardinality(Foreign) \in Nat
    BY <1>0, TeamAssumption, FS_Subset, FS_CardinalityType DEF TeamTypeOK, Quotas
<1>15. /\ quota'["members"] = quota["members"] + Cardinality(New)
       /\ quota'["slots"] = quota["slots"] + Cardinality(refused)
       /\ quota'["tasks"] = quota["tasks"] /\ quota'["messages"] = quota["messages"]
    BY <1>6, <1>14 DEF Reserved, Quotas
<1>16. agentCount' + quota'["slots"] =< MaxAgents
    <2>1. MaxAgents \in Nat
        BY TeamAssumption
    <2>2. agentCount + quota["slots"] + Cardinality(S) =< MaxAgents
        BY <1>6 DEF SlotsFit
    <2> QED BY <1>4, <1>5, <1>6, <1>14, <1>15, <2>1, <2>2
<1>17. ReservedIsHeld'
    <2>1. quota'["members"] = Cardinality(Registered') + Cardinality(Foreign)
        BY <1>0, <1>4, <1>13, <1>14, <1>15 DEF ReservedIsHeld
    <2>2. quota'["slots"] = Total([b \in batches' |-> b.left], batches')
        BY <1>12, <1>15
    <2> QED BY <1>0, <1>6, <1>15, <1>16, <2>1, <2>2 DEF ReservedIsHeld
<1> QED BY <1>1, <1>9, <1>10, <1>17 DEF TeamInv

\* The invariant of the team holds at the start and after every step.
LEMMA TeamInvInit == TeamInit => TeamInv
<1> SUFFICES ASSUME TeamInit PROVE TeamInv
    OBVIOUS
<1>1. TeamTypeOK
    BY TeamInitTypes
<1>2. Registered = {} /\ sessions = {} /\ batches = {} /\ {t \in Tasks : board[t].status # "absent"} = {}
    BY DEF TeamInit, Registered
<1>3. Rostered /\ FailedMembersHoldNothing
    BY <1>2, FS_EmptySet DEF TeamInit, Rostered, FailedMembersHoldNothing
<1>4. Total(inbox, Members) = 0
    BY TotalZero DEF TeamInit
<1>5. Total([b \in batches |-> b.left], batches) = 0
    BY <1>2, TotalEmpty
<1>6. Cardinality(Foreign) \in Nat
    BY FS_Subset, FS_CardinalityType, TeamAssumption
<1>7. /\ quota["members"] = Cardinality(Foreign) /\ quota["tasks"] = 0
      /\ quota["messages"] = 0 /\ quota["slots"] = 0 /\ messageCount = 0 /\ agentCount = 0
    BY DEF TeamInit, Quotas
<1>8. MaxAgents \in Nat
    BY TeamAssumption
<1>9. Cardinality(Registered) = 0 /\ Cardinality({t \in Tasks : board[t].status # "absent"}) = 0
    BY <1>2, FS_EmptySet
<1>10. ReservedIsHeld
    BY <1>4, <1>5, <1>6, <1>7, <1>8, <1>9 DEF ReservedIsHeld
<1> QED BY <1>1, <1>3, <1>10 DEF TeamInv

LEMMA TeamInvStep == TeamInv /\ [TeamNext]_teamVars => TeamInv'
<1> SUFFICES ASSUME TeamInv, [TeamNext]_teamVars PROVE TeamInv'
    OBVIOUS
<1>1. CASE UNCHANGED teamVars
    <2>1. TeamTypeOK'
        BY <1>1, TeamTyped DEF TeamInv
    <2>2. UNCHANGED <<status, inbox, messageCount, board, quota, agentCount, batches, calls, sessions>>
        BY <1>1 DEF teamVars, rosterVars, mailVars, slotVars
    <2>3. Registered' = Registered
        BY <2>2 DEF Registered
    <2>4. ReservedIsHeld'
        BY <2>2, <2>3, HeldKept DEF TeamInv
    <2> QED BY <2>1, <2>2, <2>4, RosterKept DEF TeamInv
<1>2. ASSUME NEW S \in (SUBSET TeamCalls) \ {{}}, NEW ids \in [S -> Members], Spawn(ids)
      PROVE  TeamInv'
    <2>1. S \in SUBSET TeamCalls /\ S # {} /\ DOMAIN ids = S
        OBVIOUS
    <2> QED BY <1>2, <2>1, TurnedDownKeeps, AcceptedKeeps DEF Spawn
<1>3. CASE TeamNext
    BY <1>2, <1>3, TeamSteps, CallKeeps, SessionKeeps, PostKeeps, MailKeeps, BoardKeeps, QuietKeeps
<1> QED BY <1>1, <1>3

\* Whatever the members, the calls and the limits: types, and the facts below.
THEOREM TeamInvariant == TeamSpec => []TeamInv
<1>1. TeamInit => TeamInv
    BY TeamInvInit
<1>2. TeamInv /\ [TeamNext]_teamVars => TeamInv'
    BY TeamInvStep
<1> QED BY <1>1, <1>2, PTL DEF TeamSpec

\* What SharedRuntime has reserved is what the teams hold.
THEOREM QuotasAreHeld == TeamSpec => []ReservedIsHeld
<1>1. TeamInv => ReservedIsHeld
    BY DEF TeamInv
<1> QED BY <1>1, TeamInvariant, PTL

\* agent-team.ts releaseTasks(): a member that failed or was aborted holds no claim.
THEOREM ClaimsAreGivenBack == TeamSpec => []FailedMembersHoldNothing
<1>1. TeamInv => FailedMembersHoldNothing
    BY DEF TeamInv
<1> QED BY <1>1, TeamInvariant, PTL

----------------------------------------------------------------------------
(* TokenAccounts *)

CallStates == {"idle", "on", "done", "ended", "aborted", "replayed"}
AttemptRecords ==
    [tracked : BOOLEAN, live : BOOLEAN, usage : Amounts \cup {Unknown}, accounted : BOOLEAN, tokens : Nat,
     usedFallback : BOOLEAN, retryPending : BOOLEAN, told : Nat \cup {Unknown}]
AccountTypeOK ==
    /\ account \in [Calls -> [TryNumbers -> AttemptRecords]]
    /\ call \in [Calls -> [state : CallStates, try : Nat]]
    /\ spent \in Nat /\ reported \in Nat /\ seed \in Nat
    /\ gateState \in {"open", "closing", "closed"}
    /\ callsAborted \in BOOLEAN /\ executions \in Nat
\* What an account says is charged for its attempt.
Charge(x) == IF ~x.accounted THEN 0
             ELSE IF x.usage \in Amounts \ {0} THEN x.usage ELSE Estimate
Charges == [a \in Attempted |-> Charge(account[a[1]][a[2]])]
\* An attempt is charged what it is known to have used, and told once it is done.
Sound(x) ==
    /\ x.tokens = Charge(x)
    /\ x.accounted /\ x.usage = Unknown => x.usedFallback
    /\ x.retryPending \/ x.told # Unknown => x.accounted
    /\ x.retryPending /\ x.told # Unknown => ~x.live /\ x.told = x.tokens

ChargedOnce == \A c \in Calls, k \in TryNumbers : Sound(account[c][k])

\* A call that is on has charged all of its attempts but the last, and no later one began.
TriesInOrder ==
    \A c \in Calls :
        /\ call[c].state = "idle" => \A k \in TryNumbers : account[c][k] = NewAttempt
        /\ call[c].state = "on" =>
              /\ call[c].try \in 1 .. MaxTries[c]
              /\ ~account[c][call[c].try].accounted
              /\ \A k \in TryNumbers : k > call[c].try => account[c][k] = NewAttempt
        /\ gateState = "closed" => call[c].state # "on"
\* The counter and the aggregate are the sums of what the accounts say.
BooksBalance ==
    /\ spent = seed + Total(Charges, Attempted)
    /\ reported = IF gateState = "closed" THEN spent ELSE seed + Total(ToldSpends, Attempted)
\* The attempts charged are those that were judged, or aborted with their usage known.
JudgedAreCharged ==
    /\ \A c \in Calls, k \in TryNumbers :
        account[c][k].accounted
            <=> WasJudged(c, k) \/ (WasAborted(c, k) /\ account[c][k].usage # Unknown)
    /\ \A c \in Calls : call[c].state = "aborted" => gateState # "open"
    /\ callsAborted => gateState # "open"
AccountInv == AccountTypeOK /\ ChargedOnce /\ TriesInOrder /\ BooksBalance /\ JudgedAreCharged

LEMMA AttemptedFinite == IsFiniteSet(Attempted)
<1>1. IsFiniteSet(TryNumbers)
    <2> DEFINE R == {1 .. MaxTries[c] : c \in Calls}
               tries == [c \in Calls |-> 1 .. MaxTries[c]]
    <2>1. tries \in Surjection(Calls, R)
        BY DEF Surjection
    <2>2. IsFiniteSet(R)
        <3> HIDE DEF tries, R
        <3> QED BY <2>1, AccountAssumption, FS_Surjection
    <2>3. \A T \in R : IsFiniteSet(T)
        BY AccountAssumption, FS_Interval
    <2>4. TryNumbers = UNION R
        BY DEF TryNumbers
    <2> HIDE DEF R
    <2> QED BY <2>2, <2>3, <2>4, FS_UNION
<1> QED BY <1>1, AccountAssumption, FS_Product DEF Attempted

\* One element changes, and with it the sum.
LEMMA TotalChange ==
    ASSUME NEW S, IsFiniteSet(S), NEW x \in S, NEW f, NEW g,
           \A y \in S : f[y] \in Nat /\ g[y] \in Nat,
           \A y \in S \ {x} : g[y] = f[y]
    PROVE  Total(g, S) = Total(f, S) - f[x] + g[x]
<1>1. Total(f, S \ {x}) = Total(f, S) - f[x] /\ Total(f, S) \in Nat
    BY TotalWithout
<1>2. Total(g, S \ {x}) = Total(g, S) - g[x] /\ Total(g, S) \in Nat
    BY TotalWithout
<1>3. Total(g, S \ {x}) = Total(f, S \ {x})
    BY TotalSame
<1> QED BY <1>1, <1>2, <1>3

LEMMA RecordsCharge ==
    ASSUME NEW x \in AttemptRecords
    PROVE  Charge(x) \in Nat /\ Amount(x.told) \in Nat
BY AccountAssumption DEF Charge, Amount, AttemptRecords

LEMMA FirstTries ==
    ASSUME NEW c \in Calls, NEW k \in 1 .. MaxTries[c]
    PROVE  k \in TryNumbers /\ k \in Nat
BY AccountAssumption DEF TryNumbers

LEMMA TriesArePositive == \A k \in TryNumbers : k \in Nat /\ k > 0
BY AccountAssumption DEF TryNumbers

LEMMA FreshRecord ==
    /\ NewAttempt \in AttemptRecords /\ Charge(NewAttempt) = 0 /\ Amount(NewAttempt.told) = 0
    /\ ~NewAttempt.accounted /\ ~NewAttempt.retryPending /\ NewAttempt.tokens = 0
    /\ NewAttempt.told = Unknown
BY AccountAssumption DEF NewAttempt, AttemptRecords, Charge, Amount

\* All of the accounts are new.
LEMMA FreshSums ==
    ASSUME \A c \in Calls, k \in TryNumbers : account[c][k] = NewAttempt
    PROVE  Total(Charges, Attempted) = 0 /\ Total(ToldSpends, Attempted) = 0
<1>1. \A a \in Attempted : Charges[a] = 0 /\ ToldSpends[a] = 0
    BY FreshRecord DEF Charges, ToldSpends, Attempted
<1> QED BY <1>1, TotalZero


LEMMA AccountInitInv == AccountInit => AccountInv
<1> SUFFICES ASSUME AccountInit PROVE AccountInv
    OBVIOUS
<1>1. \A c \in Calls, k \in TryNumbers : account[c][k] = NewAttempt
    BY DEF AccountInit
<1>2. AccountTypeOK
    BY FreshRecord DEF AccountInit, AccountTypeOK, CallStates
<1>3. ChargedOnce
    BY <1>1, FreshRecord DEF ChargedOnce, Sound
<1>4. TriesInOrder
    BY <1>1 DEF AccountInit, TriesInOrder
<1>5. BooksBalance
    BY <1>1, FreshSums, FreshRecord DEF AccountInit, BooksBalance
<1>6. JudgedAreCharged
    <2>1. \A c \in Calls : call[c].state = "idle" /\ call[c].try = 0
        BY DEF AccountInit
    <2>2. \A c \in Calls, k \in TryNumbers : ~WasJudged(c, k) /\ ~WasAborted(c, k)
        BY <2>1, TriesArePositive DEF WasJudged, WasAborted
    <2> QED BY <1>1, <2>1, <2>2, FreshRecord DEF JudgedAreCharged, AccountInit
<1> QED BY <1>2, <1>3, <1>4, <1>5, <1>6 DEF AccountInv

\* The counter and the aggregate follow the sums when an attempt becomes y.
LEMMA SumsFollow ==
    ASSUME AccountTypeOK, BooksBalance, NEW c \in Calls, NEW k \in TryNumbers,
           NEW y \in AttemptRecords, y.tokens = Charge(y),
           account[c][k].tokens = Charge(account[c][k]),
           Becomes(c, k, y)
    PROVE  /\ account' \in [Calls -> [TryNumbers -> AttemptRecords]]
           /\ account'[c][k] = y
           /\ \A d \in Calls, j \in TryNumbers : d # c \/ j # k => account'[d][j] = account[d][j]
           /\ spent' \in Nat
           /\ spent' = seed + Total(Charges', Attempted)
           /\ gateState # "closed" => reported' \in Nat /\ reported' = seed + Total(ToldSpends', Attempted)
<1> DEFINE x == account[c][k]
           a == <<c, k>>
<1>1. account' = [account EXCEPT ![c][k] = y] /\ x \in AttemptRecords
    BY DEF Becomes, AccountTypeOK
<1>2. /\ account' \in [Calls -> [TryNumbers -> AttemptRecords]]
      /\ account'[c][k] = y
      /\ \A d \in Calls, j \in TryNumbers : d # c \/ j # k => account'[d][j] = account[d][j]
    BY <1>1 DEF AccountTypeOK
<1>3. a \in Attempted /\ IsFiniteSet(Attempted)
    BY AttemptedFinite DEF Attempted
<1>4. \A b \in Attempted : b[1] \in Calls /\ b[2] \in TryNumbers /\ b = <<b[1], b[2]>>
    BY DEF Attempted
<1>5. /\ Charges[a] = x.tokens /\ Charges'[a] = y.tokens
      /\ ToldSpends[a] = Amount(x.told) /\ ToldSpends'[a] = Amount(y.told)
    BY <1>2, <1>3 DEF Charges, ToldSpends
<1>6. \A b \in Attempted : /\ Charges[b] \in Nat /\ Charges'[b] \in Nat
                           /\ ToldSpends[b] \in Nat /\ ToldSpends'[b] \in Nat
    BY <1>2, <1>4, RecordsCharge DEF Charges, ToldSpends, AccountTypeOK
<1>7. \A b \in Attempted \ {a} : Charges'[b] = Charges[b] /\ ToldSpends'[b] = ToldSpends[b]
    BY <1>2, <1>4 DEF Charges, ToldSpends
<1>8. ASSUME NEW f, f = Charges, NEW g, g = Charges'
      PROVE  Total(g, Attempted) = Total(f, Attempted) - f[a] + g[a] /\ Total(g, Attempted) \in Nat
    <2>1. \A b \in Attempted : f[b] \in Nat /\ g[b] \in Nat
        BY <1>6, <1>8
    <2>2. \A b \in Attempted \ {a} : g[b] = f[b]
        BY <1>7, <1>8
    <2> HIDE DEF a
    <2> QED BY <1>3, <2>1, <2>2, TotalChange, UnitsFinite
<1>9. ASSUME NEW f, f = ToldSpends, NEW g, g = ToldSpends'
      PROVE  Total(g, Attempted) = Total(f, Attempted) - f[a] + g[a] /\ Total(g, Attempted) \in Nat
    <2>1. \A b \in Attempted : f[b] \in Nat /\ g[b] \in Nat
        BY <1>6, <1>9
    <2>2. \A b \in Attempted \ {a} : g[b] = f[b]
        BY <1>7, <1>9
    <2> HIDE DEF a
    <2> QED BY <1>3, <2>1, <2>2, TotalChange, UnitsFinite
<1>10. /\ Total(Charges', Attempted) = Total(Charges, Attempted) - x.tokens + y.tokens
       /\ Total(Charges', Attempted) \in Nat
    BY <1>5, <1>8
<1>11. /\ Total(ToldSpends', Attempted) = Total(ToldSpends, Attempted) - Amount(x.told) + Amount(y.told)
       /\ Total(ToldSpends', Attempted) \in Nat
    BY <1>5, <1>9
<1>12. /\ Total(Charges, Attempted) \in Nat /\ Total(ToldSpends, Attempted) \in Nat
       /\ seed \in Nat /\ x.tokens \in Nat /\ y.tokens \in Nat
       /\ Amount(x.told) \in Nat /\ Amount(y.told) \in Nat
    BY <1>1, <1>3, <1>6, UnitsFinite, RecordsCharge DEF AttemptRecords, AccountTypeOK
<1>13. spent' = spent - x.tokens + y.tokens /\ spent = seed + Total(Charges, Attempted)
    BY DEF Becomes, BooksBalance
<1>14. /\ reported' = reported - Amount(x.told) + Amount(y.told)
       /\ gateState # "closed" => reported = seed + Total(ToldSpends, Attempted)
    BY DEF Becomes, BooksBalance
<1> HIDE DEF x, a
<1> QED BY <1>2, <1>10, <1>11, <1>12, <1>13, <1>14

LEMMA RecordedSound ==
    ASSUME NEW x \in AttemptRecords, Sound(x)
    PROVE  /\ Recorded(x) \in AttemptRecords /\ Sound(Recorded(x)) /\ Recorded(x).accounted
           /\ Recorded(x).live = x.live /\ Recorded(x).retryPending = x.retryPending
           /\ Recorded(x).told = x.told /\ Recorded(x).usage = x.usage
<1>1. CASE x.accounted
    BY <1>1 DEF Recorded
<1>2. CASE ~x.accounted
    <2> DEFINE t == IF x.usage = Unknown \/ x.usage = 0 THEN Estimate ELSE x.usage
               r == [x EXCEPT !.accounted = TRUE, !.tokens = t, !.usedFallback = x.usage \in {Unknown, 0}]
    <2>1. t \in Nat /\ Recorded(x) = r
        BY <1>2, AccountAssumption DEF AttemptRecords, Recorded
    <2>2. r \in AttemptRecords
        <3>1. ASSUME NEW f \in BOOLEAN, NEW n \in Nat
              PROVE  [x EXCEPT !.accounted = TRUE, !.tokens = n, !.usedFallback = f] \in AttemptRecords
            BY DEF AttemptRecords
        <3>2. (x.usage \in {Unknown, 0}) \in BOOLEAN
            OBVIOUS
        <3> HIDE DEF t
        <3> QED BY <2>1, <3>1, <3>2
    <2>3. /\ r.accounted /\ r.tokens = t /\ r.live = x.live /\ r.retryPending = x.retryPending
          /\ r.told = x.told /\ r.usage = x.usage
          /\ x.usage = Unknown => r.usedFallback
        BY DEF AttemptRecords
    <2>4. ~x.retryPending
        BY <1>2 DEF Sound
    <2>5. t = Charge(r)
        BY <2>3, AccountAssumption DEF Charge, AttemptRecords
    <2> HIDE DEF r, t
    <2> QED BY <2>1, <2>2, <2>3, <2>4, <2>5 DEF Sound
<1> QED BY <1>1, <1>2

LEMMA ReportedSound ==
    ASSUME NEW x \in AttemptRecords, Sound(x), x.live, x.usage = Unknown, NEW n \in Amounts
    PROVE  /\ Reported(x, n) \in AttemptRecords /\ Sound(Reported(x, n))
           /\ Reported(x, n).accounted = x.accounted
<1> DEFINE y == [x EXCEPT !.usage = n]
           z == [y EXCEPT !.tokens = IF n > 0 THEN n ELSE @, !.usedFallback = FALSE]
<1>1. n \in Nat /\ n # Unknown
    BY AccountAssumption
<1>2. /\ y \in AttemptRecords /\ y.usage = n /\ y.accounted = x.accounted /\ y.tokens = x.tokens
      /\ y.live = x.live /\ y.retryPending = x.retryPending /\ y.told = x.told
    BY DEF AttemptRecords
<1>3. x.retryPending => x.told = Unknown
    BY DEF Sound
<1>4. CASE ~x.accounted
    <2>1. Reported(x, n) = y
        BY <1>4 DEF Reported
    <2>2. Charge(y) = Charge(x)
        BY <1>2, <1>4 DEF Charge
    <2> HIDE DEF y
    <2> QED BY <1>1, <1>2, <1>3, <1>4, <2>1, <2>2 DEF Sound
<1>5. CASE x.accounted
    <2>1. Reported(x, n) = z
        BY <1>5 DEF Reported, Sound
    <2>2. /\ z \in AttemptRecords /\ z.usage = n /\ z.accounted = x.accounted
          /\ z.tokens = IF n > 0 THEN n ELSE x.tokens
          /\ z.live = x.live /\ z.retryPending = x.retryPending /\ z.told = x.told
        BY <1>1 DEF AttemptRecords
    <2>3. x.tokens = Estimate
        BY <1>5, AccountAssumption DEF Sound, Charge
    <2>4. z.tokens = Charge(z)
        BY <1>1, <1>5, <2>2, <2>3 DEF Charge
    <2> HIDE DEF y, z
    <2> QED BY <1>1, <1>3, <1>5, <2>1, <2>2, <2>4 DEF Sound
<1> QED BY <1>4, <1>5 DEF AttemptRecords

LEMMA NotifiedSound ==
    ASSUME NEW x \in AttemptRecords, Sound(x)
    PROVE  /\ Notified(x) \in AttemptRecords /\ Sound(Notified(x))
           /\ Notified(x).accounted = x.accounted /\ Notified(x).tokens = x.tokens
           /\ Notified(x).usage = x.usage
           /\ gateState # "open" => Notified(x) = x
<1> DEFINE y == [x EXCEPT !.told = x.tokens]
<1>1. /\ y \in AttemptRecords /\ y.usage = x.usage /\ y.accounted = x.accounted /\ y.tokens = x.tokens
      /\ y.usedFallback = x.usedFallback
      /\ y.live = x.live /\ y.retryPending = x.retryPending /\ y.told = x.tokens
    BY DEF AttemptRecords
<1>2. CASE x.retryPending /\ x.told = Unknown /\ ~x.live /\ x.accounted /\ gateState = "open"
    <2>1. Notified(x) = y
        BY <1>2 DEF Notified
    <2>2. Charge(y) = Charge(x)
        BY <1>1 DEF Charge
    <2> HIDE DEF y
    <2> QED BY <1>1, <1>2, <2>1, <2>2 DEF Sound
<1>3. CASE ~(x.retryPending /\ x.told = Unknown /\ ~x.live /\ x.accounted /\ gateState = "open")
    BY <1>3 DEF Notified
<1> QED BY <1>2, <1>3

\* What a step that changes one attempt keeps.
LEMMA AttemptChanges ==
    ASSUME AccountInv, NEW c \in Calls, NEW k \in TryNumbers,
           NEW y \in AttemptRecords, Sound(y), Becomes(c, k, y),
           gateState = "closed" => y.tokens = account[c][k].tokens /\ y.told = account[c][k].told,
           UNCHANGED <<seed, gateState, callsAborted, executions>>,
           call' \in [Calls -> [state : CallStates, try : Nat]],
           TriesInOrder', JudgedAreCharged'
    PROVE  AccountInv'
<1>1. /\ AccountTypeOK /\ BooksBalance /\ account[c][k].tokens = Charge(account[c][k])
      /\ y.tokens = Charge(y)
      /\ \A d \in Calls, j \in TryNumbers : Sound(account[d][j])
    BY DEF AccountInv, ChargedOnce, Sound
<1>2. /\ account' \in [Calls -> [TryNumbers -> AttemptRecords]]
      /\ account'[c][k] = y
      /\ \A d \in Calls, j \in TryNumbers : d # c \/ j # k => account'[d][j] = account[d][j]
      /\ spent' \in Nat
      /\ spent' = seed + Total(Charges', Attempted)
      /\ gateState # "closed" => reported' \in Nat /\ reported' = seed + Total(ToldSpends', Attempted)
    BY <1>1, SumsFollow
<1>3. \A d \in Calls, j \in TryNumbers : Sound(account'[d][j])
    BY <1>1, <1>2
<1>4. gateState = "closed" => reported' = spent' /\ reported' \in Nat
    <2> SUFFICES ASSUME gateState = "closed" PROVE reported' = spent' /\ reported' \in Nat
        OBVIOUS
    <2>1. y.tokens = account[c][k].tokens /\ y.told = account[c][k].told
        OBVIOUS
    <2>2. /\ spent' = spent - account[c][k].tokens + y.tokens
          /\ reported' = reported - Amount(account[c][k].told) + Amount(y.told)
        BY DEF Becomes
    <2>3. reported = spent
        BY <1>1 DEF BooksBalance
    <2>4. spent \in Nat /\ y.tokens \in Nat /\ Amount(y.told) \in Nat
        BY <1>1, RecordsCharge DEF AccountTypeOK, AttemptRecords
    <2> QED BY <2>1, <2>2, <2>3, <2>4
<1>5. AccountTypeOK'
    BY <1>1, <1>2, <1>4 DEF AccountTypeOK
<1>6. ChargedOnce'
    BY <1>3 DEF ChargedOnce, Sound, Charge
<1>7. BooksBalance'
    BY <1>2, <1>4 DEF BooksBalance
<1> QED BY <1>5, <1>6, <1>7 DEF AccountInv

\* An attempt of a call that goes on is recorded as long as the call is on.
LEMMA AttemptOfCall ==
    ASSUME AccountInv, NEW c \in Calls, call[c].state = "on"
    PROVE  /\ call[c].try \in TryNumbers /\ call[c].try \in 1 .. MaxTries[c]
           /\ account[c][call[c].try] \in AttemptRecords /\ Sound(account[c][call[c].try])
           /\ ~account[c][call[c].try].accounted
           /\ \A k \in TryNumbers : k > call[c].try => account[c][k] = NewAttempt
           /\ gateState # "closed"
<1>1. /\ call[c].try \in 1 .. MaxTries[c]
      /\ ~account[c][call[c].try].accounted
      /\ \A k \in TryNumbers : k > call[c].try => account[c][k] = NewAttempt
      /\ gateState # "closed"
    BY DEF AccountInv, TriesInOrder
<1>2. call[c].try \in TryNumbers
    BY <1>1, FirstTries
<1> QED BY <1>1, <1>2 DEF AccountInv, AccountTypeOK, ChargedOnce

\* A call that ends, or that goes on with a later attempt, leaves the others in order.
LEMMA OrderKept ==
    ASSUME AccountInv, NEW c \in Calls, NEW k \in TryNumbers, NEW y \in AttemptRecords,
           account' = [account EXCEPT ![c][k] = y], gateState' = gateState,
           NEW s \in {"on", "done", "ended", "aborted"}, NEW n \in Nat,
           call' = [call EXCEPT ![c] = [state |-> s, try |-> n]],
           s = "on" => /\ n \in 1 .. MaxTries[c] /\ gateState # "closed" /\ ~account'[c][n].accounted
                       /\ \A j \in TryNumbers : j > n => account'[c][j] = NewAttempt
    PROVE  /\ call' \in [Calls -> [state : CallStates, try : Nat]]
           /\ TriesInOrder'
<1>1. AccountTypeOK /\ TriesInOrder
    BY DEF AccountInv
<1>2. call' \in [Calls -> [state : CallStates, try : Nat]]
    BY <1>1 DEF AccountTypeOK, CallStates
<1>3. call'[c].state = s /\ call'[c].try = n /\ s # "idle"
    BY <1>1 DEF AccountTypeOK
<1>4. \A d \in Calls : d # c => call'[d] = call[d] /\ \A j : account'[d][j] = account[d][j]
    BY <1>1 DEF AccountTypeOK
<1>5. ASSUME NEW d \in Calls
      PROVE  /\ call'[d].state = "idle" => \A j \in TryNumbers : account'[d][j] = NewAttempt
             /\ call'[d].state = "on" =>
                   /\ call'[d].try \in 1 .. MaxTries[d]
                   /\ ~account'[d][call'[d].try].accounted
                   /\ \A j \in TryNumbers : j > call'[d].try => account'[d][j] = NewAttempt
             /\ gateState' = "closed" => call'[d].state # "on"
    <2>1. CASE d = c
        BY <1>3, <2>1
    <2>2. CASE d # c
        <3>1. call'[d] = call[d] /\ \A j : account'[d][j] = account[d][j]
            BY <1>4, <2>2
        <3> QED BY <1>1, <3>1 DEF TriesInOrder
    <2> QED BY <2>1, <2>2
<1> QED BY <1>2, <1>5 DEF TriesInOrder

\* The last attempt of a call is judged, or aborted, or has not been yet.
LEMMA JudgedNext ==
    ASSUME AccountInv, NEW c \in Calls, NEW k, call[c].state = "on", k = call[c].try,
           NEW y \in AttemptRecords, account' = [account EXCEPT ![c][k] = y],
           UNCHANGED <<gateState, callsAborted>>, NEW s, NEW n \in Nat,
           call' = [call EXCEPT ![c] = [state |-> s, try |-> n]],
           \/ n = k /\ s \in {"done", "ended"} /\ y.accounted
           \/ n = k /\ s = "aborted" /\ gateState # "open" /\ (y.accounted <=> y.usage # Unknown)
           \/ n = k /\ s = "on" /\ ~y.accounted
           \/ n = k + 1 /\ s = "on" /\ y.accounted
    PROVE  JudgedAreCharged'
<1>1. AccountTypeOK /\ JudgedAreCharged
    BY DEF AccountInv
<1>2. call'[c].state = s /\ call'[c].try = n
    BY <1>1 DEF AccountTypeOK
<1>3. \A d \in Calls : d # c => call'[d] = call[d] /\ \A j : account'[d][j] = account[d][j]
    BY <1>1 DEF AccountTypeOK
<1>4. k \in TryNumbers /\ k \in Nat
    BY AttemptOfCall, TriesArePositive
<1>5. account'[c][k] = y /\ \A j \in TryNumbers : j # k => account'[c][j] = account[c][j]
    BY <1>1, <1>4 DEF AccountTypeOK
<1>6. ASSUME NEW d \in Calls, NEW j \in TryNumbers
      PROVE  account'[d][j].accounted
                <=> WasJudged(d, j)' \/ (WasAborted(d, j)' /\ account'[d][j].usage # Unknown)
    <2>1. CASE d # c
        <3>1. /\ account[d][j].accounted
                    <=> WasJudged(d, j) \/ (WasAborted(d, j) /\ account[d][j].usage # Unknown)
              /\ call'[d] = call[d] /\ account'[d][j] = account[d][j]
            BY <1>1, <1>3, <2>1 DEF JudgedAreCharged
        <3> QED BY <3>1 DEF WasJudged, WasAborted
    <2>2. CASE d = c /\ j # k
        <3>1. account[c][j].accounted <=> j < k
            BY <1>1, <2>2 DEF JudgedAreCharged, WasJudged, WasAborted
        <3>2. j \in Nat /\ (j < n <=> j < k) /\ (j = n => n = k + 1 /\ s = "on")
            BY <1>4, <2>2, TriesArePositive
        <3> QED BY <1>2, <1>5, <2>2, <3>1, <3>2 DEF WasJudged, WasAborted
    <2>3. CASE d = c /\ j = k
        <3>1. k < k + 1 /\ ~(k < k) /\ k # k + 1
            BY <1>4
        <3> QED BY <1>2, <1>5, <2>3, <3>1 DEF WasJudged, WasAborted
    <2> QED BY <2>1, <2>2, <2>3
<1>7. /\ \A d \in Calls : call'[d].state = "aborted" => gateState' # "open"
      /\ callsAborted' => gateState' # "open"
    BY <1>1, <1>2, <1>3 DEF JudgedAreCharged
<1> QED BY <1>6, <1>7 DEF JudgedAreCharged

\* An attempt that stays charged or uncharged, with its usage unless the run is open.
LEMMA JudgedStay ==
    ASSUME AccountInv, NEW c \in Calls, NEW k \in TryNumbers, NEW y \in AttemptRecords,
           account' = [account EXCEPT ![c][k] = y], UNCHANGED <<call, gateState, callsAborted>>,
           y.accounted = account[c][k].accounted,
           y.usage = account[c][k].usage \/ gateState = "open"
    PROVE  JudgedAreCharged'
<1>1. AccountTypeOK /\ JudgedAreCharged
    BY DEF AccountInv
<1>2. /\ account'[c][k] = y
      /\ \A d \in Calls, j \in TryNumbers : d # c \/ j # k => account'[d][j] = account[d][j]
    BY <1>1 DEF AccountTypeOK
<1>3. ASSUME NEW d \in Calls, NEW j \in TryNumbers
      PROVE  account'[d][j].accounted
                <=> WasJudged(d, j)' \/ (WasAborted(d, j)' /\ account'[d][j].usage # Unknown)
    <2>1. /\ account'[d][j].accounted = account[d][j].accounted
          /\ account'[d][j].usage = account[d][j].usage \/ gateState = "open"
        BY <1>2
    <2>2. account[d][j].accounted
            <=> WasJudged(d, j) \/ (WasAborted(d, j) /\ account[d][j].usage # Unknown)
        BY <1>1 DEF JudgedAreCharged
    <2>3. gateState = "open" => ~WasAborted(d, j)
        BY <1>1 DEF JudgedAreCharged, WasAborted
    <2>4. (WasJudged(d, j)' <=> WasJudged(d, j)) /\ (WasAborted(d, j)' <=> WasAborted(d, j))
        BY DEF WasJudged, WasAborted
    <2> QED BY <2>1, <2>2, <2>3, <2>4
<1>4. /\ \A d \in Calls : call'[d].state = "aborted" => gateState' # "open"
      /\ callsAborted' => gateState' # "open"
    BY <1>1 DEF JudgedAreCharged
<1> QED BY <1>3, <1>4 DEF JudgedAreCharged

LEMMA CallForms ==
    ASSUME AccountTypeOK, NEW c \in Calls
    PROVE  /\ \A s \in {"done", "ended", "aborted"} :
                [call EXCEPT ![c].state = s] = [call EXCEPT ![c] = [state |-> s, try |-> call[c].try]]
           /\ \A n \in Nat : call[c].state = "on" =>
                [call EXCEPT ![c].try = n] = [call EXCEPT ![c] = [state |-> "on", try |-> n]]
           /\ call[c].try \in Nat
<1>1. call[c] \in [state : CallStates, try : Nat]
    BY DEF AccountTypeOK
<1>2. \A s \in {"done", "ended", "aborted"} : [call[c] EXCEPT !.state = s] = [state |-> s, try |-> call[c].try]
    BY <1>1
<1>3. \A n \in Nat : call[c].state = "on" => [call[c] EXCEPT !.try = n] = [state |-> "on", try |-> n]
    BY <1>1
<1>4. \A s \in {"done", "ended", "aborted"} : [call EXCEPT ![c].state = s] = [call EXCEPT ![c] = [call[c] EXCEPT !.state = s]]
    BY DEF AccountTypeOK
<1>5. \A n \in Nat : [call EXCEPT ![c].try = n] = [call EXCEPT ![c] = [call[c] EXCEPT !.try = n]]
    BY DEF AccountTypeOK
<1> QED BY <1>1, <1>2, <1>3, <1>4, <1>5

\* An attempt that has begun may change, as long as it is not charged.
LEMMA OrderOfBegun ==
    ASSUME AccountInv, NEW c \in Calls, NEW k \in TryNumbers, NEW y \in AttemptRecords,
           account' = [account EXCEPT ![c][k] = y], account[c][k] # NewAttempt,
           y.accounted = account[c][k].accounted, UNCHANGED <<call, gateState>>
    PROVE  TriesInOrder'
<1>1. AccountTypeOK /\ TriesInOrder
    BY DEF AccountInv
<1>2. /\ account'[c][k] = y
      /\ \A d \in Calls, j \in TryNumbers : d # c \/ j # k => account'[d][j] = account[d][j]
    BY <1>1 DEF AccountTypeOK
<1> SUFFICES ASSUME NEW d \in Calls
             PROVE  /\ call[d].state = "idle" => \A j \in TryNumbers : account'[d][j] = NewAttempt
                    /\ call[d].state = "on" =>
                          /\ call[d].try \in 1 .. MaxTries[d]
                          /\ ~account'[d][call[d].try].accounted
                          /\ \A j \in TryNumbers : j > call[d].try => account'[d][j] = NewAttempt
                    /\ gateState = "closed" => call[d].state # "on"
    BY DEF TriesInOrder
<1>3. \A j \in TryNumbers : account[d][j] = NewAttempt => account'[d][j] = NewAttempt
    BY <1>2
<1>4. call[d].state = "on" => call[d].try \in TryNumbers
    BY <1>1, FirstTries DEF TriesInOrder
<1>5. \A j \in TryNumbers : ~account[d][j].accounted => ~account'[d][j].accounted
    BY <1>2
<1> QED BY <1>1, <1>3, <1>4, <1>5 DEF TriesInOrder

LEMMA ReportInv ==
    ASSUME AccountInv, NEW c \in Calls, NEW k \in TryNumbers, NEW n \in Amounts, ReportUsage(c, k, n)
    PROVE  AccountInv'
<1> DEFINE x == account[c][k]
           y == Reported(x, n)
<1>1. x \in AttemptRecords /\ Sound(x) /\ AccountTypeOK /\ TriesInOrder
    BY DEF AccountInv, AccountTypeOK, ChargedOnce
<1>2. /\ x.live /\ x.usage = Unknown /\ gateState = "open" /\ Becomes(c, k, y)
      /\ UNCHANGED <<call, seed, gateState, callsAborted, executions>>
    BY DEF ReportUsage
<1>3. y \in AttemptRecords /\ Sound(y) /\ y.accounted = x.accounted
    BY <1>1, <1>2, ReportedSound
<1> HIDE DEF x, y
<1>4. account' = [account EXCEPT ![c][k] = y]
    BY <1>2 DEF Becomes
<1>5. x # NewAttempt
    BY <1>2, <1>1 DEF NewAttempt
<1>6. TriesInOrder'
    BY <1>1, <1>2, <1>3, <1>4, <1>5, OrderOfBegun DEF x
<1>7. JudgedAreCharged'
    BY <1>2, <1>3, <1>4, JudgedStay DEF x
<1> QED BY <1>1, <1>2, <1>3, <1>6, <1>7, AttemptChanges DEF AccountTypeOK

LEMMA LateEndInv ==
    ASSUME AccountInv, NEW c \in Calls, NEW k \in TryNumbers, LateProviderEnds(c, k)
    PROVE  AccountInv'
<1> DEFINE x == account[c][k]
           z == [x EXCEPT !.live = FALSE]
           y == Notified(z)
<1>1. x \in AttemptRecords /\ Sound(x) /\ AccountTypeOK /\ TriesInOrder
    BY DEF AccountInv, AccountTypeOK, ChargedOnce
<1>2. /\ x.live /\ Becomes(c, k, y)
      /\ UNCHANGED <<call, seed, gateState, callsAborted, executions>>
      /\ call[c].state # "on" \/ call[c].try # k
    BY DEF LateProviderEnds
<1>3. /\ z \in AttemptRecords /\ z.accounted = x.accounted /\ z.tokens = x.tokens /\ z.told = x.told
      /\ z.usage = x.usage
    BY <1>1 DEF AttemptRecords
<1>4. Sound(z)
    <2>1. /\ z.usage = x.usage /\ z.usedFallback = x.usedFallback /\ z.retryPending = x.retryPending
          /\ ~z.live
        BY <1>1 DEF AttemptRecords
    <2>2. Charge(z) = Charge(x)
        BY <1>3, <2>1 DEF Charge
    <2> HIDE DEF x, z
    <2> QED BY <1>1, <1>3, <2>1, <2>2 DEF Sound
<1> HIDE DEF x, z
<1>5. /\ y \in AttemptRecords /\ Sound(y) /\ y.accounted = x.accounted /\ y.tokens = x.tokens
      /\ y.usage = x.usage
      /\ gateState = "closed" => y = z
    BY <1>3, <1>4, NotifiedSound
<1> HIDE DEF y
<1>6. account' = [account EXCEPT ![c][k] = y]
    BY <1>2 DEF Becomes
<1>7. x # NewAttempt
    BY <1>2, <1>1 DEF NewAttempt
<1>8. TriesInOrder'
    BY <1>1, <1>2, <1>5, <1>6, <1>7, OrderOfBegun DEF x
<1>9. gateState = "closed" => y.tokens = account[c][k].tokens /\ y.told = account[c][k].told
    BY <1>3, <1>5 DEF x
<1>10. JudgedAreCharged'
    BY <1>2, <1>5, <1>6, JudgedStay DEF x
<1> QED BY <1>1, <1>2, <1>5, <1>8, <1>9, <1>10, AttemptChanges DEF AccountTypeOK

LEMMA ResultInv ==
    ASSUME AccountInv, NEW c \in Calls, ChargeResult(c)
    PROVE  AccountInv'
<1> DEFINE k == call[c].try
           x == account[c][k]
           z == [x EXCEPT !.live = FALSE]
           r == Recorded(z)
           y == [r EXCEPT !.told = r.tokens]
<1>1. /\ AccountTypeOK /\ call[c].state = "on" /\ Becomes(c, k, y) /\ gateState # "closed"
      /\ call' = [call EXCEPT ![c].state = "done"]
      /\ UNCHANGED <<seed, gateState, callsAborted, executions>>
    BY DEF ChargeResult, AccountInv
<1>2. /\ k \in TryNumbers /\ k \in Nat /\ x \in AttemptRecords /\ Sound(x) /\ ~x.accounted
    BY <1>1, AttemptOfCall, FirstTries
<1> HIDE DEF k, x
<1>3. /\ z \in AttemptRecords /\ z.accounted = x.accounted /\ z.tokens = x.tokens /\ z.told = x.told
      /\ z.usage = x.usage /\ z.usedFallback = x.usedFallback /\ z.retryPending = x.retryPending
    BY <1>2 DEF AttemptRecords
<1>4. Sound(z) /\ ~z.retryPending
    <2>1. Charge(z) = Charge(x)
        BY <1>3 DEF Charge
    <2> HIDE DEF z
    <2> QED BY <1>2, <1>3, <2>1 DEF Sound
<1> HIDE DEF z
<1>5. r \in AttemptRecords /\ Sound(r) /\ r.accounted /\ ~r.retryPending
    BY <1>3, <1>4, RecordedSound
<1> HIDE DEF r
<1>6. y \in AttemptRecords /\ Sound(y) /\ y.accounted
    <2>1. /\ y \in AttemptRecords /\ y.accounted = r.accounted /\ y.tokens = r.tokens
          /\ y.usage = r.usage /\ y.usedFallback = r.usedFallback /\ y.retryPending = r.retryPending
        BY <1>5 DEF AttemptRecords
    <2>2. Charge(y) = Charge(r)
        BY <2>1 DEF Charge
    <2> HIDE DEF y
    <2> QED BY <1>5, <2>1, <2>2 DEF Sound
<1> HIDE DEF y
<1>7. /\ account' = [account EXCEPT ![c][k] = y]
      /\ call' = [call EXCEPT ![c] = [state |-> "done", try |-> k]]
    BY <1>1, CallForms DEF Becomes, k
<1>8. call' \in [Calls -> [state : CallStates, try : Nat]] /\ TriesInOrder'
    BY <1>1, <1>2, <1>6, <1>7, OrderKept
<1>9. JudgedAreCharged'
    <2>1. /\ k = call[c].try /\ k \in Nat /\ call[c].state = "on" /\ y.accounted
          /\ UNCHANGED <<gateState, callsAborted>>
        BY <1>1, <1>2, <1>6 DEF k
    <2> QED BY <1>6, <1>7, <2>1, JudgedNext
<1> QED BY <1>1, <1>2, <1>6, <1>8, <1>9, AttemptChanges

LEMMA AbortInv ==
    ASSUME AccountInv, NEW c \in Calls, ChargeAbort(c)
    PROVE  AccountInv'
<1> DEFINE k == call[c].try
           x == account[c][k]
           y == IF x.usage # Unknown THEN Recorded(x) ELSE x
<1>1. /\ AccountTypeOK /\ call[c].state = "on" /\ Becomes(c, k, y)
      /\ call' = [call EXCEPT ![c].state = "aborted"] /\ callsAborted
      /\ UNCHANGED <<seed, gateState, callsAborted, executions>>
    BY DEF ChargeAbort, AccountInv
<1>2. /\ k \in TryNumbers /\ k \in Nat /\ x \in AttemptRecords /\ Sound(x) /\ gateState # "closed"
      /\ ~x.accounted
    BY <1>1, AttemptOfCall, FirstTries
<1> HIDE DEF k, x
<1>3. y \in AttemptRecords /\ Sound(y) /\ (y.accounted <=> y.usage # Unknown)
    BY <1>2, RecordedSound
<1> HIDE DEF y
<1>4. /\ account' = [account EXCEPT ![c][k] = y]
      /\ call' = [call EXCEPT ![c] = [state |-> "aborted", try |-> k]]
    BY <1>1, CallForms DEF Becomes, k
<1>5. call' \in [Calls -> [state : CallStates, try : Nat]] /\ TriesInOrder'
    BY <1>1, <1>2, <1>3, <1>4, OrderKept
<1>6. JudgedAreCharged'
    <2>1. gateState # "open"
        BY <1>1 DEF AccountInv, JudgedAreCharged
    <2>2. /\ k = call[c].try /\ k \in Nat /\ call[c].state = "on"
          /\ UNCHANGED <<gateState, callsAborted>>
        BY <1>1, <1>2 DEF k
    <2> QED BY <1>3, <1>4, <2>1, <2>2, JudgedNext
<1> QED BY <1>1, <1>2, <1>3, <1>5, <1>6, AttemptChanges

LEMMA FailureInv ==
    ASSUME AccountInv, NEW c \in Calls, NEW late \in BOOLEAN, NEW recoverable \in BOOLEAN,
           ChargeFailure(c, late, recoverable)
    PROVE  AccountInv'
<1> DEFINE k == call[c].try
           x == account[c][k]
           z == [x EXCEPT !.live = x.live /\ late]
           r == Recorded(z)
           p == [r EXCEPT !.retryPending = TRUE]
           retry == recoverable /\ k < MaxTries[c]
           y == IF retry THEN Notified(p) ELSE [r EXCEPT !.told = r.tokens]
<1>1. /\ AccountTypeOK /\ call[c].state = "on" /\ Becomes(c, k, y) /\ gateState # "closed"
      /\ IF retry THEN call' = [call EXCEPT ![c].try = k + 1] ELSE call' = [call EXCEPT ![c].state = "ended"]
      /\ UNCHANGED <<seed, gateState, callsAborted, executions>>
    BY DEF ChargeFailure, SpentUp, AccountInv
<1>2. /\ k \in TryNumbers /\ k \in 1 .. MaxTries[c] /\ x \in AttemptRecords /\ Sound(x) /\ ~x.accounted
      /\ \A j \in TryNumbers : j > k => account[c][j] = NewAttempt
    BY <1>1, AttemptOfCall
<1>3. k \in Nat /\ MaxTries[c] \in Nat
    BY <1>2, FirstTries, AccountAssumption
<1>4. /\ account' = [account EXCEPT ![c][k] = y]
      /\ retry => call' = [call EXCEPT ![c] = [state |-> "on", try |-> k + 1]]
      /\ ~retry => call' = [call EXCEPT ![c] = [state |-> "ended", try |-> k]]
    <2>1. account' = [account EXCEPT ![c][k] = y]
        BY <1>1 DEF Becomes
    <2>2. ASSUME retry PROVE call' = [call EXCEPT ![c] = [state |-> "on", try |-> k + 1]]
        <3>1. call' = [call EXCEPT ![c].try = k + 1] /\ k + 1 \in Nat
            BY <1>1, <1>3, <2>2
        <3> HIDE DEF k
        <3> QED BY <1>1, <3>1, CallForms
    <2>3. ASSUME ~retry PROVE call' = [call EXCEPT ![c] = [state |-> "ended", try |-> k]]
        <3>1. call' = [call EXCEPT ![c].state = "ended"]
            BY <1>1, <2>3
        <3> QED BY <1>1, <3>1, CallForms
    <2> HIDE DEF k, y, retry
    <2> QED BY <2>1, <2>2, <2>3
<1> HIDE DEF k, x
<1>5. /\ z \in AttemptRecords /\ z.accounted = x.accounted /\ z.tokens = x.tokens /\ z.told = x.told
      /\ z.usage = x.usage /\ z.usedFallback = x.usedFallback /\ z.retryPending = x.retryPending
    BY <1>2 DEF AttemptRecords
<1>6. Sound(z) /\ ~z.retryPending
    <2>1. Charge(z) = Charge(x)
        BY <1>5 DEF Charge
    <2> HIDE DEF z
    <2> QED BY <1>2, <1>5, <2>1 DEF Sound
<1> HIDE DEF z
<1>7. /\ r \in AttemptRecords /\ Sound(r) /\ r.accounted /\ ~r.retryPending /\ r.told = Unknown
    BY <1>2, <1>5, <1>6, RecordedSound DEF Sound
<1> HIDE DEF r
<1>8. /\ p \in AttemptRecords /\ p.accounted /\ p.tokens = r.tokens /\ p.told = Unknown
      /\ p.usage = r.usage /\ p.usedFallback = r.usedFallback /\ p.retryPending
    BY <1>7 DEF AttemptRecords
<1>9. Sound(p)
    <2>1. Charge(p) = Charge(r)
        BY <1>7, <1>8 DEF Charge
    <2> HIDE DEF p
    <2> QED BY <1>7, <1>8, <2>1 DEF Sound
<1> HIDE DEF p
<1>10. y \in AttemptRecords /\ Sound(y) /\ y.accounted
    <2>1. CASE retry
        BY <1>8, <1>9, <2>1, NotifiedSound
    <2>2. CASE ~retry
        <3> DEFINE q == [r EXCEPT !.told = r.tokens]
        <3>1. /\ q \in AttemptRecords /\ q.accounted = r.accounted /\ q.tokens = r.tokens
              /\ q.usage = r.usage /\ q.usedFallback = r.usedFallback /\ q.retryPending = r.retryPending
            BY <1>7 DEF AttemptRecords
        <3>2. Charge(q) = Charge(r)
            BY <3>1 DEF Charge
        <3>3. y = q
            BY <2>2
        <3> HIDE DEF q, y
        <3> QED BY <1>7, <3>1, <3>2, <3>3 DEF Sound
    <2> QED BY <2>1, <2>2
<1>11. call' \in [Calls -> [state : CallStates, try : Nat]] /\ TriesInOrder'
    <2>1. CASE retry
        <3>1. k + 1 \in 1 .. MaxTries[c] /\ k + 1 \in TryNumbers /\ k + 1 > k
            BY <1>2, <1>3, <2>1, FirstTries
        <3>2. account'[c][k + 1] = NewAttempt /\ ~NewAttempt.accounted
            BY <1>1, <1>2, <1>3, <1>4, <3>1, FreshRecord DEF AccountTypeOK
        <3>3. \A j \in TryNumbers : j > k + 1 => account'[c][j] = NewAttempt
            <4> SUFFICES ASSUME NEW j \in TryNumbers, j > k + 1 PROVE account'[c][j] = NewAttempt
                OBVIOUS
            <4>1. j \in Nat
                BY AccountAssumption DEF TryNumbers
            <4>2. j > k /\ j # k
                BY <1>3, <4>1
            <4> QED BY <1>1, <1>2, <1>4, <4>2 DEF AccountTypeOK
        <3>4. /\ account' = [account EXCEPT ![c][k] = y] /\ gateState' = gateState /\ gateState # "closed"
              /\ call' = [call EXCEPT ![c] = [state |-> "on", try |-> k + 1]] /\ k + 1 \in Nat
            BY <1>1, <1>3, <1>4, <2>1
        <3> HIDE DEF y, retry
        <3> QED BY <1>2, <1>10, <3>1, <3>2, <3>3, <3>4, OrderKept
    <2>2. CASE ~retry
        <3> HIDE DEF y
        <3> QED BY <1>1, <1>2, <1>3, <1>4, <1>10, <2>2, OrderKept
    <2> QED BY <2>1, <2>2
<1>12. JudgedAreCharged'
    <2> HIDE DEF y
    <2>1. k = call[c].try /\ UNCHANGED <<gateState, callsAborted>>
        BY <1>1 DEF k
    <2>2. CASE retry
        <3>1. call' = [call EXCEPT ![c] = [state |-> "on", try |-> k + 1]] /\ k + 1 \in Nat
            BY <1>3, <1>4, <2>2
        <3> HIDE DEF retry
        <3> QED BY <1>1, <1>3, <1>4, <1>10, <2>1, <3>1, JudgedNext
    <2>3. CASE ~retry
        <3>1. call' = [call EXCEPT ![c] = [state |-> "ended", try |-> k]]
            BY <1>4, <2>3
        <3> HIDE DEF retry
        <3> QED BY <1>1, <1>3, <1>4, <1>10, <2>1, <3>1, JudgedNext
    <2> QED BY <2>2, <2>3
<1> HIDE DEF y, retry
<1> QED BY <1>1, <1>2, <1>10, <1>11, <1>12, AttemptChanges

\* A call that starts, and an attempt whose provider is launched: nothing is charged yet.
LEMMA StartInv ==
    ASSUME AccountInv, NEW c \in Calls, StartCall(c)
    PROVE  AccountInv'
<1>1. /\ AccountTypeOK /\ ChargedOnce /\ TriesInOrder /\ BooksBalance /\ JudgedAreCharged
      /\ call[c].state = "idle" /\ gateState = "open"
      /\ call' = [call EXCEPT ![c] = [state |-> "on", try |-> 1]]
      /\ UNCHANGED <<account, spent, reported, seed, gateState, callsAborted, executions>>
    BY DEF StartCall, AccountInv
<1>2. AccountTypeOK'
    BY <1>1 DEF AccountTypeOK, CallStates
<1>3. 1 \in 1 .. MaxTries[c] /\ 1 \in TryNumbers
    BY AccountAssumption, FirstTries
<1>4. \A j \in TryNumbers : account[c][j] = NewAttempt
    BY <1>1 DEF TriesInOrder
<1>5. call'[c] = [state |-> "on", try |-> 1] /\ \A d \in Calls : d # c => call'[d] = call[d]
    BY <1>1 DEF AccountTypeOK
<1>6. TriesInOrder'
    BY <1>1, <1>3, <1>4, <1>5, FreshRecord DEF TriesInOrder
<1>7. ChargedOnce' /\ BooksBalance'
    BY <1>1 DEF ChargedOnce, BooksBalance, Charges, ToldSpends
<1>8. JudgedAreCharged'
    <2>1. ASSUME NEW d \in Calls, NEW j \in TryNumbers
          PROVE  account'[d][j].accounted
                    <=> WasJudged(d, j)' \/ (WasAborted(d, j)' /\ account'[d][j].usage # Unknown)
        <3>1. CASE d = c
            <4>1. ~WasJudged(d, j)' /\ ~WasAborted(d, j)'
                BY <1>5, <3>1, TriesArePositive DEF WasJudged, WasAborted
            <4> QED BY <1>1, <1>4, <3>1, <4>1, FreshRecord
        <3>2. CASE d # c
            BY <1>1, <1>5, <3>2 DEF JudgedAreCharged, WasJudged, WasAborted
        <3> QED BY <3>1, <3>2
    <2>2. \A d \in Calls : call'[d].state = "aborted" => gateState' # "open"
        BY <1>1, <1>5 DEF JudgedAreCharged
    <2> QED BY <1>1, <2>1, <2>2 DEF JudgedAreCharged
<1> QED BY <1>2, <1>6, <1>7, <1>8 DEF AccountInv

LEMMA LaunchInv ==
    ASSUME AccountInv, NEW c \in Calls, LaunchTry(c)
    PROVE  AccountInv'
<1> DEFINE k == call[c].try
           x == account[c][k]
           y == [x EXCEPT !.tracked = TRUE, !.live = TRUE]
<1>1. /\ AccountTypeOK /\ call[c].state = "on" /\ gateState = "open"
      /\ account' = [account EXCEPT ![c][k].tracked = TRUE, ![c][k].live = TRUE]
      /\ UNCHANGED <<call, spent, reported, seed, gateState, callsAborted, executions>>
    BY DEF LaunchTry, AccountInv
<1>2. /\ k \in TryNumbers /\ k \in 1 .. MaxTries[c] /\ x \in AttemptRecords /\ Sound(x) /\ ~x.accounted
      /\ \A j \in TryNumbers : j > k => account[c][j] = NewAttempt
    BY <1>1, AttemptOfCall
<1>3. account' = [account EXCEPT ![c][k] = y]
    BY <1>1, <1>2 DEF AccountTypeOK
<1> HIDE DEF k, x
<1>4. /\ y \in AttemptRecords /\ y.accounted = x.accounted /\ y.tokens = x.tokens /\ y.told = x.told
      /\ y.usage = x.usage /\ y.usedFallback = x.usedFallback /\ y.retryPending = x.retryPending
    BY <1>2 DEF AttemptRecords
<1>5. Sound(y)
    <2>1. Charge(y) = Charge(x)
        BY <1>4 DEF Charge
    <2> HIDE DEF y
    <2> QED BY <1>2, <1>4, <2>1 DEF Sound
<1> HIDE DEF y
<1>6. Becomes(c, k, y)
    <2>1. /\ spent \in Nat /\ reported \in Nat /\ x.tokens \in Nat /\ Amount(x.told) \in Nat
          /\ Amount(y.told) = Amount(x.told)
        BY <1>1, <1>2, <1>4, RecordsCharge DEF AccountTypeOK, AttemptRecords
    <2>2. spent' = spent - x.tokens + y.tokens /\ reported' = reported - Amount(x.told) + Amount(y.told)
        BY <1>1, <1>4, <2>1
    <2> QED BY <1>3, <2>2 DEF Becomes, x
<1>7. call' = [call EXCEPT ![c] = [state |-> "on", try |-> k]]
    BY <1>1 DEF AccountTypeOK, k
<1>8. account'[c][k].accounted = FALSE /\ \A j \in TryNumbers : j > k => account'[c][j] = NewAttempt
    <2>1. k \in Nat /\ \A j \in TryNumbers : j \in Nat
        BY <1>2, AccountAssumption DEF TryNumbers
    <2>2. \A j \in TryNumbers : j > k => j # k
        BY <2>1
    <2>3. y.accounted = FALSE
        BY <1>2, <1>4 DEF AttemptRecords
    <2>4. account'[c][k] = y /\ \A j \in TryNumbers : j # k => account'[c][j] = account[c][j]
        <3>1. account \in [Calls -> [TryNumbers -> AttemptRecords]] /\ k \in TryNumbers
            BY <1>1, <1>2 DEF AccountTypeOK
        <3> QED BY <1>3, <3>1
    <2> QED BY <1>2, <2>2, <2>3, <2>4
<1>9. call' \in [Calls -> [state : CallStates, try : Nat]] /\ TriesInOrder'
    <2>1. k \in Nat /\ gateState' = gateState /\ gateState # "closed"
        BY <1>1, <1>2, FirstTries
    <2> QED BY <1>2, <1>3, <1>4, <1>7, <1>8, <2>1, OrderKept
<1>10. JudgedAreCharged'
    <2>1. k \in Nat /\ ~y.accounted
        BY <1>2, <1>4, TriesArePositive
    <2>2. /\ k = call[c].try /\ call[c].state = "on" /\ y \in AttemptRecords
          /\ UNCHANGED <<gateState, callsAborted>>
        BY <1>1, <1>4 DEF k
    <2> QED BY <1>3, <1>7, <2>1, <2>2, JudgedNext
<1> QED BY <1>1, <1>2, <1>4, <1>5, <1>6, <1>9, <1>10, AttemptChanges

\* The run closes, and starts again.
LEMMA GateInv ==
    ASSUME AccountInv, AbortSpending \/ ScriptEnds
    PROVE  AccountInv'
<1>1. /\ AccountTypeOK /\ ChargedOnce /\ TriesInOrder /\ BooksBalance /\ JudgedAreCharged
      /\ UNCHANGED <<account, call, spent, reported, seed, executions>>
      /\ callsAborted' \in BOOLEAN /\ gateState' = "closing" /\ gateState # "closed"
    BY DEF AbortSpending, ScriptEnds, AccountInv
<1>2. AccountTypeOK'
    BY <1>1 DEF AccountTypeOK
<1>3. ChargedOnce' /\ TriesInOrder' /\ BooksBalance'
    BY <1>1 DEF ChargedOnce, TriesInOrder, BooksBalance, Charges, ToldSpends
<1>4. JudgedAreCharged'
    BY <1>1 DEF JudgedAreCharged, WasJudged, WasAborted
<1> QED BY <1>2, <1>3, <1>4 DEF AccountInv

LEMMA ReportedInv ==
    ASSUME AccountInv, TotalReported
    PROVE  AccountInv'
<1>1. /\ AccountTypeOK /\ ChargedOnce /\ TriesInOrder /\ BooksBalance /\ JudgedAreCharged
      /\ UNCHANGED <<account, call, spent, seed, callsAborted, executions>>
      /\ gateState' = "closed" /\ reported' = spent
      /\ \A c \in Calls : call[c].state # "on"
    BY DEF TotalReported, AccountInv
<1>2. AccountTypeOK'
    BY <1>1 DEF AccountTypeOK
<1>3. ChargedOnce' /\ TriesInOrder' /\ BooksBalance'
    BY <1>1 DEF ChargedOnce, TriesInOrder, BooksBalance, Charges, ToldSpends
<1>4. JudgedAreCharged'
    BY <1>1 DEF JudgedAreCharged, WasJudged, WasAborted
<1> QED BY <1>2, <1>3, <1>4 DEF AccountInv

LEMMA ResumedInv ==
    ASSUME AccountInv, ResumeSpending
    PROVE  AccountInv'
<1>1. /\ AccountTypeOK /\ TriesInOrder
      /\ account' = [c \in Calls |-> [k \in TryNumbers |-> NewAttempt]]
      /\ call' = [c \in Calls |->
                    [state |-> IF call[c].state \in {"done", "replayed"} THEN "replayed" ELSE "idle",
                     try |-> 0]]
      /\ seed' = reported /\ spent' = reported /\ reported' = reported
      /\ gateState' = "open" /\ callsAborted' = FALSE /\ executions' = executions + 1
    BY DEF ResumeSpending, AccountInv
<1>2. account' \in [Calls -> [TryNumbers -> AttemptRecords]]
    BY <1>1, FreshRecord
<1>3. AccountTypeOK'
    <2>1. call' \in [Calls -> [state : CallStates, try : Nat]]
        BY <1>1 DEF CallStates
    <2>2. reported \in Nat /\ executions \in Nat
        BY <1>1 DEF AccountTypeOK
    <2>3. executions + 1 \in Nat
        BY <2>2
    <2>4. /\ spent' \in Nat /\ reported' \in Nat /\ seed' \in Nat /\ executions' \in Nat
          /\ gateState' \in {"open", "closing", "closed"} /\ callsAborted' \in BOOLEAN
        BY <1>1, <2>2, <2>3
    <2> QED BY <1>2, <2>1, <2>4 DEF AccountTypeOK
<1>4. \A c \in Calls, k \in TryNumbers : account'[c][k] = NewAttempt
    BY <1>1
<1>5. ChargedOnce'
    BY <1>4, FreshRecord DEF ChargedOnce, Sound, Charge, Amount, NewAttempt
<1>6. TriesInOrder'
    BY <1>1, <1>4 DEF TriesInOrder
<1>7. Total(Charges', Attempted) = 0 /\ Total(ToldSpends', Attempted) = 0
    <2>1. \A a \in Attempted : Charges'[a] = 0 /\ ToldSpends'[a] = 0
        BY <1>4, FreshRecord DEF Charges, ToldSpends, Attempted
    <2> QED BY <2>1, TotalZero
<1>8. BooksBalance'
    BY <1>1, <1>3, <1>4, <1>7, FreshRecord DEF BooksBalance, AccountTypeOK
<1>9. JudgedAreCharged'
    <2>1. \A c \in Calls : call'[c].try = 0 /\ call'[c].state \in {"replayed", "idle"}
        BY <1>1
    <2>2. \A c \in Calls, k \in TryNumbers : ~WasJudged(c, k)' /\ ~WasAborted(c, k)'
        BY <2>1, TriesArePositive DEF WasJudged, WasAborted
    <2> QED BY <1>1, <1>4, <2>1, <2>2, FreshRecord DEF JudgedAreCharged
<1> QED BY <1>3, <1>5, <1>6, <1>8, <1>9 DEF AccountInv

LEMMA AccountStepInv == AccountInv /\ [AccountNext]_accountVars => AccountInv'
<1> SUFFICES ASSUME AccountInv, [AccountNext]_accountVars PROVE AccountInv'
    OBVIOUS
<1>1. CASE UNCHANGED accountVars
    BY <1>1 DEF accountVars, AccountInv, AccountTypeOK, ChargedOnce, TriesInOrder, BooksBalance,
                Charges, ToldSpends, JudgedAreCharged, WasJudged, WasAborted
<1>2. ASSUME NEW c \in Calls, StartCall(c) \/ LaunchTry(c) \/ ChargeResult(c) \/ ChargeAbort(c)
      PROVE  AccountInv'
    BY <1>2, StartInv, LaunchInv, ResultInv, AbortInv
<1>3. ASSUME NEW c \in Calls, NEW k \in TryNumbers, NEW n \in Amounts, ReportUsage(c, k, n)
      PROVE  AccountInv'
    BY <1>3, ReportInv
<1>4. ASSUME NEW c \in Calls, NEW late \in BOOLEAN, NEW recoverable \in BOOLEAN,
             ChargeFailure(c, late, recoverable)
      PROVE  AccountInv'
    BY <1>4, FailureInv
<1>5. ASSUME NEW c \in Calls, NEW k \in TryNumbers, LateProviderEnds(c, k)
      PROVE  AccountInv'
    BY <1>5, LateEndInv
<1>6. CASE AbortSpending \/ ScriptEnds \/ TotalReported \/ ResumeSpending
    BY <1>6, GateInv, ReportedInv, ResumedInv
<1> QED BY <1>1, <1>2, <1>3, <1>4, <1>5, <1>6 DEF AccountNext

\* What the accounts say is what the calls ask for.
LEMMA ChargesAreDue ==
    ASSUME AccountInv
    PROVE  Charges = Dues /\ \A c \in Calls, k \in TryNumbers : Charge(account[c][k]) = Due(c, k)
<1>1. \A c \in Calls, k \in TryNumbers : Charge(account[c][k]) = Due(c, k)
    BY DEF AccountInv, JudgedAreCharged, Charge, Due
<1>2. \A a \in Attempted : a[1] \in Calls /\ a[2] \in TryNumbers
    BY DEF Attempted
<1> QED BY <1>1, <1>2 DEF Charges, Dues

\* The inductive invariant of the accounts.
THEOREM AccountInvariant == AccountSpec => []AccountInv
<1> QED BY AccountInitInv, AccountStepInv, PTL DEF AccountSpec

\* For any number of calls and attempts: each attempt that its call judged is charged once, with
\* its usage or an estimate, and an aborted one only what was reported before the abort, through
\* retries, late reports, aborts and resumes.
THEOREM SpendingAccounted == AccountSpec => []SpendingIsAccounted
<1>1. AccountInv => SpendingIsAccounted
    <2> SUFFICES ASSUME AccountInv PROVE SpendingIsAccounted
        OBVIOUS
    <2>1. /\ Charges = Dues
          /\ \A c \in Calls, k \in TryNumbers : Charge(account[c][k]) = Due(c, k)
        BY ChargesAreDue
    <2>2. BooksBalance /\ ChargedOnce
        BY DEF AccountInv
    <2>3. \A c \in Calls, k \in TryNumbers :
            account[c][k].retryPending /\ ~account[c][k].live /\ account[c][k].told # Unknown
                => account[c][k].told = Due(c, k)
        BY <2>1, <2>2 DEF ChargedOnce, Sound
    <2> QED BY <2>1, <2>2, <2>3 DEF SpendingIsAccounted, BooksBalance
<1> QED BY <1>1, AccountInvariant, PTL

=============================================================================
