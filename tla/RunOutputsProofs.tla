---------------------------- MODULE RunOutputsProofs ----------------------------
(* Theorems about RunOutputs: what a run tells its session, for any number of        *)
(* calls, results, generations and failed writes; and about ResultDelivery: what       *)
(* becomes of the results of runs without the bridge, for any number of them.          *)
EXTENDS RunOutputs, ResultDelivery, FiniteSetTheorems, SequenceTheorems, TLAPS

----------------------------------------------------------------------------
(* RunOutputs *)

Statuses == {"running", "paused", "completed", "failed", "aborted", "deleted"}

DeliveryForms ==
    [id : Nat, kind : {"agent", "explicit", "paused", "terminal"}, call : OutCalls \cup {"none"}, out : Nat]
Deliveries == {d \in DeliveryForms : d.kind # "agent" => d.out = 0}

Runs == [status : Statuses, gen : Nat, over : BOOLEAN, aborting : BOOLEAN]
Agents == [at : {"none", "running", "done", "gone"}, out : Nat]
Records == [status : Statuses, journal : [OutCalls -> Nat], outbox : SUBSET Deliveries, nextId : Nat]
Tools == [at : {"idle", "waiting", "woken", "turn"}, why : {"none", "agent", "delivery", "ready"}]

OutputTypeOK ==
    /\ run \in Runs /\ agents \in [OutCalls -> Agents]
    /\ journal \in [OutCalls -> Nat] /\ replay \in [OutCalls -> Nat]
    /\ outbox \subseteq Deliveries /\ nextId \in Nat
    /\ disk \in Records
    /\ silent \in BOOLEAN
    /\ cursor \subseteq Nat /\ shown \subseteq Nat /\ overtaken \subseteq Nat
    /\ handed \in [OutResults -> Nat]
    /\ tool \in Tools
    /\ made \in Nat /\ made =< MaxResults

\* Whatever is remembered of a result is of one that has been made.
MadeBefore ==
    /\ \A r \in cursor : 0 < r /\ r =< made
    /\ \A c \in OutCalls : journal[c] =< made /\ replay[c] =< made /\ disk.journal[c] =< made
    /\ \A c \in OutCalls : agents[c].at = "done" => 0 < agents[c].out /\ agents[c].out =< made

\* IDs of deliveries are not used twice, in memory or in the record.
OwnIds ==
    /\ \A d \in outbox : d.id < nextId
    /\ \A d \in disk.outbox : d.id < disk.nextId
    /\ disk.nextId =< nextId
    /\ \A i \in shown : i < disk.nextId
    /\ \A d, e \in outbox : d.id = e.id => d = e
    /\ \A d, e \in disk.outbox : d.id = e.id => d = e

\* A notification is of a claimed result, and a result that was handed on has none left to show.
OneWay ==
    /\ \A r \in OutResults : handed[r] =< 1 /\ (handed[r] = 1 => r \in cursor)
    /\ \A d \in outbox \cup disk.outbox :
            d.out # 0 => d.out \in cursor /\ (handed[d.out] = 1 => d.id \in shown)
    /\ \A d, e \in outbox \cup disk.outbox :
            d.out # 0 /\ d.out = e.out => d.id = e.id

Reachable(r, box) ==
    handed[r] > 0 \/ r \notin cursor \/ r \in overtaken \/ \E d \in box : d.out = r /\ d.id \notin shown

\* Every result that the run knows, or would know after a resume, can still be had.
AllReachable ==
    run.status # "deleted" => \A c \in OutCalls :
        /\ agents[c].at = "done" => Reachable(agents[c].out, outbox)
        /\ journal[c] # 0 => Reachable(journal[c], outbox)
        /\ replay[c] # 0 => Reachable(replay[c], outbox)
        /\ disk.journal[c] # 0 => Reachable(disk.journal[c], disk.outbox)

\* The record lags behind an end, and a tool waits for a run that is not running, only if the
\* write of the end failed.
Told ==
    /\ run.status # "running" /\ disk.status = "running" => silent
    /\ tool.at = "waiting" /\ (run.status # "running" \/ disk.status # "running") => silent

Roomy(box) ==
    /\ IsFiniteSet(box)
    /\ Cardinality(box) =< MaxOutbox
    /\ (\E d \in box : d.kind = "terminal") \/ Cardinality(box) =< MaxOutbox - 1

Settled == run.over => run.status # "running" /\ steering = 0 /\ senders = {}

OutputInv ==
    /\ OutputTypeOK /\ MadeBefore /\ OwnIds /\ OneWay /\ AllReachable /\ Told
    /\ Roomy(outbox) /\ Roomy(disk.outbox) /\ Settled

\* What concerns the results and their records.
ResultsInv ==
    /\ MadeBefore /\ OwnIds /\ OneWay /\ AllReachable /\ Roomy(outbox) /\ Roomy(disk.outbox)

LEMMA DiskIs ==
    ASSUME OutputTypeOK, run' \in Runs, journal' \in [OutCalls -> Nat], outbox' \subseteq Deliveries,
           nextId' \in Nat, UNCHANGED disk \/ WritesRun
    PROVE  disk' \in Records
BY DEF OutputTypeOK, WritesRun, Records, Runs

LEMMA WritesAre ==
    ASSUME WritesRun
    PROVE  /\ disk'.status = run'.status /\ disk'.journal = journal' /\ disk'.outbox = outbox'
           /\ disk'.nextId = nextId'
BY DEF WritesRun

LEMMA PushedIs ==
    ASSUME OutputTypeOK, OwnIds, NEW kind \in {"agent", "explicit", "paused", "terminal"},
           NEW call \in OutCalls \cup {"none"}, NEW out \in Nat, kind # "agent" => out = 0,
           Pushes(kind, call, out)
    PROVE  LET d == Entry(kind, call, out)
           IN  /\ d \in Deliveries /\ d.id = nextId /\ d.kind = kind /\ d.out = out
               /\ d \notin outbox /\ outbox' = outbox \cup {d} /\ outbox' \subseteq Deliveries
               /\ nextId' = nextId + 1 /\ nextId' \in Nat
               /\ nextId \notin shown
BY DEF OutputTypeOK, OwnIds, Pushes, Entry, Deliveries, DeliveryForms, Records

\* The IDs stay apart when a record is added and when the run is written.
LEMMA IdsPushed ==
    ASSUME OutputTypeOK, OwnIds, UNCHANGED shown, UNCHANGED disk \/ WritesRun,
           \/ UNCHANGED boxVars
           \/ \E d \in Deliveries, rest \in SUBSET outbox :
                    nextId =< d.id /\ outbox' = rest \cup {d} /\ nextId' = d.id + 1
    PROVE  OwnIds'
<1>1. /\ \A d \in outbox : d.id \in Nat
      /\ nextId \in Nat /\ disk.nextId \in Nat /\ shown \subseteq Nat
    BY DEF OutputTypeOK, Deliveries, DeliveryForms, Records
<1>2. /\ \A d \in outbox' : d.id < nextId'
      /\ nextId =< nextId' /\ nextId' \in Nat
      /\ \A d, e \in outbox' : d.id = e.id => d = e
    <2>1. CASE UNCHANGED boxVars
        BY <1>1, <2>1 DEF boxVars, OwnIds
    <2>2. CASE \E d \in Deliveries, rest \in SUBSET outbox :
                    nextId =< d.id /\ outbox' = rest \cup {d} /\ nextId' = d.id + 1
        <3>1. PICK d \in Deliveries, rest \in SUBSET outbox :
                    nextId =< d.id /\ outbox' = rest \cup {d} /\ nextId' = d.id + 1
            BY <2>2
        <3>2. d.id \in Nat
            BY DEF Deliveries, DeliveryForms
        <3>3. \A e \in rest : e \in outbox /\ e.id < nextId /\ e.id < d.id /\ e.id # d.id
            BY <1>1, <3>1, <3>2 DEF OwnIds
        <3> QED BY <1>1, <3>1, <3>2, <3>3 DEF OwnIds
    <2> QED BY <2>1, <2>2
<1>3. CASE UNCHANGED disk
    BY <1>1, <1>2, <1>3 DEF OwnIds
<1>4. CASE WritesRun
    <2>1. disk'.outbox = outbox' /\ disk'.nextId = nextId'
        BY <1>4, WritesAre
    <2>2. \A i \in shown : i < disk.nextId /\ disk.nextId =< nextId
        BY DEF OwnIds
    <2>3. \A i \in shown : i \in Nat /\ i < nextId'
        BY <2>2, <1>1, <1>2
    <2> QED BY <1>2, <2>1, <2>3 DEF OwnIds
<1> QED BY <1>3, <1>4

LEMMA RoomyAdds ==
    ASSUME NEW box, Roomy(box), NEW d, d \notin box,
           \/ Cardinality(box) < MaxOutbox - 1
           \/ d.kind = "terminal" /\ ~\E e \in box : e.kind = "terminal"
    PROVE  Roomy(box \cup {d})
<1>1. IsFiniteSet(box) /\ Cardinality(box) \in Nat /\ MaxOutbox \in Nat
    BY OutputAssumption, FS_CardinalityType DEF Roomy
<1>2. IsFiniteSet(box \cup {d}) /\ Cardinality(box \cup {d}) = Cardinality(box) + 1
    BY <1>1, FS_AddElement
<1> QED BY <1>1, <1>2 DEF Roomy

LEMMA RoomyReplaces ==
    ASSUME OutputTypeOK, Roomy(outbox), NEW d, d \notin outbox, d.kind = "terminal"
    PROVE  Roomy((outbox \ Terminals) \cup {d})
<1>1. IsFiniteSet(outbox) /\ Cardinality(outbox) \in Nat /\ MaxOutbox \in Nat
    BY OutputAssumption, FS_CardinalityType DEF Roomy
<1>2. CASE Terminals = {}
    <2>1. outbox \ Terminals = outbox /\ ~\E e \in outbox : e.kind = "terminal"
        BY <1>2 DEF Terminals
    <2> QED BY <2>1, RoomyAdds
<1>3. CASE Terminals # {}
    <2>1. PICK e \in outbox : e \in Terminals
        BY <1>3 DEF Terminals
    <2>2. IsFiniteSet(outbox \ {e}) /\ Cardinality(outbox \ {e}) = Cardinality(outbox) - 1
        BY <1>1, <2>1, FS_RemoveElement
    <2>3. outbox \ Terminals \subseteq outbox \ {e}
        BY <2>1
    <2>4. /\ IsFiniteSet(outbox \ Terminals)
          /\ Cardinality(outbox \ Terminals) =< Cardinality(outbox \ {e})
          /\ Cardinality(outbox \ Terminals) \in Nat
        BY <2>2, <2>3, FS_Subset, FS_CardinalityType
    <2>5. /\ IsFiniteSet((outbox \ Terminals) \cup {d})
          /\ Cardinality((outbox \ Terminals) \cup {d}) = Cardinality(outbox \ Terminals) + 1
        BY <2>4, FS_AddElement
    <2>6. Cardinality((outbox \ Terminals) \cup {d}) =< MaxOutbox
        BY <1>1, <2>2, <2>4, <2>5 DEF Roomy
    <2> QED BY <2>5, <2>6 DEF Roomy
<1> QED BY <1>2, <1>3

\* No step but one pushes a record that is no report, and with room for it; a terminal one
\* may take the place of another.
Grows ==
    \/ UNCHANGED boxVars
    \/ \E kind \in {"explicit", "paused", "terminal"} :
          /\ Pushes(kind, "none", 0)
          /\ \/ Cardinality(outbox) < MaxOutbox - 1
             \/ kind = "terminal" /\ ~\E d \in outbox : d.kind = "terminal"
    \/ ReplaceTerminal

LEMMA GrowsBy ==
    ASSUME OutputTypeOK, OwnIds, Grows, Roomy(outbox)
    PROVE  /\ outbox' \subseteq Deliveries /\ nextId' \in Nat /\ Roomy(outbox')
           /\ \/ UNCHANGED boxVars
              \/ \E d \in Deliveries, rest \in SUBSET outbox :
                    /\ nextId =< d.id /\ outbox' = rest \cup {d} /\ nextId' = d.id + 1
                    /\ d.out = 0 /\ \A e \in outbox : e \in rest \/ e.out = 0
<1>0. nextId \in Nat /\ outbox \subseteq Deliveries /\ \A d \in outbox : d.id < nextId
    BY DEF OutputTypeOK, OwnIds
<1>1. CASE UNCHANGED boxVars
    BY <1>1 DEF OutputTypeOK, boxVars, Roomy
<1>2. CASE \E kind \in {"explicit", "paused", "terminal"} :
          /\ Pushes(kind, "none", 0)
          /\ \/ Cardinality(outbox) < MaxOutbox - 1
             \/ kind = "terminal" /\ ~\E d \in outbox : d.kind = "terminal"
    <2>1. PICK kind \in {"explicit", "paused", "terminal"} :
          /\ Pushes(kind, "none", 0)
          /\ \/ Cardinality(outbox) < MaxOutbox - 1
             \/ kind = "terminal" /\ ~\E d \in outbox : d.kind = "terminal"
        BY <1>2
    <2> DEFINE d == Entry(kind, "none", 0)
    <2>2. /\ d \in Deliveries /\ d.id = nextId /\ d.kind = kind /\ d.out = 0
          /\ d \notin outbox /\ outbox' = outbox \cup {d} /\ outbox' \subseteq Deliveries
          /\ nextId' = nextId + 1 /\ nextId' \in Nat
        BY <2>1, PushedIs
    <2> HIDE DEF d
    <2>3. Roomy(outbox \cup {d})
        BY <2>1, <2>2, RoomyAdds
    <2> QED BY <1>0, <2>2, <2>3
<1>3. CASE ReplaceTerminal
    <2>1. \A i \in Nat :
            LET d == [Entry("terminal", "none", 0) EXCEPT !.id = i]
            IN  d \in Deliveries /\ d.id = i /\ d.kind = "terminal" /\ d.out = 0
        BY <1>0 DEF Entry, Deliveries, DeliveryForms
    <2>2. \E i \in {nextId, nextId + 1} :
            /\ outbox' = (outbox \ Terminals) \cup {[Entry("terminal", "none", 0) EXCEPT !.id = i]}
            /\ nextId' = i + 1
        BY <1>3 DEF ReplaceTerminal
    <2>3. PICK d \in Deliveries :
            /\ nextId =< d.id /\ d.id \in Nat /\ d.kind = "terminal" /\ d.out = 0
            /\ outbox' = (outbox \ Terminals) \cup {d} /\ nextId' = d.id + 1
        <3>1. PICK i \in {nextId, nextId + 1} :
                /\ outbox' = (outbox \ Terminals) \cup {[Entry("terminal", "none", 0) EXCEPT !.id = i]}
                /\ nextId' = i + 1
            BY <2>2
        <3>2. i \in Nat /\ nextId =< i
            BY <1>0
        <3> DEFINE d == [Entry("terminal", "none", 0) EXCEPT !.id = i]
        <3>3. d \in Deliveries /\ d.id = i /\ d.kind = "terminal" /\ d.out = 0
            BY <2>1, <3>2
        <3>4. outbox' = (outbox \ Terminals) \cup {d}
            BY <3>1
        <3> HIDE DEF d
        <3> QED BY <3>1, <3>2, <3>3, <3>4
    <2>4. d \notin outbox
        BY <1>0, <2>3
    <2>5. Roomy(outbox')
        BY <2>3, <2>4, RoomyReplaces
    <2>6. \A e \in outbox : e \in outbox \ Terminals \/ e.out = 0
        BY <1>0 DEF Terminals, Deliveries
    <2>7. outbox \ Terminals \in SUBSET outbox /\ outbox' \subseteq Deliveries /\ nextId' \in Nat
        BY <1>0, <2>3
    <2> QED BY <2>3, <2>5, <2>6, <2>7
<1> QED BY <1>1, <1>2, <1>3 DEF Grows

\* The steps that neither make, hand on nor forget a result.
LEMMA ResultsKept ==
    ASSUME OutputInv, UNCHANGED <<journal, replay, toldVars, made>>, Grows, UNCHANGED disk \/ WritesRun,
           \A c \in OutCalls : agents'[c].at = "done" =>
                \/ agents[c].at = "done" /\ agents'[c].out = agents[c].out
                \/ replay[c] # 0 /\ agents'[c].out = replay[c],
           run.status = "deleted" => run'.status = "deleted"
    PROVE  ResultsInv'
<1>1. /\ OutputTypeOK /\ MadeBefore /\ OwnIds /\ OneWay /\ AllReachable
      /\ Roomy(outbox) /\ Roomy(disk.outbox)
      /\ UNCHANGED <<journal, replay, cursor, shown, handed, overtaken, made>>
    BY DEF OutputInv, toldVars
<1>2. /\ Roomy(outbox')
      /\ \/ UNCHANGED boxVars
         \/ \E d \in Deliveries, rest \in SUBSET outbox :
                /\ nextId =< d.id /\ outbox' = rest \cup {d} /\ nextId' = d.id + 1
                /\ d.out = 0 /\ \A e \in outbox : e \in rest \/ e.out = 0
    BY <1>1, GrowsBy
<1>3. \A d \in outbox : d \in outbox' \/ d.out = 0
    BY <1>2 DEF boxVars
<1>4. \A d \in outbox' : d \in outbox \/ d.out = 0
    BY <1>2 DEF boxVars
<1>5. \/ disk'.outbox = disk.outbox /\ disk'.journal = disk.journal
      \/ disk'.outbox = outbox' /\ disk'.journal = journal
    BY <1>1, WritesAre
<1>6. MadeBefore'
    <2>1. \A r \in cursor' : 0 < r /\ r =< made'
        BY <1>1 DEF MadeBefore
    <2>2. \A c \in OutCalls : journal'[c] =< made' /\ replay'[c] =< made' /\ disk'.journal[c] =< made'
        BY <1>1, <1>5 DEF MadeBefore
    <2>3. \A c \in OutCalls : replay[c] \in Nat /\ agents[c].out \in Nat /\ made \in Nat
        BY <1>1 DEF OutputTypeOK, Agents
    <2>4. \A c \in OutCalls : agents'[c].at = "done" => 0 < agents'[c].out /\ agents'[c].out =< made'
        BY <1>1, <2>3 DEF MadeBefore
    <2> QED BY <2>1, <2>2, <2>4 DEF MadeBefore
<1>7. OwnIds'
    BY <1>1, <1>2, IdsPushed
<1>8. OneWay'
    <2>1. \A d \in (outbox \cup disk.outbox)' : d \in outbox \cup disk.outbox \/ d.out = 0
        BY <1>4, <1>5
    <2>2. \A r \in OutResults : handed'[r] =< 1 /\ (handed'[r] = 1 => r \in cursor')
        BY <1>1 DEF OneWay
    <2>3. \A d \in (outbox \cup disk.outbox)' :
            d.out # 0 => d.out \in cursor' /\ (handed'[d.out] = 1 => d.id \in shown')
        BY <1>1, <2>1 DEF OneWay
    <2>4. \A d, e \in (outbox \cup disk.outbox)' : d.out # 0 /\ d.out = e.out => d.id = e.id
        BY <1>1, <2>1 DEF OneWay
    <2> QED BY <2>2, <2>3, <2>4 DEF OneWay
<1>9. AllReachable'
    <2> SUFFICES ASSUME run.status # "deleted", NEW c \in OutCalls
                 PROVE  (/\ agents[c].at = "done" => Reachable(agents[c].out, outbox)
                         /\ journal[c] # 0 => Reachable(journal[c], outbox)
                         /\ replay[c] # 0 => Reachable(replay[c], outbox)
                         /\ disk.journal[c] # 0 => Reachable(disk.journal[c], disk.outbox))'
        BY DEF AllReachable
    <2>1. \A r : r # 0 /\ Reachable(r, outbox) => Reachable(r, outbox)'
        BY <1>1, <1>3 DEF Reachable
    <2>2. \A r : Reachable(r, disk.outbox) /\ disk'.outbox = disk.outbox => Reachable(r, disk.outbox)'
        BY <1>1 DEF Reachable
    <2>3. /\ agents'[c].at = "done" => Reachable(agents'[c].out, outbox)
          /\ journal[c] # 0 => Reachable(journal[c], outbox)
          /\ replay[c] # 0 => Reachable(replay[c], outbox)
          /\ disk.journal[c] # 0 => Reachable(disk.journal[c], disk.outbox)
        BY <1>1 DEF AllReachable
    <2>4. \A r : disk'.outbox = outbox' /\ Reachable(r, outbox)' => Reachable(r, disk.outbox)'
        BY DEF Reachable
    <2>5. agents'[c].at = "done" => Reachable(agents[c].out, outbox)'
        <3>1. agents'[c].at = "done" => agents'[c].out # 0
            BY <1>6, <1>1 DEF MadeBefore
        <3> QED BY <2>1, <2>3, <3>1 DEF Reachable
    <2>6. (journal[c] # 0 => Reachable(journal[c], outbox))' /\ (replay[c] # 0 => Reachable(replay[c], outbox))'
        BY <1>1, <2>1, <2>3
    <2>7. disk'.journal[c] # 0 => Reachable(disk.journal[c], disk.outbox)'
        <3>1. CASE disk'.outbox = disk.outbox /\ disk'.journal = disk.journal
            BY <2>2, <2>3, <3>1
        <3>2. CASE disk'.outbox = outbox' /\ disk'.journal = journal
            BY <2>1, <2>3, <2>4, <3>2
        <3> QED BY <1>5, <3>1, <3>2
    <2> QED BY <2>5, <2>6, <2>7
<1>10. Roomy(outbox)'
    BY <1>2 DEF Roomy
<1>11. Roomy(disk.outbox)'
    BY <1>1, <1>5, <1>10
<1> QED BY <1>6, <1>7, <1>8, <1>9, <1>10, <1>11 DEF ResultsInv

LEMMA ResultsAre ==
    ASSUME OutputTypeOK, MadeBefore, NEW c \in OutCalls
    PROVE  /\ agents[c].at = "done" => agents[c].out \in OutResults
           /\ journal[c] # 0 => journal[c] \in OutResults
           /\ replay[c] # 0 => replay[c] \in OutResults
           /\ disk.journal[c] # 0 => disk.journal[c] \in OutResults
<1>1. \A n \in Nat : n # 0 /\ n <= made => n \in OutResults
    BY OutputAssumption DEF OutputTypeOK, OutResults
<1>2. agents[c].out \in Nat /\ journal[c] \in Nat /\ replay[c] \in Nat
    BY DEF OutputTypeOK, Agents
<1>3. disk.journal[c] \in Nat
    BY DEF OutputTypeOK, Records
<1>4. /\ journal[c] <= made /\ replay[c] <= made /\ disk.journal[c] <= made
      /\ agents[c].at = "done" => 0 < agents[c].out /\ agents[c].out <= made
    BY DEF MadeBefore
<1> QED BY <1>1, <1>2, <1>3, <1>4

LEMMA ClaimedIs ==
    ASSUME OutputTypeOK, MadeBefore
    PROVE  cursor \subseteq OutResults
<1> SUFFICES ASSUME NEW r \in cursor PROVE r \in OutResults
    OBVIOUS
<1>1. r \in Nat /\ 0 < r /\ r =< made /\ made \in Nat /\ made =< MaxResults
    BY DEF OutputTypeOK, MadeBefore
<1> QED BY <1>1, OutputAssumption DEF OutResults

\* What calls and journals remember stays reachable if every result does.
LEMMA ReachKept ==
    ASSUME OutputTypeOK, MadeBefore, AllReachable,
           UNCHANGED <<agents, journal, replay>>, UNCHANGED disk \/ WritesRun,
           run.status = "deleted" => run'.status = "deleted",
           \A r \in OutResults : Reachable(r, outbox) => Reachable(r, outbox)',
           \A r \in OutResults : UNCHANGED disk /\ Reachable(r, disk.outbox) => Reachable(r, disk.outbox)'
    PROVE  AllReachable'
<1> SUFFICES ASSUME run.status # "deleted", NEW c \in OutCalls
             PROVE  (/\ agents[c].at = "done" => Reachable(agents[c].out, outbox)
                     /\ journal[c] # 0 => Reachable(journal[c], outbox)
                     /\ replay[c] # 0 => Reachable(replay[c], outbox)
                     /\ disk.journal[c] # 0 => Reachable(disk.journal[c], disk.outbox))'
    BY DEF AllReachable
<1>1. /\ agents[c].at = "done" => agents[c].out \in OutResults /\ Reachable(agents[c].out, outbox)
      /\ journal[c] # 0 => journal[c] \in OutResults /\ Reachable(journal[c], outbox)
      /\ replay[c] # 0 => replay[c] \in OutResults /\ Reachable(replay[c], outbox)
      /\ disk.journal[c] # 0 => disk.journal[c] \in OutResults /\ Reachable(disk.journal[c], disk.outbox)
    BY ResultsAre DEF AllReachable
<1>2. \A r : disk'.outbox = outbox' /\ Reachable(r, outbox)' => Reachable(r, disk.outbox)'
    BY DEF Reachable
<1>3. /\ (agents[c].at = "done" => Reachable(agents[c].out, outbox))'
      /\ (journal[c] # 0 => Reachable(journal[c], outbox))'
      /\ (replay[c] # 0 => Reachable(replay[c], outbox))'
    BY <1>1
<1>4. (disk.journal[c] # 0 => Reachable(disk.journal[c], disk.outbox))'
    <2>1. CASE UNCHANGED disk
        BY <1>1, <2>1
    <2>2. CASE WritesRun
        <3>1. disk'.outbox = outbox' /\ disk'.journal = journal
            BY <2>2, WritesAre
        <3> QED BY <1>1, <1>2, <3>1
    <2> QED BY <2>1, <2>2
<1> QED BY <1>3, <1>4

LEMMA ResultsClaimed ==
    ASSUME OutputInv, ClaimAgentOutputs,
           UNCHANGED <<run, agents, journal, replay, outbox, nextId, disk, shown, overtaken, made>>
    PROVE  ResultsInv' /\ cursor' \subseteq Nat /\ handed' \in [OutResults -> Nat]
<1>1. /\ OutputTypeOK /\ MadeBefore /\ OwnIds /\ OneWay /\ AllReachable
      /\ Roomy(outbox) /\ Roomy(disk.outbox)
    BY DEF OutputInv
<1>2. PICK T \in SUBSET Unclaimed : cursor' = cursor \cup T /\ Hand(T)
    BY DEF ClaimAgentOutputs
<1>3. /\ handed' \in [OutResults -> Nat] /\ cursor \subseteq Nat
      /\ \A r \in OutResults : /\ handed[r] \in Nat
                               /\ r \in T => handed'[r] = handed[r] + 1
                               /\ r \notin T => handed'[r] = handed[r]
    BY <1>1, <1>2 DEF OutputTypeOK, Hand
<1>4. \A r \in T : r \in OutResults /\ r \in Nat /\ r \notin cursor /\ 0 < r /\ r =< made
    <2>1. \A r \in T : r \notin cursor /\ \E c \in OutCalls : agents[c].at = "done" /\ r = agents[c].out
        BY <1>2 DEF Unclaimed
    <2> QED BY <1>1, <2>1, ResultsAre DEF OutResults, MadeBefore
<1>5. \A r \in T : handed[r] = 0 /\ handed'[r] = 1
    BY <1>1, <1>3, <1>4 DEF OneWay
<1>6. MadeBefore'
    BY <1>1, <1>2, <1>4 DEF MadeBefore
<1>7. OwnIds'
    BY <1>1 DEF OwnIds
<1>8. OneWay'
    <2>1. \A r \in OutResults : handed'[r] =< 1 /\ (handed'[r] = 1 => r \in cursor')
        BY <1>1, <1>2, <1>3, <1>5 DEF OneWay
    <2>2. \A d \in outbox \cup disk.outbox :
            d.out # 0 => d.out \in cursor' /\ (handed'[d.out] = 1 => d.id \in shown)
        <3> SUFFICES ASSUME NEW d \in outbox \cup disk.outbox, d.out # 0
                     PROVE  d.out \in cursor' /\ (handed'[d.out] = 1 => d.id \in shown)
            OBVIOUS
        <3>1. d.out \in cursor /\ d.out \notin T /\ (handed[d.out] = 1 => d.id \in shown)
            BY <1>1, <1>4 DEF OneWay
        <3>2. d.out \in OutResults
            BY <1>1, <3>1, ClaimedIs
        <3> QED BY <1>2, <1>3, <3>1, <3>2
    <2> QED BY <1>1, <2>1, <2>2 DEF OneWay
<1>9. AllReachable'
    <2>1. ASSUME NEW r \in OutResults, NEW box, Reachable(r, box)
          PROVE  handed'[r] > 0 \/ r \notin cursor' \/ r \in overtaken' \/ \E d \in box : d.out = r /\ d.id \notin shown'
        BY <1>2, <1>3, <1>5, <2>1 DEF Reachable
    <2>2. \A r \in OutResults : Reachable(r, outbox) => Reachable(r, outbox)'
        BY <2>1 DEF Reachable
    <2>3. \A r \in OutResults : UNCHANGED disk /\ Reachable(r, disk.outbox) => Reachable(r, disk.outbox)'
        BY <2>1 DEF Reachable
    <2> QED BY <1>1, <2>2, <2>3, ReachKept
<1>10. Roomy(outbox)' /\ Roomy(disk.outbox)'
    BY <1>1
<1> QED BY <1>1, <1>2, <1>3, <1>4, <1>6, <1>7, <1>8, <1>9, <1>10 DEF ResultsInv

LEMMA ResultShown ==
    ASSUME OutputInv, NEW d \in outbox, Show(d)
    PROVE  ResultsInv' /\ handed' \in [OutResults -> Nat]
<1>1. /\ OutputTypeOK /\ MadeBefore /\ OwnIds /\ OneWay /\ AllReachable
      /\ Roomy(outbox) /\ Roomy(disk.outbox)
    BY DEF OutputInv
<1>2. /\ d.id \notin shown /\ shown' = shown \cup {d.id} /\ Hand({d.out} \ {0})
      /\ UNCHANGED <<run, agents, journal, replay, outbox, nextId, cursor, overtaken, made>>
      /\ WritesRun /\ disk'.outbox = outbox /\ disk'.journal = journal /\ disk'.nextId = nextId
    BY WritesAre DEF Show, runVars, boxVars, boundVars, Strict
<1>3. d.id \in Nat /\ d.out \in Nat /\ d.id < nextId /\ nextId \in Nat
    BY <1>1 DEF OutputTypeOK, Deliveries, DeliveryForms, OwnIds
<1>4. /\ handed' \in [OutResults -> Nat]
      /\ \A r \in OutResults : /\ handed[r] \in Nat
                               /\ r = d.out => handed'[r] = handed[r] + 1
                               /\ r # d.out => handed'[r] = handed[r]
    <2>1. \A r \in OutResults : r # 0
        BY DEF OutResults
    <2> QED BY <1>1, <1>2, <2>1 DEF OutputTypeOK, Hand
<1>5. d.out # 0 => d.out \in cursor /\ handed[d.out] # 1
    BY <1>1, <1>2 DEF OneWay
<1>6. MadeBefore'
    BY <1>1, <1>2 DEF MadeBefore
<1>7. OwnIds'
    <2>1. \A i \in shown' : i < nextId
        BY <1>1, <1>2, <1>3 DEF OwnIds, OutputTypeOK, Records
    <2> QED BY <1>1, <1>2, <1>3, <2>1 DEF OwnIds
<1>8. OneWay'
    <2>1. \A r \in OutResults : handed'[r] =< 1 /\ (handed'[r] = 1 => r \in cursor)
        <3> SUFFICES ASSUME NEW r \in OutResults PROVE handed'[r] =< 1 /\ (handed'[r] = 1 => r \in cursor)
            OBVIOUS
        <3>1. handed[r] \in Nat /\ handed[r] =< 1 /\ (handed[r] = 1 => r \in cursor) /\ r # 0
            BY <1>1, <1>4 DEF OneWay, OutResults
        <3> QED BY <1>4, <1>5, <3>1
    <2>2. \A e \in outbox :
            e.out # 0 => e.out \in cursor /\ (handed'[e.out] = 1 => e.id \in shown')
        <3> SUFFICES ASSUME NEW e \in outbox, e.out # 0
                     PROVE  e.out \in cursor /\ (handed'[e.out] = 1 => e.id \in shown')
            OBVIOUS
        <3>1. /\ e.out \in cursor /\ (handed[e.out] = 1 => e.id \in shown)
              /\ e.out = d.out => e.id = d.id
            BY <1>1 DEF OneWay
        <3>2. e.out \in OutResults
            BY <1>1, <3>1, ClaimedIs
        <3> QED BY <1>2, <1>4, <3>1, <3>2
    <2> QED BY <1>1, <1>2, <2>1, <2>2 DEF OneWay
<1>9. AllReachable'
    <2>1. ASSUME NEW r \in OutResults, Reachable(r, outbox)
          PROVE  handed'[r] > 0 \/ r \notin cursor \/ r \in overtaken \/ \E e \in outbox : e.out = r /\ e.id \notin shown'
        <3>1. CASE r = d.out
            BY <1>4, <3>1
        <3>2. CASE r # d.out
            <4>1. \A e \in outbox : e.out = r => e.id # d.id
                BY <1>1, <3>2 DEF OwnIds
            <4> QED BY <1>2, <1>4, <2>1, <3>2, <4>1 DEF Reachable
        <3> QED BY <3>1, <3>2
    <2>2. \A r \in OutResults : Reachable(r, outbox) => Reachable(r, outbox)'
        BY <1>2, <2>1 DEF Reachable
    <2>3. \A r \in OutResults : Reachable(r, outbox)' => Reachable(r, disk.outbox)'
        BY <1>2 DEF Reachable
    <2> SUFFICES ASSUME run.status # "deleted", NEW c \in OutCalls
                 PROVE  (/\ agents[c].at = "done" => Reachable(agents[c].out, outbox)
                         /\ journal[c] # 0 => Reachable(journal[c], outbox)
                         /\ replay[c] # 0 => Reachable(replay[c], outbox)
                         /\ disk.journal[c] # 0 => Reachable(disk.journal[c], disk.outbox))'
        BY <1>2 DEF AllReachable
    <2>4. /\ agents[c].at = "done" => agents[c].out \in OutResults /\ Reachable(agents[c].out, outbox)
          /\ journal[c] # 0 => journal[c] \in OutResults /\ Reachable(journal[c], outbox)
          /\ replay[c] # 0 => replay[c] \in OutResults /\ Reachable(replay[c], outbox)
        BY <1>1, ResultsAre DEF AllReachable
    <2> QED BY <1>2, <2>2, <2>3, <2>4
<1>10. Roomy(outbox)' /\ Roomy(disk.outbox)'
    BY <1>1, <1>2
<1> QED BY <1>4, <1>6, <1>7, <1>8, <1>9, <1>10 DEF ResultsInv

LEMMA ResultRead ==
    ASSUME OutputInv, NEW d \in outbox, AcknowledgeDelivery(d)
    PROVE  ResultsInv'
<1>1. /\ OutputTypeOK /\ MadeBefore /\ OwnIds /\ OneWay /\ AllReachable
      /\ Roomy(outbox) /\ Roomy(disk.outbox)
      /\ d.id \in shown
      /\ UNCHANGED <<run, agents, journal, replay, nextId, cursor, shown, handed, overtaken, made>>
    BY DEF OutputInv, AcknowledgeDelivery, runVars, toldVars, boundVars
<1>2. CASE outbox' = outbox /\ disk' = disk
    BY <1>1, <1>2 DEF ResultsInv, MadeBefore, OwnIds, OneWay, AllReachable, Reachable
<1>3. CASE outbox' = outbox \ {d} /\ WritesRun
    <2>1. disk'.outbox = outbox' /\ disk'.journal = journal /\ disk'.nextId = nextId
        BY <1>1, <1>3, WritesAre
    <2>2. MadeBefore'
        BY <1>1, <2>1 DEF MadeBefore
    <2>3. OwnIds'
        <3>1. disk.nextId \in Nat /\ nextId \in Nat /\ shown \subseteq Nat
            BY <1>1 DEF OutputTypeOK, Records
        <3>2. \A i \in shown : i < nextId
            BY <1>1, <3>1 DEF OwnIds
        <3> QED BY <1>1, <1>3, <2>1, <3>1, <3>2 DEF OwnIds
    <2>4. OneWay'
        BY <1>1, <1>3, <2>1 DEF OneWay
    <2>5. AllReachable'
        <3>1. \A r \in OutResults : Reachable(r, outbox) => Reachable(r, outbox)'
            BY <1>1, <1>3 DEF Reachable
        <3>2. \A r : disk'.outbox = outbox' /\ Reachable(r, outbox)' => Reachable(r, disk.outbox)'
            BY DEF Reachable
        <3> SUFFICES ASSUME run.status # "deleted", NEW c \in OutCalls
                     PROVE  (/\ agents[c].at = "done" => Reachable(agents[c].out, outbox)
                             /\ journal[c] # 0 => Reachable(journal[c], outbox)
                             /\ replay[c] # 0 => Reachable(replay[c], outbox)
                             /\ disk.journal[c] # 0 => Reachable(disk.journal[c], disk.outbox))'
            BY <1>1 DEF AllReachable
        <3>3. /\ agents[c].at = "done" => agents[c].out \in OutResults /\ Reachable(agents[c].out, outbox)
              /\ journal[c] # 0 => journal[c] \in OutResults /\ Reachable(journal[c], outbox)
              /\ replay[c] # 0 => replay[c] \in OutResults /\ Reachable(replay[c], outbox)
            BY <1>1, ResultsAre DEF AllReachable
        <3> QED BY <1>1, <2>1, <3>1, <3>2, <3>3
    <2>6. Roomy(outbox \ {d})
        <3>1. /\ IsFiniteSet(outbox) /\ Cardinality(outbox) \in Nat /\ MaxOutbox \in Nat
            BY <1>1, OutputAssumption, FS_CardinalityType DEF Roomy
        <3>2. IsFiniteSet(outbox \ {d}) /\ Cardinality(outbox \ {d}) = Cardinality(outbox) - 1
            BY <3>1, FS_RemoveElement
        <3> QED BY <1>1, <3>1, <3>2 DEF Roomy
    <2>7. Roomy(outbox)' /\ Roomy(disk.outbox)'
        BY <1>3, <2>1, <2>6
    <2> QED BY <2>2, <2>3, <2>4, <2>5, <2>7 DEF ResultsInv
<1> QED BY <1>2, <1>3 DEF AcknowledgeDelivery, Strict, StrictFails

\* resume() begins with what the record has.
LEMMA ResultsResumed ==
    ASSUME OutputInv, Resumes
    PROVE  ResultsInv'
<1>1. /\ OutputTypeOK /\ MadeBefore /\ OwnIds /\ OneWay /\ AllReachable
      /\ Roomy(outbox) /\ Roomy(disk.outbox)
      /\ run.status # "deleted"
      /\ agents' = NoAgents
      /\ journal' = disk.journal /\ replay' \in {disk.journal, NoResults}
      /\ outbox' = disk.outbox /\ nextId' = disk.nextId
      /\ UNCHANGED <<cursor, shown, handed, overtaken, made>>
      /\ disk'.outbox = disk.outbox /\ disk'.journal = disk.journal /\ disk'.nextId = disk.nextId
    BY WritesAre DEF OutputInv, Resumes, Strict, toldVars, boundVars
<1>2. \A c \in OutCalls : agents'[c].at = "none" /\ (replay'[c] = disk.journal[c] \/ replay'[c] = 0)
    BY <1>1 DEF NoAgents, NoResults
<1>3. MadeBefore'
    BY <1>1, <1>2 DEF MadeBefore, OutputTypeOK
<1>4. OwnIds'
    <2>1. disk.nextId \in Nat
        BY <1>1 DEF OutputTypeOK, Records
    <2> QED BY <1>1, <2>1 DEF OwnIds
<1>5. OneWay'
    BY <1>1 DEF OneWay
<1>6. AllReachable'
    <2>1. \A r : Reachable(r, disk.outbox) => Reachable(r, disk.outbox)' /\ Reachable(r, outbox)'
        BY <1>1 DEF Reachable
    <2>2. \A c \in OutCalls : disk.journal[c] # 0 => Reachable(disk.journal[c], disk.outbox)
        BY <1>1 DEF AllReachable
    <2>3. ASSUME NEW c \in OutCalls
          PROVE  (/\ agents[c].at = "done" => Reachable(agents[c].out, outbox)
                  /\ journal[c] # 0 => Reachable(journal[c], outbox)
                  /\ replay[c] # 0 => Reachable(replay[c], outbox)
                  /\ disk.journal[c] # 0 => Reachable(disk.journal[c], disk.outbox))'
        BY <1>1, <1>2, <2>1, <2>2
    <2> QED BY <2>3 DEF AllReachable
<1>7. Roomy(outbox)' /\ Roomy(disk.outbox)'
    BY <1>1
<1> QED BY <1>3, <1>4, <1>5, <1>6, <1>7 DEF ResultsInv

LEMMA ResultsDeleted ==
    ASSUME OutputInv, DeletesRun
    PROVE  ResultsInv'
<1>1. /\ OutputTypeOK /\ MadeBefore /\ OwnIds /\ OneWay
      /\ run'.status = "deleted" /\ outbox' = {}
      /\ disk'.outbox = {} /\ disk'.journal = disk.journal /\ disk'.nextId = disk.nextId
      /\ UNCHANGED <<agents, journal, replay, nextId, cursor, shown, handed, overtaken, made>>
    BY DEF OutputInv, DeletesRun, OutputTypeOK, Records, Runs, toldVars, boundVars
<1>2. MadeBefore' /\ OwnIds' /\ OneWay'
    BY <1>1 DEF MadeBefore, OwnIds, OneWay
<1>3. AllReachable'
    BY <1>1 DEF AllReachable
<1>4. Roomy({})
    BY FS_EmptySet, OutputAssumption DEF Roomy
<1> QED BY <1>1, <1>2, <1>3, <1>4 DEF ResultsInv

LEMMA ResultMade ==
    ASSUME OutputInv, NEW c \in OutCalls, AgentEnds(c)
    PROVE  /\ ResultsInv' /\ agents' \in [OutCalls -> Agents] /\ journal' \in [OutCalls -> Nat]
           /\ outbox' \subseteq Deliveries /\ nextId' \in Nat /\ (UNCHANGED disk \/ WritesRun)
           /\ cursor' \subseteq Nat /\ overtaken' \subseteq Nat /\ made' \in Nat /\ made' =< MaxResults
           /\ \E why \in {"agent", "delivery"} : Emit(why)
<1> DEFINE r == made + 1
<1>1. /\ OutputTypeOK /\ MadeBefore /\ OwnIds /\ OneWay /\ AllReachable
      /\ Roomy(outbox) /\ Roomy(disk.outbox) /\ MaxResults \in Nat
    BY OutputAssumption DEF OutputInv
<1>2. /\ made \in Nat /\ made < MaxResults /\ made' = r /\ cursor \subseteq Nat /\ overtaken \subseteq Nat
      /\ agents' = [agents EXCEPT ![c] = [at |-> "done", out |-> r]]
      /\ journal' \in {journal, [journal EXCEPT ![c] = r]}
      /\ UNCHANGED <<run, replay, shown, handed>>
    BY <1>1 DEF AgentEnds, OutputTypeOK
<1>3. /\ r \in OutResults /\ r \in Nat /\ r =< MaxResults /\ r # 0 /\ r \notin cursor
      /\ handed[r] = 0
    <2>1. r \in OutResults /\ r \in Nat /\ r =< MaxResults /\ r # 0
        BY <1>1, <1>2 DEF OutResults
    <2>2. r \notin cursor
        BY <1>1, <1>2 DEF MadeBefore
    <2>3. handed[r] \in Nat
        BY <1>1, <2>1 DEF OutputTypeOK
    <2> QED BY <1>1, <2>1, <2>2, <2>3 DEF OneWay
<1>4. /\ \/ Notifies(c, r) /\ (IF boxVars' = boxVars THEN UNCHANGED disk ELSE WritesRun)
         \/ StaysClaimable(r) /\ UNCHANGED disk
    BY <1>2 DEF AgentEnds, Strict
<1>5. \E why \in {"agent", "delivery"} : Emit(why)
    BY <1>4 DEF Notifies, StaysClaimable
<1>6. \/ /\ cursor' = cursor \cup {r} /\ overtaken' = overtaken \cup {r}
         /\ UNCHANGED <<outbox, nextId, disk>>
      \/ /\ cursor' = cursor \cup {r} /\ overtaken' = overtaken /\ Pushes("agent", c, r)
         /\ Cardinality(outbox) < MaxOutbox - 2 /\ WritesRun
      \/ UNCHANGED <<cursor, overtaken, outbox, nextId, disk>>
    <2>1. CASE StaysClaimable(r) /\ UNCHANGED disk
        BY <2>1 DEF StaysClaimable, boxVars
    <2>2. CASE Notifies(c, r) /\ (IF boxVars' = boxVars THEN UNCHANGED disk ELSE WritesRun)
        <3>1. CASE Reports(c) # {}
            BY <2>2, <3>1 DEF Notifies, boxVars
        <3>2. CASE Reports(c) = {}
            <4>1. Pushes("agent", c, r) /\ nextId' # nextId
                BY <1>1, <2>2, <3>2 DEF Notifies, Pushes, OutputTypeOK
            <4>2. boxVars' # boxVars
                BY <4>1 DEF boxVars
            <4> QED BY <2>2, <3>2, <4>1, <4>2 DEF Notifies
        <3> QED BY <3>1, <3>2
    <2> QED BY <1>4, <2>1, <2>2
<1>7. /\ agents' \in [OutCalls -> Agents] /\ journal' \in [OutCalls -> Nat]
      /\ agents'[c].at = "done" /\ agents'[c].out = r
      /\ \A b \in OutCalls : b # c => agents'[b] = agents[b]
      /\ \A b \in OutCalls : journal'[b] = journal[b] \/ journal'[b] = r
    BY <1>1, <1>2, <1>3 DEF OutputTypeOK, Agents
<1> DEFINE d == Entry("agent", c, r)
<1>8. Pushes("agent", c, r) =>
            /\ d \in Deliveries /\ d.id = nextId /\ d.out = r /\ d \notin outbox
            /\ outbox' = outbox \cup {d} /\ outbox' \subseteq Deliveries
            /\ nextId' = nextId + 1 /\ nextId' \in Nat /\ nextId \notin shown
    BY <1>1, <1>3, PushedIs
<1> HIDE DEF d, r
<1>9. /\ outbox' \subseteq Deliveries /\ nextId' \in Nat /\ (UNCHANGED disk \/ WritesRun)
      /\ cursor' \subseteq Nat /\ overtaken' \subseteq Nat
      /\ \A e \in outbox : e \in outbox'
      /\ cursor \subseteq cursor' /\ cursor' \subseteq cursor \cup {r}
      /\ overtaken \subseteq overtaken'
      /\ r \in cursor' => r \in overtaken' \/ (d \in outbox' /\ d.out = r /\ d.id \notin shown)
    BY <1>1, <1>2, <1>3, <1>6, <1>8 DEF OutputTypeOK
<1>10. /\ \/ UNCHANGED <<outbox, nextId, disk>>
          \/ /\ WritesRun /\ outbox' = outbox \cup {d} /\ d \notin outbox /\ d.id = nextId /\ d \in Deliveries
             /\ nextId' = nextId + 1 /\ d.out = r /\ Cardinality(outbox) < MaxOutbox - 2 /\ r \in cursor'
    BY <1>6, <1>8
<1>11. \/ disk'.outbox = disk.outbox /\ disk'.journal = disk.journal
       \/ disk'.outbox = outbox' /\ disk'.journal = journal'
    BY <1>9, WritesAre
<1>12. MadeBefore'
    <2>1. /\ \A x \in cursor : x \in Nat /\ 0 < x /\ x =< made
          /\ \A b \in OutCalls : journal[b] \in Nat /\ replay[b] \in Nat /\ disk.journal[b] \in Nat
          /\ \A b \in OutCalls : agents[b].out \in Nat
        BY <1>1 DEF MadeBefore, OutputTypeOK, Records, Agents
    <2>2. r = made + 1
        BY DEF r
    <2>3. \A x \in cursor' : 0 < x /\ x =< made'
        BY <1>2, <1>9, <2>1, <2>2
    <2>4. \A b \in OutCalls : journal'[b] =< made' /\ replay'[b] =< made'
        BY <1>1, <1>2, <1>7, <2>1, <2>2 DEF MadeBefore
    <2>5. \A b \in OutCalls : disk'.journal[b] =< made'
        <3>1. \A b \in OutCalls : disk.journal[b] =< made'
            BY <1>1, <1>2, <2>1, <2>2 DEF MadeBefore
        <3> QED BY <1>11, <2>4, <3>1
    <2>6. \A b \in OutCalls : agents'[b].at = "done" => 0 < agents'[b].out /\ agents'[b].out =< made'
        <3> SUFFICES ASSUME NEW b \in OutCalls, agents'[b].at = "done"
                     PROVE  0 < agents'[b].out /\ agents'[b].out =< made'
            OBVIOUS
        <3>1. CASE b = c
            BY <1>2, <1>7, <2>2, <3>1
        <3>2. CASE b # c
            <4>1. agents'[b] = agents[b] /\ 0 < agents[b].out /\ agents[b].out =< made
                <5>1. agents'[b] = agents[b]
                    BY <1>7, <3>2
                <5> QED BY <1>1, <5>1 DEF MadeBefore
            <4> QED BY <1>2, <2>1, <2>2, <4>1
        <3> QED BY <3>1, <3>2
    <2> QED BY <2>3, <2>4, <2>5, <2>6 DEF MadeBefore
<1>13. OwnIds'
    <2>1. UNCHANGED shown /\ (UNCHANGED disk \/ WritesRun)
        BY <1>2, <1>10
    <2>2. \/ UNCHANGED boxVars
          \/ \E e \in Deliveries, rest \in SUBSET outbox :
                nextId =< e.id /\ outbox' = rest \cup {e} /\ nextId' = e.id + 1
        <3>1. CASE UNCHANGED <<outbox, nextId>>
            BY <3>1 DEF boxVars
        <3>2. CASE outbox' = outbox \cup {d} /\ d.id = nextId /\ d \in Deliveries /\ nextId' = nextId + 1
            <4>1. nextId =< d.id /\ nextId' = d.id + 1 /\ outbox \in SUBSET outbox
                BY <1>1, <3>2 DEF OutputTypeOK
            <4> QED BY <3>2, <4>1
        <3> QED BY <1>10, <3>1, <3>2
    <2> QED BY <1>1, <2>1, <2>2, IdsPushed
<1>14. OneWay'
    <2>1. \A e \in (outbox \cup disk.outbox)' : e \in outbox \cup disk.outbox \/ (e = d /\ d.out = r /\ r \in cursor')
        BY <1>10, <1>11
    <2>2. \A x \in OutResults : handed'[x] =< 1 /\ (handed'[x] = 1 => x \in cursor')
        BY <1>1, <1>2, <1>9 DEF OneWay
    <2>3. \A e \in outbox \cup disk.outbox : e.out # 0 =>
                /\ e.out \in cursor /\ e.out # r /\ (handed[e.out] = 1 => e.id \in shown)
        BY <1>1, <1>3 DEF OneWay
    <2>4. \A e \in (outbox \cup disk.outbox)' :
            e.out # 0 => e.out \in cursor' /\ (handed'[e.out] = 1 => e.id \in shown')
        <3> SUFFICES ASSUME NEW e \in (outbox \cup disk.outbox)', e.out # 0
                     PROVE  e.out \in cursor' /\ (handed'[e.out] = 1 => e.id \in shown')
            OBVIOUS
        <3>1. CASE e \in outbox \cup disk.outbox
            BY <1>2, <1>9, <2>3, <3>1
        <3>2. CASE e.out = r /\ r \in cursor'
            BY <1>2, <1>3, <3>2
        <3> QED BY <2>1, <3>1, <3>2
    <2>5. \A e, f \in (outbox \cup disk.outbox)' : e.out # 0 /\ e.out = f.out => e.id = f.id
        <3> SUFFICES ASSUME NEW e \in (outbox \cup disk.outbox)', NEW f \in (outbox \cup disk.outbox)',
                            e.out # 0, e.out = f.out
                     PROVE  e.id = f.id
            OBVIOUS
        <3>1. CASE e \in outbox \cup disk.outbox /\ f \in outbox \cup disk.outbox
            BY <1>1, <3>1 DEF OneWay
        <3>2. CASE e.out = r
            BY <2>1, <2>3, <3>2
        <3>3. CASE e.out # r
            BY <2>1, <3>1, <3>3
        <3> QED BY <3>2, <3>3
    <2> QED BY <2>2, <2>4, <2>5 DEF OneWay
<1>15. AllReachable'
    <2>1. ASSUME NEW x \in OutResults, NEW box, NEW more, box \subseteq more, Reachable(x, box), x # r
          PROVE  handed'[x] > 0 \/ x \notin cursor' \/ x \in overtaken' \/ \E e \in more : e.out = x /\ e.id \notin shown'
        BY <1>2, <1>9, <2>1 DEF Reachable
    <2>3. \A x : x = r => Reachable(x, outbox)'
        BY <1>2, <1>9 DEF Reachable
    <2>4. \A x \in OutResults : Reachable(x, outbox) => Reachable(x, outbox)'
        <3> SUFFICES ASSUME NEW x \in OutResults, Reachable(x, outbox) PROVE Reachable(x, outbox)'
            OBVIOUS
        <3>1. CASE x = r
            BY <2>3, <3>1
        <3>2. CASE x # r
            <4>1. outbox \subseteq outbox'
                BY <1>9
            <4> QED BY <2>1, <3>2, <4>1 DEF Reachable
        <3> QED BY <3>1, <3>2
    <2>5. \A x \in OutResults : x # r /\ UNCHANGED disk /\ Reachable(x, disk.outbox) => Reachable(x, disk.outbox)'
        BY <2>1 DEF Reachable
    <2>6. \A x : disk'.outbox = outbox' /\ Reachable(x, outbox)' => Reachable(x, disk.outbox)'
        BY DEF Reachable
    <2> SUFFICES ASSUME run.status # "deleted", NEW b \in OutCalls
                 PROVE  (/\ agents[b].at = "done" => Reachable(agents[b].out, outbox)
                         /\ journal[b] # 0 => Reachable(journal[b], outbox)
                         /\ replay[b] # 0 => Reachable(replay[b], outbox)
                         /\ disk.journal[b] # 0 => Reachable(disk.journal[b], disk.outbox))'
        BY <1>2 DEF AllReachable
    <2>7. /\ agents[b].at = "done" => agents[b].out \in OutResults /\ Reachable(agents[b].out, outbox)
          /\ journal[b] # 0 => journal[b] \in OutResults /\ Reachable(journal[b], outbox)
          /\ replay[b] # 0 => replay[b] \in OutResults /\ Reachable(replay[b], outbox)
          /\ disk.journal[b] # 0 => /\ disk.journal[b] \in OutResults
                                    /\ Reachable(disk.journal[b], disk.outbox)
        BY <1>1, ResultsAre DEF AllReachable
    <2>8. agents'[b].at = "done" => Reachable(agents[b].out, outbox)'
        <3>1. CASE b = c
            BY <1>7, <2>3, <3>1
        <3>2. CASE b # c
            <4>1. agents'[b] = agents[b]
                BY <1>7, <3>2
            <4> QED BY <2>4, <2>7, <4>1
        <3> QED BY <3>1, <3>2
    <2>9. (journal[b] # 0 => Reachable(journal[b], outbox))'
        BY <1>7, <2>3, <2>4, <2>7
    <2>10. (replay[b] # 0 => Reachable(replay[b], outbox))'
        BY <1>2, <2>4, <2>7
    <2>11. (disk.journal[b] # 0 => Reachable(disk.journal[b], disk.outbox))'
        <3>1. CASE UNCHANGED disk
            <4>1. disk.journal[b] # r
                <5>1. disk.journal[b] \in Nat /\ disk.journal[b] =< made
                    BY <1>1 DEF MadeBefore, OutputTypeOK, Records
                <5> QED BY <1>2, <5>1 DEF r
            <4> QED BY <2>5, <2>7, <3>1, <4>1
        <3>2. CASE WritesRun
            <4>1. disk'.outbox = outbox' /\ disk'.journal = journal'
                BY <3>2, WritesAre
            <4> QED BY <2>6, <2>9, <4>1
        <3> QED BY <1>9, <3>1, <3>2
    <2> QED BY <2>8, <2>9, <2>10, <2>11
<1>16. Roomy(outbox')
    <2>1. CASE UNCHANGED <<outbox, nextId, disk>>
        BY <1>1, <2>1
    <2>2. CASE ~UNCHANGED <<outbox, nextId, disk>>
        <3>1. outbox' = outbox \cup {d} /\ d \notin outbox /\ Cardinality(outbox) < MaxOutbox - 2
            BY <1>10, <2>2
        <3>2. Cardinality(outbox) \in Nat /\ MaxOutbox \in Nat
            BY <1>1, OutputAssumption, FS_CardinalityType DEF Roomy
        <3>3. Cardinality(outbox) < MaxOutbox - 1
            BY <3>1, <3>2
        <3> QED BY <1>1, <3>1, <3>3, RoomyAdds
    <2> QED BY <2>1, <2>2
<1>17. Roomy(outbox)' /\ Roomy(disk.outbox)'
    BY <1>1, <1>11, <1>16
<1> QED BY <1>2, <1>3, <1>5, <1>7, <1>9, <1>12, <1>13, <1>14, <1>15, <1>17 DEF ResultsInv, r

LEMMA WokenIs ==
    ASSUME OutputTypeOK, NEW why \in {"agent", "delivery", "ready"}, Emit(why)
    PROVE  tool' \in Tools /\ tool'.at # "waiting"
BY DEF OutputTypeOK, Emit, WokenTool, Tools

\* What the tool does by itself, and what steers the agents.
LEMMA AsideKeeps ==
    ASSUME OutputInv,
           \/ \E c \in OutCalls : AgentStarts(c) \/ SessionOpens(c) \/ SessionCloses(c)
           \/ EnqueueUserMessage \/ LeaveTool \/ ToolGoesOn
    PROVE  OutputInv'
<1>1. OutputTypeOK /\ Told /\ Settled /\ MadeBefore
    BY DEF OutputInv
<1>2. /\ UNCHANGED <<run, journal, replay, boxVars, disk, silent, toldVars, made>>
      /\ agents' \in [OutCalls -> Agents]
      /\ \A c \in OutCalls : agents'[c].at = "done" =>
                \/ agents[c].at = "done" /\ agents'[c].out = agents[c].out
                \/ replay[c] # 0 /\ agents'[c].out = replay[c]
      /\ run.over => /\ steering = 0 => steering' = 0
                     /\ senders = {} => senders' = {}
    <2>1. ASSUME NEW c \in OutCalls, AgentStarts(c)
          PROVE  /\ UNCHANGED <<run, journal, replay, boxVars, disk, silent, toldVars, made>>
                 /\ agents' \in [OutCalls -> Agents]
                 /\ \A b \in OutCalls : agents'[b].at = "done" =>
                        \/ agents[b].at = "done" /\ agents'[b].out = agents[b].out
                        \/ replay[b] # 0 /\ agents'[b].out = replay[b]
                 /\ run.over => /\ steering = 0 => steering' = 0
                                /\ senders = {} => senders' = {}
        <3>1. /\ UNCHANGED <<run, journal, replay, boxVars, disk, silent, toldVars, made, senders>> /\ steering' = 0
              /\ \/ replay[c] # 0 /\ agents' = [agents EXCEPT ![c] = [at |-> "done", out |-> replay[c]]]
                 \/ agents' = [agents EXCEPT ![c].at = "running"]
            BY <2>1 DEF AgentStarts, boundVars
        <3>2. replay[c] \in Nat /\ agents \in [OutCalls -> Agents] /\ agents[c] \in Agents
            BY <1>1 DEF OutputTypeOK
        <3>3. CASE replay[c] # 0 /\ agents' = [agents EXCEPT ![c] = [at |-> "done", out |-> replay[c]]]
            <4>1. [at |-> "done", out |-> replay[c]] \in Agents
                BY <3>2 DEF Agents
            <4> QED BY <3>1, <3>2, <3>3, <4>1
        <3>4. CASE agents' = [agents EXCEPT ![c].at = "running"]
            <4>1. /\ [agents[c] EXCEPT !.at = "running"] \in Agents
                  /\ [agents[c] EXCEPT !.at = "running"].at = "running"
                BY <3>2 DEF Agents
            <4> QED BY <3>1, <3>2, <3>4, <4>1
        <3> QED BY <3>1, <3>3, <3>4
    <2>2. ASSUME \/ \E c \in OutCalls : SessionOpens(c) \/ SessionCloses(c)
                 \/ EnqueueUserMessage \/ LeaveTool \/ ToolGoesOn
          PROVE  UNCHANGED <<run, agents, journal, replay, boxVars, disk, silent, toldVars, made>>
        BY <2>2 DEF SessionOpens, SessionCloses, EnqueueUserMessage, LeaveTool, ToolGoesOn, runVars, boundVars
    <2>3. ASSUME \/ \E c \in OutCalls : SessionOpens(c) \/ SessionCloses(c)
                 \/ EnqueueUserMessage \/ LeaveTool \/ ToolGoesOn
          PROVE  run.over => /\ steering = 0 => steering' = 0
                             /\ senders = {} => senders' = {}
        BY <1>1, <2>3 DEF SessionOpens, SessionCloses, EnqueueUserMessage, LeaveTool, ToolGoesOn, steerVars, Settled
    <2> QED BY <1>1, <2>1, <2>2, <2>3 DEF OutputTypeOK
<1>3. tool' \in Tools /\ (tool'.at = "waiting" => tool.at = "waiting")
    <2>1. ASSUME NEW c \in OutCalls, AgentStarts(c)
          PROVE  tool' \in Tools /\ (tool'.at = "waiting" => tool.at = "waiting")
        BY <1>1, <2>1, WokenIs DEF AgentStarts, OutputTypeOK
    <2>2. ASSUME LeaveTool \/ ToolGoesOn
          PROVE  tool' \in Tools /\ (tool'.at = "waiting" => tool.at = "waiting")
        BY <1>1, <2>2 DEF LeaveTool, ToolGoesOn, Idling, OutputTypeOK, Tools
    <2>3. ASSUME EnqueueUserMessage \/ \E c \in OutCalls : SessionOpens(c) \/ SessionCloses(c)
          PROVE  tool' = tool
        BY <2>3 DEF EnqueueUserMessage, SessionOpens, SessionCloses
    <2> QED BY <1>1, <2>1, <2>2, <2>3 DEF OutputTypeOK
<1>4. OutputTypeOK'
    BY <1>1, <1>2, <1>3 DEF OutputTypeOK, boxVars, toldVars
<1>5. Told' /\ Settled'
    BY <1>1, <1>2, <1>3 DEF Told, Settled
<1>6. ResultsInv'
    <2>1. Grows /\ UNCHANGED <<journal, replay, toldVars, made>> /\ UNCHANGED disk
        BY <1>2 DEF Grows
    <2> QED BY <1>2, <2>1, ResultsKept
<1> QED BY <1>4, <1>5, <1>6 DEF OutputInv, ResultsInv

\* The life of the run: its steps end agents, push records and write.
LEMMA LifeKeeps ==
    ASSUME OutputInv,
           UNCHANGED <<journal, replay, toldVars, made>>, Grows, UNCHANGED disk \/ WritesRun,
           run' \in Runs, agents' \in [OutCalls -> Agents], tool' \in Tools, silent' \in BOOLEAN,
           \A c \in OutCalls : agents'[c].at = "done" =>
                agents[c].at = "done" /\ agents'[c].out = agents[c].out,
           run.status = "deleted" => run'.status = "deleted",
           Told', Settled'
    PROVE  OutputInv'
<1>1. OutputTypeOK /\ OwnIds /\ Roomy(outbox)
    BY DEF OutputInv
<1>2. ResultsInv'
    BY ResultsKept
<1>3. outbox' \subseteq Deliveries /\ nextId' \in Nat
    BY <1>1, GrowsBy
<1>4. disk' \in Records
    BY <1>1, <1>3, DiskIs DEF OutputTypeOK
<1>5. OutputTypeOK'
    BY <1>1, <1>3, <1>4 DEF OutputTypeOK, toldVars
<1> QED BY <1>2, <1>5 DEF OutputInv, ResultsInv

LEMMA TurnsAre ==
    ASSUME OutputTypeOK, NEW status \in Statuses, Turns(status)
    PROVE  /\ run' \in Runs /\ run'.status = status /\ run'.over
           /\ agents' \in [OutCalls -> Agents]
           /\ \A c \in OutCalls : agents'[c].at = "done" =>
                agents[c].at = "done" /\ agents'[c].out = agents[c].out
           /\ steering' = 0 /\ senders' = {} /\ UNCHANGED <<journal, replay>>
<1>1. run \in Runs /\ agents \in [OutCalls -> Agents]
    BY DEF OutputTypeOK
<1>2. run' \in Runs /\ run'.status = status /\ run'.over
    BY <1>1 DEF Turns, Runs
<1>3. /\ agents' \in [OutCalls -> Agents]
      /\ \A c \in OutCalls : agents'[c].at = "done" =>
                agents[c].at = "done" /\ agents'[c].out = agents[c].out
    <2>1. [at |-> "gone", out |-> 0] \in Agents
        BY DEF Agents
    <2> QED BY <1>1, <2>1 DEF Turns
<1> QED BY <1>2, <1>3 DEF Turns, CleanupGeneration

LEMMA EndGrows == ASSUME OutputInv, EnsureTerminal PROVE Grows
BY DEF EnsureTerminal, Terminals, Grows, boxVars

LEMMA EndKeepsOutputs ==
    ASSUME OutputInv, Completes \/ Fails \/ PausesForLimit
    PROVE  OutputInv'
<1>1. OutputTypeOK /\ Told /\ run.status = "running" /\ run.status # "deleted"
    BY DEF OutputInv, Completes, Fails, PausesForLimit, Executes
<1>2. CASE Completes
    <2>1. Turns("completed") /\ EnsureTerminal /\ WritesRun /\ Emit("ready")
          /\ UNCHANGED <<silent, toldVars, made>>
        BY <1>2 DEF Completes, Strict, boundVars
    <2>2. /\ run' \in Runs /\ run'.status = "completed" /\ run'.over
          /\ agents' \in [OutCalls -> Agents]
          /\ \A c \in OutCalls : agents'[c].at = "done" =>
                agents[c].at = "done" /\ agents'[c].out = agents[c].out
          /\ steering' = 0 /\ senders' = {} /\ UNCHANGED <<journal, replay>>
        BY <1>1, <2>1, TurnsAre DEF Statuses
    <2>3. tool' \in Tools /\ tool'.at # "waiting" /\ disk'.status = "completed"
        BY <1>1, <2>1, <2>2, WokenIs, WritesAre
    <2>4. Told' /\ Settled'
        BY <2>2, <2>3 DEF Told, Settled
    <2>5. Grows /\ silent' \in BOOLEAN
        BY <1>1, <2>1, EndGrows DEF OutputTypeOK
    <2> QED BY <1>1, <2>1, <2>2, <2>3, <2>4, <2>5, LifeKeeps
<1>3. CASE Fails
    <2>1. PICK unwritten \in BOOLEAN, failing \in 0 .. 2 :
            /\ Turns("failed")
            /\ IF unwritten THEN CallsReturned /\ ReplaceTerminal ELSE EnsureTerminal
            /\ IF failing < 2 THEN WritesRun ELSE UNCHANGED disk
            /\ AnnouncesFailure(failing)
            /\ silent' = (silent \/ failing > 1)
        BY <1>3 DEF Fails
    <2>2. UNCHANGED <<toldVars, made>> /\ Emit("ready")
        BY <1>3, <2>1 DEF Fails, boundVars, AnnouncesFailure
    <2>3. /\ run' \in Runs /\ run'.status = "failed" /\ run'.over
          /\ agents' \in [OutCalls -> Agents]
          /\ \A c \in OutCalls : agents'[c].at = "done" =>
                agents[c].at = "done" /\ agents'[c].out = agents[c].out
          /\ steering' = 0 /\ senders' = {} /\ UNCHANGED <<journal, replay>>
        BY <1>1, <2>1, TurnsAre DEF Statuses
    <2>4. tool' \in Tools /\ tool'.at # "waiting"
        BY <1>1, <2>2, WokenIs
    <2>5. Told' /\ silent' \in BOOLEAN /\ (UNCHANGED disk \/ WritesRun)
        <3>1. CASE failing < 2
            <4>1. WritesRun /\ disk'.status = "failed"
                BY <2>1, <2>3, <3>1, WritesAre
            <4> QED BY <1>1, <2>1, <2>3, <2>4, <4>1 DEF Told
        <3>2. CASE ~(failing < 2)
            <4>1. silent' = TRUE /\ UNCHANGED disk
                <5>1. failing > 1
                    BY <3>2
                <5>2. UNCHANGED disk
                    BY <2>1, <3>2
                <5>3. silent'
                    BY <2>1, <5>1
                <5>4. silent' \in BOOLEAN
                    BY <2>1, <5>1
                <5> QED BY <5>2, <5>3, <5>4
            <4> QED BY <2>4, <4>1 DEF Told
        <3> QED BY <3>1, <3>2
    <2>6. Settled'
        BY <2>3 DEF Settled
    <2>7. Grows
        <3>1. EnsureTerminal \/ ReplaceTerminal
            BY <2>1
        <3> QED BY <3>1, EndGrows DEF Grows
    <2> QED BY <1>1, <2>2, <2>3, <2>4, <2>5, <2>6, <2>7, LifeKeeps
<1>4. CASE PausesForLimit
    <2>1. /\ Turns("paused") /\ UNCHANGED <<toldVars, made>>
          /\ IF Cardinality(outbox) < MaxOutbox - 1 THEN Pushes("paused", "none", 0) ELSE UNCHANGED boxVars
          /\ \/ WritesRun /\ Emit("ready") /\ UNCHANGED silent
             \/ UNCHANGED disk /\ silent' = TRUE /\ UNCHANGED tool
        BY <1>4 DEF PausesForLimit, boundVars, Strict, StrictFails
    <2>2. /\ run' \in Runs /\ run'.status = "paused" /\ run'.over
          /\ agents' \in [OutCalls -> Agents]
          /\ \A c \in OutCalls : agents'[c].at = "done" =>
                agents[c].at = "done" /\ agents'[c].out = agents[c].out
          /\ steering' = 0 /\ senders' = {} /\ UNCHANGED <<journal, replay>>
        BY <1>1, <2>1, TurnsAre DEF Statuses
    <2>3. Grows
        BY <2>1 DEF Grows
    <2>4. Settled'
        BY <2>2 DEF Settled
    <2>5. CASE WritesRun /\ Emit("ready") /\ UNCHANGED silent
        <3>1. disk'.status = "paused" /\ tool' \in Tools /\ tool'.at # "waiting" /\ silent' \in BOOLEAN
            BY <1>1, <2>2, <2>5, WokenIs, WritesAre DEF OutputTypeOK
        <3>2. Told'
            BY <3>1 DEF Told
        <3> QED BY <1>1, <2>1, <2>2, <2>3, <2>4, <2>5, <3>1, <3>2, LifeKeeps
    <2>6. CASE UNCHANGED disk /\ silent' = TRUE /\ UNCHANGED tool
        <3>1. Told' /\ tool' \in Tools /\ silent' \in BOOLEAN
            BY <1>1, <2>6 DEF Told, OutputTypeOK
        <3> QED BY <1>1, <2>1, <2>2, <2>3, <2>4, <2>6, <3>1, LifeKeeps
    <2> QED BY <2>1, <2>5, <2>6
<1> QED BY <1>2, <1>3, <1>4

LEMMA HaltKeeps ==
    ASSUME OutputInv, PauseRun \/ StopRun
    PROVE  OutputInv'
<1>1. OutputTypeOK /\ Told /\ Settled /\ run.status \in {"running", "paused"}
    BY DEF OutputInv, PauseRun, StopRun
<1>2. PICK status \in {"paused", "aborted"} : Halts(status)
    BY DEF PauseRun, StopRun
<1>3. /\ run' \in Runs /\ run'.status = status /\ run'.over = run.over
      /\ UNCHANGED <<agents, journal, replay, boxVars, toldVars, made>>
    BY <1>1, <1>2 DEF Halts, OutputTypeOK, Runs, Statuses, boundVars
<1>4. run.over => steering' = 0 /\ senders' = {}
    BY <1>1 DEF PauseRun, StopRun, CleanupGeneration, Settled, steerVars
<1>5. Settled' /\ Grows /\ agents' \in [OutCalls -> Agents]
    BY <1>1, <1>3, <1>4 DEF Settled, Grows, OutputTypeOK
<1>6. CASE WritesRun /\ Emit("ready") /\ UNCHANGED silent
    <2>1. disk'.status = status /\ tool' \in Tools /\ tool'.at # "waiting" /\ silent' \in BOOLEAN
        BY <1>1, <1>3, <1>6, WokenIs, WritesAre DEF OutputTypeOK
    <2>2. Told'
        BY <1>3, <2>1 DEF Told
    <2> QED BY <1>1, <1>3, <1>5, <1>6, <2>1, <2>2, LifeKeeps
<1>7. CASE UNCHANGED disk /\ silent' = TRUE /\ UNCHANGED tool
    <2>1. Told' /\ tool' \in Tools /\ silent' \in BOOLEAN
        BY <1>1, <1>7 DEF Told, OutputTypeOK
    <2> QED BY <1>1, <1>3, <1>5, <1>7, <2>1, LifeKeeps
<1> QED BY <1>2, <1>6, <1>7 DEF Halts, Strict, StrictFails

LEMMA RefusalKeeps ==
    ASSUME OutputInv, DeletionRefused
    PROVE  OutputInv'
<1>1. OutputTypeOK /\ Told /\ Settled
    BY DEF OutputInv
<1>2. /\ run' = [run EXCEPT !.aborting = TRUE]
      /\ UNCHANGED <<agents, journal, replay, boxVars, disk, silent, toldVars, tool, steering, senders, made>>
    BY DEF DeletionRefused, steerVars, boundVars
<1>3. run' \in Runs /\ run'.status = run.status /\ run'.over = run.over
    BY <1>1, <1>2 DEF OutputTypeOK, Runs
<1>4. Told' /\ Settled' /\ Grows
    BY <1>1, <1>2, <1>3 DEF Told, Settled, Grows
<1>5. agents' \in [OutCalls -> Agents] /\ tool' \in Tools /\ silent' \in BOOLEAN
    BY <1>1, <1>2 DEF OutputTypeOK
<1> QED BY <1>2, <1>3, <1>4, <1>5, LifeKeeps

LEMMA WriteKeeps ==
    ASSUME OutputInv, Unwinds \/ ProgressWritten \/ Delivers
    PROVE  OutputInv'
<1>1. OutputTypeOK /\ Told /\ Settled
    BY DEF OutputInv
<1>2. UNCHANGED disk \/ WritesRun
    BY DEF Unwinds, ProgressWritten, Delivers, Strict, StrictFails
<1>3. CASE Unwinds
    <2>1. UNCHANGED <<boxVars, toldVars, made>> /\ run.status \in Statuses
        BY <1>1, <1>3 DEF Unwinds, OutputTypeOK, Runs, boundVars
    <2>2. PICK status \in Statuses :
            /\ Turns(status) /\ status # "running"
            /\ \/ status = run.status /\ UNCHANGED <<silent, tool>>
               \/ /\ run.status = "running"
                  /\ Emit("ready") /\ ((WritesRun /\ UNCHANGED silent) \/ (UNCHANGED disk /\ silent' = TRUE))
        <3>1. CASE run.status # "running"
            <4>1. Turns(run.status) /\ UNCHANGED <<silent, tool>>
                BY <1>3, <3>1 DEF Unwinds
            <4> QED BY <2>1, <3>1, <4>1
        <3>2. CASE run.status = "running"
            <4>1. "aborted" \in Statuses /\ "aborted" # "running"
                BY DEF Statuses
            <4>2. /\ Turns("aborted") /\ Emit("ready")
                  /\ ((WritesRun /\ UNCHANGED silent) \/ (UNCHANGED disk /\ silent' = TRUE))
                <5>1. /\ Turns("aborted") /\ Emit("ready")
                      /\ ((Strict /\ UNCHANGED silent) \/ (StrictFails /\ silent' = TRUE))
                    BY <1>3, <3>2 DEF Unwinds
                <5> QED BY <5>1 DEF Strict, StrictFails
            <4> QED BY <3>2, <4>1, <4>2
        <3> QED BY <3>1, <3>2
    <2>3. /\ run' \in Runs /\ run'.status = status /\ run'.over
          /\ agents' \in [OutCalls -> Agents]
          /\ \A c \in OutCalls : agents'[c].at = "done" =>
                agents[c].at = "done" /\ agents'[c].out = agents[c].out
          /\ steering' = 0 /\ senders' = {} /\ UNCHANGED <<journal, replay>>
        BY <1>1, <2>2, TurnsAre
    <2>4. Settled' /\ Grows
        BY <2>1, <2>2, <2>3 DEF Settled, Grows
    <2>5. disk'.status \in {disk.status, status} /\ (WritesRun => disk'.status = status)
        BY <1>2, <2>3, WritesAre
    <2>6. Told' /\ tool' \in Tools /\ silent' \in BOOLEAN
        <3>1. CASE status = run.status /\ UNCHANGED <<silent, tool>>
            BY <1>1, <2>3, <2>5, <3>1 DEF Told, OutputTypeOK
        <3>2. CASE Emit("ready") /\ ((WritesRun /\ UNCHANGED silent) \/ (UNCHANGED disk /\ silent' = TRUE))
            <4>1. tool' \in Tools /\ tool'.at # "waiting"
                BY <1>1, <3>2, WokenIs
            <4>2. silent' \in BOOLEAN /\ (silent' \/ disk'.status = status)
                BY <1>1, <2>5, <3>2 DEF OutputTypeOK
            <4> QED BY <2>2, <2>3, <4>1, <4>2 DEF Told
        <3> QED BY <2>2, <3>1, <3>2
    <2>7. run.status = "deleted" => status = "deleted"
        BY <2>2
    <2> QED BY <1>2, <2>1, <2>3, <2>4, <2>6, <2>7, LifeKeeps
<1>4. CASE ProgressWritten
    <2>1. UNCHANGED <<run, agents, journal, replay, boxVars, silent, toldVars, tool, made, steering, senders>>
        BY <1>4 DEF ProgressWritten, runVars, boundVars, steerVars
    <2>2. disk'.status \in {disk.status, run.status}
        BY <1>2, <2>1, WritesAre
    <2>3. Told' /\ Settled' /\ Grows
        BY <1>1, <2>1, <2>2 DEF Told, Settled, Grows
    <2>4. run' \in Runs /\ agents' \in [OutCalls -> Agents] /\ tool' \in Tools /\ silent' \in BOOLEAN
        BY <1>1, <2>1 DEF OutputTypeOK
    <2> QED BY <1>2, <2>1, <2>3, <2>4, LifeKeeps
<1>5. CASE Delivers
    <2>1. /\ UNCHANGED <<run, agents, journal, replay, silent, toldVars, made, steering, senders>>
          /\ Cardinality(outbox) < MaxOutbox - 2
          /\ \/ Pushes("explicit", "none", 0) /\ Emit("delivery")
             \/ UNCHANGED <<boxVars, tool>>
        BY <1>5 DEF Delivers, runVars, steerVars
    <2>2. Cardinality(outbox) < MaxOutbox - 1
        <3>1. Cardinality(outbox) \in Nat /\ MaxOutbox \in Nat
            BY OutputAssumption, FS_CardinalityType DEF OutputInv, Roomy
        <3> QED BY <2>1, <3>1
    <2>3. Grows
        BY <2>1, <2>2 DEF Grows
    <2>4. tool' \in Tools /\ (tool'.at = "waiting" => tool.at = "waiting")
        BY <1>1, <2>1, WokenIs DEF OutputTypeOK
    <2>5. disk'.status \in {disk.status, run.status}
        BY <1>2, <2>1, WritesAre
    <2>6. Told' /\ Settled'
        BY <1>1, <2>1, <2>4, <2>5 DEF Told, Settled
    <2>7. run' \in Runs /\ agents' \in [OutCalls -> Agents] /\ silent' \in BOOLEAN
        BY <1>1, <2>1 DEF OutputTypeOK
    <2> QED BY <1>2, <2>1, <2>3, <2>4, <2>6, <2>7, LifeKeeps
<1> QED BY <1>3, <1>4, <1>5

LEMMA ToolKeeps ==
    ASSUME OutputInv, CallTool \/ ToolClaims
    PROVE  OutputInv'
<1>1. OutputTypeOK /\ Told /\ Settled /\ ResultsInv
    BY DEF OutputInv, ResultsInv
<1>2. UNCHANGED <<run, agents, journal, replay, outbox, nextId, disk, silent, shown, overtaken, made, steering, senders>>
    BY DEF CallTool, ToolClaims, runVars, boxVars, steerVars, boundVars
<1>3. tool' \in Tools /\ (tool'.at = "waiting" => tool.at = "waiting" \/ disk.status = "running")
    BY <1>1 DEF CallTool, ToolClaims, Idling, OutputTypeOK, Tools
<1>4. Told' /\ Settled'
    BY <1>1, <1>2, <1>3 DEF Told, Settled
<1>5. ResultsInv' /\ cursor' \subseteq Nat /\ handed' \in [OutResults -> Nat]
    <2>1. CASE ClaimAgentOutputs
        BY <1>2, <2>1, ResultsClaimed
    <2>2. CASE UNCHANGED <<cursor, handed>>
        BY <1>1, <1>2, <2>2
           DEF ResultsInv, MadeBefore, OwnIds, OneWay, AllReachable, Reachable, Roomy, OutputTypeOK
    <2> QED BY <2>1, <2>2 DEF CallTool, ToolClaims
<1>6. OutputTypeOK'
    BY <1>1, <1>2, <1>3, <1>5 DEF OutputTypeOK
<1> QED BY <1>2, <1>4, <1>5, <1>6 DEF OutputInv, ResultsInv

LEMMA BridgeKeeps ==
    ASSUME OutputInv, NEW d \in outbox, Show(d) \/ AcknowledgeDelivery(d)
    PROVE  OutputInv'
<1>1. OutputTypeOK /\ Told /\ Settled
    BY DEF OutputInv
<1>2. /\ UNCHANGED <<run, agents, journal, replay, nextId, silent, cursor, overtaken, tool, made, steering, senders>>
      /\ outbox' \subseteq outbox /\ (UNCHANGED disk \/ WritesRun)
    BY DEF Show, AcknowledgeDelivery, runVars, boxVars, toldVars, steerVars, boundVars, Strict, StrictFails
<1>3. ResultsInv' /\ handed' \in [OutResults -> Nat] /\ shown' \subseteq Nat
    <2>1. CASE Show(d)
        <3>1. shown' = shown \cup {d.id} /\ d.id \in Nat /\ shown \subseteq Nat
            BY <1>1, <2>1 DEF Show, OutputTypeOK, Deliveries, DeliveryForms
        <3> QED BY <2>1, <3>1, ResultShown
    <2>2. CASE AcknowledgeDelivery(d)
        BY <1>1, <2>2, ResultRead DEF AcknowledgeDelivery, toldVars, OutputTypeOK
    <2> QED BY <2>1, <2>2
<1>4. outbox' \subseteq Deliveries
    BY <1>1, <1>2 DEF OutputTypeOK
<1>5. disk' \in Records
    BY <1>1, <1>2, <1>4, DiskIs DEF OutputTypeOK
<1>6. OutputTypeOK'
    BY <1>1, <1>2, <1>3, <1>4, <1>5 DEF OutputTypeOK
<1>7. disk'.status \in {disk.status, run.status}
    BY <1>2, WritesAre
<1>8. Told' /\ Settled'
    BY <1>1, <1>2, <1>7 DEF Told, Settled
<1> QED BY <1>2, <1>3, <1>6, <1>8 DEF OutputInv, ResultsInv

LEMMA AgentEndKeeps ==
    ASSUME OutputInv, NEW c \in OutCalls, AgentEnds(c)
    PROVE  OutputInv'
<1>1. OutputTypeOK /\ Told /\ Settled
    BY DEF OutputInv
<1>2. /\ ResultsInv' /\ agents' \in [OutCalls -> Agents] /\ journal' \in [OutCalls -> Nat]
      /\ outbox' \subseteq Deliveries /\ nextId' \in Nat /\ (UNCHANGED disk \/ WritesRun)
      /\ cursor' \subseteq Nat /\ overtaken' \subseteq Nat /\ made' \in Nat /\ made' =< MaxResults
      /\ \E why \in {"agent", "delivery"} : Emit(why)
    BY ResultMade
<1>3. /\ UNCHANGED <<run, replay, silent, shown, handed, steering>> /\ senders' = senders \ {c}
      /\ ~run.over
    BY DEF AgentEnds
<1>4. tool' \in Tools /\ tool'.at # "waiting"
    BY <1>1, <1>2, WokenIs
<1>5. disk' \in Records
    BY <1>1, <1>2, <1>3, DiskIs DEF OutputTypeOK
<1>6. OutputTypeOK'
    BY <1>1, <1>2, <1>3, <1>4, <1>5 DEF OutputTypeOK
<1>7. disk'.status \in {disk.status, run.status}
    BY <1>2, <1>3, WritesAre
<1>8. Told' /\ Settled'
    BY <1>1, <1>3, <1>4, <1>7 DEF Told, Settled
<1> QED BY <1>2, <1>6, <1>8 DEF OutputInv, ResultsInv

LEMMA DeleteKeeps ==
    ASSUME OutputInv, DeletesRun
    PROVE  OutputInv'
<1>1. OutputTypeOK
    BY DEF OutputInv
<1>2. /\ run' \in Runs /\ run'.status = "deleted" /\ disk' \in Records /\ disk'.status = "deleted"
      /\ outbox' = {} /\ steering' = 0 /\ senders' = {}
      /\ UNCHANGED <<agents, journal, replay, nextId, silent, toldVars, made>> /\ Emit("ready")
    BY <1>1 DEF DeletesRun, OutputTypeOK, Runs, Records, Statuses, boundVars
<1>3. tool' \in Tools /\ tool'.at # "waiting"
    BY <1>1, <1>2, WokenIs
<1>4. OutputTypeOK'
    BY <1>1, <1>2, <1>3 DEF OutputTypeOK, toldVars
<1>5. Told' /\ Settled'
    BY <1>2, <1>3 DEF Told, Settled
<1> QED BY <1>4, <1>5, ResultsDeleted DEF OutputInv, ResultsInv

LEMMA ResumeKeeps ==
    ASSUME OutputInv, Resumes
    PROVE  OutputInv'
<1>1. OutputTypeOK
    BY DEF OutputInv
<1>2. /\ run' = [status |-> "running", gen |-> run.gen + 1, over |-> FALSE, aborting |-> FALSE]
      /\ agents' = NoAgents
      /\ journal' = disk.journal /\ replay' \in {disk.journal, NoResults}
      /\ outbox' = disk.outbox /\ nextId' = disk.nextId /\ silent' = FALSE /\ WritesRun
      /\ UNCHANGED <<toldVars, tool, steerVars, made>>
    BY DEF Resumes, Strict, boundVars
<1>3. /\ run' \in Runs /\ run'.status = "running" /\ ~run'.over /\ ~run'.aborting
      /\ agents' \in [OutCalls -> Agents] /\ journal' \in [OutCalls -> Nat] /\ replay' \in [OutCalls -> Nat]
      /\ outbox' \subseteq Deliveries /\ nextId' \in Nat
    BY <1>1, <1>2 DEF OutputTypeOK, Runs, Records, Agents, Statuses, NoAgents, NoResults
<1>4. disk' \in Records /\ disk'.status = "running"
    BY <1>1, <1>2, <1>3, DiskIs, WritesAre
<1>5. OutputTypeOK'
    BY <1>1, <1>2, <1>3, <1>4 DEF OutputTypeOK, toldVars
<1>6. Told' /\ Settled'
    BY <1>3, <1>4 DEF Told, Settled
<1> QED BY <1>5, <1>6, ResultsResumed DEF OutputInv, ResultsInv

LEMMA OutputInvInit == OutputInit => OutputInv
<1> SUFFICES ASSUME OutputInit PROVE OutputInv
    OBVIOUS
<1>1. /\ run.status = "running" /\ ~run.over /\ ~run.aborting /\ run \in Runs
      /\ agents \in [OutCalls -> Agents] /\ \A c \in OutCalls : agents[c].at = "none"
      /\ journal \in [OutCalls -> Nat] /\ \A c \in OutCalls : journal[c] = 0
      /\ replay \in [OutCalls -> Nat] /\ \A c \in OutCalls : replay[c] = 0
      /\ outbox = {} /\ nextId = 0
      /\ disk \in Records /\ disk.status = "running" /\ disk.outbox = {} /\ disk.nextId = 0
      /\ \A c \in OutCalls : disk.journal[c] = 0
      /\ silent \in BOOLEAN /\ cursor = {} /\ shown = {} /\ overtaken = {} /\ made = 0
      /\ tool \in Tools /\ tool.at = "idle"
      /\ handed \in [OutResults -> Nat] /\ \A r \in OutResults : handed[r] = 0
    BY DEF OutputInit, NoAgents, NoResults, Idling, Runs, Agents, Records, Tools, Statuses
<1>2. OutputTypeOK
    BY <1>1, OutputAssumption DEF OutputTypeOK
<1>3. MadeBefore /\ OwnIds /\ OneWay /\ AllReachable /\ Told /\ Settled
    BY <1>1 DEF MadeBefore, OwnIds, OneWay, AllReachable, Told, Settled
<1>4. Roomy({})
    BY FS_EmptySet, OutputAssumption DEF Roomy
<1> QED BY <1>1, <1>2, <1>3, <1>4 DEF OutputInv

LEMMA OutputInvStep == OutputInv /\ [OutputNext]_outputVars => OutputInv'
<1> SUFFICES ASSUME OutputInv, [OutputNext]_outputVars PROVE OutputInv'
    OBVIOUS
<1>1. CASE UNCHANGED outputVars
    BY <1>1 DEF outputVars, runVars, boxVars, toldVars, steerVars, boundVars, OutputInv, OutputTypeOK,
                MadeBefore, OwnIds, OneWay, AllReachable, Reachable, Told, Settled, Roomy
<1>2. CASE OutputNext
    BY <1>2, AsideKeeps, EndKeepsOutputs, HaltKeeps, RefusalKeeps, WriteKeeps, ToolKeeps, BridgeKeeps, AgentEndKeeps,
       DeleteKeeps, ResumeKeeps DEF OutputNext
<1> QED BY <1>1, <1>2

\* workflow-manager.ts and the tool get_workflow_output: for any calls, generations, results and
\* failed writes.
THEOREM OutputInvariant == OutputSpec => []OutputInv
BY OutputInvInit, OutputInvStep, PTL DEF OutputSpec

\* admitAgentDelivery(), claimAgentOutputs(): no result reaches the session twice.
THEOREM ResultsHandedOnce == OutputSpec => []EachResultOnce
<1>1. OutputInv => EachResultOnce
    BY DEF OutputInv, OneWay, EachResultOnce
<1> QED BY <1>1, OutputInvariant, PTL

\* deliverAgentReport(): a result is claimed for a notification only once that is in the outbox.
THEOREM ResultsAreReachable == OutputSpec => []ResultsStayReachable
<1>1. OutputInv => ResultsStayReachable
    <2> SUFFICES ASSUME OutputInv, Executes, NEW c \in OutCalls, agents[c].at = "done"
                 PROVE  \/ handed[agents[c].out] > 0 \/ agents[c].out \notin cursor
                        \/ agents[c].out \in overtaken
                        \/ \E d \in outbox : d.out = agents[c].out /\ d.id \notin shown
        BY DEF ResultsStayReachable
    <2> QED BY DEF OutputInv, AllReachable, Reachable, Executes
<1> QED BY <1>1, OutputInvariant, PTL

\* settleGeneration(), pause(), stop(): who waits is told, unless the write of the end failed.
THEOREM WaitersAreReleased == OutputSpec => []WaitsAreReleased
<1>1. OutputInv => WaitsAreReleased
    BY DEF OutputInv, Told, WaitsAreReleased
<1> QED BY <1>1, OutputInvariant, PTL

\* The reserve of the outbox: the end of a run always finds room.
THEOREM OutboxHasRoom == OutputSpec => []OutboxFits
<1>1. OutputInv => OutboxFits
    BY DEF OutputInv, Roomy, OutboxFits
<1> QED BY <1>1, OutputInvariant, PTL

\* cleanupSettledGeneration(): neither messages nor senders outlive a generation.
THEOREM GenerationsAreCleaned == OutputSpec => []NothingLingers
<1>1. OutputInv => NothingLingers
    BY DEF OutputInv, Settled, NothingLingers
<1> QED BY <1>1, OutputInvariant, PTL

----------------------------------------------------------------------------
(* ResultDelivery *)

IsDock ==
    [installed : BOOLEAN, suspended : BOOLEAN, pumped : BOOLEAN, pending : Seq(Results),
     submitted : SUBSET Results, generation : Nat]
DeliveryTypes ==
    /\ dock \in IsDock /\ todo \in Seq(Results)
    /\ pump \in [at : {"no", "cache", "batch"}, before : Nat, clean : BOOLEAN]
    /\ settled \subseteq Results /\ recorded \in [Results -> Int]
    /\ given \in [Results -> Nat] /\ turnedDown \in [Results -> Nat]
\* A result is in one place of the cache or of what is being submitted.
Waiting == ToSet(dock.pending) \cup ToSet(todo)
Once(q) == \A k, l \in DOMAIN q : q[k] = q[l] /\ Durable(q[k]) => k = l
Queued ==
    /\ Once(dock.pending) /\ Once(todo)
    /\ \A i \in ToSet(dock.pending) : Durable(i) => i \notin ToSet(todo)
    /\ Waiting \cup dock.submitted \subseteq settled
\* What is to be submitted, or may be, was turned down as often as it was submitted.
Accounted ==
    \A i \in Results : Durable(i) =>
        /\ given[i] <= 1 + turnedDown[i]
        /\ i \notin dock.submitted \/ i \in Waiting => given[i] <= turnedDown[i]
Complete ==
    dock.pumped =>
        /\ dock.installed /\ ~dock.suspended
        /\ \A i \in settled : Durable(i) => i \in dock.submitted \cup Waiting
\* A loop none of whose submissions has failed submits what nobody has in each batch.
Pumping ==
    pump.at # "no" =>
        /\ dock.installed /\ ~dock.suspended
        /\ pump.clean => dock.pending = <<>>
        /\ pump.clean /\ pump.at = "batch" =>
            /\ \A i \in ToSet(todo) : Durable(i) /\ i \notin dock.submitted
            /\ Cardinality(dock.submitted) >= pump.before
            /\ todo = <<>> => Cardinality(dock.submitted) > pump.before
Delivering == DeliveryTypes /\ Queued /\ Accounted /\ Complete /\ Pumping
\* What may still be rejected is a result that exists.
Promised == \A e \in BagToSet(onTheWay) : e[1] \in settled
DeliveryInv == Delivering /\ Promised

LEMMA NothingWaits == ToSet(<<>>) = {} /\ Once(<<>>) /\ <<>> \in Seq(Results)
BY DEF ToSet, Once

LEMMA OneWaits ==
    ASSUME NEW i \in Results
    PROVE  <<i>> \in Seq(Results) /\ ToSet(<<i>>) = {i} /\ Once(<<i>>)
BY DEF ToSet, Once

LEMMA LastWaits ==
    ASSUME NEW q \in Seq(Results), NEW i \in Results
    PROVE  /\ Append(q, i) \in Seq(Results) /\ Append(q, i) # <<>>
           /\ ToSet(Append(q, i)) = ToSet(q) \cup {i}
           /\ Once(q) /\ (Durable(i) => i \notin ToSet(q)) => Once(Append(q, i))
<1> DEFINE e == Append(q, i)
<1>1. /\ e \in Seq(Results) /\ Len(q) \in Nat /\ Len(e) = Len(q) + 1 /\ e # <<>>
      /\ DOMAIN q = 1 .. Len(q) /\ DOMAIN e = 1 .. Len(q) + 1
      /\ e[Len(q) + 1] = i /\ \A k \in 1 .. Len(q) : e[k] = q[k]
    BY AppendProperties, LenProperties
<1> HIDE DEF e
<1>2. ToSet(e) = ToSet(q) \cup {i}
    BY <1>1 DEF ToSet
<1>3. ASSUME Once(q), Durable(i) => i \notin ToSet(q), NEW k \in DOMAIN e, NEW l \in DOMAIN e,
             e[k] = e[l], Durable(e[k])
      PROVE  k = l
    <2>1. \A m \in 1 .. Len(q) : q[m] \in ToSet(q)
        BY <1>1 DEF ToSet
    <2>2. CASE k = Len(q) + 1
        BY <1>1, <1>3, <2>1, <2>2
    <2>3. CASE l = Len(q) + 1
        BY <1>1, <1>3, <2>1, <2>3
    <2>4. CASE k \in 1 .. Len(q) /\ l \in 1 .. Len(q)
        BY <1>1, <1>3, <2>4 DEF Once
    <2> QED BY <1>1, <2>2, <2>3, <2>4
<1> QED BY <1>1, <1>2, <1>3 DEF e, Once

LEMMA RestWaits ==
    ASSUME NEW q \in Seq(Results), q # <<>>
    PROVE  /\ Head(q) \in Results /\ Tail(q) \in Seq(Results)
           /\ ToSet(q) = {Head(q)} \cup ToSet(Tail(q))
           /\ Once(q) => /\ Once(Tail(q))
                         /\ Durable(Head(q)) => Head(q) \notin ToSet(Tail(q))
<1> DEFINE r == Tail(q)
<1>1. Len(q) \in Nat /\ Len(q) > 0 /\ DOMAIN q = 1 .. Len(q)
    BY EmptySeq, LenProperties
<1>2. Head(q) = q[1] /\ q[1] \in Results
    BY <1>1, HeadTailProperties, ElementOfSeq
<1>3. /\ r \in Seq(Results) /\ Len(r) = Len(q) - 1
      /\ \A k \in 1 .. Len(q) - 1 : r[k] = q[k + 1]
    BY <1>1, HeadTailProperties
<1>4. DOMAIN r = 1 .. Len(q) - 1
    BY <1>3, LenProperties
<1> HIDE DEF r
<1>5. ToSet(q) = {q[1]} \cup ToSet(r)
    <2>1. \A k \in 1 .. Len(q) : k = 1 \/ (k - 1 \in 1 .. Len(q) - 1 /\ q[k] = r[k - 1])
        BY <1>1, <1>3
    <2>2. \A k \in 1 .. Len(q) - 1 : k + 1 \in 1 .. Len(q) /\ r[k] = q[k + 1]
        BY <1>1, <1>3
    <2>3. ASSUME NEW x \in ToSet(q)
          PROVE  x = q[1] \/ x \in ToSet(r)
        <3>1. PICK k \in 1 .. Len(q) : x = q[k]
            BY <1>1 DEF ToSet
        <3> QED BY <3>1, <2>1, <1>4 DEF ToSet
    <2>4. ASSUME NEW x \in ToSet(r)
          PROVE  x \in ToSet(q)
        <3>1. PICK k \in 1 .. Len(q) - 1 : x = r[k]
            BY <1>4 DEF ToSet
        <3> QED BY <3>1, <2>2, <1>1 DEF ToSet
    <2>5. q[1] \in ToSet(q)
        BY <1>1 DEF ToSet
    <2> QED BY <2>3, <2>4, <2>5
<1>6. ASSUME Once(q)
      PROVE  Once(r) /\ (Durable(q[1]) => q[1] \notin ToSet(r))
    <2>1. ASSUME NEW k \in DOMAIN r, NEW l \in DOMAIN r, r[k] = r[l], Durable(r[k])
          PROVE  k = l
        <3>1. k + 1 \in DOMAIN q /\ l + 1 \in DOMAIN q /\ q[k + 1] = q[l + 1] /\ Durable(q[k + 1])
            BY <2>1, <1>1, <1>3, <1>4
        <3> QED BY <3>1, <1>4, <1>6 DEF Once
    <2>2. ASSUME Durable(q[1]), NEW k \in DOMAIN r
          PROVE  q[1] # r[k]
        <3>1. k + 1 \in DOMAIN q /\ 1 \in DOMAIN q /\ r[k] = q[k + 1] /\ k + 1 # 1
            BY <1>1, <1>3, <1>4
        <3> QED BY <3>1, <2>2, <1>6 DEF Once
    <2> QED BY <2>1, <2>2 DEF Once, ToSet
<1> QED BY <1>2, <1>3, <1>5, <1>6 DEF r

LEMMA JoinWaits ==
    ASSUME NEW p \in Seq(Results), NEW q \in Seq(Results), Once(p), Once(q),
           \A i \in ToSet(q) : i \notin ToSet(p)
    PROVE  /\ p \o q \in Seq(Results) /\ ToSet(p \o q) = ToSet(p) \cup ToSet(q) /\ Once(p \o q)
<1> DEFINE e == p \o q
<1>1. /\ e \in Seq(Results) /\ Len(p) \in Nat /\ Len(q) \in Nat /\ Len(e) = Len(p) + Len(q)
      /\ DOMAIN p = 1 .. Len(p) /\ DOMAIN q = 1 .. Len(q) /\ DOMAIN e = 1 .. Len(p) + Len(q)
      /\ \A k \in 1 .. Len(p) : e[k] = p[k]
      /\ \A k \in 1 .. Len(e) : Len(p) < k => k - Len(p) \in 1 .. Len(q) /\ e[k] = q[k - Len(p)]
    BY ConcatProperties, LenProperties
<1>2. \A k \in 1 .. Len(q) : k + Len(p) \in DOMAIN e /\ e[k + Len(p)] = q[k]
    BY <1>1
<1> HIDE DEF e
<1>3. ASSUME NEW k \in DOMAIN e
      PROVE  \/ k \in DOMAIN p /\ e[k] = p[k] /\ e[k] \in ToSet(p)
             \/ Len(p) < k /\ k - Len(p) \in DOMAIN q /\ e[k] = q[k - Len(p)] /\ e[k] \in ToSet(q)
    BY <1>1 DEF ToSet
<1>4. ToSet(e) \subseteq ToSet(p) \cup ToSet(q)
    BY <1>3 DEF ToSet
<1>5. ToSet(p) \subseteq ToSet(e)
    BY <1>1 DEF ToSet
<1>6. ToSet(q) \subseteq ToSet(e)
    <2> SUFFICES ASSUME NEW k \in 1 .. Len(q)
                 PROVE  q[k] \in ToSet(e)
        BY <1>1 DEF ToSet
    <2> QED BY <1>2 DEF ToSet
<1>7. ASSUME NEW k \in DOMAIN e, NEW l \in DOMAIN e, e[k] = e[l], Durable(e[k])
      PROVE  k = l
    <2>1. CASE e[k] \in ToSet(p)
        <3>1. /\ k \in DOMAIN p /\ e[k] = p[k]
              /\ l \in DOMAIN p /\ e[l] = p[l]
            BY <2>1, <1>3, <1>7
        <3> QED BY <3>1, <1>7 DEF Once
    <2>2. CASE e[k] \notin ToSet(p)
        <3>1. /\ k - Len(p) \in DOMAIN q /\ e[k] = q[k - Len(p)]
              /\ l - Len(p) \in DOMAIN q /\ e[l] = q[l - Len(p)]
            BY <2>2, <1>3, <1>7
        <3>2. k - Len(p) = l - Len(p)
            BY <3>1, <1>7 DEF Once
        <3> QED BY <3>2, <1>1
    <2> QED BY <2>1, <2>2
<1> QED BY <1>1, <1>4, <1>5, <1>6, <1>7 DEF e, Once

\* What enqueuePending() does to the holder: the result waits, and whatever the cache loses
\* is remembered.
Enqueues(d, i, e) ==
    /\ e \in IsDock /\ e.submitted = d.submitted /\ e.generation = d.generation
    /\ e.installed = d.installed /\ e.suspended = d.suspended
    /\ Once(e.pending) /\ i \in ToSet(e.pending) /\ e.pending # <<>>
    /\ ToSet(e.pending) \subseteq ToSet(d.pending) \cup {i}
    /\ e.pumped => d.pumped /\ ToSet(d.pending) \subseteq ToSet(e.pending)

LEMMA Enqueued ==
    ASSUME NEW d \in IsDock, NEW i \in Results, Once(d.pending)
    PROVE  Enqueues(d, i, EnqueuePending(d, i))
<1> DEFINE q == d.pending  e == EnqueuePending(d, i)
<1>1. q \in Seq(Results)
    BY DEF IsDock
<1>2. CASE Durable(i) /\ i \in ToSet(q)
    BY <1>2, <1>1 DEF EnqueuePending, Enqueues, ToSet
<1>3. CASE ~(Durable(i) /\ i \in ToSet(q)) /\ Len(q) < MaxProjections
    <2>1. e = [d EXCEPT !.pending = Append(q, i)]
        BY <1>3 DEF EnqueuePending
    <2>2. /\ Append(q, i) \in Seq(Results) /\ Append(q, i) # <<>> /\ Once(Append(q, i))
          /\ ToSet(Append(q, i)) = ToSet(q) \cup {i}
        BY <1>1, <1>3, LastWaits
    <2>3. /\ e \in IsDock /\ e.pending = Append(q, i) /\ e.pumped = d.pumped
          /\ e.submitted = d.submitted /\ e.generation = d.generation
          /\ e.installed = d.installed /\ e.suspended = d.suspended
        BY <2>1, <2>2 DEF IsDock
    <2> QED BY <2>2, <2>3 DEF Enqueues
<1>4. CASE ~(Durable(i) /\ i \in ToSet(q)) /\ ~(Len(q) < MaxProjections)
    <2>1. e = [d EXCEPT !.pending = Append(Tail(q), i), !.pumped = FALSE]
        BY <1>4 DEF EnqueuePending
    <2>2. q # <<>>
        BY <1>4, DeliveryAssumption, EmptySeq
    <2>3. /\ Tail(q) \in Seq(Results) /\ Once(Tail(q)) /\ ToSet(Tail(q)) \subseteq ToSet(q)
        BY <1>1, <2>2, RestWaits
    <2>4. Durable(i) => i \notin ToSet(Tail(q))
        BY <2>3, <1>4
    <2> HIDE DEF q
    <2> DEFINE r == Append(Tail(q), i)
    <2>5. r \in Seq(Results) /\ r # <<>> /\ ToSet(r) = ToSet(Tail(q)) \cup {i} /\ Once(r)
        BY <2>3, <2>4, LastWaits
    <2> HIDE DEF r
    <2>6. e.pending = r /\ ~e.pumped /\ e \in IsDock
        BY <2>1, <2>5 DEF r, IsDock
    <2>7. e.submitted = d.submitted /\ e.generation = d.generation
          /\ e.installed = d.installed /\ e.suspended = d.suspended
        BY <2>1 DEF IsDock
    <2> QED BY <2>3, <2>5, <2>6, <2>7 DEF Enqueues, q
<1> QED BY <1>2, <1>3, <1>4

\* The submission of an entry: what is left to be submitted.
LEMMA EntryTaken ==
    ASSUME DeliveryTypes, Queued, todo # <<>>, todo' = Tail(todo), NEW i, i = Head(todo)
    PROVE  /\ i \in Results /\ todo' \in Seq(Results)
           /\ ToSet(todo) = {i} \cup ToSet(todo') /\ Once(todo')
           /\ Durable(i) => i \notin ToSet(todo') /\ i \notin ToSet(dock.pending)
           /\ i \in settled /\ ToSet(dock.pending) \subseteq settled /\ ToSet(todo') \subseteq settled
           /\ \A j \in ToSet(dock.pending) : Durable(j) => j \notin ToSet(todo')
<1>1. todo \in Seq(Results) /\ Once(todo)
    BY DEF DeliveryTypes, Queued
<1>2. /\ i \in Results /\ todo' \in Seq(Results)
      /\ ToSet(todo) = {i} \cup ToSet(todo') /\ Once(todo')
      /\ Durable(i) => i \notin ToSet(todo')
    BY <1>1, RestWaits
<1> QED BY <1>2 DEF Queued, Waiting

\* It goes back to the cache, with or without having been submitted.
LEMMA FallsBack ==
    ASSUME Delivering, todo # <<>>, todo' = Tail(todo), UNCHANGED settled,
           NEW i, i = Head(todo), NEW d, d \in IsDock,
           d.pending = dock.pending, d.pumped = dock.pumped,
           d.installed = dock.installed, d.suspended = dock.suspended,
           d.submitted \subseteq dock.submitted,
           \A j \in dock.submitted \ d.submitted : j = i,
           dock' = EnqueuePending(d, i),
           pump' = [pump EXCEPT !.clean = FALSE],
           recorded' \in [Results -> Int],
           given' \in [Results -> Nat], turnedDown' \in [Results -> Nat],
           \A j \in Results : j # i => given'[j] = given[j] /\ turnedDown'[j] = turnedDown[j],
           given[i] <= turnedDown[i] => given'[i] <= turnedDown'[i]
    PROVE  Delivering'
<1> USE DEF Delivering
<1>1. /\ i \in Results /\ todo' \in Seq(Results)
      /\ ToSet(todo) = {i} \cup ToSet(todo') /\ Once(todo')
      /\ Durable(i) => i \notin ToSet(todo') /\ i \notin ToSet(dock.pending)
      /\ i \in settled /\ ToSet(dock.pending) \subseteq settled /\ ToSet(todo') \subseteq settled
      /\ \A j \in ToSet(dock.pending) : Durable(j) => j \notin ToSet(todo')
    BY EntryTaken
<1>2. Enqueues(d, i, dock')
    BY <1>1, Enqueued DEF Queued
<1>3. /\ dock' \in IsDock /\ Once(dock'.pending)
      /\ dock'.submitted = d.submitted /\ i \in ToSet(dock'.pending)
      /\ dock'.installed = dock.installed /\ dock'.suspended = dock.suspended
      /\ ToSet(dock'.pending) \subseteq ToSet(dock.pending) \cup {i}
      /\ dock'.pumped => dock.pumped /\ ToSet(dock.pending) \subseteq ToSet(dock'.pending)
    BY <1>2 DEF Enqueues
<1>4. pump' \in [at : {"no", "cache", "batch"}, before : Nat, clean : BOOLEAN]
      /\ pump'.at = pump.at /\ ~pump'.clean
    BY DEF DeliveryTypes
<1>5. DeliveryTypes'
    BY <1>1, <1>3, <1>4 DEF DeliveryTypes
<1>6. Queued'
    BY <1>1, <1>3 DEF Queued, Waiting
<1>7. Accounted'
    <2> SUFFICES ASSUME NEW j \in Results, Durable(j)
                 PROVE  /\ given'[j] <= 1 + turnedDown'[j]
                        /\ j \notin dock'.submitted \/ j \in Waiting' => given'[j] <= turnedDown'[j]
        BY DEF Accounted
    <2>1. given'[j] \in Nat /\ turnedDown'[j] \in Nat
        OBVIOUS
    <2>2. CASE j = i
        BY <2>1, <2>2, <1>1 DEF Accounted, Waiting
    <2>3. CASE j # i
        <3>1. /\ given[j] <= 1 + turnedDown[j]
              /\ j \notin dock.submitted \/ j \in Waiting => given[j] <= turnedDown[j]
            BY DEF Accounted
        <3>2. j \in dock'.submitted <=> j \in dock.submitted
            BY <1>3, <2>3
        <3>3. j \in Waiting' => j \in Waiting
            BY <1>1, <1>3, <2>3 DEF Waiting
        <3> QED BY <2>3, <3>1, <3>2, <3>3
    <2> QED BY <2>2, <2>3
<1>8. Complete'
    BY <1>1, <1>3 DEF Complete, Waiting
<1>9. Pumping'
    BY <1>3, <1>4 DEF Pumping
<1> QED BY <1>5, <1>6, <1>7, <1>8, <1>9

LEMMA SubmittedKeeps ==
    ASSUME Delivering, todo # <<>>, todo' = Tail(todo), UNCHANGED settled,
           NEW i, i = Head(todo), Submitted(i), recorded' \in [Results -> Int]
    PROVE  Delivering'
<1> USE DEF Delivering
<1>1. /\ i \in Results /\ todo' \in Seq(Results)
      /\ ToSet(todo) = {i} \cup ToSet(todo') /\ Once(todo')
      /\ Durable(i) => i \notin ToSet(todo') /\ i \notin ToSet(dock.pending)
      /\ i \in settled /\ ToSet(dock.pending) \subseteq settled /\ ToSet(todo') \subseteq settled
      /\ \A j \in ToSet(dock.pending) : Durable(j) => j \notin ToSet(todo')
    BY EntryTaken
<1>2. dock \in IsDock
    BY DEF DeliveryTypes
<1>3. /\ dock' \in IsDock /\ dock'.pending = dock.pending /\ dock'.pumped = dock.pumped
      /\ dock'.installed = dock.installed /\ dock'.suspended = dock.suspended
      /\ dock'.submitted = IF Durable(i) THEN dock.submitted \cup {i} ELSE dock.submitted
    BY <1>1, <1>2 DEF Submitted, IsDock
<1>4. /\ UNCHANGED <<pump, turnedDown>> /\ given' = [given EXCEPT ![i] = @ + 1]
      /\ given' \in [Results -> Nat]
    BY <1>1 DEF Submitted, DeliveryTypes
<1>5. DeliveryTypes'
    BY <1>1, <1>3, <1>4 DEF DeliveryTypes
<1>6. Queued'
    BY <1>1, <1>3 DEF Queued, Waiting
<1>7. Accounted'
    <2> SUFFICES ASSUME NEW j \in Results, Durable(j)
                 PROVE  /\ given'[j] <= 1 + turnedDown'[j]
                        /\ j \notin dock'.submitted \/ j \in Waiting' => given'[j] <= turnedDown'[j]
        BY DEF Accounted
    <2>1. given[j] \in Nat /\ turnedDown[j] \in Nat /\ turnedDown' = turnedDown
        BY <1>4 DEF DeliveryTypes
    <2>2. CASE j = i
        <3>1. given[i] <= turnedDown[i] /\ given'[i] = given[i] + 1
            BY <1>1, <1>4, <2>2 DEF Accounted, Waiting, DeliveryTypes
        <3>2. i \in dock'.submitted /\ i \notin Waiting'
            BY <1>1, <1>3, <2>2 DEF Waiting
        <3> QED BY <2>1, <2>2, <3>1, <3>2
    <2>3. CASE j # i
        <3>1. j \in Waiting' => j \in Waiting
            BY <1>1, <1>3 DEF Waiting
        <3>2. given'[j] = given[j]
            BY <1>4, <2>3 DEF DeliveryTypes
        <3> QED BY <2>1, <2>3, <3>1, <3>2, <1>3 DEF Accounted
    <2> QED BY <2>2, <2>3
<1>8. Complete'
    BY <1>1, <1>3 DEF Complete, Waiting
<1>9. Pumping'
    <2>1. IsFiniteSet(dock'.submitted) /\ pump.before \in Nat
        BY <1>3, FS_Subset, DeliveryAssumption DEF IsDock, DeliveryTypes
    <2>2. Cardinality(dock'.submitted) \in Nat
        BY <2>1, FS_CardinalityType
    <2> SUFFICES ASSUME pump.at = "batch", pump.clean
                 PROVE  /\ \A j \in ToSet(todo') : Durable(j) /\ j \notin dock'.submitted
                        /\ Cardinality(dock'.submitted) > pump.before
        <3>1. pump' = pump
            BY <1>4
        <3>2. CASE pump.at = "no"
            BY <3>1, <3>2 DEF Pumping
        <3>3. CASE pump.at # "no"
            <4>1. /\ dock'.installed /\ ~dock'.suspended
                  /\ pump.clean => dock'.pending = <<>>
                BY <1>3, <3>3 DEF Pumping
            <4>2. Cardinality(dock'.submitted) > pump.before => Cardinality(dock'.submitted) >= pump.before
                BY <2>1, <2>2
            <4> QED BY <3>1, <4>1, <4>2 DEF Pumping
        <3> QED BY <3>2, <3>3
    <2>3. /\ \A j \in ToSet(todo) : Durable(j) /\ j \notin dock.submitted
          /\ Cardinality(dock.submitted) >= pump.before
        BY DEF Pumping
    <2>4. dock'.submitted = dock.submitted \cup {i} /\ i \notin dock.submitted
        BY <2>3, <1>1, <1>3
    <2>5. IsFiniteSet(dock.submitted)
        BY <1>2, FS_Subset, DeliveryAssumption DEF IsDock
    <2>6. /\ Cardinality(dock'.submitted) = Cardinality(dock.submitted) + 1
          /\ Cardinality(dock.submitted) \in Nat /\ pump.before \in Nat
        BY <2>4, <2>5, FS_AddElement, FS_CardinalityType DEF DeliveryTypes
    <2>7. \A j \in ToSet(todo') : j # i
        BY <2>3, <1>1
    <2> QED BY <2>3, <2>4, <2>6, <2>7, <1>1
<1> QED BY <1>5, <1>6, <1>7, <1>8, <1>9

LEMMA TrySendKeeps ==
    ASSUME Delivering, TrySend
    PROVE  Delivering'
<1> DEFINE i == Head(todo)
<1>1. todo # <<>> /\ todo' = Tail(todo) /\ UNCHANGED settled
    BY DEF TrySend
<1>2. i \in Results /\ dock \in IsDock
    BY <1>1, EntryTaken DEF Delivering, DeliveryTypes
<1>3. ASSUME recorded' = Stamped(i)
      PROVE  recorded' \in [Results -> Int]
    BY <1>2, <1>3 DEF Stamped, Delivering, DeliveryTypes, IsDock
<1>4. CASE KeptBack(i)
    <2>1. /\ dock' = EnqueuePending(dock, i) /\ pump' = [pump EXCEPT !.clean = FALSE]
          /\ UNCHANGED <<recorded, given, turnedDown>>
        BY <1>4 DEF KeptBack
    <2> QED BY <1>1, <1>2, <2>1, FallsBack DEF Delivering, DeliveryTypes
<1>5. CASE SendThrows(i)
    <2> DEFINE d == [dock EXCEPT !.submitted = @ \ {i}]
    <2>1. /\ dock' = EnqueuePending(d, i) /\ pump' = [pump EXCEPT !.clean = FALSE]
          /\ given' = [given EXCEPT ![i] = @ + 1]
          /\ turnedDown' = [turnedDown EXCEPT ![i] = @ + 1]
        BY <1>5 DEF SendThrows
    <2>2. /\ d \in IsDock /\ d.pending = dock.pending /\ d.pumped = dock.pumped
          /\ d.installed = dock.installed /\ d.suspended = dock.suspended
          /\ d.submitted = dock.submitted \ {i}
        BY <1>2 DEF IsDock
    <2>3. /\ given \in [Results -> Nat] /\ turnedDown \in [Results -> Nat]
          /\ given[i] \in Nat /\ turnedDown[i] \in Nat
        BY <1>2 DEF Delivering, DeliveryTypes
    <2>4. /\ given' \in [Results -> Nat] /\ turnedDown' \in [Results -> Nat]
          /\ \A j \in Results : j # i => given'[j] = given[j] /\ turnedDown'[j] = turnedDown[j]
          /\ given'[i] = given[i] + 1 /\ turnedDown'[i] = turnedDown[i] + 1
        BY <2>1, <2>3, <1>2
    <2>5. given[i] <= turnedDown[i] => given'[i] <= turnedDown'[i]
        BY <2>3, <2>4
    <2> HIDE DEF d
    <2>6. d.submitted \subseteq dock.submitted /\ \A j \in dock.submitted \ d.submitted : j = i
        BY <2>2
    <2>7. recorded' \in [Results -> Int]
        BY <1>3, <1>5 DEF SendThrows
    <2> QED BY <1>1, <2>1, <2>2, <2>4, <2>5, <2>6, <2>7, FallsBack
<1>6. CASE Submitted(i)
    <2>1. recorded' \in [Results -> Int]
        BY <1>3, <1>6 DEF Submitted
    <2> QED BY <1>1, <1>6, <2>1, SubmittedKeeps
<1> QED BY <1>4, <1>5, <1>6 DEF TrySend

\* A batch that the outbox gave is what nobody has, each result once.
LEMMA Replayed ==
    ASSUME DeliveryTypes, NEW q \in [1 .. Room -> Unsent], IsReplay(q)
    PROVE  /\ q \in Seq(Results) /\ Once(q) /\ ToSet(q) \subseteq Unsent
           /\ dock.pending = <<>> /\ q = <<>> => Unsent = {}
<1>1. /\ Unsent \subseteq Results /\ IsFiniteSet(Unsent)
      /\ Cardinality(Unsent) \in Nat
    <2>1. Unsent \subseteq Results
        BY DEF Unsent, DeliveryTypes
    <2> QED BY <2>1, FS_Subset, FS_CardinalityType, DeliveryAssumption
<1>2. Len(dock.pending) \in Nat /\ MaxProjections \in Nat /\ MaxProjections # 0
    BY LenProperties, DeliveryAssumption DEF DeliveryTypes, IsDock
<1>3. Room \in Int
    BY <1>1, <1>2 DEF Room
<1>4. \E n \in Nat : 1 .. Room = 1 .. n
    <2>1. CASE Room \in Nat
        BY <2>1
    <2>2. CASE Room \notin Nat
        <3>1. 1 .. Room = 1 .. 0
            BY <2>2, <1>3
        <3> QED BY <3>1
    <2> QED BY <2>1, <2>2
<1>5. PICK n \in Nat : 1 .. Room = 1 .. n
    BY <1>4
<1>6. q \in Seq(Unsent) /\ DOMAIN q = 1 .. Room
    <2>1. q \in [1 .. n -> Unsent] /\ DOMAIN q = 1 .. Room
        BY <1>5
    <2> QED BY <2>1
<1>7. q \in Seq(Results) /\ ToSet(q) \subseteq Unsent
    BY <1>1, <1>5, <1>6 DEF ToSet
<1>8. \A i \in Results : ~Earlier(i, i)
    <2>1. \A i \in Results : i \in Int /\ recorded[i] \in Int
        BY DeliveryAssumption DEF DeliveryTypes
    <2> QED BY <2>1 DEF Earlier
<1>9. Once(q)
    <2> SUFFICES ASSUME NEW k \in DOMAIN q, NEW l \in DOMAIN q, q[k] = q[l]
                 PROVE  k = l
        BY DEF Once
    <2>1. k \in Int /\ l \in Int /\ q[k] \in Results
        BY <1>1, <1>3, <1>6
    <2>2. ~(k < l) /\ ~(l < k)
        BY <2>1, <1>8 DEF IsReplay
    <2> QED BY <2>1, <2>2
<1>10. ASSUME dock.pending = <<>>, q = <<>>
       PROVE  Unsent = {}
    <2>1. Len(dock.pending) = 0
        BY <1>10
    <2>2. Room < 1
        BY <1>3, <1>6, <1>10
    <2>3. Cardinality(Unsent) = 0
        BY <1>1, <1>2, <2>1, <2>2 DEF Room
    <2> QED BY <1>1, <2>3, FS_EmptySet
<1> QED BY <1>7, <1>9, <1>10

LEMMA NextBatchKeeps ==
    ASSUME Delivering, NextBatch
    PROVE  Delivering'
<1> USE DEF Delivering
<1>1. PICK q \in [1 .. Room -> Unsent] :
        /\ IsReplay(q)
        /\ todo' = dock.pending \o q
        /\ dock' = [dock EXCEPT !.pending = <<>>, !.pumped = @ \/ dock.pending \o q = <<>>]
        /\ pump' = IF dock.pending \o q = <<>> THEN NoPump
                   ELSE [pump EXCEPT !.at = "batch", !.before = Cardinality(dock.submitted)]
    BY DEF NextBatch
<1> DEFINE batch == dock.pending \o q
<1>2. todo = <<>> /\ pump.at # "no" /\ UNCHANGED <<settled, recorded, given, turnedDown>>
    BY DEF NextBatch
<1>3. dock \in IsDock /\ dock.pending \in Seq(Results) /\ Once(dock.pending)
    BY DEF DeliveryTypes, IsDock, Queued
<1>4. /\ q \in Seq(Results) /\ Once(q) /\ ToSet(q) \subseteq Unsent
      /\ dock.pending = <<>> /\ q = <<>> => Unsent = {}
    BY <1>1, Replayed
<1>5. /\ batch \in Seq(Results) /\ ToSet(batch) = ToSet(dock.pending) \cup ToSet(q)
      /\ Once(batch)
    <2>1. \A i \in ToSet(q) : i \notin ToSet(dock.pending)
        BY <1>4 DEF Unsent
    <2> QED BY <1>3, <1>4, <2>1, JoinWaits
<1>6. batch = <<>> => dock.pending = <<>> /\ q = <<>>
    BY <1>3, <1>4, ConcatProperties, EmptySeq
<1> HIDE DEF batch
<1>7. /\ todo' = batch
      /\ dock' = [dock EXCEPT !.pending = <<>>, !.pumped = @ \/ batch = <<>>]
      /\ pump' = IF batch = <<>> THEN NoPump
                 ELSE [pump EXCEPT !.at = "batch", !.before = Cardinality(dock.submitted)]
    BY <1>1 DEF batch
<1>8. /\ dock' \in IsDock /\ dock'.pending = <<>> /\ dock'.submitted = dock.submitted
      /\ dock'.installed = dock.installed /\ dock'.suspended = dock.suspended
      /\ dock'.pumped => dock.pumped \/ batch = <<>>
    BY <1>3, <1>7, NothingWaits DEF IsDock
<1>9. IsFiniteSet(dock.submitted) /\ Cardinality(dock.submitted) \in Nat
    <2>1. IsFiniteSet(dock.submitted)
        BY <1>3, FS_Subset, DeliveryAssumption DEF IsDock
    <2> QED BY <2>1, FS_CardinalityType
<1>10. ToSet(dock'.pending) = {} /\ Once(dock'.pending)
    BY <1>8, NothingWaits
<1>11. Waiting' = ToSet(dock.pending) \cup ToSet(q) /\ Waiting = ToSet(dock.pending)
    BY <1>2, <1>5, <1>7, <1>10, NothingWaits DEF Waiting
<1>12. \A i \in ToSet(q) : i \in settled /\ Durable(i) /\ i \notin dock.submitted
    BY <1>4 DEF Unsent
<1>13. DeliveryTypes'
    <2>1. pump' \in [at : {"no", "cache", "batch"}, before : Nat, clean : BOOLEAN]
        BY <1>7, <1>9 DEF DeliveryTypes, NoPump
    <2> QED BY <2>1, <1>2, <1>5, <1>7, <1>8 DEF DeliveryTypes
<1>14. Queued'
    BY <1>2, <1>5, <1>7, <1>8, <1>10, <1>11, <1>12 DEF Queued
<1>15. Accounted'
    BY <1>2, <1>8, <1>11, <1>12 DEF Accounted
<1>16. Complete'
    <2>1. CASE batch = <<>>
        <3>1. \A i \in settled : Durable(i) => i \in dock.submitted
            BY <2>1, <1>4, <1>6, NothingWaits DEF Unsent
        <3>2. dock.installed /\ ~dock.suspended
            BY <1>2 DEF Pumping
        <3> QED BY <1>2, <1>8, <3>1, <3>2 DEF Complete
    <2>2. CASE batch # <<>>
        BY <2>2, <1>2, <1>8, <1>11 DEF Complete
    <2> QED BY <2>1, <2>2
<1>17. Pumping'
    <2>1. CASE batch = <<>>
        BY <2>1, <1>7 DEF Pumping, NoPump
    <2>2. CASE batch # <<>>
        <3>1. pump'.at = "batch" /\ pump'.before = Cardinality(dock.submitted) /\ pump'.clean = pump.clean
            BY <2>2, <1>7 DEF DeliveryTypes
        <3>2. dock.installed /\ ~dock.suspended /\ (pump.clean => dock.pending = <<>>)
            BY <1>2 DEF Pumping
        <3>3. pump.clean => ToSet(todo') = ToSet(q)
            BY <3>2, <1>5, <1>7, NothingWaits
        <3>4. todo' # <<>>
            BY <2>2, <1>7
        <3> QED BY <3>1, <3>2, <3>3, <3>4, <1>8, <1>9, <1>12 DEF Pumping
    <2> QED BY <2>1, <2>2
<1> QED BY <1>13, <1>14, <1>15, <1>16, <1>17

LEMMA PumpStopsKeeps ==
    ASSUME Delivering, PumpStops
    PROVE  Delivering'
<1> USE DEF Delivering
<1>1. /\ todo = <<>> /\ pump.at = "batch" /\ pump' = NoPump
      /\ UNCHANGED <<todo, settled, recorded, given, turnedDown>> /\ ~MadeProgress
      /\ dock' = [dock EXCEPT !.pumped = @ \/ (dock.pending = <<>> /\ pump.clean)]
    BY DEF PumpStops
<1>2. dock \in IsDock
    BY DEF DeliveryTypes
<1>3. ~(dock.pending = <<>> /\ pump.clean)
    <2> SUFFICES ASSUME dock.pending = <<>>, pump.clean
                 PROVE  FALSE
        OBVIOUS
    <2>1. Cardinality(dock.submitted) > pump.before /\ Cardinality(dock.submitted) = pump.before
        BY <1>1 DEF Pumping, MadeProgress
    <2>2. pump.before \in Nat
        BY DEF DeliveryTypes
    <2> QED BY <2>1, <2>2
<1>4. dock' = dock
    BY <1>1, <1>2, <1>3 DEF IsDock
<1>5. DeliveryTypes'
    BY <1>1, <1>4 DEF DeliveryTypes, NoPump
<1>6. Queued' /\ Accounted' /\ Complete'
    BY <1>1, <1>4 DEF Queued, Accounted, Complete, Waiting
<1>7. Pumping'
    BY <1>1 DEF Pumping, NoPump
<1> QED BY <1>5, <1>6, <1>7

\* A fresh holder, or a fresh generation: nothing has been submitted by it.
LEMMA InstallKeeps ==
    ASSUME Delivering, Install
    PROVE  Delivering'
<1> USE DEF Delivering
<1>1. /\ todo = <<>> /\ pump.at = "no"
      /\ UNCHANGED <<todo, pump, settled, recorded>>
    BY DEF Install, Idle
<1>2. dock \in IsDock
    BY DEF DeliveryTypes
<1>3. CASE dock.installed
    <2>1. /\ dock' = [dock EXCEPT !.generation = @ + 1, !.submitted = {}, !.pumped = FALSE]
          /\ given' = NoneOf /\ turnedDown' = NoneOf
        BY <1>3 DEF Install
    <2>2. /\ dock' \in IsDock /\ dock'.pending = dock.pending /\ dock'.submitted = {} /\ ~dock'.pumped
        <3>1. dock.generation \in Nat /\ dock.generation + 1 \in Nat
            BY <1>2 DEF IsDock
        <3> QED BY <2>1, <3>1, <1>2 DEF IsDock
    <2>3. DeliveryTypes'
        BY <1>1, <2>1, <2>2 DEF DeliveryTypes, NoneOf
    <2>4. Queued'
        BY <1>1, <2>2 DEF Queued, Waiting
    <2>5. Accounted'
        BY <2>1 DEF Accounted, NoneOf
    <2> QED BY <1>1, <2>2, <2>3, <2>4, <2>5 DEF Complete, Pumping
<1>4. CASE ~dock.installed
    <2>1. dock' = [dock EXCEPT !.installed = TRUE] /\ UNCHANGED <<given, turnedDown>>
        BY <1>4 DEF Install
    <2>2. /\ dock' \in IsDock /\ dock'.pending = dock.pending /\ dock'.submitted = dock.submitted
          /\ dock'.pumped = dock.pumped
        BY <2>1, <1>2 DEF IsDock
    <2>3. ~dock.pumped
        BY <1>4 DEF Complete
    <2>4. DeliveryTypes'
        BY <1>1, <2>1, <2>2 DEF DeliveryTypes
    <2>5. Queued' /\ Accounted'
        BY <1>1, <2>1, <2>2 DEF Queued, Accounted, Waiting
    <2> QED BY <1>1, <2>2, <2>3, <2>4, <2>5 DEF Complete, Pumping
<1> QED BY <1>3, <1>4

LEMMA FreshHolds ==
    ASSUME dock = FreshHolder, todo = <<>>, pump = NoPump,
           settled \subseteq Results, recorded \in [Results -> Int],
           given = NoneOf, turnedDown = NoneOf
    PROVE  Delivering
<1>1. /\ dock \in IsDock /\ dock.pending = <<>> /\ dock.submitted = {} /\ ~dock.pumped
    BY NothingWaits DEF FreshHolder, IsDock
<1>2. DeliveryTypes
    BY <1>1, NothingWaits DEF DeliveryTypes, NoneOf, NoPump
<1>3. Queued
    BY <1>1, NothingWaits DEF Queued, Waiting
<1>4. Accounted
    BY DEF Accounted, NoneOf
<1> QED BY <1>1, <1>2, <1>3, <1>4 DEF Delivering, Complete, Pumping, NoPump

LEMMA EndsKeep ==
    ASSUME Delivering, Dispose \/ HostRestarts
    PROVE  Delivering'
<1>1. /\ dock' = FreshHolder /\ given' = NoneOf /\ turnedDown' = NoneOf
      /\ settled' \subseteq settled /\ recorded' = recorded
    BY DEF Dispose, HostRestarts
<1>2. todo' = <<>> /\ pump'.at = "no"
    BY DEF Dispose, HostRestarts, Idle, NoPump
<1>3. settled' \subseteq Results /\ recorded' \in [Results -> Int]
      /\ pump' \in [at : {"no", "cache", "batch"}, before : Nat, clean : BOOLEAN]
    <2>1. pump' = pump \/ pump' = NoPump
        BY DEF Dispose, HostRestarts
    <2>2. /\ settled \subseteq Results /\ recorded \in [Results -> Int]
          /\ pump \in [at : {"no", "cache", "batch"}, before : Nat, clean : BOOLEAN]
        BY DEF Delivering, DeliveryTypes
    <2>3. NoPump \in [at : {"no", "cache", "batch"}, before : Nat, clean : BOOLEAN]
        BY DEF NoPump
    <2> QED BY <1>1, <2>1, <2>2, <2>3
<1>4. /\ dock' \in IsDock /\ dock'.pending = <<>> /\ dock'.submitted = {} /\ ~dock'.pumped
    BY <1>1, NothingWaits DEF FreshHolder, IsDock
<1>5. DeliveryTypes'
    BY <1>1, <1>2, <1>3, <1>4, NothingWaits DEF DeliveryTypes, NoneOf
<1>6. Queued'
    BY <1>2, <1>4, NothingWaits DEF Queued, Waiting
<1>7. Accounted'
    BY <1>1 DEF Accounted, NoneOf
<1> QED BY <1>2, <1>4, <1>5, <1>6, <1>7 DEF Delivering, Complete, Pumping

LEMMA SuspendKeeps ==
    ASSUME Delivering, SuspendDelivery
    PROVE  Delivering'
<1>1. /\ pump.at = "no" /\ dock' = [dock EXCEPT !.suspended = TRUE, !.pumped = FALSE]
      /\ UNCHANGED <<todo, pump, settled, recorded, given, turnedDown>>
    BY DEF SuspendDelivery, Idle
<1>2. /\ dock' \in IsDock /\ dock'.pending = dock.pending /\ dock'.submitted = dock.submitted
      /\ ~dock'.pumped
    BY <1>1 DEF IsDock, Delivering, DeliveryTypes
<1> QED BY <1>1, <1>2 DEF Delivering, DeliveryTypes, Queued, Accounted, Complete, Pumping, Waiting

\* What waits in the cache is to be submitted.
LEMMA FlushKeeps ==
    ASSUME Delivering, todo = <<>>, NEW d, d \in IsDock,
           d.submitted \subseteq dock.submitted, Once(d.pending),
           ToSet(d.pending) \subseteq settled,
           dock' = [d EXCEPT !.pending = <<>>, !.suspended = FALSE], todo' = d.pending,
           UNCHANGED <<settled, recorded, given>>,
           d.pumped => /\ dock.pumped /\ d.installed
                       /\ \A i \in settled : Durable(i) =>
                            i \in d.submitted \cup ToSet(d.pending),
           turnedDown' \in [Results -> Nat],
           \A i \in Results : Durable(i) =>
                /\ turnedDown[i] <= turnedDown'[i]
                /\ i \notin d.submitted \/ i \in ToSet(d.pending) => given[i] <= turnedDown'[i],
           pump' \in [at : {"no", "cache"}, before : Nat, clean : BOOLEAN],
           pump'.at # "no" => d.installed
    PROVE  Delivering'
<1> USE DEF Delivering
<1>1. /\ dock' \in IsDock /\ dock'.pending = <<>> /\ dock'.submitted = d.submitted
      /\ dock'.pumped = d.pumped /\ dock'.installed = d.installed /\ ~dock'.suspended
    BY NothingWaits DEF IsDock
<1>2. /\ ToSet(dock'.pending) = {} /\ Once(dock'.pending) /\ d.pending \in Seq(Results)
      /\ Waiting' = ToSet(d.pending)
    BY <1>1, NothingWaits DEF IsDock, Waiting
<1>3. DeliveryTypes'
    BY <1>1, <1>2 DEF DeliveryTypes
<1>4. Queued'
    BY <1>1, <1>2 DEF Queued
<1>5. Accounted'
    <2> SUFFICES ASSUME NEW i \in Results, Durable(i)
                 PROVE  /\ given'[i] <= 1 + turnedDown'[i]
                        /\ i \notin dock'.submitted \/ i \in Waiting' => given'[i] <= turnedDown'[i]
        BY DEF Accounted
    <2>1. /\ given[i] \in Nat /\ turnedDown[i] \in Nat /\ turnedDown'[i] \in Nat
          /\ given[i] <= 1 + turnedDown[i]
        BY DEF DeliveryTypes, Accounted
    <2> QED BY <2>1, <1>1, <1>2
<1>6. Complete'
    BY <1>1, <1>2 DEF Complete
<1>7. Pumping'
    BY <1>1 DEF Pumping
<1> QED BY <1>3, <1>4, <1>5, <1>6, <1>7

LEMMA ResumeDeliveryKeeps ==
    ASSUME Delivering, ResumeDelivery
    PROVE  Delivering'
<1> USE DEF Delivering
<1>1. /\ todo = <<>> /\ dock.installed /\ todo' = dock.pending
      /\ dock' = [dock EXCEPT !.pending = <<>>, !.suspended = FALSE]
      /\ pump' = [at |-> "cache", before |-> 0, clean |-> TRUE]
      /\ UNCHANGED <<settled, recorded, given, turnedDown>>
    BY DEF ResumeDelivery, Idle, DeliveryTypes, IsDock
<1>2. dock \in IsDock /\ given \in [Results -> Nat] /\ turnedDown \in [Results -> Nat]
    BY DEF DeliveryTypes
<1>3. Waiting = ToSet(dock.pending)
    BY <1>1, NothingWaits DEF Waiting
<1>4. Once(dock.pending) /\ ToSet(dock.pending) \subseteq settled
    BY <1>3 DEF Queued
<1>5. pump' \in [at : {"no", "cache"}, before : Nat, clean : BOOLEAN]
    BY <1>1
<1>6. \A i \in Results : Durable(i) =>
            /\ turnedDown[i] <= turnedDown'[i]
            /\ i \notin dock.submitted \/ i \in ToSet(dock.pending) => given[i] <= turnedDown'[i]
    BY <1>1, <1>2, <1>3 DEF Accounted
<1>7. dock.pumped => \A i \in settled : Durable(i) => i \in dock.submitted \cup ToSet(dock.pending)
    BY <1>3 DEF Complete
<1> QED BY <1>1, <1>2, <1>4, <1>5, <1>6, <1>7, FlushKeeps

LEMMA DeliverKeeps ==
    ASSUME Delivering, NEW i \in Results, Deliver(i)
    PROVE  Delivering'
<1> USE DEF Delivering
<1>1. /\ todo = <<>> /\ pump.at = "no" /\ i \notin settled /\ settled' = settled \cup {i}
      /\ UNCHANGED <<pump, recorded, given, turnedDown>>
    BY DEF Deliver, Idle
<1>2. /\ dock \in IsDock /\ Once(dock.pending) /\ ToSet(dock.pending) \subseteq settled
      /\ dock.submitted \subseteq settled /\ Waiting = ToSet(dock.pending)
    BY <1>1, NothingWaits DEF DeliveryTypes, Queued, Waiting
<1>3. CASE dock.installed /\ dock.suspended
    <2>1. todo' = <<>> /\ Enqueues(dock, i, dock')
        BY <1>1, <1>2, <1>3, Enqueued DEF Deliver
    <2>2. /\ dock' \in IsDock /\ Once(dock'.pending) /\ dock'.submitted = dock.submitted
          /\ ToSet(dock'.pending) \subseteq ToSet(dock.pending) \cup {i} /\ ~dock'.pumped
        BY <2>1, <1>3 DEF Enqueues, Complete
    <2>3. Waiting' = ToSet(dock'.pending) /\ ToSet(todo') = {}
        BY <2>1, NothingWaits DEF Waiting
    <2>4. DeliveryTypes'
        BY <1>1, <2>1, <2>2, NothingWaits DEF DeliveryTypes
    <2>5. Queued'
        BY <1>1, <1>2, <2>1, <2>2, <2>3, NothingWaits DEF Queued
    <2>6. Accounted'
        BY <1>1, <1>2, <2>2, <2>3 DEF Accounted
    <2> QED BY <1>1, <2>2, <2>4, <2>5, <2>6 DEF Complete, Pumping
<1>4. CASE ~(dock.installed /\ dock.suspended)
    <2>1. dock' = dock /\ todo' = IF dock.installed THEN <<i>> ELSE <<>>
        BY <1>4 DEF Deliver
    <2>2. /\ todo' \in Seq(Results) /\ Once(todo') /\ ToSet(todo') \subseteq {i}
          /\ dock.installed => i \in ToSet(todo')
        BY <2>1, OneWaits, NothingWaits
    <2>3. Waiting' = ToSet(dock.pending) \cup ToSet(todo')
        BY <2>1 DEF Waiting
    <2>4. DeliveryTypes'
        BY <1>1, <2>1, <2>2 DEF DeliveryTypes
    <2>5. Queued'
        BY <1>1, <1>2, <2>1, <2>2, <2>3 DEF Queued
    <2>6. Accounted'
        BY <1>1, <1>2, <2>1, <2>2, <2>3 DEF Accounted
    <2>7. Complete'
        BY <1>1, <1>2, <2>1, <2>2, <2>3 DEF Complete
    <2> QED BY <1>1, <2>4, <2>5, <2>6, <2>7 DEF Pumping
<1> QED BY <1>3, <1>4

LEMMA RejectLateKeeps ==
    ASSUME Delivering, Promised, NEW i \in Results, NEW g, RejectLate(i, g)
    PROVE  Delivering'
<1> USE DEF Delivering
<1> DEFINE gone == IF Durable(i) /\ dock.generation = g THEN {i} ELSE {}
           d == [dock EXCEPT !.submitted = @ \ gone]
           back == EnqueuePending(d, i)
           flushes == dock.generation # g /\ ~dock.suspended
<1>1. /\ todo = <<>> /\ pump.at = "no"
      /\ UNCHANGED <<pump, settled, recorded, given>>
      /\ turnedDown' = [turnedDown EXCEPT ![i] = @ + 1]
    BY DEF RejectLate, Idle
<1>2. /\ dock \in IsDock /\ Once(dock.pending) /\ ToSet(dock.pending) \subseteq settled
      /\ dock.submitted \subseteq settled /\ Waiting = ToSet(dock.pending)
    BY <1>1, NothingWaits DEF DeliveryTypes, Queued, Waiting
<1> HIDE DEF gone
<1>3. /\ d \in IsDock /\ d.pending = dock.pending /\ d.submitted = dock.submitted \ gone
      /\ d.pumped = dock.pumped /\ d.installed = dock.installed /\ d.suspended = dock.suspended
    BY <1>2 DEF IsDock
<1>4. Enqueues(d, i, back)
    BY <1>2, <1>3, Enqueued
<1>5. /\ dock' = IF flushes THEN [back EXCEPT !.pending = <<>>] ELSE back
      /\ todo' = IF flushes THEN back.pending ELSE <<>>
    <2>1. [dock EXCEPT !.submitted = IF Durable(i) /\ dock.generation = g THEN @ \ {i} ELSE @] = d
        BY <1>2 DEF gone, IsDock
    <2> QED BY <2>1 DEF RejectLate
<1> HIDE DEF d, back
<1>6. /\ back \in IsDock /\ Once(back.pending) /\ i \in ToSet(back.pending)
      /\ back.submitted = dock.submitted \ gone
      /\ back.installed = dock.installed /\ back.suspended = dock.suspended
      /\ ToSet(back.pending) \subseteq ToSet(dock.pending) \cup {i}
      /\ back.pumped => dock.pumped /\ ToSet(dock.pending) \subseteq ToSet(back.pending)
    BY <1>3, <1>4 DEF Enqueues
<1>7. /\ given \in [Results -> Nat] /\ turnedDown \in [Results -> Nat]
      /\ turnedDown' \in [Results -> Nat] /\ turnedDown'[i] = turnedDown[i] + 1
      /\ \A j \in Results : j # i => turnedDown'[j] = turnedDown[j]
    BY <1>1 DEF DeliveryTypes
<1>8. ASSUME NEW j \in Results, Durable(j)
      PROVE  /\ turnedDown[j] <= turnedDown'[j]
             /\ given[j] <= 1 + turnedDown'[j]
             /\ j \notin back.submitted \/ j \in ToSet(back.pending) => given[j] <= turnedDown'[j]
    <2>1. /\ given[j] \in Nat /\ turnedDown[j] \in Nat /\ given[j] <= 1 + turnedDown[j]
          /\ j \notin dock.submitted \/ j \in ToSet(dock.pending) => given[j] <= turnedDown[j]
        BY <1>2, <1>7, <1>8 DEF Accounted
    <2>2. CASE j = i
        BY <2>1, <2>2, <1>7
    <2>3. CASE j # i
        <3>1. /\ j \notin back.submitted => j \notin dock.submitted
              /\ j \in ToSet(back.pending) => j \in ToSet(dock.pending)
            BY <2>3, <1>6 DEF gone
        <3> QED BY <2>1, <2>3, <3>1, <1>7
    <2> QED BY <2>2, <2>3
<1>9. i \in settled
    <2>1. <<i, g>> \in BagToSet(onTheWay)
        BY DEF RejectLate, BagIn
    <2> QED BY <2>1 DEF Promised
<1>10. ToSet(back.pending) \subseteq settled /\ back.submitted \subseteq dock.submitted
    BY <1>2, <1>6, <1>9
<1>11. ASSUME back.pumped
       PROVE  /\ dock.pumped /\ dock.installed /\ ~dock.suspended
              /\ \A j \in settled : Durable(j) => j \in back.submitted \cup ToSet(back.pending)
    <2>1. /\ dock.pumped /\ ToSet(dock.pending) \subseteq ToSet(back.pending)
        BY <1>6, <1>11
    <2>2. /\ dock.installed /\ ~dock.suspended
          /\ \A j \in settled : Durable(j) => j \in dock.submitted \cup ToSet(dock.pending)
        BY <1>2, <2>1 DEF Complete
    <2> QED BY <2>1, <2>2, <1>6 DEF gone
<1>12. CASE flushes
    <2>1. dock' = [back EXCEPT !.pending = <<>>, !.suspended = FALSE] /\ todo' = back.pending
        <3>1. back.suspended = FALSE
            BY <1>6, <1>12, <1>2 DEF IsDock
        <3> QED BY <3>1, <1>5, <1>6, <1>12 DEF IsDock
    <2>2. pump' \in [at : {"no", "cache"}, before : Nat, clean : BOOLEAN] /\ pump'.at = "no"
        BY <1>1 DEF DeliveryTypes
    <2> QED BY <1>1, <1>6, <1>7, <1>8, <1>10, <1>11, <2>1, <2>2, FlushKeeps
<1>13. CASE ~flushes
    <2>1. dock' = back /\ todo' = <<>>
        BY <1>5, <1>13
    <2>2. Waiting' = ToSet(back.pending) /\ ToSet(todo') = {} /\ Once(todo') /\ todo' \in Seq(Results)
        BY <2>1, NothingWaits DEF Waiting
    <2>3. DeliveryTypes'
        BY <1>1, <1>6, <1>7, <2>1, <2>2 DEF DeliveryTypes
    <2>4. Queued'
        BY <1>1, <1>2, <1>6, <1>10, <2>1, <2>2 DEF Queued
    <2>5. Accounted'
        BY <1>1, <1>8, <2>1, <2>2 DEF Accounted
    <2>6. Complete'
        BY <1>1, <1>6, <1>11, <2>1, <2>2 DEF Complete
    <2> QED BY <1>1, <2>3, <2>4, <2>5, <2>6 DEF Pumping
<1> QED BY <1>12, <1>13

LEMMA PromisesKeep ==
    ASSUME DeliveryInv, DeliveryNext
    PROVE  Promised'
<1> USE DEF DeliveryInv, Promised
<1>1. CASE TrySend
    <2> DEFINE i == Head(todo)
    <2>1. i \in settled /\ settled' = settled
        BY <1>1, EntryTaken DEF TrySend, Delivering
    <2>2. \/ onTheWay' = onTheWay
          \/ onTheWay' = onTheWay (+) SetToBag({<<i, dock.generation>>})
        BY <1>1 DEF TrySend, KeptBack, SendThrows, Submitted
    <2>3. BagToSet(onTheWay') \subseteq BagToSet(onTheWay) \cup {<<i, dock.generation>>}
        BY <2>2 DEF BagToSet, SetToBag, (+)
    <2> QED BY <2>1, <2>3
<1>2. CASE Dispose \/ HostRestarts
    BY <1>2 DEF Dispose, HostRestarts, EmptyBag, SetToBag, BagToSet
<1>3. CASE \E i \in Results, g \in 0 .. MaxGeneration : RejectLate(i, g)
    <2>1. PICK i \in Results, g \in 0 .. MaxGeneration : RejectLate(i, g)
        BY <1>3
    <2>2. /\ onTheWay' = onTheWay (-) SetToBag({<<i, g>>}) /\ settled' = settled
        BY <2>1 DEF RejectLate
    <2>3. BagToSet(onTheWay') \subseteq BagToSet(onTheWay)
        BY <2>2 DEF BagToSet, SetToBag, (-)
    <2> QED BY <2>2, <2>3
<1>4. CASE \E i \in Results : Deliver(i)
    BY <1>4 DEF Deliver
<1>5. CASE NextBatch \/ PumpStops \/ Install \/ SuspendDelivery \/ ResumeDelivery
    BY <1>5 DEF NextBatch, PumpStops, Install, SuspendDelivery, ResumeDelivery
<1> QED BY <1>1, <1>2, <1>3, <1>4, <1>5 DEF DeliveryNext

\* What is submitted, waits in the cache or is being submitted fits what exists and what has
\* been turned down (installResultDelivery, trySend and resumeResultDelivery of
\* src/task-panel.ts), for any number of results, generations, failures and restarts.
THEOREM DeliveryInvariant == DeliverySpec => []DeliveryInv
<1>1. DeliveryInit => DeliveryInv
    <2> SUFFICES ASSUME DeliveryInit
                 PROVE  DeliveryInv
        OBVIOUS
    <2>1. Delivering
        BY FreshHolds DEF DeliveryInit
    <2>2. Promised
        BY DEF DeliveryInit, Promised, EmptyBag, SetToBag, BagToSet
    <2> QED BY <2>1, <2>2 DEF DeliveryInv
<1>2. DeliveryInv /\ [DeliveryNext]_deliveryVars => DeliveryInv'
    <2> SUFFICES ASSUME DeliveryInv, [DeliveryNext]_deliveryVars
                 PROVE  DeliveryInv'
        OBVIOUS
    <2>1. CASE DeliveryNext
        <3>1. Delivering /\ Promised
            BY DEF DeliveryInv
        <3>2. Delivering'
            <4>1. CASE TrySend \/ NextBatch \/ PumpStops
                BY <3>1, <4>1, TrySendKeeps, NextBatchKeeps, PumpStopsKeeps
            <4>2. CASE Install \/ Dispose \/ SuspendDelivery \/ ResumeDelivery \/ HostRestarts
                BY <3>1, <4>2, InstallKeeps, EndsKeep, SuspendKeeps, ResumeDeliveryKeeps
            <4>3. CASE \E i \in Results : Deliver(i)
                BY <3>1, <4>3, DeliverKeeps
            <4>4. CASE \E i \in Results, g \in 0 .. MaxGeneration : RejectLate(i, g)
                BY <3>1, <4>4, RejectLateKeeps
            <4> QED BY <2>1, <4>1, <4>2, <4>3, <4>4 DEF DeliveryNext
        <3>3. Promised'
            BY <2>1, PromisesKeep
        <3> QED BY <3>2, <3>3 DEF DeliveryInv
    <2>2. CASE UNCHANGED deliveryVars
        BY <2>2 DEF deliveryVars, DeliveryInv, Delivering, DeliveryTypes, Queued, Accounted, Complete,
                    Pumping, Waiting, Promised
    <2> QED BY <2>1, <2>2
<1> QED BY <1>1, <1>2, PTL DEF DeliverySpec

\* Without an extension behind it, delivery submits a result again only after a submission
\* has failed, and a session that has started it leaves no result in the outbox alone
\* (resumeResultDelivery and trySend of src/task-panel.ts): for any number of results, any
\* cache and any share of a generation.
THEOREM GenerationsHaveAll == DeliverySpec => []EachGenerationHasAll
<1>1. DeliveryInv => EachGenerationHasAll
    <2> SUFFICES ASSUME DeliveryInv
                 PROVE  EachGenerationHasAll
        OBVIOUS
    <2>1. \A i \in Results : Durable(i) => given[i] <= 1 + turnedDown[i]
        BY DEF DeliveryInv, Delivering, Accounted
    <2>2. ASSUME Idle, dock.pumped, NEW i \in settled, Durable(i)
          PROVE  i \in dock.submitted \cup ToSet(dock.pending)
        BY <2>2, NothingWaits DEF DeliveryInv, Delivering, Complete, Waiting, Idle
    <2> QED BY <2>1, <2>2 DEF EachGenerationHasAll
<1> QED BY <1>1, DeliveryInvariant, PTL
================================================================================
