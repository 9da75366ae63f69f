------------------------------ MODULE SharedStore ------------------------------
(***************************************************************************)
(* The SharedStore class of src/src/shared-store.ts, with several delta    *)
(* windows open at once: script writes, tracked writes of attempts, commit *)
(* and rollback, replayed deltas, restore and disposal.                    *)
(*                                                                         *)
(* A version chain (keyVersionHeads) is the sequence of its write nodes,   *)
(* the oldest first, on the value of its baseline; the state of a node is  *)
(* the fate of its window.                                                 *)
(***************************************************************************)
EXTENDS StoreData

CONSTANTS
    Windows,      \* delta keys
    Snapshots,    \* what restore() is given
    MaxWrites     \* bound: writes of a behaviour

VARIABLES
    map,          \* visible content
    chain,        \* chain[k]: write nodes of keyVersionHeads.get(k), oldest first
    baseline,     \* baseline[k]: value under the oldest node of chain[k]
    agentDeltas,  \* agentDeltas[w]: delta of the window
    fate,         \* "idle" until the first write, and how the window was retired
    disposed,
    written       \* history: every write that was let in, in order

storeVars == <<map, chain, baseline, agentDeltas, fate, disposed, written>>

Node(w, v) == [by |-> w, value |-> v]
Write(w, k, v) == [by |-> w, key |-> k, value |-> v]
Untracked == {"put", "replay"}      \* writes of script and replay

ASSUME SharedStoreAssumption ==
    /\ Windows \cap Untracked = {}
    /\ Snapshots \subseteq Seq([key : Keys, value : Values])

StoreTypeOK ==
    /\ map \in Contents
    /\ chain \in [Keys -> Seq([by : Windows, value : Values])]
    /\ baseline \in Contents
    /\ agentDeltas \in [Windows -> Seq([key : Keys, value : Values])]
    /\ fate \in [Windows -> {"idle", "active", "committed", "discarded", "retired"}]
    /\ disposed \in BOOLEAN
    /\ \A k \in Keys : chain[k] = <<>> => baseline[k] = NoValue

StoreInit ==
    /\ map = EmptyContent
    /\ chain = [k \in Keys |-> <<>>]
    /\ baseline = EmptyContent
    /\ agentDeltas = [w \in Windows |-> <<>>]
    /\ fate = [w \in Windows |-> "idle"]
    /\ disposed = FALSE
    /\ written = <<>>

----------------------------------------------------------------------------
MayWrite(k, v) ==
    /\ ~disposed
    /\ Admits(map, k, v)
    /\ Len(written) < MaxWrites

\* put(): a stable write ends the chain and leaves every delta.
Put(k, v) ==
    /\ MayWrite(k, v)
    /\ map' = [map EXCEPT ![k] = v]
    /\ chain' = [chain EXCEPT ![k] = <<>>]
    /\ baseline' = [baseline EXCEPT ![k] = NoValue]
    /\ agentDeltas' = [w \in Windows |-> WithoutKey(agentDeltas[w], k)]
    /\ written' = Append(written, Write("put", k, v))
    /\ UNCHANGED <<fate, disposed>>

\* trackPut(): the window's own head is updated in place, otherwise a new node.
TrackPut(w, k, v) ==
    /\ MayWrite(k, v)
    /\ fate[w] \in {"idle", "active"}
    /\ map' = [map EXCEPT ![k] = v]
    /\ LET nodes == chain[k]
           own == nodes # <<>> /\ Last(nodes).by = w
       IN  /\ chain' = [chain EXCEPT ![k] =
                          IF own THEN [nodes EXCEPT ![Len(nodes)] = Node(w, v)]
                                 ELSE Append(nodes, Node(w, v))]
           /\ baseline' = [baseline EXCEPT ![k] = IF nodes = <<>> THEN map[k] ELSE @]
    /\ agentDeltas' = [agentDeltas EXCEPT ![w] = WithEntry(@, k, v)]
    /\ fate' = [fate EXCEPT ![w] = "active"]
    /\ written' = Append(written, Write(w, k, v))
    /\ UNCHANGED disposed

\* Mutant: only the head is looked at, not what it was written over.
ResolvedHeadOnly(k, fates) ==
    LET nodes == chain[k]
    IN  IF nodes = <<>> THEN [value |-> map[k], nodes |-> <<>>]
        ELSE LET head == Last(nodes)
             IN  CASE fates[head.by] = "active" -> [value |-> head.value, nodes |-> nodes]
                   [] fates[head.by] = "committed" -> [value |-> head.value, nodes |-> <<>>]
                   [] OTHER -> [value |-> IF Len(nodes) > 1 THEN nodes[Len(nodes) - 1].value
                                                            ELSE baseline[k],
                                nodes |-> <<>>]

\* resolveVersionHead(): discarded nodes are skipped from the head; an active
\* one stays the head, a committed one or the baseline ends the chain.
Resolved(k, fates) ==
    LET nodes == chain[k]
        alive == {i \in DOMAIN nodes : fates[nodes[i].by] # "discarded"}
    IN  IF nodes = <<>> THEN [value |-> map[k], nodes |-> <<>>]
        ELSE IF alive = {} THEN [value |-> baseline[k], nodes |-> <<>>]
        ELSE LET top == Max(alive)
             IN  [value |-> nodes[top].value,
                  nodes |-> IF fates[nodes[top].by] = "active" THEN SubSeq(nodes, 1, top)
                                                              ELSE <<>>]

\* commitDelta() and discardDelta() differ in what becomes of the nodes.
Retire(w, how) ==
    /\ ~disposed
    /\ fate[w] \in {"idle", "active"}
    /\ LET fates == [fate EXCEPT ![w] = how]
           touched == KeysOf(agentDeltas[w])
           after == [k \in Keys |-> IF k \in touched THEN Resolved(k, fates)
                                    ELSE [value |-> map[k], nodes |-> chain[k]]]
       IN  /\ fate' = fates
           /\ map' = [k \in Keys |-> after[k].value]
           /\ chain' = [k \in Keys |-> after[k].nodes]
           /\ baseline' = [k \in Keys |-> IF after[k].nodes = <<>> THEN NoValue ELSE baseline[k]]
    /\ agentDeltas' = [agentDeltas EXCEPT ![w] = <<>>]
    /\ UNCHANGED <<disposed, written>>

CommitDelta(w) == Retire(w, "committed")
DiscardDelta(w) == Retire(w, "discarded")

Replayed(done) == [i \in DOMAIN done |-> Write("replay", done[i].key, done[i].value)]

\* applyDelta() with the replayed delta of one call, which may throw half way.
\* Unlike put() it leaves the deltas of open windows alone.
ApplyDelta(delta) ==
    /\ ~disposed
    /\ Len(written) + Len(delta) <= MaxWrites
    /\ LET after == Applied(map, delta)
           replaced == KeysOf(after.done)
       IN  /\ map' = after.map
           /\ chain' = [k \in Keys |-> IF k \in replaced THEN <<>> ELSE chain[k]]
           /\ baseline' = [k \in Keys |-> IF k \in replaced THEN NoValue ELSE baseline[k]]
           /\ written' = written \o Replayed(after.done)
    /\ UNCHANGED <<agentDeltas, fate, disposed>>

\* restore(): windows that wrote something are retired, then the snapshot goes
\* in, as far as it is admitted.
Restore(snapshot) ==
    /\ ~disposed
    /\ LET after == Applied(EmptyContent, snapshot)
       IN  /\ map' = after.map
           /\ written' = Replayed(after.done)
    /\ chain' = [k \in Keys |-> <<>>]
    /\ baseline' = EmptyContent
    /\ agentDeltas' = [w \in Windows |-> <<>>]
    /\ fate' = [w \in Windows |-> IF fate[w] = "active" THEN "retired" ELSE fate[w]]
    /\ UNCHANGED disposed

Dispose ==
    /\ ~disposed
    /\ disposed' = TRUE
    /\ map' = EmptyContent
    /\ chain' = [k \in Keys |-> <<>>]
    /\ baseline' = EmptyContent
    /\ agentDeltas' = [w \in Windows |-> <<>>]
    /\ UNCHANGED <<fate, written>>

\* Deltas a replay brings in: of one key, and of two.
Deltas ==
    {<<Entry(k, v)>> : k \in Keys, v \in Values}
      \union {<<Entry(k, v), Entry(j, v)>> : k, j \in Keys, v \in Values}

StoreNext ==
    \/ \E k \in Keys, v \in Values : Put(k, v)
    \/ \E w \in Windows, k \in Keys, v \in Values : TrackPut(w, k, v)
    \/ \E w \in Windows : CommitDelta(w)
    \/ \E w \in Windows : DiscardDelta(w)
    \/ \E delta \in Deltas : ApplyDelta(delta)
    \/ \E snapshot \in Snapshots : Restore(snapshot)
    \/ Dispose

StoreSpec == StoreInit /\ [][StoreNext]_storeVars

----------------------------------------------------------------------------
\* Writes on k that count: all but those of windows that were rolled back.
Survivors(k) ==
    {i \in DOMAIN written :
        written[i].key = k /\ (written[i].by \in Untracked \/ fate[written[i].by] # "discarded")}

\* In whatever order windows are committed and rolled back, a key shows the last
\* write that was not rolled back: no value of a failed attempt comes back, and no
\* rollback takes away the value of another (trackPut, resolveVersionHead).
ShowsLastSurvivor ==
    ~disposed => \A k \in Keys :
        map[k] = IF Survivors(k) = {} THEN NoValue ELSE written[Max(Survivors(k))].value

\* What commitDelta() would hand to the journal: the window's own last write of each
\* key that no put() of the script has overwritten since.
DeltaIsOwnWrites ==
    ~disposed => \A w \in Windows : fate[w] = "active" =>
        \A k \in Keys :
            LET own == {i \in DOMAIN written : written[i].key = k /\ written[i].by = w}
                put == {i \in DOMAIN written : written[i].key = k /\ written[i].by = "put"}
                counts == own # {} /\ \A i \in put : i < Max(own)
            IN  /\ k \in KeysOf(agentDeltas[w]) <=> counts
                /\ counts => Entry(k, written[Max(own)].value) \in ToSet(agentDeltas[w])

StoreAgreesWithLog == ShowsLastSurvivor /\ DeltaIsOwnWrites
=============================================================================
