------------------------------- MODULE StoreData -------------------------------
(***************************************************************************)
(* What a SharedStore (src/src/shared-store.ts) admits and what a delta    *)
(* does to it, as functions of its content.  A content maps every key to   *)
(* its value or to NoValue; a delta is the sequence of the entries of the  *)
(* object commitDelta() returns, in the order of its keys.                 *)
(***************************************************************************)
EXTENDS Integers, FiniteSets, Sequences, FiniteSetsExt, SequencesExt

CONSTANTS
    Keys,         \* keys of the store
    Values,       \* JSON values
    NoValue,      \* what a key that is absent holds
    SizeOf,       \* bytes of each value
    MaxKeys,      \* keys a store may hold
    MaxBytes      \* bytes they may hold together

ASSUME StoreAssumption ==
    /\ IsFiniteSet(Keys)
    /\ NoValue \notin Values
    /\ SizeOf \in [Values -> Nat]
    /\ MaxKeys \in Nat
    /\ MaxBytes \in Nat

Contents == [Keys -> Values \union {NoValue}]
EmptyContent == [k \in Keys |-> NoValue]
Present(map) == {k \in Keys : map[k] # NoValue}
BytesAt(map, k) == IF map[k] = NoValue THEN 0 ELSE SizeOf[map[k]]
TotalBytes(map) == MapThenSumSet(LAMBDA k : BytesAt(map, k), Keys)

Entry(k, v) == [key |-> k, value |-> v]

\* admitValue(): a new key needs a place, and any value needs its bytes.
Admits(map, k, v) ==
    /\ map[k] # NoValue \/ Cardinality(Present(map)) < MaxKeys
    /\ TotalBytes(map) - BytesAt(map, k) + SizeOf[v] <= MaxBytes

\* applyDelta(): entry after entry; the first that is not admitted throws, and
\* those before it stay.
WithNext(s, e) ==
    IF s.thrown \/ ~Admits(s.map, e.key, e.value)
      THEN [s EXCEPT !.thrown = TRUE]
      ELSE [s EXCEPT !.map = [@ EXCEPT ![e.key] = e.value], !.done = Append(@, e)]

Applied(map, delta) ==
    LET after[n \in 0..Len(delta)] ==
            IF n = 0 THEN [map |-> map, thrown |-> FALSE, done |-> <<>>]
            ELSE WithNext(after[n - 1], delta[n])
    IN  after[Len(delta)]

\* `delta[key] = value' and `delete delta[key]'.
WithEntry(delta, k, v) ==
    IF \E i \in DOMAIN delta : delta[i].key = k
      THEN [i \in DOMAIN delta |-> IF delta[i].key = k THEN Entry(k, v) ELSE delta[i]]
      ELSE Append(delta, Entry(k, v))
WithoutKey(delta, k) ==
    IF \E i \in DOMAIN delta : delta[i].key = k
      THEN RemoveAt(delta, CHOOSE i \in DOMAIN delta : delta[i].key = k)
      ELSE delta
KeysOf(delta) == {delta[i].key : i \in DOMAIN delta}
=============================================================================
