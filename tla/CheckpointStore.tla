-------------------------- MODULE CheckpointStore --------------------------
(***************************************************************************)
(* LinkedCheckpointStore of the desktop host: the evidence kept for a      *)
(* synthesis-only retry, one entry per chat session, bounded in entries,   *)
(* in bytes and in age.  A store is a function; every operator maps a      *)
(* store to the store it becomes.  Only the order of the sequence numbers  *)
(* is observable, so the next one is one more than those in the store.     *)
(***************************************************************************)
EXTENDS Naturals, FiniteSets, FiniteSetsExt

CONSTANTS Sessions,         \* chat sessions
          EntryCap,         \* LINKED_CHECKPOINT_ENTRY_CAP
          TotalBytes,       \* LINKED_CHECKPOINT_TOTAL_BYTES
          NoEntry           \* a session without a checkpoint

ASSUME StoreAssumption ==
  IsFiniteSet(Sessions) /\ EntryCap \in Nat /\ TotalBytes \in Nat

EmptyStore == [s \in Sessions |-> NoEntry]

Held(store) == {s \in Sessions : store[s] /= NoEntry}
Bytes(store, S) == MapThenSumSet(LAMBDA s : store[s].bytes, S)
Sequences(store) == {0} \union {store[s].seq : s \in Held(store)}

\* remove.
Without(store, S) == [s \in Sessions |-> IF s \in S THEN NoEntry ELSE store[s]]

\* purge_expired_at: the entries past their time to live are the oldest ones.
Purged(store, age) == Without(store, {s \in Held(store) : store[s].seq <= age})

\* Mutant: the store evicts by number of entries only.
Evicted_EntriesOnly(store) ==
  Without(store, {s \in Held(store) :
    Cardinality({x \in Held(store) : store[x].seq >= store[s].seq}) > EntryCap})

\* The eviction loop removes the oldest entry until both limits hold.
Evicted(store) ==
  Without(store, {s \in Held(store) :
    LET newer == {x \in Held(store) : store[x].seq >= store[s].seq}
    IN Cardinality(newer) > EntryCap \/ Bytes(store, newer) > TotalBytes})

\* insert_value_at, after the purge.  A checkpoint too large for the whole store
\* still replaces the session's older one, by nothing.
Inserted(store, s, bytes, checkpoint) ==
  LET others == Without(store, {s})
  IN IF bytes > TotalBytes
     THEN others
     ELSE Evicted([others EXCEPT ![s] =
            [seq |-> Max(Sequences(store)) + 1, bytes |-> bytes, checkpoint |-> checkpoint]])

=============================================================================
