----------------------- MODULE CheckpointStoreProofs -----------------------
(***************************************************************************)
(* What the operations of CheckpointStore do to any store: which entries   *)
(* they leave, and that an insert keeps the store within both its limits.  *)
(*                                                                         *)
(* The bytes of a store are a sum over a finite set, which the library     *)
(* defines by recursion.  The lemmas about it argue by a smallest          *)
(* counterexample among the subsets of a finite set.                       *)
(***************************************************************************)
EXTENDS CheckpointStore, TLAPS, FiniteSetTheorems, WellFoundedInduction

\* The stores of checkpoints from a set.
Entry(C) == [seq : Nat, bytes : Nat, checkpoint : C]
StoreOf(C) == [Sessions -> Entry(C) \union {NoEntry}]

-----------------------------------------------------------------------------
(* Finite sets.                                                            *)

\* Among subsets of a finite set there is one that includes none of the others.
LEMMA LeastSet ==
  ASSUME NEW S, IsFiniteSet(S), NEW T \in SUBSET SUBSET S, T /= {}
  PROVE  \E U \in T : \A V \in T : V \subseteq U => V = U
<1>1. T \subseteq FiniteSubsetsOf(S)
  BY FS_FiniteSubsetsOfFinite
<1>2. PICK U \in T : \A V \in T : <<V, U>> \notin StrictSubsetOrdering(S)
  BY <1>1, WFMin, FS_StrictSubsetOrderingWellFounded
<1>3. ASSUME NEW V \in T, V \subseteq U, V /= U PROVE FALSE
  <2>1. V \in SUBSET S /\ U \in SUBSET S
    OBVIOUS
  <2>2. <<V, U>> \in StrictSubsetOrdering(S)
    BY <1>3, <2>1, Zenon DEF StrictSubsetOrdering
  <2> QED
    BY <1>2, <1>3, <2>2
<1> QED
  BY <1>2, <1>3

\* Finitely many naturals have a least one.
LEMMA LeastNumber ==
  ASSUME NEW H, IsFiniteSet(H), H /= {}, NEW f, \A x \in H : f[x] \in Nat
  PROVE  \E m \in H : \A x \in H : f[m] <= f[x]
<1> DEFINE Below(x) == {y \in H : f[y] < f[x]}
           T == {Below(x) : x \in H}
<1>1. T \in SUBSET SUBSET H /\ T /= {}
  OBVIOUS
<1>2. PICK U \in T : \A V \in T : V \subseteq U => V = U
  <2> HIDE DEF T
  <2> QED
    BY <1>1, LeastSet
<1>3. PICK m \in H : U = Below(m)
  BY <1>2
<1>4. ASSUME NEW x \in H, ~(f[m] <= f[x]) PROVE FALSE
  <2>1. x \in Below(m) /\ x \notin Below(x)
    BY <1>4
  <2>2. Below(x) \subseteq Below(m)
    BY <1>4
  <2>3. Below(x) \in T
    OBVIOUS
  <2> QED
    BY <1>2, <1>3, <2>1, <2>2, <2>3
<1> QED
  BY <1>4

\* Among 0 and finitely many naturals there is a largest one.
LEMMA Largest ==
  ASSUME NEW H, IsFiniteSet(H), NEW f, \A x \in H : f[x] \in Nat
  PROVE  \E m \in {0} \union {f[x] : x \in H} : \A x \in H : m >= f[x]
<1> DEFINE Above(x) == {y \in H : f[y] > f[x]}
           T == {Above(x) : x \in H}
<1>1. CASE H = {}
  BY <1>1
<1>2. CASE H /= {}
  <2>1. T \in SUBSET SUBSET H /\ T /= {}
    BY <1>2
  <2>2. PICK U \in T : \A V \in T : V \subseteq U => V = U
    <3> HIDE DEF T
    <3> QED
      BY <2>1, LeastSet
  <2>3. PICK m \in H : U = Above(m)
    BY <2>2
  <2>4. ASSUME NEW x \in H, ~(f[m] >= f[x]) PROVE FALSE
    <3>1. x \in Above(m) /\ x \notin Above(x)
      BY <2>4
    <3>2. Above(x) \subseteq Above(m)
      BY <2>4
    <3>3. Above(x) \in T
      OBVIOUS
    <3> QED
      BY <2>2, <2>3, <3>1, <3>2, <3>3
  <2> QED
    BY <2>4
<1> QED
  BY <1>1, <1>2

-----------------------------------------------------------------------------
(* The sum of the bytes.                                                   *)

Pick(s) == CHOOSE x \in s : TRUE

\* g is the recursive function that the sum over S is defined by.
Sums(g, st, S) ==
  g = [s \in SUBSET S |-> IF s = {} THEN 0 ELSE st[Pick(s)].bytes + g[s \ {Pick(s)}]]

\* The library's fold, as such a function.
LEMMA BytesAreSums ==
  ASSUME NEW st, NEW S
  PROVE  Bytes(st, S) = (CHOOSE g : Sums(g, st, S))[S]
BY Zenon DEF Bytes, MapThenSumSet, MapThenFoldSet, Sums, Pick

\* A set that is not empty is larger than what is left without its picked element.
LEMMA Picked ==
  ASSUME NEW s, s /= {}
  PROVE  Pick(s) \in s /\ s \ {Pick(s)} \subseteq s /\ s \ {Pick(s)} /= s
<1>1. Pick(s) \in s
  BY DEF Pick
<1> QED
  BY <1>1

\* Two such functions agree wherever both are defined and their stores agree.
LEMMA SumsAgree ==
  ASSUME NEW g, NEW h, NEW st, NEW su, NEW S, NEW W, Sums(g, st, S), Sums(h, su, W),
         NEW V, IsFiniteSet(V), V \subseteq S, V \subseteq W,
         \A x \in V : st[x].bytes = su[x].bytes
  PROVE  g[V] = h[V]
<1> DEFINE T == {s \in SUBSET V : g[s] /= h[s]}
<1>1. SUFFICES ASSUME T /= {} PROVE FALSE
  BY <1>1
<1>2. PICK s \in T : \A u \in T : u \subseteq s => u = s
  <2>1. T \in SUBSET SUBSET V
    OBVIOUS
  <2> HIDE DEF T
  <2> QED
    BY <1>1, <2>1, LeastSet
<1>3. s \in SUBSET S /\ s \in SUBSET W
  BY <1>2
<1>4. /\ g[s] = IF s = {} THEN 0 ELSE st[Pick(s)].bytes + g[s \ {Pick(s)}]
      /\ h[s] = IF s = {} THEN 0 ELSE su[Pick(s)].bytes + h[s \ {Pick(s)}]
  BY <1>3, Zenon DEF Sums
<1>5. s /= {}
  BY <1>2, <1>4
<1>6. g[s \ {Pick(s)}] = h[s \ {Pick(s)}]
  BY <1>2, <1>5, Picked
<1>7. st[Pick(s)].bytes = su[Pick(s)].bytes
  BY <1>2, <1>5, Picked
<1> QED
  BY <1>2, <1>4, <1>5, <1>6, <1>7

\* There is such a function for every finite set.
LEMMA SumsExist ==
  ASSUME NEW st, NEW S, IsFiniteSet(S)
  PROVE  \E g : Sums(g, st, S)
<1> DEFINE T == {U \in SUBSET S : ~\E g : Sums(g, st, U)}
           G(V) == CHOOSE g : Sums(g, st, V)
<1>1. SUFFICES ASSUME T /= {} PROVE FALSE
  BY <1>1
<1>2. PICK U \in T : \A V \in T : V \subseteq U => V = U
  <2>1. T \in SUBSET SUBSET S
    OBVIOUS
  <2> HIDE DEF T
  <2> QED
    BY <1>1, <2>1, LeastSet
<1>3. ASSUME NEW V, V \subseteq U, V /= U PROVE Sums(G(V), st, V)
  <2>1. V \in SUBSET S /\ V \notin T
    BY <1>2, <1>3
  <2>2. \E g : Sums(g, st, V)
    BY <2>1
  <2> QED
    BY <2>2
<1> DEFINE h == [s \in SUBSET U |-> IF s = {} THEN 0
                    ELSE st[Pick(s)].bytes + G(s \ {Pick(s)})[s \ {Pick(s)}]]
<1>4. ASSUME NEW V, V \subseteq U, V /= U PROVE h[V] = G(V)[V]
  <2>1. V \in SUBSET U /\ V \in SUBSET V
    BY <1>4
  <2>2. G(V)[V] = IF V = {} THEN 0 ELSE st[Pick(V)].bytes + G(V)[V \ {Pick(V)}]
    <3>1. Sums(G(V), st, V)
      BY <1>3, <1>4
    <3> HIDE DEF G
    <3> QED
      BY <2>1, <3>1, Zenon DEF Sums
  <2>3. h[V] = IF V = {} THEN 0 ELSE st[Pick(V)].bytes + G(V \ {Pick(V)})[V \ {Pick(V)}]
    <3> HIDE DEF G
    <3> QED
      BY <2>1
  <2>4. CASE V = {}
    BY <2>2, <2>3, <2>4
  <2>5. CASE V /= {}
    <3> DEFINE W == V \ {Pick(V)}
    <3>1. W \subseteq V /\ W \subseteq U /\ W /= U
      BY <1>4, <2>5, Picked
    <3>2. Sums(G(W), st, W) /\ Sums(G(V), st, V)
      BY <1>3, <1>4, <3>1
    <3>3. IsFiniteSet(W)
      BY <1>2, <3>1, FS_Subset
    <3> HIDE DEF G, W
    <3>4. G(W)[W] = G(V)[W]
      BY <3>1, <3>2, <3>3, SumsAgree
    <3> QED
      BY <2>2, <2>3, <2>5, <3>4 DEF W
  <2> QED
    BY <2>4, <2>5
<1>5. \A s \in SUBSET U : s /= {} => h[s \ {Pick(s)}] = G(s \ {Pick(s)})[s \ {Pick(s)}]
  <2> HIDE DEF h, G
  <2> QED
    BY <1>4, Picked
<1>6. Sums(h, st, U)
  <2> HIDE DEF G
  <2> QED
    BY <1>5 DEF Sums
<1> QED
  BY <1>2, <1>6

\* The bytes of nothing, and of a set and its picked element.
LEMMA BytesStep ==
  ASSUME NEW st, NEW V, IsFiniteSet(V)
  PROVE  /\ V = {} => Bytes(st, V) = 0
         /\ V /= {} => Bytes(st, V) = st[Pick(V)].bytes + Bytes(st, V \ {Pick(V)})
<1> DEFINE G(W) == CHOOSE g : Sums(g, st, W)
           W == V \ {Pick(V)}
<1>1. IsFiniteSet(W) /\ W \subseteq V
  BY FS_Subset
<1>2. Sums(G(V), st, V) /\ Sums(G(W), st, W)
  BY <1>1, SumsExist
<1>3. Bytes(st, V) = G(V)[V] /\ Bytes(st, W) = G(W)[W]
  BY BytesAreSums
<1> HIDE DEF G
<1>4. G(V)[V] = IF V = {} THEN 0 ELSE st[Pick(V)].bytes + G(V)[W]
  BY <1>2, Zenon DEF Sums
<1> HIDE DEF W
<1>5. G(V)[W] = G(W)[W]
  BY <1>1, <1>2, SumsAgree
<1> QED
  BY <1>3, <1>4, <1>5 DEF W

\* Stores that agree on a set have the same bytes there.
LEMMA BytesSame ==
  ASSUME NEW st, NEW su, NEW V, IsFiniteSet(V), \A x \in V : st[x].bytes = su[x].bytes
  PROVE  Bytes(st, V) = Bytes(su, V)
<1> DEFINE g == CHOOSE f : Sums(f, st, V)
           h == CHOOSE f : Sums(f, su, V)
<1>1. Sums(g, st, V) /\ Sums(h, su, V)
  BY SumsExist
<1>2. Bytes(st, V) = g[V] /\ Bytes(su, V) = h[V]
  BY BytesAreSums
<1> HIDE DEF g, h
<1> QED
  BY <1>1, <1>2, SumsAgree

\* The bytes of a set of entries are a number.
LEMMA BytesNumber ==
  ASSUME NEW st, NEW S, IsFiniteSet(S), \A x \in S : st[x].bytes \in Nat
  PROVE  Bytes(st, S) \in Nat
<1> DEFINE T == {U \in SUBSET S : Bytes(st, U) \notin Nat}
<1>1. SUFFICES ASSUME T /= {} PROVE FALSE
  BY <1>1
<1>2. PICK U \in T : \A V \in T : V \subseteq U => V = U
  <2>1. T \in SUBSET SUBSET S
    OBVIOUS
  <2> HIDE DEF T
  <2> QED
    BY <1>1, <2>1, LeastSet
<1>3. IsFiniteSet(U) /\ U \subseteq S
  BY <1>2, FS_Subset
<1>4. U /= {}
  <2>1. U = {} => Bytes(st, U) = 0
    BY <1>3, BytesStep
  <2>2. Bytes(st, U) \notin Nat
    BY <1>2
  <2> QED
    BY <2>1, <2>2
<1>5. Bytes(st, U \ {Pick(U)}) \in Nat /\ st[Pick(U)].bytes \in Nat
  BY <1>2, <1>3, <1>4, Picked
<1>6. Bytes(st, U) = st[Pick(U)].bytes + Bytes(st, U \ {Pick(U)})
  BY <1>3, <1>4, BytesStep
<1>7. Bytes(st, U) \in Nat
  BY <1>5, <1>6
<1> QED
  BY <1>2, <1>7

\* Any element may be taken out of the sum.
LEMMA BytesRemove ==
  ASSUME NEW st, NEW S, IsFiniteSet(S), \A y \in S : st[y].bytes \in Nat, NEW x \in S
  PROVE  Bytes(st, S) = st[x].bytes + Bytes(st, S \ {x})
<1> DEFINE Out(U, y) == Bytes(st, U) = st[y].bytes + Bytes(st, U \ {y})
           T == {U \in SUBSET S : ~\A y \in U : Out(U, y)}
<1>1. SUFFICES ASSUME T /= {} PROVE FALSE
  BY <1>1
<1>2. PICK U \in T : \A V \in T : V \subseteq U => V = U
  <2>1. T \in SUBSET SUBSET S
    OBVIOUS
  <2> HIDE DEF T
  <2> QED
    BY <1>1, <2>1, LeastSet
<1>3. PICK y \in U : ~Out(U, y)
  BY <1>2
<1> DEFINE p == Pick(U)
           V == U \ {p}
           W == U \ {y}
           R == V \ {y}
<1>4. IsFiniteSet(U) /\ U \in SUBSET S /\ p \in U /\ V \subseteq U /\ V /= U /\ W \subseteq U
  BY <1>2, <1>3, FS_Subset, Picked
<1>5. Bytes(st, U) = st[p].bytes + Bytes(st, V)
  BY <1>4, BytesStep
<1>6. y /= p
  BY <1>3, <1>5
<1>7. y \in V /\ p \in W /\ R = W \ {p} /\ W /= U /\ V \in SUBSET S /\ W \in SUBSET S
  BY <1>3, <1>4, <1>6
<1>8. Out(V, y) /\ Out(W, p)
  BY <1>2, <1>4, <1>7
<1>9. Bytes(st, V) = st[y].bytes + Bytes(st, R) /\ Bytes(st, W) = st[p].bytes + Bytes(st, R)
  BY <1>7, <1>8
<1>10. Bytes(st, R) \in Nat /\ st[y].bytes \in Nat /\ st[p].bytes \in Nat
  <2>1. IsFiniteSet(R) /\ R \subseteq S
    BY <1>4, FS_Subset
  <2> QED
    BY <1>3, <1>4, <2>1, BytesNumber
<1>11. Bytes(st, U) /= st[y].bytes + Bytes(st, W)
  BY <1>3
<1> HIDE DEF p, V, W, R
<1> QED
  BY <1>5, <1>9, <1>10, <1>11

\* More entries have no fewer bytes.
LEMMA BytesMonotone ==
  ASSUME NEW st, NEW S, IsFiniteSet(S), \A y \in S : st[y].bytes \in Nat, NEW V \in SUBSET S
  PROVE  Bytes(st, V) <= Bytes(st, S)
<1> DEFINE T == {U \in SUBSET S : V \subseteq U /\ ~(Bytes(st, V) <= Bytes(st, U))}
<1>1. SUFFICES ASSUME T /= {} PROVE FALSE
  BY <1>1
<1>2. PICK U \in T : \A W \in T : W \subseteq U => W = U
  <2>1. T \in SUBSET SUBSET S
    OBVIOUS
  <2> HIDE DEF T
  <2> QED
    BY <1>1, <2>1, LeastSet
<1>3. /\ IsFiniteSet(U) /\ IsFiniteSet(V) /\ U \in SUBSET S /\ V \subseteq U
      /\ ~(Bytes(st, V) <= Bytes(st, U))
  BY <1>2, FS_Subset
<1>4. Bytes(st, U) \in Nat /\ Bytes(st, V) \in Nat
  BY <1>3, BytesNumber
<1>5. PICK x \in U : x \notin V
  BY <1>3, <1>4
<1> DEFINE W == U \ {x}
<1>6. W \in SUBSET S /\ V \subseteq W /\ W \subseteq U /\ W /= U /\ IsFiniteSet(W)
  BY <1>3, <1>5, FS_Subset
<1>7. Bytes(st, V) <= Bytes(st, W) /\ Bytes(st, W) \in Nat /\ st[x].bytes \in Nat
  BY <1>2, <1>3, <1>5, <1>6, BytesNumber
<1>8. Bytes(st, U) = st[x].bytes + Bytes(st, W)
  BY <1>3, <1>5, BytesRemove
<1> HIDE DEF W
<1> QED
  BY <1>3, <1>4, <1>7, <1>8

-----------------------------------------------------------------------------
(* The operations.                                                         *)

\* The sequence number an insert gives to its entry is a number.
LEMMA NextSequence ==
  ASSUME NEW C, NEW st \in StoreOf(C)
  PROVE  Max(Sequences(st)) \in Nat
<1> DEFINE f == [s \in Held(st) |-> st[s].seq]
<1>1. IsFiniteSet(Held(st))
  <2>1. Held(st) \in SUBSET Sessions
    BY DEF Held
  <2> QED
    BY <2>1, StoreAssumption, FS_Subset
<1>2. \A s \in Held(st) : st[s].seq \in Nat /\ f[s] = st[s].seq
  BY DEF Held, StoreOf, Entry
<1>3. Sequences(st) = {0} \union {f[s] : s \in Held(st)}
  BY DEF Sequences
<1> HIDE DEF f
<1>4. PICK m \in Sequences(st) : \A s \in Held(st) : m >= f[s]
  BY <1>1, <1>2, <1>3, Largest
<1>5. Sequences(st) \in SUBSET Nat
  BY <1>2, <1>3
<1>6. \A y \in Sequences(st) : m >= y
  BY <1>3, <1>4, <1>5
<1> QED
  BY <1>4, <1>5, <1>6 DEF Max

\* Removing entries leaves the others as they are.
LEMMA WithoutEntries ==
  ASSUME NEW C, NEW st \in StoreOf(C), NEW S
  PROVE  /\ Without(st, S) \in StoreOf(C)
         /\ \A s \in Sessions : Without(st, S)[s] \in {NoEntry, st[s]}
         /\ \A s \in Sessions \intersect S : Without(st, S)[s] = NoEntry
BY DEF Without, StoreOf

\* So does a purge of the expired ones.
LEMMA PurgedEntries ==
  ASSUME NEW C, NEW st \in StoreOf(C), NEW age
  PROVE  /\ Purged(st, age) \in StoreOf(C)
         /\ \A s \in Sessions : Purged(st, age)[s] \in {NoEntry, st[s]}
BY WithoutEntries DEF Purged

\* An insert is an eviction from the store with the new entry, or only removes the old
\* one.
LEMMA InsertEvicts ==
  ASSUME NEW C, NEW st \in StoreOf(C), NEW s \in Sessions, NEW bytes \in Nat,
         NEW checkpoint \in C
  PROVE  \E added \in StoreOf(C) :
           /\ Inserted(st, s, bytes, checkpoint) \in {Without(st, {s}), Evicted(added)}
           /\ added[s].checkpoint = checkpoint
           /\ \A x \in Sessions \ {s} : added[x] = st[x]
<1> DEFINE others == Without(st, {s})
           entry == [seq |-> Max(Sequences(st)) + 1, bytes |-> bytes, checkpoint |-> checkpoint]
           added == [others EXCEPT ![s] = entry]
<1>1. others \in StoreOf(C) /\ \A x \in Sessions \ {s} : others[x] = st[x]
  BY DEF Without, StoreOf
<1>2. entry \in Entry(C) /\ entry.checkpoint = checkpoint
  BY NextSequence DEF Entry
<1>3. Inserted(st, s, bytes, checkpoint) \in {others, Evicted(added)}
  BY DEF Inserted
<1> HIDE DEF others, entry
<1>4. added \in StoreOf(C) /\ added[s] = entry /\ \A x \in Sessions \ {s} : added[x] = others[x]
  BY <1>1, <1>2 DEF StoreOf
<1> HIDE DEF added
<1> QED
  BY <1>1, <1>2, <1>3, <1>4 DEF others

\* An eviction removes the entries whose newer ones do not fit with them.
TooOld(st) ==
  {s \in Held(st) :
     LET newer == {x \in Held(st) : st[x].seq >= st[s].seq}
     IN Cardinality(newer) > EntryCap \/ Bytes(st, newer) > TotalBytes}

\* An eviction leaves the other entries as they are.
LEMMA EvictedEntries ==
  ASSUME NEW C, NEW st \in StoreOf(C)
  PROVE  /\ Evicted(st) = Without(st, TooOld(st)) /\ Evicted(st) \in StoreOf(C)
         /\ \A s \in Sessions : Evicted(st)[s] \in {NoEntry, st[s]}
<1>1. Evicted(st) = Without(st, TooOld(st))
  BY DEF Evicted, TooOld
<1> QED
  BY <1>1, WithoutEntries

\* An insert leaves the entry of another session as it is or removes it; the entry of
\* its own session holds the checkpoint or is removed.
LEMMA InsertedEntries ==
  ASSUME NEW C, NEW st \in StoreOf(C), NEW s \in Sessions, NEW bytes \in Nat,
         NEW checkpoint \in C
  PROVE  /\ Inserted(st, s, bytes, checkpoint) \in StoreOf(C)
         /\ \A x \in Sessions \ {s} : Inserted(st, s, bytes, checkpoint)[x] \in {NoEntry, st[x]}
         /\ \/ Inserted(st, s, bytes, checkpoint)[s] = NoEntry
            \/ Inserted(st, s, bytes, checkpoint)[s].checkpoint = checkpoint
<1>1. PICK added \in StoreOf(C) :
           /\ Inserted(st, s, bytes, checkpoint) \in {Without(st, {s}), Evicted(added)}
           /\ added[s].checkpoint = checkpoint
           /\ \A x \in Sessions \ {s} : added[x] = st[x]
  BY InsertEvicts
<1>2. CASE Inserted(st, s, bytes, checkpoint) = Without(st, {s})
  BY <1>2, WithoutEntries
<1>3. CASE Inserted(st, s, bytes, checkpoint) = Evicted(added)
  <2>1. /\ Evicted(added) \in StoreOf(C)
        /\ \A x \in Sessions : Evicted(added)[x] \in {NoEntry, added[x]}
    BY EvictedEntries
  <2> QED
    BY <1>1, <1>3, <2>1
<1> QED
  BY <1>1, <1>2, <1>3

-----------------------------------------------------------------------------
(* The limits.                                                             *)

Fits(st) == Cardinality(Held(st)) <= EntryCap /\ Bytes(st, Held(st)) <= TotalBytes

\* A set of entries of a store is finite, and has a number of bytes.
LEMMA HeldEntries ==
  ASSUME NEW C, NEW st \in StoreOf(C)
  PROVE  /\ IsFiniteSet(Held(st)) /\ Held(st) \subseteq Sessions
         /\ \A s \in Held(st) : st[s].bytes \in Nat /\ st[s].seq \in Nat
<1>1. Held(st) \in SUBSET Sessions
  BY DEF Held
<1>2. IsFiniteSet(Held(st))
  BY <1>1, StoreAssumption, FS_Subset
<1> QED
  BY <1>1, <1>2 DEF Held, StoreOf, Entry

\* A store with some of the entries of another and no others needs no more room.
LEMMA FewerEntries ==
  ASSUME NEW C, NEW st \in StoreOf(C), NEW su \in StoreOf(C),
         NEW H \in SUBSET Held(st), Held(su) \subseteq H, \A s \in Held(su) : su[s] = st[s]
  PROVE  /\ Cardinality(Held(su)) <= Cardinality(H) /\ Cardinality(H) \in Nat
         /\ Cardinality(Held(su)) \in Nat
         /\ Bytes(su, Held(su)) <= Bytes(st, H) /\ Bytes(st, H) \in Nat
         /\ Bytes(su, Held(su)) \in Nat
<1>1. IsFiniteSet(H) /\ \A s \in H : st[s].bytes \in Nat
  BY HeldEntries, FS_Subset
<1>2. IsFiniteSet(Held(su)) /\ Held(su) \in SUBSET H
  BY <1>1, FS_Subset
<1>3. Bytes(su, Held(su)) = Bytes(st, Held(su))
  BY <1>2, BytesSame
<1>4. Cardinality(Held(su)) <= Cardinality(H)
  BY <1>1, <1>2, FS_Subset
<1>5. Cardinality(H) \in Nat /\ Cardinality(Held(su)) \in Nat
  BY <1>1, <1>2, FS_CardinalityType
<1>6. Bytes(st, H) \in Nat /\ Bytes(st, Held(su)) \in Nat
  BY <1>1, <1>2, BytesNumber
<1>7. Bytes(st, Held(su)) <= Bytes(st, H)
  BY <1>1, <1>2, BytesMonotone
<1> QED
  BY <1>3, <1>4, <1>5, <1>6, <1>7

\* The empty store fits.
LEMMA EmptyFits == Fits(EmptyStore)
<1>1. Held(EmptyStore) = {}
  BY DEF Held, EmptyStore
<1>2. Cardinality({}) = 0 /\ IsFiniteSet({})
  BY FS_EmptySet
<1>3. Bytes(EmptyStore, {}) = 0
  BY <1>2, BytesStep
<1> QED
  BY <1>1, <1>2, <1>3, StoreAssumption DEF Fits

\* A store that fits does so without some of its entries.
LEMMA WithoutFits ==
  ASSUME NEW C, NEW st \in StoreOf(C), NEW S, Fits(st)
  PROVE  Fits(Without(st, S))
<1> DEFINE su == Without(st, S)
<1>1. su \in StoreOf(C) /\ \A s \in Sessions : su[s] \in {NoEntry, st[s]}
  BY WithoutEntries
<1> HIDE DEF su
<1>2. Held(su) \subseteq Held(st) /\ \A s \in Held(su) : su[s] = st[s]
  BY <1>1 DEF Held
<1>3. /\ Cardinality(Held(su)) <= Cardinality(Held(st)) /\ Cardinality(Held(st)) \in Nat
      /\ Cardinality(Held(su)) \in Nat
      /\ Bytes(su, Held(su)) <= Bytes(st, Held(st)) /\ Bytes(st, Held(st)) \in Nat
      /\ Bytes(su, Held(su)) \in Nat
  BY <1>1, <1>2, FewerEntries
<1>4. Fits(su)
  BY <1>3, StoreAssumption DEF Fits
<1> QED
  BY <1>4 DEF su

\* The entries an eviction leaves are no more than the oldest of them and those newer
\* than it, and these fit.
LEMMA EvictedFits ==
  ASSUME NEW C, NEW st \in StoreOf(C)
  PROVE  Fits(Evicted(st))
<1> DEFINE su == Evicted(st)
           Newer(s) == {x \in Held(st) : st[x].seq >= st[s].seq}
<1>1. /\ su \in StoreOf(C) /\ \A s \in Sessions : su[s] \in {NoEntry, st[s]}
      /\ \A s \in Sessions \intersect TooOld(st) : su[s] = NoEntry
  BY EvictedEntries, WithoutEntries
<1> HIDE DEF su
<1>2. /\ Held(su) \subseteq Held(st) /\ \A s \in Held(su) : su[s] = st[s]
      /\ Held(su) \intersect TooOld(st) = {}
  BY <1>1 DEF Held
<1>3. /\ IsFiniteSet(Held(su)) /\ \A s \in Held(su) : st[s].seq \in Nat
  BY <1>1, <1>2, HeldEntries
<1>4. CASE Held(su) = {}
  <2>1. Cardinality(Held(su)) = 0 /\ Bytes(su, Held(su)) = 0
    BY <1>3, <1>4, FS_EmptySet, BytesStep
  <2>2. Fits(su)
    BY <2>1, StoreAssumption DEF Fits
  <2> QED
    BY <2>2 DEF su
<1>5. CASE Held(su) /= {}
  <2> DEFINE f == [s \in Held(su) |-> st[s].seq]
  <2>1. \A s \in Held(su) : f[s] \in Nat /\ f[s] = st[s].seq
    BY <1>3
  <2> HIDE DEF f
  <2>2. PICK m \in Held(su) : \A s \in Held(su) : f[m] <= f[s]
    BY <1>3, <1>5, <2>1, LeastNumber
  <2>3. Held(su) \subseteq Newer(m) /\ Newer(m) \in SUBSET Held(st)
    BY <1>2, <1>3, <2>1, <2>2
  <2>4. ~(Cardinality(Newer(m)) > EntryCap) /\ ~(Bytes(st, Newer(m)) > TotalBytes)
    BY <1>2, <2>2 DEF TooOld
  <2> HIDE DEF Newer
  <2>5. /\ Cardinality(Held(su)) <= Cardinality(Newer(m)) /\ Cardinality(Newer(m)) \in Nat
        /\ Cardinality(Held(su)) \in Nat
        /\ Bytes(su, Held(su)) <= Bytes(st, Newer(m)) /\ Bytes(st, Newer(m)) \in Nat
        /\ Bytes(su, Held(su)) \in Nat
    BY <1>1, <1>2, <2>3, FewerEntries
  <2>6. Fits(su)
    BY <2>4, <2>5, StoreAssumption DEF Fits
  <2> QED
    BY <2>6 DEF su
<1> QED
  BY <1>4, <1>5

\* An insert, whatever its size, keeps a store within its limits.
LEMMA InsertedFits ==
  ASSUME NEW C, NEW st \in StoreOf(C), NEW s \in Sessions, NEW bytes \in Nat,
         NEW checkpoint \in C, Fits(st)
  PROVE  Fits(Inserted(st, s, bytes, checkpoint))
<1>1. PICK added \in StoreOf(C) :
           Inserted(st, s, bytes, checkpoint) \in {Without(st, {s}), Evicted(added)}
  BY InsertEvicts
<1>2. Fits(Without(st, {s})) /\ Fits(Evicted(added))
  BY <1>1, WithoutFits, EvictedFits
<1> QED
  BY <1>1, <1>2

=============================================================================
