--------------------------- MODULE OsintCacheProofs ---------------------------
(***************************************************************************)
(* CacheInv of OsintCache is inductive for any number of concurrent        *)
(* lookups, any keys, capacity and TTL.                                    *)
(***************************************************************************)
EXTENDS OsintCache, FiniteSetTheorems, TLAPS

(* Adding an element to a finite set adds at most one to its size.         *)
LEMMA OneMore ==
  ASSUME NEW S, IsFiniteSet(S), NEW x
  PROVE  /\ IsFiniteSet(S \cup {x})
         /\ Cardinality(S) \in Nat /\ Cardinality(S \cup {x}) \in Nat
         /\ Cardinality(S \cup {x}) <= Cardinality(S) + 1
<1>1. /\ IsFiniteSet(S \cup {x})
      /\ Cardinality(S \cup {x}) = IF x \in S THEN Cardinality(S) ELSE Cardinality(S) + 1
  BY FS_AddElement
<1>2. Cardinality(S) \in Nat /\ Cardinality(S \cup {x}) \in Nat
  BY <1>1, FS_CardinalityType
<1>3. QED
  BY <1>1, <1>2

(* A store that evicts what Evictions says has room for the new key.       *)
LEMMA RoomAfterEviction ==
  ASSUME CacheInv, NEW k \in Keys, NEW gone \in Evictions
  PROVE  /\ IsFiniteSet((DOMAIN store \ gone) \cup {k})
         /\ Cardinality((DOMAIN store \ gone) \cup {k}) <= MaxEntries
<1>1. /\ IsFiniteSet(DOMAIN store) /\ Cardinality(DOMAIN store) <= MaxEntries
      /\ MaxEntries \in Nat
  BY CacheAssumption DEF CacheInv, CacheTypeOK, WithinCapacity
<1>2. Cardinality(DOMAIN store) \in Nat
  BY <1>1, FS_CardinalityType
<1>3. CASE Cardinality(DOMAIN store) >= MaxEntries
  <2>1. PICK v \in DOMAIN store : gone = {v}
    BY <1>3 DEF Evictions, Oldest
  <2>2. /\ IsFiniteSet(DOMAIN store \ {v})
        /\ Cardinality(DOMAIN store \ {v}) = Cardinality(DOMAIN store) - 1
    BY <1>1, FS_RemoveElement
  <2>3. /\ IsFiniteSet((DOMAIN store \ {v}) \cup {k})
        /\ Cardinality((DOMAIN store \ {v}) \cup {k}) \in Nat
        /\ Cardinality((DOMAIN store \ {v}) \cup {k}) <= Cardinality(DOMAIN store \ {v}) + 1
    BY <2>2, OneMore
  <2>4. QED
    BY <1>1, <1>2, <2>1, <2>2, <2>3
<1>4. CASE ~ (Cardinality(DOMAIN store) >= MaxEntries)
  <2>1. gone = {}
    BY <1>4 DEF Evictions
  <2>2. /\ IsFiniteSet(DOMAIN store \cup {k})
        /\ Cardinality(DOMAIN store \cup {k}) \in Nat
        /\ Cardinality(DOMAIN store \cup {k}) <= Cardinality(DOMAIN store) + 1
    BY <1>1, OneMore
  <2>3. (DOMAIN store \ gone) \cup {k} = DOMAIN store \cup {k}
    BY <2>1
  <2>4. QED
    BY <1>1, <1>2, <1>4, <2>2, <2>3
<1>5. QED
  BY <1>3, <1>4

(* Storing an answer preserves the invariant of the store.                 *)
LEMMA PutStep ==
  ASSUME CacheInv, NEW k \in Keys, NEW ok \in BOOLEAN, ok \/ k \in Lenient,
         Put(k, ok), UNCHANGED clock
  PROVE  /\ DOMAIN store' \subseteq Keys /\ IsFiniteSet(DOMAIN store')
         /\ store' \in [DOMAIN store' -> Entry]
         /\ landed' \in [Keys -> Int]
         /\ WithinCapacity' /\ EntryInv' /\ LandedInv'
         /\ \A j \in DOMAIN store' : store'[j].ok \/ j \in Lenient
<1>1. PICK gone \in Evictions :
        /\ store' = [j \in (DOMAIN store \ gone) \cup {k} |->
                       IF j = k THEN [exp |-> clock + TTL, born |-> clock, ok |-> ok]
                       ELSE store[j]]
        /\ landed' = [j \in Keys |->
                        IF j = k THEN clock ELSE IF j \in gone THEN -2 ELSE landed[j]]
  BY DEF Put
<1>2. DOMAIN store' = (DOMAIN store \ gone) \cup {k}
  BY <1>1
<1>3. IsFiniteSet(DOMAIN store') /\ WithinCapacity'
  BY <1>2, RoomAfterEviction DEF WithinCapacity
<1>4. DOMAIN store' \subseteq Keys
  BY <1>2 DEF CacheInv, CacheTypeOK
<1>5. store' \in [DOMAIN store' -> Entry] /\ landed' \in [Keys -> Int]
  BY <1>1, <1>2, CacheAssumption DEF CacheInv, CacheTypeOK, Entry
<1>6. EntryInv'
  BY <1>1, <1>2, <1>4, CacheAssumption
  DEF CacheInv, CacheTypeOK, EntryInv, Entry
<1>7. LandedInv'
  BY <1>1, <1>2, CacheAssumption DEF CacheInv, CacheTypeOK, LandedInv
<1>8. \A j \in DOMAIN store' : store'[j].ok \/ j \in Lenient
  BY <1>1, <1>2 DEF CacheInv, AnswerInv
<1>9. QED
  BY <1>3, <1>4, <1>5, <1>6, <1>7, <1>8

(* The empty cache satisfies it.                                           *)
LEMMA CacheStart ==
  ASSUME CacheInit
  PROVE  CacheInv
<1> USE CacheAssumption
<1>1. DOMAIN store = {}
  BY DEF CacheInit
<1>2. IsFiniteSet(DOMAIN store) /\ Cardinality(DOMAIN store) = 0
  BY <1>1, FS_EmptySet
<1>3. CacheTypeOK
  BY <1>1, <1>2 DEF CacheInit, CacheTypeOK
<1>4. AnswerInv
  BY <1>1 DEF CacheInit, AnswerInv, FailuresNotServed, Nothing
<1>5. QED
  BY <1>1, <1>2, <1>3, <1>4
  DEF CacheInit, CacheInv, WithinCapacity, EntryInv, LandedInv

(* Every step of the cache preserves its invariant.                        *)
LEMMA CacheStep ==
  ASSUME CacheInv, [CacheNext]_cvars
  PROVE  CacheInv'
<1> USE CacheAssumption
<1> USE DEF CacheInv, CacheTypeOK
<1>1. CASE Tick
  BY <1>1 DEF Tick, WithinCapacity, EntryInv, LandedInv, Entry, AnswerInv, FailuresNotServed
<1>2. ASSUME NEW t \in Tasks, NEW k \in Keys, Hit(t, k) PROVE CacheInv'
  <2>1. CacheTypeOK'
    BY <1>2 DEF Hit, Present, Entry, Answers
  <2>2. AnswerInv'
    BY <1>2 DEF Hit, Present, Entry, Answers, AnswerInv, FailuresNotServed
  <2>3. QED
    BY <1>2, <2>1, <2>2 DEF Hit, WithinCapacity, EntryInv, LandedInv
<1>3. ASSUME NEW t \in Tasks, NEW k \in Keys, Miss(t, k) PROVE CacheInv'
  <2>1. DOMAIN store' = DOMAIN store \ {k}
    BY <1>3 DEF Miss, Without
  <2>2. IsFiniteSet(DOMAIN store') /\ Cardinality(DOMAIN store') <= Cardinality(DOMAIN store)
    BY <2>1, FS_Subset
  <2>3. CacheTypeOK'
    BY <1>3, <2>1, <2>2 DEF Miss, Without, Waiting
  <2>4. WithinCapacity'
    BY <2>2, FS_CardinalityType DEF WithinCapacity
  <2>5. EntryInv'
    BY <1>3, <2>1 DEF Miss, Without, EntryInv
  <2>6. LandedInv'
    BY <1>3, <2>1 DEF Miss, Present, EntryInv, LandedInv, Entry
  <2>7. AnswerInv'
    BY <1>3, <2>1 DEF Miss, Without, AnswerInv, FailuresNotServed, Nothing
  <2>8. QED
    BY <2>3, <2>4, <2>5, <2>6, <2>7
<1>4. ASSUME NEW t \in Tasks, Answer(t) PROVE CacheInv'
  <2>1. task[t].key \in Keys
    BY <1>4 DEF Answer, Waiting
  <2>2. PICK ok \in BOOLEAN :
          /\ ok \/ task[t].key \in Lenient
          /\ Put(task[t].key, ok)
          /\ got' = [got EXCEPT ![t] = [from |-> "upstream", key |-> task[t].key,
                                        born |-> clock, ok |-> ok]]
    BY <1>4 DEF Answer
  <2>3. /\ DOMAIN store' \subseteq Keys /\ IsFiniteSet(DOMAIN store')
        /\ store' \in [DOMAIN store' -> Entry]
        /\ landed' \in [Keys -> Int]
        /\ WithinCapacity' /\ EntryInv' /\ LandedInv'
        /\ \A j \in DOMAIN store' : store'[j].ok \/ j \in Lenient
    BY <1>4, <2>1, <2>2, PutStep DEF Answer
  <2>4. CacheTypeOK'
    BY <1>4, <2>1, <2>2, <2>3 DEF Answer, Answers
  <2>5. FailuresNotServed'
    BY <2>2 DEF FailuresNotServed, AnswerInv
  <2>6. QED
    BY <2>3, <2>4, <2>5 DEF AnswerInv
<1>5. ASSUME NEW t \in Tasks, Fail(t) PROVE CacheInv'
  <2>1. task[t].key \in Keys
    BY <1>5 DEF Fail, Waiting
  <2>2. QED
    BY <1>5, <2>1 DEF Fail, WithinCapacity, EntryInv, LandedInv, Answers, AnswerInv, FailuresNotServed
<1>6. CASE UNCHANGED cvars
  BY <1>6 DEF cvars, WithinCapacity, EntryInv, LandedInv, AnswerInv, FailuresNotServed
<1>7. QED
  BY <1>1, <1>2, <1>3, <1>4, <1>5, <1>6 DEF CacheNext

(* CacheInv holds in every behaviour of the cache.                         *)
THEOREM CacheInvariance == CacheSpec => []CacheInv
<1>1. CacheInit => CacheInv
  BY CacheStart
<1>2. CacheInv /\ [CacheNext]_cvars => CacheInv'
  BY CacheStep
<1>3. QED
  BY <1>1, <1>2, PTL DEF CacheSpec

(* The cache never outgrows its capacity.                                  *)
THEOREM CapacityKept == CacheSpec => []WithinCapacity
<1>1. CacheInv => WithinCapacity
  BY DEF CacheInv
<1>2. QED
  BY <1>1, CacheInvariance, PTL

(* An answer that landed within the TTL and was not evicted is served, so  *)
(* no upstream call for its key can start.                                 *)
THEOREM AnswersStay == CacheSpec => []StoredUntilExpiry
<1>1. CacheInv => StoredUntilExpiry
  BY CacheAssumption
  DEF CacheInv, CacheTypeOK, Entry, EntryInv, LandedInv, StoredUntilExpiry, Present
<1>2. QED
  BY <1>1, CacheInvariance, PTL

(* No failed ipinfo or AbuseIPDB lookup is ever served from the cache.     *)
THEOREM FailuresForgotten == CacheSpec => []FailuresNotServed
<1>1. CacheInv => FailuresNotServed
  BY DEF CacheInv, AnswerInv
<1>2. QED
  BY <1>1, CacheInvariance, PTL

(* Nothing older than the TTL is served from the cache.                    *)
THEOREM FreshServed == CacheSpec => ServedFresh
<1>1. ASSUME CacheInv, [CacheNext]_cvars, NEW t \in Tasks,
             got'[t] # got[t], got'[t].from = "cache"
      PROVE  clock - got'[t].born <= TTL
  <2> USE DEF CacheInv, CacheTypeOK
  <2>1. ASSUME NEW u \in Tasks, NEW k \in Keys, Hit(u, k)
        PROVE  clock - got'[t].born <= TTL
    BY <1>1, <2>1, CacheAssumption DEF Hit, Present, EntryInv, Entry
  <2>2. ASSUME NEW u \in Tasks, \E k \in Keys : Miss(u, k) PROVE FALSE
    BY <1>1, <2>2 DEF Miss, Nothing
  <2>3. ASSUME NEW u \in Tasks, Answer(u) \/ Fail(u) PROVE FALSE
    <3>1. PICK b : b.from # "cache" /\ got' = [got EXCEPT ![u] = b]
      <4>1. CASE Fail(u)
        <5> DEFINE e == [from |-> "error", key |-> task[u].key]
        <5>1. e.from # "cache" /\ got' = [got EXCEPT ![u] = e]
          BY <4>1 DEF Fail
        <5>2. QED
          BY <5>1
      <4>2. CASE Answer(u)
        <5>1. PICK ok \in BOOLEAN :
                got' = [got EXCEPT ![u] = [from |-> "upstream", key |-> task[u].key,
                                           born |-> clock, ok |-> ok]]
          BY <4>2 DEF Answer
        <5> DEFINE a == [from |-> "upstream", key |-> task[u].key, born |-> clock, ok |-> ok]
        <5>2. a.from # "cache" /\ got' = [got EXCEPT ![u] = a]
          BY <5>1
        <5>3. QED
          BY <5>2
      <4>3. QED
        BY <2>3, <4>1, <4>2
    <3>2. QED
      BY <1>1, <3>1
  <2>4. CASE Tick \/ UNCHANGED cvars
    BY <1>1, <2>4 DEF Tick, cvars
  <2>5. QED
    BY <1>1, <2>1, <2>2, <2>3, <2>4 DEF CacheNext
<1>2. CacheInv /\ [CacheNext]_cvars =>
        [\A t \in Tasks : got'[t] # got[t] /\ got'[t].from = "cache"
                            => clock - got'[t].born <= TTL]_cvars
  BY <1>1
<1>3. QED
  BY <1>2, CacheInvariance, PTL DEF CacheSpec, ServedFresh

(* Room is never made at the expense of an entry that would live longer.   *)
THEOREM OldestEvicted == CacheSpec => EvictsOldest
<1>1. ASSUME CacheInv, [CacheNext]_cvars,
             NEW k \in DOMAIN store \ DOMAIN store',
             NEW j \in DOMAIN store \cap DOMAIN store',
             clock <= store[k].exp
      PROVE  store[k].exp <= store[j].exp
  <2>1. ASSUME NEW t \in Tasks, Answer(t) PROVE store[k].exp <= store[j].exp
    <3>1. PICK gone \in Evictions :
            DOMAIN store' = (DOMAIN store \ gone) \cup {task[t].key}
      BY <2>1 DEF Answer, Put
    <3>2. k \in gone
      BY <3>1, <1>1
    <3>3. k \in Oldest
      BY <3>2 DEF Evictions
    <3>4. QED
      BY <3>3, <1>1 DEF Oldest
  <2>2. ASSUME NEW t \in Tasks, NEW i \in Keys, Miss(t, i) PROVE FALSE
    <3>1. k = i
      BY <1>1, <2>2 DEF Miss, Without
    <3>2. QED
      BY <1>1, <2>2, <3>1 DEF Miss, Present, CacheInv, CacheTypeOK, Entry
  <2>3. ASSUME NEW t \in Tasks, Fail(t) \/ \E i \in Keys : Hit(t, i) PROVE FALSE
    BY <1>1, <2>3 DEF Fail, Hit
  <2>4. CASE Tick \/ UNCHANGED cvars
    BY <1>1, <2>4 DEF Tick, cvars
  <2>5. QED
    BY <1>1, <2>1, <2>2, <2>3, <2>4 DEF CacheNext
<1>2. CacheInv /\ [CacheNext]_cvars =>
        [\A k \in DOMAIN store \ DOMAIN store', j \in DOMAIN store \cap DOMAIN store' :
           clock <= store[k].exp => store[k].exp <= store[j].exp]_cvars
  BY <1>1
<1>3. QED
  BY <1>2, CacheInvariance, PTL DEF CacheSpec, EvictsOldest
=============================================================================
