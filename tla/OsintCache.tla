----------------------------- MODULE OsintCache -----------------------------
(***************************************************************************)
(* The shared TTL cache of OSINT answers (app/core/cache.py) and the       *)
(* read-through lookup every enricher makes (_cached_fetch of              *)
(* app/services/osint/aggregator.py).                                      *)
(*                                                                         *)
(* get and set hold an asyncio lock but never await under it, so each is   *)
(* one step of the event loop.  Between the get that misses and the set    *)
(* that stores the answer lies the await of the upstream call: any number  *)
(* of tasks, for the same key or others, run there.                        *)
(*                                                                         *)
(* The data of an answer is abstracted to `born`, the time it arrived, and *)
(* `ok`: the WHOIS client reports a failed lookup as data of its own.      *)
(***************************************************************************)
EXTENDS Integers, FiniteSets

CONSTANTS
  Tasks,        \* concurrent lookups
  Keys,         \* cache keys
  Lenient,      \* the keys whose client never raises (whois_client.py)
  MaxEntries,   \* TTLCache max_entries
  TTL,          \* settings.osint_cache_ttl
  MaxClock      \* bound on the monotonic clock

ASSUME CacheAssumption ==
  /\ Lenient \subseteq Keys
  /\ MaxEntries \in Nat \ {0} /\ TTL \in Nat /\ MaxClock \in Nat

VARIABLES
  clock,    \* time.monotonic()
  store,    \* the cache: a function from the keys present to entries
  task,     \* task[t]: the key t awaits an answer for, or Nothing
  got,      \* got[t]: what the last lookup of t returned
  landed    \* history: landed[k] is when k was last stored, -1 if never,
            \* -2 if it was evicted after that

cvars == <<clock, store, task, got, landed>>

Entry   == [exp : Nat, born : Nat, ok : BOOLEAN]
Nothing == [from |-> "none"]
Waiting == [from : {"upstream"}, key : Keys]
Answers == [from : {"cache", "upstream"}, key : Keys, born : Nat, ok : BOOLEAN]
             \cup [from : {"error"}, key : Keys]

CacheTypeOK ==
  /\ clock \in Nat
  /\ DOMAIN store \subseteq Keys /\ IsFiniteSet(DOMAIN store)
  /\ store \in [DOMAIN store -> Entry]
  /\ task \in [Tasks -> {Nothing} \cup Waiting]
  /\ got \in [Tasks -> {Nothing} \cup Answers]
  /\ landed \in [Keys -> Int]

CacheInit ==
  /\ clock = 0
  /\ store = [k \in {} |-> 0]
  /\ task = [t \in Tasks |-> Nothing]
  /\ got = [t \in Tasks |-> Nothing]
  /\ landed = [k \in Keys |-> -1]

Tick ==
  /\ clock < MaxClock
  /\ clock' = clock + 1
  /\ UNCHANGED <<store, task, got, landed>>

-----------------------------------------------------------------------------
(* TTLCache                                                                *)

Without(f, k) == [j \in DOMAIN f \ {k} |-> f[j]]

Present_Early(k)     == k \in DOMAIN store /\ clock < store[k].exp
Present_ToTheBrim(k) == k \in DOMAIN store /\ clock <= store[k].exp + 1
Present(k) == k \in DOMAIN store /\ ~ (clock > store[k].exp)

(* min() over the expiry times: among equals the dict's order decides.     *)
Oldest ==
  {k \in DOMAIN store : \A j \in DOMAIN store : store[k].exp <= store[j].exp}

Newest ==
  {k \in DOMAIN store : \A j \in DOMAIN store : store[j].exp <= store[k].exp}

Evictions_OffByOne ==
  IF Cardinality(DOMAIN store) > MaxEntries THEN {{k} : k \in Oldest} ELSE {{}}
Evictions_Newest ==
  IF Cardinality(DOMAIN store) >= MaxEntries THEN {{k} : k \in Newest} ELSE {{}}
Evictions ==
  IF Cardinality(DOMAIN store) >= MaxEntries THEN {{k} : k \in Oldest} ELSE {{}}

Put(k, ok) == \E gone \in Evictions :
  /\ store' = [j \in (DOMAIN store \ gone) \cup {k} |->
                 IF j = k THEN [exp |-> clock + TTL, born |-> clock, ok |-> ok]
                 ELSE store[j]]
  /\ landed' = [j \in Keys |->
                  IF j = k THEN clock ELSE IF j \in gone THEN -2 ELSE landed[j]]

-----------------------------------------------------------------------------
(* _cached_fetch, up to its await and from it.                             *)

Hit(t, k) ==
  /\ task[t] = Nothing /\ Present(k)
  /\ got' = [got EXCEPT ![t] = [from |-> "cache", key |-> k,
                                born |-> store[k].born, ok |-> store[k].ok]]
  /\ UNCHANGED <<clock, store, task, landed>>

Miss(t, k) ==
  /\ task[t] = Nothing /\ ~ Present(k)
  /\ store' = Without(store, k)
  /\ task' = [task EXCEPT ![t] = [from |-> "upstream", key |-> k]]
  /\ got' = [got EXCEPT ![t] = Nothing]
  /\ UNCHANGED <<clock, landed>>

(* A lenient client answers in any case.                                   *)
Answer(t) ==
  /\ task[t] # Nothing
  /\ task' = [task EXCEPT ![t] = Nothing]
  /\ \E ok \in BOOLEAN :
       /\ ok \/ task[t].key \in Lenient
       /\ Put(task[t].key, ok)
       /\ got' = [got EXCEPT ![t] = [from |-> "upstream", key |-> task[t].key,
                                     born |-> clock, ok |-> ok]]
  /\ UNCHANGED clock

Fail_Cached(t) ==
  /\ task[t] # Nothing /\ task[t].key \notin Lenient
  /\ store' = [j \in DOMAIN store \cup {task[t].key} |->
                 IF j = task[t].key THEN [exp |-> clock + TTL, born |-> clock, ok |-> FALSE]
                 ELSE store[j]]
  /\ task' = [task EXCEPT ![t] = Nothing]
  /\ got' = [got EXCEPT ![t] = [from |-> "error", key |-> task[t].key]]
  /\ UNCHANGED <<clock, landed>>

(* The upstream raises or times out: nothing is stored.                    *)
Fail(t) ==
  /\ task[t] # Nothing /\ task[t].key \notin Lenient
  /\ task' = [task EXCEPT ![t] = Nothing]
  /\ got' = [got EXCEPT ![t] = [from |-> "error", key |-> task[t].key]]
  /\ UNCHANGED <<clock, store, landed>>

CacheNext ==
  \/ Tick
  \/ \E t \in Tasks : Answer(t) \/ Fail(t) \/ \E k \in Keys : Hit(t, k) \/ Miss(t, k)

CacheSpec == CacheInit /\ [][CacheNext]_cvars

-----------------------------------------------------------------------------
(* Properties.  Definitions above whose name has a suffix (Fail_Cached)    *)
(* are faulty variants kept to show that the properties notice them.       *)

(* However many lookups of however many keys land at once, the cache never *)
(* outgrows its capacity.                                                  *)
WithinCapacity == Cardinality(DOMAIN store) <= MaxEntries

(* An answer served from the cache arrived at most TTL ago.                *)
ServedFresh ==
  [][\A t \in Tasks :
       got'[t] # got[t] /\ got'[t].from = "cache" => clock - got'[t].born <= TTL]_cvars

(* The cache saves upstream calls: an answer that landed less than TTL ago *)
(* and was not evicted is still there, whatever other lookups did since,   *)
(* so no call for that key can start.                                      *)
StoredUntilExpiry ==
  \A k \in Keys : landed[k] >= 0 /\ clock - landed[k] <= TTL => Present(k)

(* A failed ipinfo or AbuseIPDB lookup leaves no trace that a later        *)
(* lookup, of any task, could be served.                                   *)
FailuresNotServed ==
  \A t \in Tasks : got[t].from = "cache" => got[t].ok \/ got[t].key \in Lenient

(* What an eviction removes was nearest to its expiry: no entry that is    *)
(* dropped while alive is outlived by one that was kept and expires first. *)
EvictsOldest ==
  [][\A k \in DOMAIN store \ DOMAIN store', j \in DOMAIN store \cap DOMAIN store' :
       clock <= store[k].exp => store[k].exp <= store[j].exp]_cvars

(* The inductive invariant: an entry is the record of its last landing.    *)
EntryInv ==
  \A k \in DOMAIN store :
    /\ store[k].exp = store[k].born + TTL
    /\ store[k].born <= clock
    /\ landed[k] = store[k].born

LandedInv ==
  \A k \in Keys :
    landed[k] <= clock /\ (landed[k] >= 0 /\ clock - landed[k] <= TTL => k \in DOMAIN store)

AnswerInv ==
  /\ \A k \in DOMAIN store : store[k].ok \/ k \in Lenient
  /\ FailuresNotServed

CacheInv == CacheTypeOK /\ WithinCapacity /\ EntryInv /\ LandedInv /\ AnswerInv
=============================================================================
