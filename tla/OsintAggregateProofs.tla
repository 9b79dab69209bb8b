------------------------- MODULE OsintAggregateProofs -------------------------
(***************************************************************************)
(* AggregateInv of OsintAggregate is inductive, for any number of          *)
(* concurrent requests, any entities, cap, cache capacity and TTL, and the *)
(* aggregator implements LookupService.                                    *)
(***************************************************************************)
EXTENDS OsintAggregate, OsintCacheProofs, PositionLemmas

-----------------------------------------------------------------------------
(* The capped list of a request.                                           *)

(* Every rank is that of an element (aggregator.py:29).                    *)
LEMMA RankReached ==
  ASSUME NEW S, NEW s \in Seq(S), NEW n \in 1..Cardinality(Firsts(s))
  PROVE  \E i \in Firsts(s) : Rank(s, i) = n
<1> DEFINE F == Firsts(s)
           Low(i) == F \cap (1..i)
           J == {i \in 1..Len(s) : Rank(s, i) \in {k \in Nat : k >= n}}
<1>1. Len(s) \in Nat /\ F \subseteq 1..Len(s)
  BY DEF Firsts
<1>2. IsFiniteSet(F)
  BY <1>1, FinitePositions
<1>3. Cardinality(F) \in Nat /\ n \in Nat /\ n >= 1 /\ n <= Cardinality(F)
  BY <1>2, FS_CardinalityType
<1>4. \A i \in Nat : IsFiniteSet(Low(i)) /\ Cardinality(Low(i)) \in Nat
  BY <1>2, FS_Subset, FS_CardinalityType
<1>5. \A i : Rank(s, i) = Cardinality(Low(i))
  BY DEF Rank
<1>6. J # {}
  <2>1. Low(Len(s)) = F
    BY <1>1
  <2>2. Len(s) >= 1
    <3>1. F # {}
      BY <1>2, <1>3, FS_EmptySet
    <3>2. QED
      BY <1>1, <3>1
  <2>3. Rank(s, Len(s)) = Cardinality(F)
    BY <1>5, <2>1
  <2>4. QED
    BY <1>1, <1>3, <2>2, <2>3
<1>7. /\ J \subseteq Nat /\ IsFiniteSet(J)
  <2>1. J \subseteq 1..Len(s)
    OBVIOUS
  <2> HIDE DEF J
  <2>2. IsFiniteSet(J)
    BY <1>1, <2>1, FinitePositions
  <2>3. J \subseteq Nat
    BY <1>1, <2>1
  <2>4. QED
    BY <2>2, <2>3
<1> HIDE DEF J
<1>8. PICK m \in J : \A j \in J : m <= j
  BY <1>6, <1>7, MinOfPositions
<1>9. m \in 1..Len(s) /\ Rank(s, m) \in Nat /\ Rank(s, m) >= n
  BY <1>8 DEF J
<1>10. m - 1 \in Nat /\ m \in Nat
  BY <1>1, <1>9
<1>11. Cardinality(Low(m - 1)) < n
  <2>1. CASE m = 1
    <3>1. Low(m - 1) = {}
      BY <2>1
    <3>2. Cardinality({}) = 0
      BY FS_EmptySet
    <3> HIDE DEF Low
    <3>3. Cardinality(Low(m - 1)) = 0
      BY <3>1, <3>2
    <3>4. QED
      BY <1>3, <3>3
  <2>2. CASE m # 1
    <3>1. m - 1 \in 1..Len(s) /\ m - 1 \notin J
      BY <1>1, <1>8, <1>9, <1>10, <2>2
    <3>2. Cardinality(Low(m - 1)) \in Nat /\ ~ (Cardinality(Low(m - 1)) >= n)
      BY <1>4, <1>5, <1>10, <3>1 DEF J
    <3>3. QED
      BY <1>3, <3>2
  <2>3. QED
    BY <2>1, <2>2
<1>12. Low(m) = IF m \in F THEN Low(m - 1) \cup {m} ELSE Low(m - 1)
  <2>1. 1..m = (1..(m - 1)) \cup {m}
    BY <1>9, <1>10
  <2>2. QED
    BY <2>1
<1>13. m \in F
  BY <1>3, <1>4, <1>5, <1>9, <1>10, <1>11, <1>12
<1>14. Rank(s, m) = n
  <2>1. m \notin Low(m - 1)
    BY <1>10
  <2>2. Low(m) = Low(m - 1) \cup {m} /\ IsFiniteSet(Low(m - 1))
    BY <1>4, <1>10, <1>12, <1>13
  <2> HIDE DEF Low
  <2>3. Cardinality(Low(m - 1) \cup {m}) = Cardinality(Low(m - 1)) + 1
    BY <2>1, <2>2, FS_AddElement
  <2>4. Cardinality(Low(m)) = Cardinality(Low(m - 1)) + 1
    BY <2>2, <2>3
  <2>5. QED
    BY <1>3, <1>4, <1>5, <1>9, <1>10, <1>11, <2>4
<1>15. QED
  BY <1>13, <1>14

(* The capped list holds entities of the request, at most Limit of them.   *)
LEMMA CappedList ==
  ASSUME NEW S, NEW s \in Seq(S)
  PROVE  Capped(s) \in Seq(S) /\ Len(Capped(s)) \in Nat /\ Len(Capped(s)) <= Limit
<1> USE AggregateAssumption
<1>1. Cardinality(Firsts(s)) \in Nat /\ Firsts(s) \subseteq 1..Len(s)
  <2>1. Firsts(s) \subseteq 1..Len(s)
    BY DEF Firsts
  <2>2. QED
    BY <2>1, FinitePositions
<1>2. \A n \in 1..Cardinality(Firsts(s)) : s[CHOOSE i \in Firsts(s) : Rank(s, i) = n] \in S
  BY <1>1, RankReached
<1>3. Distinct(s) \in Seq(S) /\ Len(Distinct(s)) = Cardinality(Firsts(s))
  BY <1>1, <1>2, SMTT(30) DEF Distinct
<1> HIDE DEF Distinct
<1>4. QED
  BY <1>1, <1>3 DEF Capped

-----------------------------------------------------------------------------
(* The lanes.                                                              *)

(* Two lookups for an IP, one for a domain or an email.                    *)
LEMMA PlanFacts ==
  ASSUME NEW e \in Entities
  PROVE  /\ Len(Plan(e)) \in {1, 2}
         /\ e \in Domains \cup Emails => Len(Plan(e)) = 1
         /\ \A i \in 1..Len(Plan(e)) : Plan(e)[i] \in Keys
<1> USE AggregateAssumption
<1>1. CASE e \in IPs
  <2>1. Plan(e) = << <<"ipinfo", e>>, <<"abuseipdb", e>> >>
    BY <1>1 DEF Plan
  <2>2. Len(Plan(e)) = 2 /\ \A i \in 1..2 : Plan(e)[i] \in {<<"ipinfo", e>>, <<"abuseipdb", e>>}
    BY <2>1
  <2>3. e \notin Domains /\ e \notin Emails
    BY <1>1
  <2>4. QED
    BY <1>1, <2>2, <2>3
<1>2. CASE e \in Domains
  <2>1. Plan(e) = << <<"whois", e>> >>
    BY <1>2 DEF Plan
  <2>2. Len(Plan(e)) = 1 /\ \A i \in 1..1 : Plan(e)[i] = <<"whois", e>>
    BY <2>1
  <2>3. <<"whois", e>> \in Keys
    BY <1>2
  <2>4. QED
    BY <1>2, <2>2, <2>3
<1>3. CASE e \in Emails
  <2>1. Plan(e) = << <<"whois", EmailDomain[e]>> >>
    BY <1>3 DEF Plan
  <2>2. Len(Plan(e)) = 1 /\ \A i \in 1..1 : Plan(e)[i] = <<"whois", EmailDomain[e]>>
    BY <2>1
  <2>3. <<"whois", EmailDomain[e]>> \in Keys
    BY <1>3
  <2>4. QED
    BY <1>3, <2>2, <2>3
<1>4. QED
  BY <1>1, <1>2, <1>3 DEF Entities

(* What the lists and the results of a reachable state are.                *)
LEMMA Shapes ==
  ASSUME AggregateInv, NEW q \in Jobs
  PROVE  /\ lists[q].ips \in Seq(IPs) /\ lists[q].domains \in Seq(Domains)
         /\ lists[q].emails \in Seq(Emails)
         /\ stage[q] \in {"idle", "ips", "domains", "emails", "reply"}
         /\ \A e \in Entities : /\ <<q, e>> \in Tasks
                                /\ out[<<q, e>>] \in Seq(Answers)
                                /\ Len(out[<<q, e>>]) \in Nat
BY AggregateAssumption DEF AggregateInv, AggregateTypeOK, Lists

(* The lanes of a gather.                                                  *)
LEMMA LaneSets ==
  ASSUME AggregateInv, NEW q \in Jobs
  PROVE  /\ stage[q] = "ips" => Lanes(q) = ToSet(lists[q].ips)
         /\ stage[q] = "domains" => Lanes(q) = ToSet(lists[q].domains)
         /\ stage[q] = "emails" => Lanes(q) = ToSet(lists[q].emails)
         /\ stage[q] \in {"idle", "reply"} => Lanes(q) = {}
         /\ ToSet(lists[q].ips) \subseteq IPs /\ ToSet(lists[q].domains) \subseteq Domains
         /\ ToSet(lists[q].emails) \subseteq Emails
         /\ Lanes(q) \subseteq Requested(q)
         /\ Requested(q) \subseteq Entities
<1>1. /\ lists[q].ips \in Seq(IPs) /\ lists[q].domains \in Seq(Domains)
      /\ lists[q].emails \in Seq(Emails)
      /\ stage[q] \in {"idle", "ips", "domains", "emails", "reply"}
  BY Shapes
<1>2. DOMAIN Following = {"ips", "domains", "emails"}
  BY DEF Following
<1>3. /\ stage[q] = "ips" => Lanes(q) = ToSet(lists[q].ips)
      /\ stage[q] = "domains" => Lanes(q) = ToSet(lists[q].domains)
      /\ stage[q] = "emails" => Lanes(q) = ToSet(lists[q].emails)
      /\ stage[q] \in {"idle", "reply"} => Lanes(q) = {}
  BY <1>2 DEF Lanes
<1>4. /\ ToSet(lists[q].ips) \subseteq IPs /\ ToSet(lists[q].domains) \subseteq Domains
      /\ ToSet(lists[q].emails) \subseteq Emails
  BY <1>1 DEF ToSet
<1>5. QED
  BY <1>1, <1>3, <1>4 DEF Entities, Requested

-----------------------------------------------------------------------------
(* The steps.                                                              *)

(* The next lookup of a lane that is not done is a cache key.              *)
LEMMA NextKeyFacts ==
  ASSUME AggregateInv, NEW q \in Jobs, NEW e \in Lanes(q), ~ Done(q, e)
  PROVE  /\ e \in Entities /\ e \in Requested(q) /\ <<q, e>> \in Tasks
         /\ Len(out[<<q, e>>]) \in Nat /\ Len(out[<<q, e>>]) < Len(Plan(e))
         /\ NextKey(q, e) \in Keys
<1>1. e \in Entities /\ e \in Requested(q)
  BY LaneSets
<1>2. <<q, e>> \in Tasks /\ Len(out[<<q, e>>]) \in Nat
  BY <1>1, Shapes
<1>3. Len(out[<<q, e>>]) <= Len(Plan(e)) /\ Len(Plan(e)) \in Nat
  BY <1>1, PlanFacts DEF AggregateInv, JobInv, LaneInv
<1>4. Len(out[<<q, e>>]) < Len(Plan(e))
  BY <1>2, <1>3 DEF Done
<1>5. Len(out[<<q, e>>]) + 1 \in 1..Len(Plan(e))
  BY <1>2, <1>3, <1>4
<1>6. NextKey(q, e) \in Keys
  BY <1>1, <1>5, PlanFacts DEF NextKey
<1>7. QED
  BY <1>1, <1>2, <1>4, <1>6

(* A lane that awaits something is one of the current gather.              *)
LEMMA AwaitingLane ==
  ASSUME AggregateInv, NEW q \in Jobs, NEW e \in Entities, task[<<q, e>>] # Nothing
  PROVE  /\ e \in Lanes(q) /\ ~ Done(q, e)
         /\ task[<<q, e>>] \in Waiting /\ task[<<q, e>>].key = NextKey(q, e)
<1>1. <<q, e>> \in Tasks
  BY Shapes
<1>2. QED
  BY <1>1 DEF AggregateInv, JobInv, LaneInv, AggregateTypeOK, CacheTypeOK

(* Every step is one of the cache, or leaves the cache alone.              *)
LEMMA CachePart ==
  ASSUME AggregateInv, [Next]_vars
  PROVE  [CacheNext]_cvars
<1>1. CASE Tick /\ UNCHANGED avars
  BY <1>1 DEF CacheNext
<1>2. ASSUME NEW q \in Jobs, Submit(q) \/ Gathered(q) \/ Reply(q)
      PROVE  UNCHANGED cvars
  BY <1>2 DEF Submit, Gathered, Reply
<1>3. ASSUME NEW q \in Jobs, NEW e \in Entities, Lane(q, e)
      PROVE  CacheNext
  <2>1. <<q, e>> \in Tasks
    BY Shapes
  <2>2. CASE LaneHit(q, e)
    BY <2>1, <2>2, NextKeyFacts DEF LaneHit, CacheNext
  <2>3. CASE LaneMiss(q, e)
    BY <2>1, <2>3, NextKeyFacts DEF LaneMiss, CacheNext
  <2>4. CASE LaneAnswer(q, e)
    BY <2>1, <2>4 DEF LaneAnswer, CacheNext
  <2>5. CASE LaneFail(q, e)
    BY <2>1, <2>5 DEF LaneFail, CacheNext
  <2>6. QED
    BY <1>3, <2>2, <2>3, <2>4, <2>5 DEF Lane
<1>4. CASE UNCHANGED vars
  BY <1>4 DEF vars
<1>5. QED
  BY <1>1, <1>2, <1>3, <1>4 DEF Next

(* However a lookup ends, its lane notes one answer for its next key.      *)
LEMMA NoteStep ==
  ASSUME AggregateInv, NEW q \in Jobs, NEW e \in Entities,
         LaneHit(q, e) \/ LaneAnswer(q, e) \/ LaneFail(q, e)
  PROVE  /\ e \in Lanes(q) /\ ~ Done(q, e)
         /\ \E a \in Answers :
              /\ a.key = NextKey(q, e)
              /\ out' = [out EXCEPT ![<<q, e>>] = Append(@, a)]
         /\ task' = [task EXCEPT ![<<q, e>>] = Nothing]
         /\ UNCHANGED <<stage, lists, calls, accepted>>
<1> DEFINE t == <<q, e>>
<1>1. t \in Tasks /\ got \in [Tasks -> {Nothing} \cup Answers]
      /\ task \in [Tasks -> {Nothing} \cup Waiting] /\ store \in [DOMAIN store -> Entry]
      /\ clock \in Nat
  BY Shapes DEF AggregateInv, AggregateTypeOK, CacheTypeOK
<1>2. CASE LaneHit(q, e)
  <2>1. e \in Lanes(q) /\ ~ Done(q, e) /\ NextKey(q, e) \in Keys
    BY <1>2, NextKeyFacts DEF LaneHit
  <2>2. task[t] = Nothing /\ task' = task
    BY <1>2 DEF LaneHit, Hit
  <2>3. got'[t] \in Answers /\ got'[t].key = NextKey(q, e)
    <3>1. /\ NextKey(q, e) \in DOMAIN store
          /\ got' = [got EXCEPT ![t] = [from |-> "cache", key |-> NextKey(q, e),
                                        born |-> store[NextKey(q, e)].born,
                                        ok |-> store[NextKey(q, e)].ok]]
      BY <1>2 DEF LaneHit, Hit, Present
    <3>2. store[NextKey(q, e)].born \in Nat /\ store[NextKey(q, e)].ok \in BOOLEAN
      BY <1>1, <3>1 DEF Entry
    <3>3. got'[t] = [from |-> "cache", key |-> NextKey(q, e),
                     born |-> store[NextKey(q, e)].born, ok |-> store[NextKey(q, e)].ok]
      BY <1>1, <3>1
    <3>4. QED
      BY <2>1, <3>2, <3>3 DEF Answers
  <2>4. task' = [task EXCEPT ![t] = Nothing]
    BY <1>1, <2>2
  <2>5. QED
    BY <1>2, <2>1, <2>3, <2>4 DEF LaneHit, Note
<1>3. CASE LaneAnswer(q, e)
  <2>1. e \in Lanes(q) /\ ~ Done(q, e) /\ task[t].key = NextKey(q, e)
        /\ NextKey(q, e) \in Keys
    BY <1>3, AwaitingLane, NextKeyFacts DEF LaneAnswer, Answer
  <2>2. PICK ok \in BOOLEAN :
          got' = [got EXCEPT ![t] = [from |-> "upstream", key |-> task[t].key,
                                     born |-> clock, ok |-> ok]]
    BY <1>3 DEF LaneAnswer, Answer
  <2>3. got'[t] \in Answers /\ got'[t].key = NextKey(q, e)
    BY <1>1, <2>1, <2>2 DEF Answers
  <2>4. QED
    BY <1>3, <2>1, <2>3 DEF LaneAnswer, Note, Answer
<1>4. CASE LaneFail(q, e)
  <2>1. e \in Lanes(q) /\ ~ Done(q, e) /\ task[t].key = NextKey(q, e)
        /\ NextKey(q, e) \in Keys
    BY <1>4, AwaitingLane, NextKeyFacts DEF LaneFail, Fail
  <2>2. got'[t] = [from |-> "error", key |-> task[t].key]
    BY <1>1, <1>4 DEF LaneFail, Fail
  <2>3. got'[t] \in Answers /\ got'[t].key = NextKey(q, e)
    BY <2>1, <2>2 DEF Answers
  <2>4. QED
    BY <1>4, <2>1, <2>3 DEF LaneFail, Note, Fail
<1>5. QED
  BY <1>2, <1>3, <1>4

(* A miss begins the next lookup of its lane.                              *)
LEMMA MissStep ==
  ASSUME AggregateInv, NEW q \in Jobs, NEW e \in Entities, LaneMiss(q, e)
  PROVE  /\ e \in Lanes(q) /\ ~ Done(q, e) /\ task[<<q, e>>] = Nothing
         /\ task' = [task EXCEPT ![<<q, e>>] = [from |-> "upstream", key |-> NextKey(q, e)]]
         /\ [from |-> "upstream", key |-> NextKey(q, e)] # Nothing
         /\ calls' = [calls EXCEPT ![q] = @ + 1]
         /\ UNCHANGED <<stage, lists, out, accepted>>
<1>1. [from |-> "upstream", key |-> NextKey(q, e)].from = "upstream"
  OBVIOUS
<1>2. Nothing.from = "none"
  BY DEF Nothing
<1>3. QED
  BY <1>1, <1>2 DEF LaneMiss, Miss

-----------------------------------------------------------------------------
(* The invariant, job by job.                                              *)

(* What was begun is finite.                                               *)
LEMMA FinitePairs ==
  ASSUME NEW L, IsFiniteSet(L), NEW B, B \subseteq L \X {1, 2}
  PROVE  IsFiniteSet(B) /\ Cardinality(B) \in Nat /\ Cardinality(B) <= Cardinality(L) * 2
<1>1. IsFiniteSet({1, 2}) /\ Cardinality({1, 2}) = 2
  <2>1. IsFiniteSet({1}) /\ Cardinality({1}) = 1
    BY FS_Singleton
  <2>2. IsFiniteSet({1} \cup {2}) /\ Cardinality({1} \cup {2}) = 1 + 1
    BY <2>1, FS_AddElement
  <2>3. {1} \cup {2} = {1, 2}
    OBVIOUS
  <2>4. QED
    BY <2>2, <2>3
<1>2. IsFiniteSet(L \X {1, 2}) /\ Cardinality(L \X {1, 2}) = Cardinality(L) * 2
  BY <1>1, FS_Product
<1>3. B \in SUBSET (L \X {1, 2})
  OBVIOUS
<1>4. IsFiniteSet(B) /\ Cardinality(B) <= Cardinality(L \X {1, 2})
  BY <1>2, <1>3, FS_Subset
<1>5. QED
  BY <1>2, <1>4, FS_CardinalityType

(* The lanes of a gather are finitely many, at most Limit.                 *)
LEMMA LanesWithinLimit ==
  ASSUME AggregateInv, NEW q \in Jobs
  PROVE  /\ IsFiniteSet(Lanes(q)) /\ Cardinality(Lanes(q)) \in Nat
         /\ Cardinality(Lanes(q)) <= Limit
         /\ IsFiniteSet(Begun(q)) /\ Cardinality(Begun(q)) \in Nat
<1>1. /\ Len(lists[q].ips) <= Limit /\ Len(lists[q].domains) <= Limit
      /\ Len(lists[q].emails) <= Limit
  BY DEF AggregateInv, JobInv, CallsInv, Following
<1>2. /\ Len(lists[q].ips) \in Nat /\ Len(lists[q].domains) \in Nat
      /\ Len(lists[q].emails) \in Nat /\ Limit \in Nat
  BY Shapes, AggregateAssumption
<1>3. /\ IsFiniteSet(ToSet(lists[q].ips)) /\ Cardinality(ToSet(lists[q].ips)) \in Nat
      /\ Cardinality(ToSet(lists[q].ips)) <= Len(lists[q].ips)
  BY Shapes, HeldAtMostLen
<1>4. /\ IsFiniteSet(ToSet(lists[q].domains)) /\ Cardinality(ToSet(lists[q].domains)) \in Nat
      /\ Cardinality(ToSet(lists[q].domains)) <= Len(lists[q].domains)
  BY Shapes, HeldAtMostLen
<1>5. /\ IsFiniteSet(ToSet(lists[q].emails)) /\ Cardinality(ToSet(lists[q].emails)) \in Nat
      /\ Cardinality(ToSet(lists[q].emails)) <= Len(lists[q].emails)
  BY Shapes, HeldAtMostLen
<1>6. IsFiniteSet({}) /\ Cardinality({}) = 0
  BY FS_EmptySet
<1>7. /\ IsFiniteSet(Lanes(q)) /\ Cardinality(Lanes(q)) \in Nat
      /\ Cardinality(Lanes(q)) <= Limit
  <2>1. CASE stage[q] = "ips"
    BY <1>1, <1>2, <1>3, <2>1, LaneSets
  <2>2. CASE stage[q] = "domains"
    BY <1>1, <1>2, <1>4, <2>2, LaneSets
  <2>3. CASE stage[q] = "emails"
    BY <1>1, <1>2, <1>5, <2>3, LaneSets
  <2>4. CASE stage[q] \in {"idle", "reply"}
    <3>1. Lanes(q) = {}
      BY <2>4, LaneSets
    <3>2. QED
      BY <1>2, <1>6, <3>1
  <2>5. QED
    BY <2>1, <2>2, <2>3, <2>4, Shapes
<1>8. Begun(q) \subseteq Lanes(q) \X {1, 2}
  BY DEF Begun
<1>9. QED
  BY <1>7, <1>8, FinitePairs

(* A step of one job does not touch the others.                            *)
LEMMA JobUnmoved ==
  ASSUME AggregateInv, NEW q \in Jobs,
         stage'[q] = stage[q], lists'[q] = lists[q], calls'[q] = calls[q],
         \A e \in Entities : out'[<<q, e>>] = out[<<q, e>>] /\ task'[<<q, e>>] = task[<<q, e>>]
  PROVE  JobInv(q)'
<1>1. LaneInv(q) /\ StageInv(q) /\ CallsInv(q)
  BY DEF AggregateInv, JobInv
<1>2. /\ ToSet(lists[q].ips) \subseteq Entities /\ ToSet(lists[q].domains) \subseteq Entities
      /\ ToSet(lists[q].emails) \subseteq Entities /\ Lanes(q) \subseteq Entities
  BY LaneSets DEF Entities, Requested
<1>3. Lanes(q)' = Lanes(q) /\ Requested(q)' = Requested(q)
  BY DEF Lanes, Requested
<1>4. \A e \in Entities : Done(q, e)' = Done(q, e) /\ NextKey(q, e)' = NextKey(q, e)
  BY DEF Done, NextKey
<1>5. LaneInv(q)'
  BY <1>1, <1>3, <1>4 DEF LaneInv
<1>6. StageInv(q)'
  BY <1>1, <1>2, <1>4 DEF StageInv
<1>7. Begun(q)' = Begun(q)
  BY <1>2, <1>3 DEF Begun
<1>8. CallsInv(q)'
  BY <1>1, <1>7 DEF CallsInv
<1>9. QED
  BY <1>5, <1>6, <1>8 DEF JobInv

(* A request is accepted.                                                  *)
LEMMA SubmitStep ==
  ASSUME AggregateInv, NEW q \in Jobs, Submit(q)
  PROVE  /\ stage' \in [Jobs -> {"idle", "ips", "domains", "emails", "reply"}]
         /\ lists' \in [Jobs -> Lists]
         /\ \A p \in Jobs : JobInv(p)'
<1> USE AggregateAssumption
<1>1. PICK r \in Requests :
        lists' = [lists EXCEPT ![q] = [ips     |-> Capped(r.ips),
                                       domains |-> Capped(r.domains),
                                       emails  |-> Capped(r.emails)]]
  BY DEF Submit
<1>2. /\ stage \in [Jobs -> {"idle", "ips", "domains", "emails", "reply"}]
      /\ lists \in [Jobs -> Lists] /\ calls \in [Jobs -> Nat]
  BY DEF AggregateInv, AggregateTypeOK
<1>3. /\ stage[q] = "idle" /\ stage' = [stage EXCEPT ![q] = "ips"]
      /\ task' = task /\ out' = out /\ calls' = calls
  BY DEF Submit, cvars
<1>4. r.ips \in Seq(IPs) /\ r.domains \in Seq(Domains) /\ r.emails \in Seq(Emails)
  OBVIOUS
<1>5. /\ Capped(r.ips) \in Seq(IPs) /\ Len(Capped(r.ips)) <= Limit
      /\ Capped(r.domains) \in Seq(Domains) /\ Len(Capped(r.domains)) <= Limit
      /\ Capped(r.emails) \in Seq(Emails) /\ Len(Capped(r.emails)) <= Limit
  <2>1. Capped(r.ips) \in Seq(IPs) /\ Len(Capped(r.ips)) <= Limit
    BY <1>4, CappedList
  <2>2. Capped(r.domains) \in Seq(Domains) /\ Len(Capped(r.domains)) <= Limit
    BY <1>4, CappedList
  <2>3. Capped(r.emails) \in Seq(Emails) /\ Len(Capped(r.emails)) <= Limit
    BY <1>4, CappedList
  <2>4. QED
    BY <2>1, <2>2, <2>3
<1>6. stage' \in [Jobs -> {"idle", "ips", "domains", "emails", "reply"}]
      /\ stage'[q] = "ips"
  BY <1>2, <1>3
<1>7. /\ lists' \in [Jobs -> Lists]
      /\ lists'[q].ips = Capped(r.ips) /\ lists'[q].domains = Capped(r.domains)
      /\ lists'[q].emails = Capped(r.emails)
  BY <1>1, <1>2, <1>5 DEF Lists
<1>8. ASSUME NEW p \in Jobs, p # q PROVE JobInv(p)'
  <2>1. /\ stage'[p] = stage[p] /\ lists'[p] = lists[p] /\ calls'[p] = calls[p]
        /\ \A e \in Entities : out'[<<p, e>>] = out[<<p, e>>] /\ task'[<<p, e>>] = task[<<p, e>>]
    BY <1>1, <1>2, <1>3, <1>8
  <2>2. QED
    BY <2>1, JobUnmoved
<1>9. ASSUME NEW e \in Entities
      PROVE  out[<<q, e>>] = <<>> /\ task[<<q, e>>] = Nothing
  <2>1. lists[q] = NoLists
    BY <1>3 DEF AggregateInv, JobInv, StageInv
  <2>2. Requested(q) = {}
    BY <2>1 DEF Requested, NoLists, ToSet
  <2>3. Lanes(q) = {}
    BY <1>3, LaneSets
  <2>4. QED
    BY <2>2, <2>3 DEF AggregateInv, JobInv, LaneInv
<1>10. JobInv(q)'
  <2>1. LaneInv(q)'
    BY <1>3, <1>9, PlanFacts DEF LaneInv
  <2>2. StageInv(q)'
    BY <1>6 DEF StageInv
  <2>3. CallsInv(q)'
    <3>1. calls'[q] = 0
      BY <1>3 DEF AggregateInv, JobInv, CallsInv
    <3>2. Lanes(q)' = ToSet(Capped(r.ips))
      BY <1>6, <1>7 DEF Lanes, Following
    <3>3. IsFiniteSet(Lanes(q)')
      BY <1>5, <3>2, HeldAtMostLen
    <3>4. Begun(q)' \subseteq Lanes(q)' \X {1, 2}
      BY DEF Begun
    <3>5. Cardinality(Begun(q)') \in Nat
      BY <3>3, <3>4, FinitePairs
    <3>6. \A k \in DOMAIN Following : Len(lists'[q][k]) <= Limit
      BY <1>5, <1>7 DEF Following
    <3>7. QED
      BY <1>6, <3>1, <3>5, <3>6 DEF CallsInv
  <2>4. QED
    BY <2>1, <2>2, <2>3 DEF JobInv
<1>11. QED
  BY <1>6, <1>7, <1>8, <1>10

(* A gather ends: none of its lanes awaits anything.                       *)
LEMMA GatheredStep ==
  ASSUME AggregateInv, NEW q \in Jobs, Gathered(q)
  PROVE  /\ stage' \in [Jobs -> {"idle", "ips", "domains", "emails", "reply"}]
         /\ stage'[q] \in {"domains", "emails", "reply"}
         /\ calls' \in [Jobs -> Nat]
         /\ \A p \in Jobs : JobInv(p)'
<1>1. /\ stage \in [Jobs -> {"idle", "ips", "domains", "emails", "reply"}]
      /\ calls \in [Jobs -> Nat]
  BY DEF AggregateInv, AggregateTypeOK
<1>2. /\ stage[q] \in {"ips", "domains", "emails"}
      /\ stage' = [stage EXCEPT ![q] = Following[@]]
      /\ calls' = [calls EXCEPT ![q] = 0]
      /\ task' = task /\ out' = out /\ lists' = lists
      /\ \A e \in Lanes(q) : Done(q, e)
  BY DEF Gathered, cvars, Following
<1>3. /\ stage' \in [Jobs -> {"idle", "ips", "domains", "emails", "reply"}]
      /\ stage[q] = "ips" => stage'[q] = "domains"
      /\ stage[q] = "domains" => stage'[q] = "emails"
      /\ stage[q] = "emails" => stage'[q] = "reply"
  BY <1>1, <1>2 DEF Following
<1>4. calls' \in [Jobs -> Nat] /\ calls'[q] = 0
  BY <1>1, <1>2
<1>5. ASSUME NEW p \in Jobs, p # q PROVE JobInv(p)'
  <2>1. /\ stage'[p] = stage[p] /\ lists'[p] = lists[p] /\ calls'[p] = calls[p]
        /\ \A e \in Entities : out'[<<p, e>>] = out[<<p, e>>] /\ task'[<<p, e>>] = task[<<p, e>>]
    BY <1>1, <1>2, <1>5
  <2>2. QED
    BY <2>1, JobUnmoved
<1>6. LaneInv(q) /\ StageInv(q) /\ CallsInv(q)
  BY DEF AggregateInv, JobInv
<1>7. JobInv(q)'
  <2>1. LaneInv(q)'
    <3>1. \A e \in Entities : task[<<q, e>>] = Nothing
      BY <1>2, <1>6 DEF LaneInv
    <3>2. Requested(q)' = Requested(q)
      BY <1>2 DEF Requested
    <3>3. QED
      BY <1>2, <1>6, <3>1, <3>2 DEF LaneInv
  <2>2. StageInv(q)'
    <3>1. \A e : Done(q, e)' = Done(q, e)
      BY <1>2 DEF Done
    <3>2. /\ stage'[q] \in {"domains", "emails", "reply"} =>
               \A e \in ToSet(lists[q].ips) : Done(q, e)
          /\ stage'[q] \in {"emails", "reply"} =>
               \A e \in ToSet(lists[q].domains) : Done(q, e)
          /\ stage'[q] = "reply" => \A e \in ToSet(lists[q].emails) : Done(q, e)
      BY <1>2, <1>3, <1>6, LaneSets DEF StageInv
    <3>3. QED
      BY <1>2, <1>3, <3>1, <3>2 DEF StageInv
  <2>3. CallsInv(q)'
    <3>1. IsFiniteSet(Lanes(q)')
      <4>1. /\ IsFiniteSet(ToSet(lists[q].domains)) /\ IsFiniteSet(ToSet(lists[q].emails))
        BY Shapes, HeldAtMostLen
      <4>2. IsFiniteSet({})
        BY FS_EmptySet
      <4>3. \/ Lanes(q)' = ToSet(lists[q].domains)
            \/ Lanes(q)' = ToSet(lists[q].emails)
            \/ Lanes(q)' = {}
        BY <1>2, <1>3 DEF Lanes, Following
      <4>4. QED
        BY <4>1, <4>2, <4>3
    <3>2. Begun(q)' \subseteq Lanes(q)' \X {1, 2}
      BY DEF Begun
    <3>3. Cardinality(Begun(q)') \in Nat
      BY <3>1, <3>2, FinitePairs
    <3>4. QED
      BY <1>2, <1>4, <1>6, <3>3 DEF CallsInv
  <2>4. QED
    BY <2>1, <2>2, <2>3 DEF JobInv
<1>8. QED
  BY <1>2, <1>3, <1>4, <1>5, <1>7

(* A request is answered.                                                  *)
LEMMA ReplyStep ==
  ASSUME AggregateInv, NEW q \in Jobs, Reply(q)
  PROVE  /\ stage' \in [Jobs -> {"idle", "ips", "domains", "emails", "reply"}]
         /\ lists' \in [Jobs -> Lists]
         /\ out' \in [Tasks -> Seq(Answers)]
         /\ \A p \in Jobs : JobInv(p)'
<1> USE AggregateAssumption
<1>1. /\ stage \in [Jobs -> {"idle", "ips", "domains", "emails", "reply"}]
      /\ lists \in [Jobs -> Lists] /\ out \in [Tasks -> Seq(Answers)]
  BY DEF AggregateInv, AggregateTypeOK
<1>2. /\ stage[q] = "reply"
      /\ stage' = [stage EXCEPT ![q] = "idle"]
      /\ lists' = [lists EXCEPT ![q] = NoLists]
      /\ out' = [t \in Tasks |-> IF t[1] = q THEN <<>> ELSE out[t]]
      /\ task' = task /\ calls' = calls
  BY DEF Reply, cvars
<1>3. NoLists \in Lists
  <2>1. <<>> \in Seq(IPs) /\ <<>> \in Seq(Domains) /\ <<>> \in Seq(Emails)
    OBVIOUS
  <2>2. QED
    BY <2>1 DEF NoLists, Lists
<1>4. /\ stage' \in [Jobs -> {"idle", "ips", "domains", "emails", "reply"}]
      /\ stage'[q] = "idle" /\ lists'[q] = NoLists
      /\ lists' \in [Jobs -> Lists]
  BY <1>1, <1>2, <1>3
<1>5. out' \in [Tasks -> Seq(Answers)]
  <2>1. <<>> \in Seq(Answers)
    OBVIOUS
  <2>2. QED
    BY <1>1, <1>2, <2>1
<1>6. ASSUME NEW p \in Jobs, p # q PROVE JobInv(p)'
  <2>1. \A e \in Entities : out'[<<p, e>>] = out[<<p, e>>]
    BY <1>2, <1>6
  <2>2. /\ stage'[p] = stage[p] /\ lists'[p] = lists[p] /\ calls'[p] = calls[p]
        /\ \A e \in Entities : task'[<<p, e>>] = task[<<p, e>>]
    BY <1>1, <1>2, <1>6
  <2>3. QED
    BY <2>1, <2>2, JobUnmoved
<1>7. ASSUME NEW e \in Entities
      PROVE  out'[<<q, e>>] = <<>> /\ task'[<<q, e>>] = Nothing
  <2>1. Lanes(q) = {}
    BY <1>2, LaneSets
  <2>2. QED
    BY <1>2, <2>1 DEF AggregateInv, JobInv, LaneInv
<1>8. JobInv(q)'
  <2>1. LaneInv(q)'
    BY <1>7, PlanFacts DEF LaneInv
  <2>2. StageInv(q)'
    BY <1>4 DEF StageInv
  <2>3. CallsInv(q)'
    <3>1. calls'[q] = 0
      BY <1>2 DEF AggregateInv, JobInv, CallsInv
    <3>2. Begun(q)' = {}
      BY <1>4 DEF Begun, Lanes, Following
    <3>3. Cardinality({}) = 0
      BY FS_EmptySet
    <3>4. \A k \in DOMAIN Following : Len(lists'[q][k]) <= Limit
      BY <1>4 DEF Following, NoLists
    <3>5. QED
      BY <1>4, <3>1, <3>2, <3>3, <3>4 DEF CallsInv
  <2>4. QED
    BY <2>1, <2>2, <2>3 DEF JobInv
<1>9. QED
  BY <1>4, <1>5, <1>6, <1>8

(* A lookup of a lane ends.                                                *)
LEMMA NoteStepInv ==
  ASSUME AggregateInv, NEW q \in Jobs, NEW e \in Entities,
         LaneHit(q, e) \/ LaneAnswer(q, e) \/ LaneFail(q, e)
  PROVE  out' \in [Tasks -> Seq(Answers)] /\ \A p \in Jobs : JobInv(p)'
<1>1. /\ out \in [Tasks -> Seq(Answers)] /\ task \in [Tasks -> {Nothing} \cup Waiting]
      /\ calls \in [Jobs -> Nat]
  BY DEF AggregateInv, AggregateTypeOK, CacheTypeOK
<1>2. /\ e \in Lanes(q) /\ ~ Done(q, e)
      /\ task' = [task EXCEPT ![<<q, e>>] = Nothing]
      /\ stage' = stage /\ lists' = lists /\ calls' = calls
  BY NoteStep
<1>3. PICK a \in Answers :
        a.key = NextKey(q, e) /\ out' = [out EXCEPT ![<<q, e>>] = Append(@, a)]
  BY NoteStep
<1>4. /\ e \in Requested(q) /\ <<q, e>> \in Tasks /\ Len(out[<<q, e>>]) \in Nat
      /\ Len(out[<<q, e>>]) < Len(Plan(e)) /\ Len(Plan(e)) \in Nat
  BY <1>2, NextKeyFacts, PlanFacts
<1>5. /\ out' \in [Tasks -> Seq(Answers)]
      /\ out'[<<q, e>>] = Append(out[<<q, e>>], a)
      /\ Len(out'[<<q, e>>]) = Len(out[<<q, e>>]) + 1
      /\ out'[<<q, e>>][Len(out[<<q, e>>]) + 1] = a
      /\ \A i \in 1..Len(out[<<q, e>>]) : out'[<<q, e>>][i] = out[<<q, e>>][i]
  BY <1>1, <1>3, <1>4
<1>6. task'[<<q, e>>] = Nothing
  BY <1>1, <1>2, <1>4
<1>7. \A p \in Jobs, d \in Entities : <<p, d>> # <<q, e>> =>
         out'[<<p, d>>] = out[<<p, d>>] /\ task'[<<p, d>>] = task[<<p, d>>]
  BY <1>1, <1>2, <1>3, Shapes
<1>8. ASSUME NEW p \in Jobs, p # q PROVE JobInv(p)'
  <2>1. \A d \in Entities : out'[<<p, d>>] = out[<<p, d>>] /\ task'[<<p, d>>] = task[<<p, d>>]
    BY <1>7, <1>8
  <2>2. QED
    BY <1>2, <2>1, JobUnmoved
<1>9. LaneInv(q) /\ StageInv(q) /\ CallsInv(q)
  BY DEF AggregateInv, JobInv
<1>10. Lanes(q)' = Lanes(q) /\ Requested(q)' = Requested(q)
  BY <1>2 DEF Lanes, Requested
<1>11. JobInv(q)'
  <2>1. LaneInv(q)'
    <3>1. ASSUME NEW d \in Entities, d # e
          PROVE  /\ Len(out'[<<q, d>>]) <= Len(Plan(d))
                 /\ \A i \in 1..Len(out'[<<q, d>>]) : out'[<<q, d>>][i].key = Plan(d)[i]
                 /\ out'[<<q, d>>] # <<>> => d \in Requested(q)'
                 /\ task'[<<q, d>>] # Nothing =>
                      /\ d \in Lanes(q)' /\ ~ Done(q, d)'
                      /\ task'[<<q, d>>].key = NextKey(q, d)'
      <4>1. out'[<<q, d>>] = out[<<q, d>>] /\ task'[<<q, d>>] = task[<<q, d>>]
        BY <1>7, <3>1
      <4>2. Done(q, d)' = Done(q, d) /\ NextKey(q, d)' = NextKey(q, d)
        BY <4>1 DEF Done, NextKey
      <4>3. QED
        BY <1>9, <1>10, <4>1, <4>2 DEF LaneInv
    <3>2. Len(out'[<<q, e>>]) <= Len(Plan(e))
      BY <1>4, <1>5
    <3>3. a.key = Plan(e)[Len(out[<<q, e>>]) + 1]
      BY <1>3 DEF NextKey
    <3>4. \A i \in 1..Len(out[<<q, e>>]) : out[<<q, e>>][i].key = Plan(e)[i]
      BY <1>9 DEF LaneInv
    <3>5. \A i \in 1..(Len(out[<<q, e>>]) + 1) :
             i \in 1..Len(out[<<q, e>>]) \/ i = Len(out[<<q, e>>]) + 1
      BY <1>4
    <3>6. \A i \in 1..Len(out'[<<q, e>>]) : out'[<<q, e>>][i].key = Plan(e)[i]
      BY <1>5, <3>3, <3>4, <3>5
    <3>7. e \in Requested(q)'
      BY <1>4, <1>10
    <3>8. QED
      BY <1>6, <3>1, <3>2, <3>6, <3>7 DEF LaneInv
  <2>2. StageInv(q)'
    <3>1. \A d \in Entities : Done(q, d) => d # e /\ Done(q, d)'
      BY <1>2, <1>7 DEF Done
    <3>2. /\ ToSet(lists[q].ips) \subseteq Entities /\ ToSet(lists[q].domains) \subseteq Entities
          /\ ToSet(lists[q].emails) \subseteq Entities
      BY LaneSets DEF Entities
    <3>3. QED
      BY <1>2, <1>9, <3>1, <3>2 DEF StageInv
  <2>3. CallsInv(q)'
    <3>1. ASSUME NEW l \in Begun(q) PROVE l \in Begun(q)'
      <4>1. l \in Lanes(q) \X {1, 2} /\ l[1] \in Entities
        BY LaneSets DEF Begun
      <4>2. CASE l[1] = e
        <5>1. l[2] \in {1, 2} /\ l[2] <= Len(out[<<q, e>>]) + 1
          <6>1. l[2] <= Len(out[<<q, e>>]) + (IF task[<<q, e>>] = Nothing THEN 0 ELSE 1)
            BY <4>2 DEF Begun
          <6>2. CASE task[<<q, e>>] = Nothing
            BY <1>4, <4>1, <6>1, <6>2
          <6>3. CASE task[<<q, e>>] # Nothing
            BY <4>1, <6>1, <6>3
          <6>4. QED
            BY <6>2, <6>3
        <5>2. l[2] <= Len(out'[<<q, e>>]) + 0
          BY <1>4, <1>5, <5>1
        <5>3. QED
          BY <1>6, <1>10, <4>1, <4>2, <5>2 DEF Begun
      <4>3. CASE l[1] # e
        <5>1. out'[<<q, l[1]>>] = out[<<q, l[1]>>] /\ task'[<<q, l[1]>>] = task[<<q, l[1]>>]
          BY <1>7, <4>1, <4>3
        <5>2. QED
          BY <1>10, <4>1, <5>1 DEF Begun
      <4>4. QED
        BY <4>2, <4>3
    <3>2. Begun(q) \in SUBSET (Begun(q)')
      BY <3>1
    <3>3. Begun(q)' \subseteq Lanes(q) \X {1, 2}
      BY <1>10 DEF Begun
    <3>4. IsFiniteSet(Begun(q)') /\ Cardinality(Begun(q)') \in Nat
      BY <3>3, LanesWithinLimit, FinitePairs
    <3>5. Cardinality(Begun(q)) <= Cardinality(Begun(q)')
      BY <3>2, <3>4, FS_Subset
    <3>6. Cardinality(Begun(q)) \in Nat
      BY LanesWithinLimit
    <3>7. calls'[q] <= Cardinality(Begun(q)')
      BY <1>1, <1>2, <1>9, <3>4, <3>5, <3>6 DEF CallsInv
    <3>8. QED
      BY <1>2, <1>9, <3>7 DEF CallsInv
  <2>4. QED
    BY <2>1, <2>2, <2>3 DEF JobInv
<1>12. QED
  BY <1>5, <1>8, <1>11

(* A lookup of a lane begins: one call more, one lookup more.              *)
LEMMA MissStepInv ==
  ASSUME AggregateInv, NEW q \in Jobs, NEW e \in Entities, LaneMiss(q, e)
  PROVE  calls' \in [Jobs -> Nat] /\ \A p \in Jobs : JobInv(p)'
<1>1. /\ out \in [Tasks -> Seq(Answers)] /\ task \in [Tasks -> {Nothing} \cup Waiting]
      /\ calls \in [Jobs -> Nat]
  BY DEF AggregateInv, AggregateTypeOK, CacheTypeOK
<1>2. /\ e \in Lanes(q) /\ ~ Done(q, e) /\ task[<<q, e>>] = Nothing
      /\ task' = [task EXCEPT ![<<q, e>>] = [from |-> "upstream", key |-> NextKey(q, e)]]
      /\ [from |-> "upstream", key |-> NextKey(q, e)] # Nothing
      /\ calls' = [calls EXCEPT ![q] = @ + 1]
      /\ stage' = stage /\ lists' = lists /\ out' = out
  BY MissStep
<1>3. /\ <<q, e>> \in Tasks /\ Len(out[<<q, e>>]) \in Nat
      /\ Len(out[<<q, e>>]) < Len(Plan(e)) /\ Len(Plan(e)) \in {1, 2}
  BY <1>2, NextKeyFacts, PlanFacts
<1>4. task'[<<q, e>>] # Nothing /\ task'[<<q, e>>].key = NextKey(q, e)
  BY <1>1, <1>2, <1>3
<1>5. \A p \in Jobs, d \in Entities : <<p, d>> # <<q, e>> => task'[<<p, d>>] = task[<<p, d>>]
  BY <1>1, <1>2, Shapes
<1>6. calls' \in [Jobs -> Nat] /\ calls'[q] = calls[q] + 1
  BY <1>1, <1>2
<1>7. ASSUME NEW p \in Jobs, p # q PROVE JobInv(p)'
  <2>1. \A d \in Entities : out'[<<p, d>>] = out[<<p, d>>] /\ task'[<<p, d>>] = task[<<p, d>>]
    BY <1>2, <1>5, <1>7
  <2>2. calls'[p] = calls[p]
    BY <1>1, <1>2, <1>7
  <2>3. QED
    BY <1>2, <2>1, <2>2, JobUnmoved
<1>8. LaneInv(q) /\ StageInv(q) /\ CallsInv(q)
  BY DEF AggregateInv, JobInv
<1>9. /\ Lanes(q)' = Lanes(q) /\ Requested(q)' = Requested(q)
      /\ \A d : Done(q, d)' = Done(q, d) /\ NextKey(q, d)' = NextKey(q, d)
  BY <1>2 DEF Lanes, Requested, Done, NextKey
<1>10. JobInv(q)'
  <2>1. LaneInv(q)'
    <3>1. ASSUME NEW d \in Entities, task'[<<q, d>>] # Nothing
          PROVE  d \in Lanes(q) /\ ~ Done(q, d) /\ task'[<<q, d>>].key = NextKey(q, d)
      <4>1. CASE d = e
        BY <1>2, <1>4, <4>1
      <4>2. CASE d # e
        <5>1. task'[<<q, d>>] = task[<<q, d>>]
          BY <1>5, <4>2
        <5>2. QED
          BY <1>8, <3>1, <5>1 DEF LaneInv
      <4>3. QED
        BY <4>1, <4>2
    <3>2. QED
      BY <1>2, <1>8, <1>9, <3>1 DEF LaneInv
  <2>2. StageInv(q)'
    BY <1>2, <1>8, <1>9 DEF StageInv
  <2>3. CallsInv(q)'
    <3> DEFINE new == <<e, Len(out[<<q, e>>]) + 1>>
    <3>1. ASSUME NEW l \in Lanes(q) \X {1, 2}
          PROVE  l \in Begun(q)' <=> l \in Begun(q) \cup {new}
      <4>1. l[1] \in Entities /\ l[2] \in Nat /\ l = <<l[1], l[2]>>
        BY LaneSets
      <4>2. /\ l \in Begun(q)' <=> l[2] <= Len(out[<<q, l[1]>>]) +
                                          (IF task'[<<q, l[1]>>] = Nothing THEN 0 ELSE 1)
            /\ l \in Begun(q) <=> l[2] <= Len(out[<<q, l[1]>>]) +
                                          (IF task[<<q, l[1]>>] = Nothing THEN 0 ELSE 1)
        BY <1>2, <1>9 DEF Begun
      <4>3. CASE l[1] = e
        <5>1. l \in Begun(q)' <=> l[2] <= Len(out[<<q, e>>]) + 1
          BY <1>4, <4>2, <4>3
        <5>2. l \in Begun(q) <=> l[2] <= Len(out[<<q, e>>])
          BY <1>2, <1>3, <4>2, <4>3
        <5>3. l = new <=> l[2] = Len(out[<<q, e>>]) + 1
          BY <4>1, <4>3
        <5>4. QED
          BY <1>3, <4>1, <5>1, <5>2, <5>3
      <4>4. CASE l[1] # e
        <5>1. task'[<<q, l[1]>>] = task[<<q, l[1]>>] /\ l # new
          BY <1>5, <4>1, <4>4
        <5>2. QED
          BY <4>2, <5>1
      <4>5. QED
        BY <4>3, <4>4
    <3>2. new \in Lanes(q) \X {1, 2}
      <4> DEFINE n == Len(out[<<q, e>>])
                 m == Len(Plan(e))
      <4>1. n \in Nat /\ n < m /\ m \in {1, 2}
        BY <1>3
      <4>2. new = <<e, n + 1>> /\ e \in Lanes(q)
        BY <1>2
      <4> HIDE DEF n, m, new
      <4>3. n + 1 \in {1, 2}
        BY <4>1
      <4>4. QED
        BY <4>2, <4>3
    <3>3. new \notin Begun(q)
      <4>1. new[1] = e /\ new[2] = Len(out[<<q, e>>]) + 1
        OBVIOUS
      <4>2. ~ (new[2] <= Len(out[<<q, new[1]>>]) +
                            (IF task[<<q, new[1]>>] = Nothing THEN 0 ELSE 1))
        <5>1. new[2] <= Len(out[<<q, e>>]) + 0 => FALSE
          BY <1>3, <4>1
        <5>2. QED
          BY <1>2, <4>1, <5>1
      <4> HIDE DEF new
      <4>3. QED
        BY <4>2 DEF Begun
    <3>4. Begun(q)' \subseteq Lanes(q) \X {1, 2} /\ Begun(q) \subseteq Lanes(q) \X {1, 2}
      BY <1>9 DEF Begun
    <3> HIDE DEF new
    <3>5. Begun(q)' = Begun(q) \cup {new}
      BY <3>1, <3>2, <3>4
    <3>6. IsFiniteSet(Begun(q)) /\ Cardinality(Begun(q)) \in Nat
      BY LanesWithinLimit
    <3>7. Cardinality(Begun(q) \cup {new}) = Cardinality(Begun(q)) + 1
      BY <3>3, <3>6, FS_AddElement
    <3>8. Cardinality(Begun(q)') = Cardinality(Begun(q)) + 1
      BY <3>5, <3>7
    <3>9. calls'[q] <= Cardinality(Begun(q)')
      BY <1>1, <1>6, <1>8, <3>6, <3>8 DEF CallsInv
    <3>10. stage[q] \notin {"idle", "reply"}
      BY <1>2, LaneSets
    <3>11. QED
      BY <1>2, <1>8, <3>9, <3>10 DEF CallsInv
  <2>4. QED
    BY <2>1, <2>2, <2>3 DEF JobInv
<1>11. QED
  BY <1>6, <1>7, <1>10

-----------------------------------------------------------------------------
LEMMA AggregateStart ==
  ASSUME Init
  PROVE  AggregateInv
<1> USE AggregateAssumption
<1>1. CacheInv
  BY CacheStart DEF Init
<1>2. AggregateTypeOK
  <2>1. <<>> \in Seq(IPs) /\ <<>> \in Seq(Domains) /\ <<>> \in Seq(Emails)
        /\ <<>> \in Seq(Answers)
    OBVIOUS
  <2>2. NoLists \in Lists
    BY <2>1 DEF NoLists, Lists
  <2>3. QED
    BY <1>1, <2>1, <2>2 DEF Init, AggregateTypeOK, CacheInv
<1>3. ASSUME NEW q \in Jobs PROVE JobInv(q)
  <2>1. /\ stage[q] = "idle" /\ lists[q] = NoLists /\ calls[q] = 0
        /\ \A e \in Entities : out[<<q, e>>] = <<>> /\ task[<<q, e>>] = Nothing
    BY DEF Init, CacheInit
  <2>2. LaneInv(q)
    BY <2>1, PlanFacts DEF LaneInv
  <2>3. StageInv(q)
    BY <2>1 DEF StageInv
  <2>4. CallsInv(q)
    <3>1. Begun(q) = {}
      BY <2>1 DEF Begun, Lanes, Following
    <3>2. Cardinality({}) = 0
      BY FS_EmptySet
    <3>3. \A k \in DOMAIN Following : Len(lists[q][k]) <= Limit
      BY <2>1 DEF Following, NoLists
    <3>4. QED
      BY <2>1, <3>1, <3>2, <3>3 DEF CallsInv
  <2>5. QED
    BY <2>2, <2>3, <2>4 DEF JobInv
<1>4. QED
  BY <1>1, <1>2, <1>3 DEF AggregateInv

LEMMA AggregateStep ==
  ASSUME AggregateInv, [Next]_vars
  PROVE  AggregateInv'
<1>1. CacheInv' /\ CacheTypeOK'
  BY CachePart, CacheStep DEF AggregateInv, CacheInv
<1>2. /\ stage \in [Jobs -> {"idle", "ips", "domains", "emails", "reply"}]
      /\ lists \in [Jobs -> Lists] /\ out \in [Tasks -> Seq(Answers)]
      /\ calls \in [Jobs -> Nat] /\ accepted \in 0..MaxAccepted
      /\ MaxAccepted \in Nat
  BY AggregateAssumption DEF AggregateInv, AggregateTypeOK
<1>3. ASSUME UNCHANGED avars, task' = task PROVE AggregateInv'
  <2>1. AggregateTypeOK'
    BY <1>1, <1>2, <1>3 DEF AggregateTypeOK, avars
  <2>2. \A q \in Jobs : JobInv(q)'
    BY <1>3, JobUnmoved DEF avars
  <2>3. QED
    BY <1>1, <2>1, <2>2 DEF AggregateInv
<1>4. ASSUME NEW q \in Jobs, Submit(q) PROVE AggregateInv'
  <2>1. /\ stage' \in [Jobs -> {"idle", "ips", "domains", "emails", "reply"}]
        /\ lists' \in [Jobs -> Lists]
    BY <1>4, SubmitStep
  <2>2. /\ accepted < MaxAccepted /\ accepted' = accepted + 1
        /\ out' = out /\ calls' = calls
    BY <1>4 DEF Submit
  <2>3. accepted' \in 0..MaxAccepted
    BY <1>2, <2>2
  <2>4. AggregateTypeOK'
    BY <1>1, <1>2, <2>1, <2>2, <2>3 DEF AggregateTypeOK
  <2>5. QED
    BY <1>1, <1>4, <2>4, SubmitStep DEF AggregateInv
<1>5. ASSUME NEW q \in Jobs, Gathered(q) PROVE AggregateInv'
  <2>1. AggregateTypeOK'
    BY <1>1, <1>2, <1>5, GatheredStep DEF AggregateTypeOK, Gathered
  <2>2. QED
    BY <1>1, <1>5, <2>1, GatheredStep DEF AggregateInv
<1>6. ASSUME NEW q \in Jobs, Reply(q) PROVE AggregateInv'
  <2>1. AggregateTypeOK'
    BY <1>1, <1>2, <1>6, ReplyStep DEF AggregateTypeOK, Reply
  <2>2. QED
    BY <1>1, <1>6, <2>1, ReplyStep DEF AggregateInv
<1>7. ASSUME NEW q \in Jobs, NEW e \in Entities,
             LaneHit(q, e) \/ LaneAnswer(q, e) \/ LaneFail(q, e)
      PROVE  AggregateInv'
  <2>1. AggregateTypeOK'
    BY <1>1, <1>2, <1>7, NoteStep, NoteStepInv DEF AggregateTypeOK
  <2>2. QED
    BY <1>1, <1>7, <2>1, NoteStepInv DEF AggregateInv
<1>8. ASSUME NEW q \in Jobs, NEW e \in Entities, LaneMiss(q, e) PROVE AggregateInv'
  <2>1. AggregateTypeOK'
    BY <1>1, <1>2, <1>8, MissStep, MissStepInv DEF AggregateTypeOK
  <2>2. QED
    BY <1>1, <1>8, <2>1, MissStepInv DEF AggregateInv
<1>9. CASE Tick /\ UNCHANGED avars
  BY <1>3, <1>9 DEF Tick
<1>10. CASE UNCHANGED vars
  BY <1>3, <1>10 DEF vars, cvars
<1>11. QED
  BY <1>4, <1>5, <1>6, <1>7, <1>8, <1>9, <1>10 DEF Next, Lane

(* The inductive invariant of the aggregator.                              *)
THEOREM AggregateInvariance == Spec => []AggregateInv
<1>1. Init => AggregateInv
  BY AggregateStart
<1>2. AggregateInv /\ [Next]_vars => AggregateInv'
  BY AggregateStep
<1>3. QED
  BY <1>1, <1>2, PTL DEF Spec

(* Every variable of the aggregator and of its cache has its type.         *)
THEOREM AggregateTypeCorrect == Spec => []AggregateTypeOK
<1>1. AggregateInv => AggregateTypeOK
  BY DEF AggregateInv
<1>2. QED
  BY <1>1, AggregateInvariance, PTL

(* A request that is answered has one result per lookup it asked for, in   *)
(* order, whatever failed (aggregator.py, the except branches).            *)
THEOREM LookupsReported == Spec => []EveryLookupReported
<1>1. ASSUME AggregateInv, NEW q \in Jobs, stage[q] = "reply", NEW e \in Requested(q)
      PROVE  [i \in DOMAIN out[<<q, e>>] |-> out[<<q, e>>][i].key] = Plan(e)
  <2>1. e \in Entities /\ Done(q, e)
    BY <1>1, LaneSets DEF AggregateInv, JobInv, StageInv, Requested
  <2>2. out[<<q, e>>] \in Seq(Answers) /\ Len(out[<<q, e>>]) = Len(Plan(e))
    BY <1>1, <2>1, Shapes DEF Done
  <2>3. \A i \in 1..Len(out[<<q, e>>]) : out[<<q, e>>][i].key = Plan(e)[i]
    BY <1>1, <2>1 DEF AggregateInv, JobInv, LaneInv
  <2>4. Plan(e) = [i \in 1..Len(Plan(e)) |-> Plan(e)[i]]
    <3>1. \/ Plan(e) = << <<"ipinfo", e>>, <<"abuseipdb", e>> >>
          \/ Plan(e) = << <<"whois", e>> >>
          \/ Plan(e) = << <<"whois", EmailDomain[e]>> >>
      BY <2>1 DEF Plan, Entities
    <3>2. QED
      BY <3>1
  <2>5. DOMAIN out[<<q, e>>] = 1..Len(Plan(e))
    BY <2>2
  <2>6. QED
    BY <2>2, <2>3, <2>4, <2>5
<1>2. AggregateInv => EveryLookupReported
  BY <1>1 DEF EveryLookupReported
<1>3. QED
  BY <1>2, AggregateInvariance, PTL

(* No gather calls an upstream more often than its cap allows              *)
(* (aggregator.py:29, deploy/DEPLOY.md).                                   *)
THEOREM CallsCapped == Spec => []CallsWithinCap
<1>1. ASSUME AggregateInv, NEW q \in Jobs
      PROVE  calls[q] <= Limit * (IF stage[q] = "ips" THEN 2 ELSE 1)
  <2>1. /\ calls[q] \in Nat /\ Limit \in Nat
        /\ stage[q] \in {"idle", "ips", "domains", "emails", "reply"}
    BY <1>1, AggregateAssumption, Shapes DEF AggregateInv, AggregateTypeOK
  <2>2. calls[q] <= Cardinality(Begun(q)) /\ (stage[q] \in {"idle", "reply"} => calls[q] = 0)
    BY <1>1 DEF AggregateInv, JobInv, CallsInv
  <2>3. /\ IsFiniteSet(Lanes(q)) /\ Cardinality(Lanes(q)) \in Nat
        /\ Cardinality(Lanes(q)) <= Limit /\ Cardinality(Begun(q)) \in Nat
    BY <1>1, LanesWithinLimit
  <2>4. CASE stage[q] = "ips"
    <3>1. Begun(q) \subseteq Lanes(q) \X {1, 2}
      BY DEF Begun
    <3>2. Cardinality(Begun(q)) <= Cardinality(Lanes(q)) * 2
      BY <2>3, <3>1, FinitePairs
    <3>3. QED
      BY <2>1, <2>2, <2>3, <2>4, <3>2
  <2>5. CASE stage[q] \in {"domains", "emails"}
    <3>1. ASSUME NEW l \in Begun(q) PROVE l \in Lanes(q) \X {1}
      <4>1. /\ l \in Lanes(q) \X {1, 2} /\ l[1] \in Lanes(q)
            /\ l[2] <= Len(out[<<q, l[1]>>]) +
                         (IF task[<<q, l[1]>>] = Nothing THEN 0 ELSE 1)
        BY DEF Begun
      <4>2. l[1] \in Domains \cup Emails /\ l[1] \in Entities
        BY <1>1, <2>5, <4>1, LaneSets
      <4>3. Len(Plan(l[1])) = 1
        BY <4>2, PlanFacts
      <4>4. Len(out[<<q, l[1]>>]) \in Nat
        BY <1>1, <4>2, Shapes
      <4>5. /\ Len(out[<<q, l[1]>>]) <= 1
            /\ task[<<q, l[1]>>] # Nothing => Len(out[<<q, l[1]>>]) # 1
        BY <1>1, <4>2, <4>3 DEF AggregateInv, JobInv, LaneInv, Done
      <4>6. l[2] \in {1, 2}
        BY <4>1
      <4>7. l[2] = 1
        <5>1. CASE task[<<q, l[1]>>] = Nothing
          <6> DEFINE n == Len(out[<<q, l[1]>>])
          <6>1. l[2] <= n + 0 /\ n \in Nat /\ n <= 1
            BY <4>1, <4>4, <4>5, <5>1
          <6> HIDE DEF n
          <6>2. QED
            BY <4>6, <6>1
        <5>2. CASE task[<<q, l[1]>>] # Nothing
          <6> DEFINE n == Len(out[<<q, l[1]>>])
          <6>1. l[2] <= n + 1 /\ n \in Nat /\ n <= 1 /\ n # 1
            BY <4>1, <4>4, <4>5, <5>2
          <6> HIDE DEF n
          <6>2. QED
            BY <4>6, <6>1
        <5>3. QED
          BY <5>1, <5>2
      <4>8. QED
        BY <4>1, <4>7
    <3>2. Begun(q) \in SUBSET (Lanes(q) \X {1})
      BY <3>1
    <3>3. IsFiniteSet({1}) /\ Cardinality({1}) = 1
      BY FS_Singleton
    <3>4. /\ IsFiniteSet(Lanes(q) \X {1})
          /\ Cardinality(Lanes(q) \X {1}) = Cardinality(Lanes(q)) * Cardinality({1})
      BY <2>3, <3>3, FS_Product
    <3>5. Cardinality(Begun(q)) <= Cardinality(Lanes(q) \X {1})
      BY <3>2, <3>4, FS_Subset
    <3>6. Cardinality(Begun(q)) <= Cardinality(Lanes(q))
      BY <2>3, <3>3, <3>4, <3>5
    <3>7. QED
      BY <2>1, <2>2, <2>3, <2>5, <3>6
  <2>6. CASE stage[q] \in {"idle", "reply"}
    BY <2>1, <2>2, <2>6
  <2>7. QED
    BY <2>1, <2>4, <2>5, <2>6
<1>2. AggregateInv => CallsWithinCap
  BY <1>1 DEF CallsWithinCap
<1>3. QED
  BY <1>2, AggregateInvariance, PTL

-----------------------------------------------------------------------------
(* The refinement.                                                         *)

(* A request that is not there wants nothing and was told nothing.         *)
LEMMA NothingWanted ==
  ASSUME NEW q \in Jobs, lists[q] = NoLists
  PROVE  LookupsOf(Requested(q)) = {}
BY DEF LookupsOf, Requested, NoLists, ToSet

(* What a job was told, for the refinement mapping.                        *)
Told(q) == {l \in LookupsOf(Entities) : l[2] <= Len(out[<<q, l[1]>>])}

(* Steps that the promise does not see.                                    *)
LEMMA UnseenStep ==
  ASSUME UNCHANGED <<lists, out>>,
         \A q \in Jobs : (stage'[q] = "idle") <=> (stage[q] = "idle")
  PROVE  UNCHANGED Service!vars
BY DEF Service!vars, Requested, LookupsOf

(* A noted result is the report of the lane's next lookup.                 *)
LEMMA ReportStep ==
  ASSUME AggregateInv, NEW q \in Jobs, NEW e \in Entities,
         LaneHit(q, e) \/ LaneAnswer(q, e) \/ LaneFail(q, e)
  PROVE  \E l \in LookupsOf(Entities) : Service!Report(q, l)
<1> DEFINE n == Len(out[<<q, e>>])
           new == <<e, n + 1>>
<1>1. /\ e \in Lanes(q) /\ ~ Done(q, e)
      /\ stage' = stage /\ lists' = lists
  BY NoteStep
<1>2. PICK a \in Answers : out' = [out EXCEPT ![<<q, e>>] = Append(@, a)]
  BY NoteStep
<1>3. /\ e \in Requested(q) /\ <<q, e>> \in Tasks
      /\ n \in Nat /\ n < Len(Plan(e)) /\ Len(Plan(e)) \in {1, 2}
  BY <1>1, NextKeyFacts, PlanFacts
<1>4. /\ Len(out'[<<q, e>>]) = n + 1
      /\ \A p \in Jobs, d \in Entities : <<p, d>> # <<q, e>> => out'[<<p, d>>] = out[<<p, d>>]
  BY <1>2, <1>3, Shapes DEF AggregateInv, AggregateTypeOK
<1>5. n + 1 \in {1, 2} /\ n + 1 <= Len(Plan(e)) /\ n \in Nat
  <2> DEFINE m == Len(Plan(e))
  <2>1. n \in Nat /\ n < m /\ m \in {1, 2}
    BY <1>3
  <2> HIDE DEF n, m
  <2>2. n + 1 \in {1, 2} /\ n + 1 <= m
    BY <2>1
  <2>3. QED
    BY <2>1, <2>2 DEF m
<1>6. new \in LookupsOf(Entities) /\ new \in LookupsOf(Requested(q))
  <2> HIDE DEF n
  <2>1. QED
    BY <1>3, <1>5 DEF LookupsOf
<1>7. new \notin Told(q)
  <2>1. new[1] = e /\ new[2] = n + 1 /\ ~ (n + 1 <= n)
    BY <1>5
  <2>2. ~ (new[2] <= Len(out[<<q, new[1]>>]))
    BY <2>1
  <2> HIDE DEF new
  <2>3. QED
    BY <2>2 DEF Told
<1>8. \A l \in LookupsOf(Requested(q)) : l[1] = e /\ l[2] < n + 1 => l \in Told(q)
  <2>1. ASSUME NEW l \in LookupsOf(Requested(q)), l[1] = e, l[2] < n + 1 PROVE l \in Told(q)
    <3>1. l \in LookupsOf(Entities) /\ l[2] \in {1, 2}
      BY LaneSets DEF LookupsOf
    <3> HIDE DEF n
    <3>2. l[2] <= n
      BY <1>5, <2>1, <3>1
    <3>3. QED
      BY <2>1, <3>1, <3>2 DEF Told, n
  <2>2. QED
    BY <2>1
<1>9. Told(q)' = Told(q) \cup {new}
  <2>1. ASSUME NEW l \in LookupsOf(Entities)
        PROVE  l[2] <= Len(out'[<<q, l[1]>>]) <=> l \in Told(q) \/ l = new
    <3>1. l \in Entities \X {1, 2} /\ l = <<l[1], l[2]>>
      BY DEF LookupsOf
    <3>2. CASE l[1] = e
      <4>1. l \in Told(q) <=> l[2] <= n
        BY <3>2 DEF Told
      <4>2. l = new <=> l[2] = n + 1
        BY <3>1, <3>2
      <4>3. l[2] <= Len(out'[<<q, l[1]>>]) <=> l[2] <= n + 1
        BY <1>4, <3>2
      <4>4. l[2] \in Nat /\ n \in Nat
        BY <1>5, <3>1
      <4> HIDE DEF n, new
      <4>5. QED
        BY <4>1, <4>2, <4>3, <4>4
    <3>3. CASE l[1] # e
      <4>1. out'[<<q, l[1]>>] = out[<<q, l[1]>>] /\ l # new
        BY <1>4, <3>1, <3>3
      <4>2. QED
        BY <4>1 DEF Told
    <3>4. QED
      BY <3>2, <3>3
  <2>2. Told(q)' = {l \in LookupsOf(Entities) : l[2] <= Len(out'[<<q, l[1]>>])}
    BY DEF Told, LookupsOf
  <2>3. Told(q) \subseteq LookupsOf(Entities)
    BY DEF Told
  <2> HIDE DEF new
  <2>4. QED
    BY <1>6, <2>1, <2>2, <2>3
<1>10. \A p \in Jobs : p # q => Told(p)' = Told(p)
  <2>1. ASSUME NEW p \in Jobs, p # q PROVE Told(p)' = Told(p)
    <3>1. \A l \in LookupsOf(Entities) : out'[<<p, l[1]>>] = out[<<p, l[1]>>]
      BY <1>4, <2>1 DEF LookupsOf
    <3>2. LookupsOf(Entities)' = LookupsOf(Entities)
      BY DEF LookupsOf
    <3>3. QED
      BY <3>1, <3>2 DEF Told
  <2>2. QED
    BY <2>1
<1>11. [p \in Jobs |-> Told(p)]' = [[p \in Jobs |-> Told(p)] EXCEPT ![q] = @ \cup {new}]
  <2> HIDE DEF new
  <2>1. QED
    BY <1>9, <1>10
<1>12. stage[q] # "idle"
  BY <1>1, LaneSets
<1>13. Requested(q)' = Requested(q) /\ \A p \in Jobs : Requested(p)' = Requested(p)
  BY <1>1 DEF Requested
<1>14. new[1] = e /\ new[2] = n + 1
  OBVIOUS
<1> HIDE DEF new, n
<1>15. PICK l \in LookupsOf(Entities) : l = new
  BY <1>6
<1>16. Service!Report(q, l)
  <2>1. Service!InTurn(q, l)
    BY <1>8, <1>14, <1>15 DEF Service!InTurn, Told
  <2>2. UNCHANGED <<[p \in Jobs |-> stage[p] # "idle"], [p \in Jobs |-> LookupsOf(Requested(p))]>>
    BY <1>1, <1>13 DEF LookupsOf
  <2>3. [p \in Jobs |-> LookupsOf(Requested(p))][q] = LookupsOf(Requested(q))
        /\ [p \in Jobs |-> {m \in LookupsOf(Entities) : m[2] <= Len(out[<<p, m[1]>>])}][q] = Told(q)
        /\ [p \in Jobs |-> stage[p] # "idle"][q]
    BY <1>12 DEF Told
  <2>4. [p \in Jobs |-> {m \in LookupsOf(Entities) : m[2] <= Len(out[<<p, m[1]>>])}]' =
          [[p \in Jobs |-> {m \in LookupsOf(Entities) : m[2] <= Len(out[<<p, m[1]>>])}]
             EXCEPT ![q] = @ \cup {l}]
    BY <1>11, <1>15 DEF Told
  <2>5. l \in LookupsOf(Requested(q)) /\ l \notin Told(q)
    BY <1>6, <1>7, <1>15
  <2>6. QED
    BY <2>1, <2>2, <2>3, <2>4, <2>5 DEF Service!Report
<1>17. QED
  BY <1>16

(* An accepted request is one the promise accepts.                         *)
LEMMA AcceptStep ==
  ASSUME AggregateInv, NEW q \in Jobs, Submit(q)
  PROVE  Service!Accept(q)
<1>1. /\ stage \in [Jobs -> {"idle", "ips", "domains", "emails", "reply"}]
      /\ lists \in [Jobs -> Lists]
  BY DEF AggregateInv, AggregateTypeOK
<1>2. /\ stage[q] = "idle" /\ stage' = [stage EXCEPT ![q] = "ips"] /\ out' = out
  BY DEF Submit
<1>3. \A p \in Jobs : p # q => lists'[p] = lists[p]
  BY <1>1 DEF Submit
<1>4. Requested(q)' \subseteq Entities
  <2>1. lists'[q] \in Lists
    BY SubmitStep
  <2>2. QED
    BY <2>1 DEF Requested, Lists, ToSet, Entities
<1>5. LookupsOf(Requested(q)') \subseteq LookupsOf(Entities)
  BY <1>4 DEF LookupsOf
<1>6. \A p \in Jobs : p # q => Requested(p)' = Requested(p)
  BY <1>3 DEF Requested
<1>7. [p \in Jobs |-> LookupsOf(Requested(p))]' =
        [[p \in Jobs |-> LookupsOf(Requested(p))] EXCEPT ![q] = LookupsOf(Requested(q)')]
  BY <1>6 DEF LookupsOf
<1>8. [p \in Jobs |-> stage[p] # "idle"]' = [[p \in Jobs |-> stage[p] # "idle"] EXCEPT ![q] = TRUE]
  BY <1>1, <1>2
<1>9. UNCHANGED [p \in Jobs |-> Told(p)]
  BY <1>2 DEF Told, LookupsOf
<1>10. [p \in Jobs |-> LookupsOf(Requested(p))]'[q] = LookupsOf(Requested(q)')
  BY <1>7
<1>11. QED
  BY <1>2, <1>5, <1>7, <1>8, <1>9, <1>10 DEF Service!Accept, Told

(* A reply is the answer to a request that was told all it wanted.         *)
LEMMA AnswerStep ==
  ASSUME AggregateInv, NEW q \in Jobs, Reply(q)
  PROVE  Service!Answer(q)
<1>1. /\ stage \in [Jobs -> {"idle", "ips", "domains", "emails", "reply"}]
      /\ lists \in [Jobs -> Lists] /\ out \in [Tasks -> Seq(Answers)]
  BY DEF AggregateInv, AggregateTypeOK
<1>2. /\ stage[q] = "reply" /\ stage' = [stage EXCEPT ![q] = "idle"]
      /\ lists' = [lists EXCEPT ![q] = NoLists]
      /\ out' = [t \in Tasks |-> IF t[1] = q THEN <<>> ELSE out[t]]
  BY DEF Reply
<1>3. Told(q) = LookupsOf(Requested(q))
  <2>1. ASSUME NEW e \in Entities
        PROVE  /\ e \in Requested(q) => Len(out[<<q, e>>]) = Len(Plan(e))
               /\ e \notin Requested(q) => Len(out[<<q, e>>]) = 0
    BY <1>2, LaneSets DEF AggregateInv, JobInv, LaneInv, StageInv, Requested, Done
  <2>2. ASSUME NEW l \in LookupsOf(Entities)
        PROVE  l \in Told(q) <=> l[1] \in Requested(q)
    <3>1. l[1] \in Entities /\ l[2] \in {1, 2} /\ l[2] <= Len(Plan(l[1]))
      BY DEF LookupsOf
    <3>2. CASE l[1] \in Requested(q)
      BY <2>1, <3>1, <3>2 DEF Told
    <3>3. CASE l[1] \notin Requested(q)
      <4>1. Len(out[<<q, l[1]>>]) = 0
        BY <2>1, <3>1, <3>3
      <4>2. ~ (l[2] <= 0)
        BY <3>1
      <4>3. QED
        BY <3>3, <4>1, <4>2 DEF Told
    <3>4. QED
      BY <3>2, <3>3
  <2>3. LookupsOf(Requested(q)) = {l \in LookupsOf(Entities) : l[1] \in Requested(q)}
    BY LaneSets DEF LookupsOf
  <2>4. QED
    BY <2>2, <2>3 DEF Told
<1>4. Told(q)' = {}
  <2>1. \A l \in LookupsOf(Entities) : out'[<<q, l[1]>>] = <<>> /\ ~ (l[2] <= 0)
    BY <1>2, Shapes DEF LookupsOf
  <2>2. QED
    BY <2>1 DEF Told, LookupsOf
<1>5. \A p \in Jobs : p # q => Told(p)' = Told(p) /\ Requested(p)' = Requested(p)
  <2>1. ASSUME NEW p \in Jobs, p # q PROVE Told(p)' = Told(p) /\ Requested(p)' = Requested(p)
    <3>1. \A l \in LookupsOf(Entities) : out'[<<p, l[1]>>] = out[<<p, l[1]>>]
      BY <1>2, <2>1, Shapes DEF LookupsOf
    <3>2. lists'[p] = lists[p]
      BY <1>1, <1>2, <2>1
    <3>3. QED
      BY <3>1, <3>2 DEF Told, LookupsOf, Requested
  <2>2. QED
    BY <2>1
<1>6. LookupsOf(Requested(q)') = {}
  <2>1. lists'[q] = NoLists
    BY <1>1, <1>2
  <2>2. QED
    BY <2>1 DEF LookupsOf, Requested, NoLists, ToSet
<1>7. [p \in Jobs |-> LookupsOf(Requested(p))]' =
        [[p \in Jobs |-> LookupsOf(Requested(p))] EXCEPT ![q] = {}]
  BY <1>5, <1>6 DEF LookupsOf
<1>8. [p \in Jobs |-> Told(p)]' = [[p \in Jobs |-> Told(p)] EXCEPT ![q] = {}]
  BY <1>4, <1>5
<1>9. [p \in Jobs |-> stage[p] # "idle"]' = [[p \in Jobs |-> stage[p] # "idle"] EXCEPT ![q] = FALSE]
  BY <1>1, <1>2
<1>10. QED
  BY <1>2, <1>3, <1>7, <1>8, <1>9 DEF Service!Answer, Told

(* Whatever hits, fails, expires or is shared with other requests, the     *)
(* aggregator does nothing that LookupService does not allow: no lookup is *)
(* lost, repeated, out of turn or reported to a request that did not ask.  *)
THEOREM PromiseKept == Spec => Service!Safety
<1>1. Init => Service!Init
  <2>1. SUFFICES ASSUME Init PROVE Service!Init
    OBVIOUS
  <2>2. \A q \in Jobs : lists[q] = NoLists
    BY <2>1 DEF Init
  <2>3. \A q \in Jobs : LookupsOf(Requested(q)) = {}
    BY <2>2, NothingWanted
  <2>4. \A q \in Jobs : {l \in LookupsOf(Entities) : l[2] <= Len(out[<<q, l[1]>>])} = {}
    <3>1. ASSUME NEW q \in Jobs, NEW l \in LookupsOf(Entities)
          PROVE  ~ (l[2] <= Len(out[<<q, l[1]>>]))
      <4>1. l[1] \in Entities /\ l[2] \in {1, 2}
        BY DEF LookupsOf
      <4>2. out[<<q, l[1]>>] = <<>>
        BY <2>1, <4>1, AggregateAssumption DEF Init
      <4>3. QED
        BY <4>1, <4>2
    <3>2. QED
      BY <3>1
  <2>5. \A q \in Jobs : stage[q] = "idle"
    BY <2>1 DEF Init
  <2>6. QED
    BY <2>3, <2>4, <2>5 DEF Service!Init
<1>2. AggregateInv /\ [Next]_vars => [Service!Next]_(Service!vars)
  <2>1. SUFFICES ASSUME AggregateInv, [Next]_vars PROVE [Service!Next]_(Service!vars)
    OBVIOUS
  <2>2. CASE Tick /\ UNCHANGED avars
    BY <2>2, UnseenStep DEF avars
  <2>3. CASE UNCHANGED vars
    BY <2>3, UnseenStep DEF vars, avars
  <2>4. ASSUME NEW q \in Jobs, Submit(q) PROVE Service!Next
    BY <2>1, <2>4, AcceptStep DEF Service!Next
  <2>5. ASSUME NEW q \in Jobs, Gathered(q) PROVE UNCHANGED Service!vars
    <3>1. stage'[q] # "idle" /\ stage[q] # "idle"
      BY <2>1, <2>5, GatheredStep DEF Gathered, Following
    <3>2. \A p \in Jobs : p # q => stage'[p] = stage[p]
      BY <2>1, <2>5 DEF Gathered, AggregateInv, AggregateTypeOK
    <3>3. UNCHANGED <<lists, out>>
      BY <2>5 DEF Gathered
    <3>4. QED
      BY <3>1, <3>2, <3>3, UnseenStep
  <2>6. ASSUME NEW q \in Jobs, Reply(q) PROVE Service!Next
    BY <2>1, <2>6, AnswerStep DEF Service!Next
  <2>7. ASSUME NEW q \in Jobs, NEW e \in Entities,
               LaneHit(q, e) \/ LaneAnswer(q, e) \/ LaneFail(q, e)
        PROVE  Service!Next
    BY <2>1, <2>7, ReportStep DEF Service!Next
  <2>8. ASSUME NEW q \in Jobs, NEW e \in Entities, LaneMiss(q, e)
        PROVE  UNCHANGED Service!vars
    BY <2>1, <2>8, MissStep, UnseenStep
  <2>9. QED
    BY <2>1, <2>2, <2>3, <2>4, <2>5, <2>6, <2>7, <2>8 DEF Next, Lane
<1>3. QED
  BY <1>1, <1>2, AggregateInvariance, PTL DEF Spec, Service!Safety
=============================================================================
