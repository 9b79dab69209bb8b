--------------------------- MODULE OsintAggregate ---------------------------
(***************************************************************************)
(* aggregate_osint (app/services/osint/aggregator.py): concurrent requests *)
(* that share the cache of OsintCache.  A request runs three gathers one   *)
(* after the other: a lane per IP, then per domain, then per email.  A     *)
(* lane makes its lookups in turn and turns an exception into a result.    *)
(* Lane <<q, e>> is a task of OsintCache.                                  *)
(***************************************************************************)
EXTENDS OsintCache, SequencesExt

CONSTANTS
  Jobs,                 \* slots of concurrent requests
  IPs, Domains, Emails, \* entities
  EmailDomain,          \* the domain of an email
  Limit,                \* settings.osint_max_entities_per_type
  Requests,             \* the OSINTQueryRequests that arrive
  MaxAccepted           \* bound on the requests accepted

Entities == IPs \cup Domains \cup Emails

ASSUME AggregateAssumption ==
  /\ Tasks = Jobs \X Entities
  /\ Keys = ({"ipinfo", "abuseipdb"} \X IPs) \cup ({"whois"} \X Domains)
  /\ EmailDomain \in [Emails -> Domains]
  /\ Limit \in Nat /\ MaxAccepted \in Nat
  /\ Requests \subseteq [ips : Seq(IPs), domains : Seq(Domains), emails : Seq(Emails)]
  /\ IPs \cap Domains = {} /\ IPs \cap Emails = {} /\ Domains \cap Emails = {}

VARIABLES
  stage,     \* stage[q]: the gather request q awaits
  lists,     \* lists[q]: its deduplicated, capped entities
  out,       \* out[<<q, e>>]: results of the lane, in order
  calls,     \* history: calls[q] counts the upstream calls of that gather
  accepted   \* counts Submit, for MaxAccepted

avars == <<stage, lists, out, calls, accepted>>
vars  == <<cvars, avars>>

Lists   == [ips : Seq(IPs), domains : Seq(Domains), emails : Seq(Emails)]
NoLists == [ips |-> <<>>, domains |-> <<>>, emails |-> <<>>]
Following == [ips |-> "domains", domains |-> "emails", emails |-> "reply"]

AggregateTypeOK ==
  /\ CacheTypeOK
  /\ stage \in [Jobs -> {"idle", "ips", "domains", "emails", "reply"}]
  /\ lists \in [Jobs -> Lists]
  /\ out \in [Tasks -> Seq(Answers)]
  /\ calls \in [Jobs -> Nat]
  /\ accepted \in 0..MaxAccepted

Init ==
  /\ CacheInit
  /\ stage = [q \in Jobs |-> "idle"]
  /\ lists = [q \in Jobs |-> NoLists]
  /\ out = [t \in Tasks |-> <<>>]
  /\ calls = [q \in Jobs |-> 0]
  /\ accepted = 0

-----------------------------------------------------------------------------
(* list(dict.fromkeys(s))[:limit]: the n-th element is the n-th one that   *)
(* is not a repetition.                                                    *)
Firsts(s) == {i \in 1..Len(s) : \A j \in 1..(i - 1) : s[j] # s[i]}
Rank(s, i) == Cardinality(Firsts(s) \cap (1..i))
Distinct(s) ==
  [n \in 1..Cardinality(Firsts(s)) |-> s[CHOOSE i \in Firsts(s) : Rank(s, i) = n]]

Capped_Forgotten(s) == Distinct(s)
Capped(s) == SubSeq(Distinct(s), 1, IF Len(Distinct(s)) < Limit THEN Len(Distinct(s)) ELSE Limit)

(* The lookups _enrich_ip, _enrich_domain and _enrich_email make.          *)
Plan(e) ==
  CASE e \in IPs     -> << <<"ipinfo", e>>, <<"abuseipdb", e>> >>
    [] e \in Domains -> << <<"whois", e>> >>
    [] e \in Emails  -> << <<"whois", EmailDomain[e]>> >>

Submit(q) ==
  /\ stage[q] = "idle" /\ accepted < MaxAccepted
  /\ \E r \in Requests :
       lists' = [lists EXCEPT ![q] = [ips     |-> Capped(r.ips),
                                      domains |-> Capped(r.domains),
                                      emails  |-> Capped(r.emails)]]
  /\ stage' = [stage EXCEPT ![q] = "ips"]
  /\ accepted' = accepted + 1
  /\ UNCHANGED <<cvars, out, calls>>

Lanes(q) == IF stage[q] \in DOMAIN Following THEN ToSet(lists[q][stage[q]]) ELSE {}
Done(q, e) == Len(out[<<q, e>>]) = Len(Plan(e))
NextKey(q, e) == Plan(e)[Len(out[<<q, e>>]) + 1]

(* A lookup of the lane returned or raised; the lane notes the result.     *)
Note(q, e) == out' = [out EXCEPT ![<<q, e>>] = Append(@, got'[<<q, e>>])]

LaneHit(q, e) ==
  /\ e \in Lanes(q) /\ ~ Done(q, e)
  /\ Hit(<<q, e>>, NextKey(q, e)) /\ Note(q, e)
  /\ UNCHANGED <<stage, lists, calls, accepted>>

LaneMiss(q, e) ==
  /\ e \in Lanes(q) /\ ~ Done(q, e)
  /\ Miss(<<q, e>>, NextKey(q, e))
  /\ calls' = [calls EXCEPT ![q] = @ + 1]
  /\ UNCHANGED <<stage, lists, out, accepted>>

LaneAnswer(q, e) ==
  /\ Answer(<<q, e>>) /\ Note(q, e)
  /\ UNCHANGED <<stage, lists, calls, accepted>>

LaneFail_Raises(q, e) ==
  /\ Fail(<<q, e>>)
  /\ stage' = [stage EXCEPT ![q] = "raised"]
  /\ UNCHANGED <<lists, out, calls, accepted>>

(* except Exception: the lane goes on with an error result.                *)
LaneFail(q, e) ==
  /\ Fail(<<q, e>>) /\ Note(q, e)
  /\ UNCHANGED <<stage, lists, calls, accepted>>

Gathered_First(q) ==
  /\ stage[q] \in DOMAIN Following
  /\ Lanes(q) = {} \/ \E e \in Lanes(q) : Done(q, e)
  /\ stage' = [stage EXCEPT ![q] = Following[@]]
  /\ calls' = [calls EXCEPT ![q] = 0]
  /\ UNCHANGED <<cvars, lists, out, accepted>>

Gathered(q) ==
  /\ stage[q] \in DOMAIN Following
  /\ \A e \in Lanes(q) : Done(q, e)
  /\ stage' = [stage EXCEPT ![q] = Following[@]]
  /\ calls' = [calls EXCEPT ![q] = 0]
  /\ UNCHANGED <<cvars, lists, out, accepted>>

Reply(q) ==
  /\ stage[q] = "reply"
  /\ stage' = [stage EXCEPT ![q] = "idle"]
  /\ lists' = [lists EXCEPT ![q] = NoLists]
  /\ out' = [t \in Tasks |-> IF t[1] = q THEN <<>> ELSE out[t]]
  /\ UNCHANGED <<cvars, calls, accepted>>

Lane(q, e) == LaneHit(q, e) \/ LaneMiss(q, e) \/ LaneAnswer(q, e) \/ LaneFail(q, e)

Next ==
  \/ Tick /\ UNCHANGED avars
  \/ \E q \in Jobs : Submit(q) \/ Gathered(q) \/ Reply(q) \/ \E e \in Entities : Lane(q, e)

Spec == Init /\ [][Next]_vars

(* The event loop resumes every task, and every upstream call ends: httpx  *)
(* times out, python-whois returns or raises.                              *)
FairSpec ==
  /\ Spec
  /\ \A q \in Jobs : /\ WF_vars(Gathered(q) \/ Reply(q))
                     /\ \A e \in Entities : WF_vars(Lane(q, e))

-----------------------------------------------------------------------------
Requested(q) ==
  ToSet(lists[q].ips) \cup ToSet(lists[q].domains) \cup ToSet(lists[q].emails)

(* When a request is answered, every requested entity has one result per   *)
(* source, in the order of its lookups, whichever of them failed, hit or   *)
(* were overtaken by lookups of other requests.                            *)
EveryLookupReported ==
  \A q \in Jobs : stage[q] = "reply" =>
    \A e \in Requested(q) :
      [i \in DOMAIN out[<<q, e>>] |-> out[<<q, e>>][i].key] = Plan(e)

(* deploy/DEPLOY.md: at most Limit entities per type per request, however  *)
(* many the caller sent; an IP costs two upstream calls, the others one.   *)
CallsWithinCap ==
  \A q \in Jobs : calls[q] <= Limit * (IF stage[q] = "ips" THEN 2 ELSE 1)

(* The promise of LookupService, seen in the lanes.                        *)
LookupsOf(es) == {l \in es \X {1, 2} : l[2] <= Len(Plan(l[1]))}
Service == INSTANCE LookupService WITH
  Lookups <- LookupsOf(Entities),
  busy    <- [q \in Jobs |-> stage[q] # "idle"],
  wanted  <- [q \in Jobs |-> LookupsOf(Requested(q))],
  told    <- [q \in Jobs |-> {l \in LookupsOf(Entities) : l[2] <= Len(out[<<q, l[1]>>])}]

(* The aggregator keeps that promise, and no failing, slow or shared       *)
(* upstream, nor a cache that evicts, leaves a request without its answer. *)
ImplementsService == Service!Spec

-----------------------------------------------------------------------------
(* The inductive invariant behind the safety properties.                   *)

(* A lane's results are those of its first lookups, and what it awaits is  *)
(* the next one; only the lanes of the current gather await anything.      *)
LaneInv(q) == \A e \in Entities :
  /\ Len(out[<<q, e>>]) <= Len(Plan(e))
  /\ \A i \in 1..Len(out[<<q, e>>]) : out[<<q, e>>][i].key = Plan(e)[i]
  /\ out[<<q, e>>] # <<>> => e \in Requested(q)
  /\ task[<<q, e>>] # Nothing =>
       e \in Lanes(q) /\ ~ Done(q, e) /\ task[<<q, e>>].key = NextKey(q, e)

StageInv(q) ==
  /\ stage[q] = "idle" => lists[q] = NoLists
  /\ stage[q] \in {"domains", "emails", "reply"} => \A e \in ToSet(lists[q].ips) : Done(q, e)
  /\ stage[q] \in {"emails", "reply"} => \A e \in ToSet(lists[q].domains) : Done(q, e)
  /\ stage[q] = "reply" => \A e \in ToSet(lists[q].emails) : Done(q, e)

(* The lookups of the current gather that were begun bound its calls.      *)
Begun(q) ==
  {l \in Lanes(q) \X {1, 2} :
     l[2] <= Len(out[<<q, l[1]>>]) + (IF task[<<q, l[1]>>] = Nothing THEN 0 ELSE 1)}

CallsInv(q) ==
  /\ calls[q] <= Cardinality(Begun(q))
  /\ stage[q] \in {"idle", "reply"} => calls[q] = 0
  /\ \A k \in DOMAIN Following : Len(lists[q][k]) <= Limit

JobInv(q) == LaneInv(q) /\ StageInv(q) /\ CallsInv(q)

AggregateInv == CacheInv /\ AggregateTypeOK /\ \A q \in Jobs : JobInv(q)
=============================================================================
