---------------------------- MODULE Investigation ----------------------------
(***************************************************************************)
(* The canary investigation (app/services/canary_investigation.py): the    *)
(* stored hits listed by time, grouped into one profile per IP, each with  *)
(* the role its OSINT data and user agents suggest.                        *)
(*                                                                         *)
(* A hit is [id, ip, agent, at]; an OSINT response is a function from the  *)
(* lookups made (<<source, entity>>) to whether they were answered: what   *)
(* the source says of an entity is a constant.                             *)
(***************************************************************************)
EXTENDS Integers, FiniteSets, Sequences, SequencesExt, SortedSeq

CONSTANTS
  IPFacts,    \* what ipinfo and AbuseIPDB say of an IP, if they answer:
              \* [net, country, vpn, abuse, reports]
  ListLimit   \* limit of list_hits

(* A confidence and a number of reports; what is no number counts as 0.    *)
ASSUME FactsAssumption ==
  \A ip \in DOMAIN IPFacts : IPFacts[ip].abuse \in Nat /\ IPFacts[ip].reports \in Nat

Least(m, n) == IF m < n THEN m ELSE n

Before_ById(g, h) == g.id < h.id
Before(g, h) == g.at < h.at \/ (g.at = h.at /\ g.id < h.id)

(* list_hits, and _load_hits of the export script: ORDER BY timestamp, id  *)
(* LIMIT limit.                                                            *)
Listed(hits, limit) ==
  LET rows == InOrder(hits, Before)
  IN  SubSeq(rows, 1, Least(Len(rows), limit))

NoOsint == [k \in {} |-> TRUE]
NoInvestigation == [timeline |-> <<>>, osint |-> NoOsint]

Hitters(inv) == {inv.timeline[i].ip : i \in DOMAIN inv.timeline}
HitsOf(inv, ip) ==
  Picked(inv.timeline, {i \in DOMAIN inv.timeline : inv.timeline[i].ip = ip})
Agents(inv, ip) == {h.agent : h \in {g \in ToSet(inv.timeline) : g.ip = ip}}

Answered(osint, source, entity) ==
  <<source, entity>> \in DOMAIN osint /\ osint[<<source, entity>>]

Role_LastAgent(inv, ip) ==
  CASE Answered(inv.osint, "ipinfo", ip) /\ IPFacts[ip].net = "cloud" -> "automation_likely"
    [] Answered(inv.osint, "ipinfo", ip) /\ IPFacts[ip].net = "mobile" -> "human_likely"
    [] OTHER -> IF Last(HitsOf(inv, ip)).agent = "script"
                THEN "automation_likely" ELSE "unknown"

Role_OutageAutomated(inv, ip) ==
  CASE Answered(inv.osint, "ipinfo", ip) /\ IPFacts[ip].net = "mobile" -> "human_likely"
    [] Answered(inv.osint, "ipinfo", ip) /\ IPFacts[ip].net = "other" ->
         IF "script" \in Agents(inv, ip) THEN "automation_likely" ELSE "unknown"
    [] OTHER -> "automation_likely"

(* _classify_ip: the network decides; the user agents only if it does not. *)
Role(inv, ip) ==
  CASE Answered(inv.osint, "ipinfo", ip) /\ IPFacts[ip].net = "cloud" -> "automation_likely"
    [] Answered(inv.osint, "ipinfo", ip) /\ IPFacts[ip].net = "mobile" -> "human_likely"
    [] OTHER -> IF "script" \in Agents(inv, ip) THEN "automation_likely" ELSE "unknown"

Profile(inv, ip) ==
  LET own == HitsOf(inv, ip)
  IN  [ip |-> ip, hit_ids |-> {h.id : h \in ToSet(own)}, hit_count |-> Len(own),
       first_seen |-> Head(own).at, last_seen |-> Last(own).at, role |-> Role(inv, ip)]

(* In the order in which the IPs first appear in the timeline.             *)
Profiles(inv) ==
  LET firsts == {i \in DOMAIN inv.timeline :
                   \A j \in 1..(i - 1) : inv.timeline[j].ip # inv.timeline[i].ip}
      heads  == Picked(inv.timeline, firsts)
  IN  [n \in DOMAIN heads |-> Profile(inv, heads[n].ip)]

Roles(inv) == {Role(inv, ip) : ip \in Hitters(inv)}

Countries(inv) ==
  {IPFacts[ip].country : ip \in {i \in Hitters(inv) : Answered(inv.osint, "ipinfo", i)}} \ {""}

-----------------------------------------------------------------------------
(* What _canary_engagement_bonus adds to the overall score.                *)

AbuseScore(osint, ip) ==
  IF Answered(osint, "abuseipdb", ip) THEN IPFacts[ip].abuse ELSE 0
AbuseReports(osint, ip) ==
  IF Answered(osint, "abuseipdb", ip) THEN IPFacts[ip].reports ELSE 0

Mixed(inv) == {"human_likely", "automation_likely"} \subseteq Roles(inv)

Uplift_HighOnly(inv, ip) ==
  IF AbuseScore(inv.osint, ip) >= 25 THEN 6 ELSE 0
Uplift(inv, ip) ==
  CASE AbuseScore(inv.osint, ip) >= 25  -> 6
    [] AbuseScore(inv.osint, ip) < 25 /\ AbuseReports(inv.osint, ip) > 0 -> 4
    [] OTHER -> 0

Bonus(inv) ==
  LET automated == {ip \in Hitters(inv) : Role(inv, ip) = "automation_likely"}
      pattern == CASE Mixed(inv) /\ Cardinality(Countries(inv)) >= 2 -> 32
                   [] Mixed(inv) /\ Cardinality(Countries(inv)) < 2  -> 26
                   [] ~ Mixed(inv) -> IF automated # {} THEN 8 ELSE 0
  IN  Least(32, pattern + SumFunction([ip \in automated |-> Uplift(inv, ip)]))
=============================================================================
