--------------------------- MODULE EvidencePipeline ---------------------------
(***************************************************************************)
(* An investigator's case: canary hits keep arriving while a message is    *)
(* analysed (routers/analyze.py), the hits are exported with OSINT on the  *)
(* hitters (routers/report.py, scripts/export_canary_investigation.py) and *)
(* a threat report is made of both.  The analysis and the investigation    *)
(* are files: each stays as it was when made, whatever arrives later.      *)
(* Every OSINT lookup may fail on its own.                                 *)
(***************************************************************************)
EXTENDS ThreatScore

CONSTANTS
  Messages,     \* the messages analysed
  AgentKinds,   \* user agents: "script", or anything else
  MaxTime,      \* bound on the timestamps of hits
  Lag,          \* how late a hit may be stored: it waits for the write lock
  MaxHits,      \* bound on the hits stored
  MaxEntities,  \* settings.osint_max_entities_per_type
  MaxRequest,   \* most entities of a type an OSINTQueryRequest accepts
  ScriptLimits, \* values of the export script's --limit
  MaxFailures   \* bound on the sources that are down during one enrichment

ASSUME PipelineAssumption ==
  /\ Webmail \subseteq MailInfra /\ DOMAIN Whois = DOMAIN Dns
  /\ {MaxTime, Lag, MaxHits, MaxEntities, MaxRequest, MaxFailures, ListLimit} \subseteq Nat
  /\ MaxEntities <= MaxRequest /\ ScriptLimits \subseteq Nat

(* What parsing makes of the headers of a message is finite, and of the    *)
(* results it takes those of three mechanisms.                             *)
ASSUME MessageAssumption ==
  \A m \in Messages :
    /\ m.hops \in Seq(DOMAIN IPFacts \cup Private \cup {""})
    /\ m.auth \in Seq([mech : DOMAIN FailedCode, status : STRING, domain : STRING])
    /\ IsFiniteSet(m.relays)

VARIABLES
  hits,       \* canary_hits
  mail,       \* history: the message analysed
  analysis,   \* analysis.json
  inv,        \* investigation.json
  report,     \* the report just answered
  raised      \* did the command just run end in an exception?

vars == <<hits, mail, analysis, inv, report, raised>>

IPs == DOMAIN IPFacts
NoMail == [from |-> NoAddress]
NoReport == [verdict |-> "none", findings |-> {}]

TypeOK ==
  /\ hits \subseteq [id : 1..MaxHits, ip : IPs, agent : AgentKinds, at : 1..MaxTime]
  /\ mail \in Messages \cup {NoMail}
  /\ analysis # NoMail => analysis.domains \subseteq DOMAIN Dns
  /\ ToSet(inv.timeline) \subseteq hits /\ raised \in BOOLEAN
  /\ report # NoReport =>
       /\ report.overall \in 0..100
       /\ \A c \in DOMAIN Weight : CategoryScore(Of(report.findings, c)) \in 0..100

Init ==
  /\ hits = {} /\ mail = NoMail /\ analysis = NoMail
  /\ inv = NoInvestigation /\ report = NoReport /\ raised = FALSE

-----------------------------------------------------------------------------
(* OSINT                                                                   *)

(* The first MaxEntities in an order of no consequence here.               *)
Capped(S) == kSubset(Least(Cardinality(S), MaxEntities), S)

IPKeys(ips) == {"ipinfo", "abuseipdb"} \X ips
EmailKeys(emails) == {<<"email", e.local, e.domain>> : e \in emails}

(* Of an email the source looked up is the WHOIS of its domain.            *)
Source(k) == IF k[1] = "email" THEN <<"whois", k[3]>> ELSE k

Enriched(keys) ==
  LET sources == {Source(k) : k \in keys}
  IN  {[k \in keys |-> Source(k) \notin down] :
         down \in UNION {kSubset(n, sources) : n \in 0..Least(MaxFailures, Cardinality(sources))}}

SenderOsint(an) ==
  UNION {Enriched(IPKeys(ips) \cup ({"whois"} \X domains) \cup EmailKeys(emails)) :
           ips \in Capped(an.ips), domains \in Capped(an.domains), emails \in Capped(an.emails)}

HitterOsint(timeline) ==
  UNION {Enriched(IPKeys(ips)) : ips \in Capped({h.ip : h \in ToSet(timeline)})}

-----------------------------------------------------------------------------
(* A hit gets its timestamp, then waits for the lock, then gets its id.    *)
Record(ip, agent, at) ==
  /\ Cardinality(hits) < MaxHits
  /\ \A h \in hits : h.at <= at + Lag
  /\ hits' = hits \cup {[id |-> Cardinality(hits) + 1, ip |-> ip, agent |-> agent, at |-> at]}
  /\ report' = NoReport /\ raised' = FALSE
  /\ UNCHANGED <<mail, analysis, inv>>

Analyze(m) == \E up \in SUBSET {"spf", "dmarc"} :
  /\ mail' = m
  /\ analysis' = Analysis(m, up)
  /\ report' = NoReport /\ raised' = FALSE
  /\ UNCHANGED <<hits, inv>>

(* POST /report/canary-investigation *)
Export ==
  /\ LET rows == Listed(hits, ListLimit)
     IN  \E osint \in {NoOsint} \cup HitterOsint(rows) : inv' = [timeline |-> rows, osint |-> osint]
  /\ report' = NoReport /\ raised' = FALSE
  /\ UNCHANGED <<hits, mail, analysis>>

(* scripts/export_canary_investigation.py: with --run-osint it asks for    *)
(* all the IPs of the hits at once.                                        *)
ExportByScript == \E limit \in ScriptLimits :
  LET rows == Listed(hits, limit)
      many == Cardinality({h.ip : h \in ToSet(rows)}) > MaxRequest
  IN  /\ \/ \E osint \in {NoOsint} \cup (IF many THEN {} ELSE HitterOsint(rows)) :
              inv' = [timeline |-> rows, osint |-> osint] /\ raised' = FALSE
         \/ many /\ raised' = TRUE /\ UNCHANGED inv
      /\ report' = NoReport
      /\ UNCHANGED <<hits, mail, analysis>>

(* A report with or without an investigation, and with lookups made for it *)
(* or not.  Those of the investigation are merged in either case.          *)
ScoreWith(i) ==
  /\ analysis # NoMail
  /\ \E osint \in {NoOsint} \cup SenderOsint(analysis) :
       report' \in Reports(analysis, Merge(osint, i.osint), i)
  /\ raised' = FALSE
  /\ UNCHANGED <<hits, mail, analysis, inv>>

(* POST /report/score and /report/from-analysis *)
Score == \E i \in {NoInvestigation, inv} : ScoreWith(i)

(* python -m app.cli.threat_report takes no investigation.                 *)
ScoreByCli == ScoreWith(NoInvestigation)

Next ==
  \/ \E ip \in IPs, agent \in AgentKinds, at \in 1..MaxTime : Record(ip, agent, at)
  \/ \E m \in Messages : Analyze(m)
  \/ Export
  \/ ExportByScript
  \/ Score
  \/ ScoreByCli

Spec == Init /\ [][Next]_vars

-----------------------------------------------------------------------------
(* Properties.  Definitions whose name has a suffix (Before_ById) are      *)
(* faulty variants kept to show that the properties notice them.           *)

(* The profiles account for every exported hit exactly once, in the order  *)
(* of first appearance and with first_seen <= last_seen, although hits are *)
(* stored out of the order of their timestamps.                            *)
ProfilesPartition ==
  LET ps == Profiles(inv)
      ids == {h.id : h \in ToSet(inv.timeline)}
  IN  /\ UNION {ps[i].hit_ids : i \in DOMAIN ps} = ids
      /\ SumFunction([i \in DOMAIN ps |-> ps[i].hit_count]) = Len(inv.timeline)
      /\ \A i \in DOMAIN ps : ps[i].first_seen <= ps[i].last_seen
      /\ \A i, j \in DOMAIN ps : i < j => ps[i].first_seen <= ps[j].first_seen

(* An export leaves out no hit older than one it contains: what the LIMIT  *)
(* cuts off is the newest evidence only.                                   *)
NothingEarlierOmitted ==
  [][inv' # inv =>
       \A g \in hits \ ToSet(inv'.timeline), h \in ToSet(inv'.timeline) : g.at >= h.at]_vars

(* Two exports in a row learn the same of the IPs they share.              *)
SameAnswers ==
  \A k \in DOMAIN inv.osint \cup (IPKeys(Hitters(inv)) \cap DOMAIN inv'.osint) :
    /\ k \in DOMAIN inv.osint \cap DOMAIN inv'.osint
    /\ inv.osint[k] = inv'.osint[k]

(* More hits never yield a smaller bonus (_canary_engagement_bonus): not   *)
(* in two exports of complete lists that learn the same of shared IPs.     *)
MoreHitsNeverLowerBonus ==
  [][inv' # inv /\ ToSet(inv'.timeline) = hits /\ SameAnswers
       => Bonus(inv') >= Bonus(inv)]_vars

(* No single category of evidence, however strong, carries a report to     *)
(* "high" or beyond.                                                       *)
HighNeedsTwoCategories ==
  report.verdict \in {"high", "critical"} =>
    Cardinality({f.category : f \in {g \in report.findings : g.points > 0}}) >= 2

(* The same lookups with ipinfo and AbuseIPDB up.  A failed WHOIS stays    *)
(* failed: the client turns that into "not found", which is held against   *)
(* the domain.                                                             *)
AllAnswered(osint) ==
  [k \in DOMAIN osint |-> k[1] \in {"ipinfo", "abuseipdb"} \/ osint[k]]

(* Without ipinfo a mobile client with a scripted user agent is taken for  *)
(* automation, which raises the bonus: that outage does add points.        *)
Misjudged(i, ip) ==
  /\ <<"ipinfo", ip>> \in DOMAIN i.osint /\ ~ Answered(i.osint, "ipinfo", ip)
  /\ IPFacts[ip].net = "mobile" /\ "script" \in Agents(i, ip)

(* Unless a hitter is misjudged, an outage of ipinfo or AbuseIPDB never    *)
(* makes a report score more than it would with both answering, although   *)
(* it moves roles, the pattern of the hits, countries, uplifts and the     *)
(* findings on the sender's IPs at once.                                   *)
OutageNeverAdds ==
  report # NoReport =>
    LET i  == report.investigation
        up == [timeline |-> i.timeline, osint |-> AllAnswered(i.osint)]
    IN  \/ \E ip \in Hitters(i) : Misjudged(i, ip)
        \/ \E r \in Reports(analysis, AllAnswered(report.osint), up) : report.overall <= r.overall

(* auth_checks.py reports a DNS outage as a missing record.  That never    *)
(* lowers a score, and adds no more than the 0.30 * (8 + 18) points of two *)
(* missing records: too few to skip a verdict.                             *)
OutageMovesScoreLittle ==
  LET unhurt == Analysis(mail, {"spf", "dmarc"})
  IN  report # NoReport /\ analysis # unhurt =>
        \E r \in Reports(unhurt, report.osint, report.investigation) :
          report.overall - r.overall \in 0..8

(* The base actions follow the verdict, the canary actions the pattern of  *)
(* the hits.  A plan that ends on "no immediate action required" never     *)
(* comes with both a human and an automated hitter if those are in two     *)
(* countries, or AbuseIPDB knows an automated one: the bonus of such a     *)
(* mixed pattern alone leaves "low".                                       *)
CalmOnlyIfPatternWeak ==
  report # NoReport /\ <<"optional", "no immediate action">> \in report.plan =>
    LET i == report.investigation
    IN  Mixed(i) =>
          /\ Cardinality(Countries(i)) < 2
          /\ \A ip \in Hitters(i) : Role(i, ip) = "automation_likely" =>
               AbuseScore(i.osint, ip) < 25 /\ AbuseReports(i.osint, ip) = 0

(* Rows by their timestamps, whatever order they were stored in.           *)
InTime(rows) == \A i, j \in DOMAIN rows : i < j => rows[i].at <= rows[j].at

(* What the proofs rest on: hits are numbered; an analysis is one of the   *)
(* message, made with some lookups answered; an investigation holds hits   *)
(* that are stored still, by time; a report is one that follows from the   *)
(* two.                                                                    *)
PipelineInv ==
  /\ TypeOK /\ IsFiniteSet(hits) /\ inv.timeline \in Seq(hits) /\ InTime(inv.timeline)
  /\ \A g, h \in hits : g.id <= Cardinality(hits) /\ (g.id = h.id => g = h)
  /\ analysis # NoMail =>
       mail \in Messages /\ \E up \in SUBSET {"spf", "dmarc"} : analysis = Analysis(mail, up)
  /\ report # NoReport =>
       /\ analysis # NoMail /\ report.investigation \in {NoInvestigation, inv}
       /\ report \in Reports(analysis, report.osint, report.investigation)

-----------------------------------------------------------------------------
(* Claims of the repository that the code does not keep.                   *)

(* merge_osint: "secondary fills gaps".  A failed lookup of the primary    *)
(* hides the answer the secondary has.                                     *)
SecondaryFillsGaps ==
  report # NoReport =>
    LET secondary == report.investigation.osint
    IN  \A k \in DOMAIN secondary : secondary[k] => report.osint[k]

(* export_canary_investigation.py: "Run OSINT on unique hit IPs", which    *)
(* are refused when there are more than a request accepts.                 *)
HittersLookedUp == ~ raised

(* README.md: infrastructure scores AbuseIPDB and ipinfo on the entities   *)
(* relevant to the sender.  Those of the hops are never looked up when     *)
(* there is an X-Originating-IP.                                           *)
FocusIPsExtracted ==
  analysis # NoMail => FocusIPs(analysis) \subseteq analysis.ips
=============================================================================
