------------------------ MODULE EvidencePipelineProofs ------------------------
(***************************************************************************)
(* Proofs about the evidence pipeline: the analysis, the export and the    *)
(* report of a case whose hits keep arriving.                              *)
(***************************************************************************)
EXTENDS EvidencePipeline, ThreatScoreProofs

-----------------------------------------------------------------------------
(* What the evaluator makes of a message                                   *)

LEMMA GradedUnion ==
  ASSUME NEW A, Graded(A), NEW B, Graded(B)
  PROVE  Graded(A \cup B)
BY FS_Union DEF Graded

LEMMA GradedWhen ==
  ASSUME NEW P, NEW code \in HeaderCodes, NEW severity \in DOMAIN SeverityPoints, NEW about
  PROVE  Graded(When(P, Anomaly(code, severity, about)))
<1> DEFINE x == Anomaly(code, severity, about)
<1>1. x.code = code /\ x.severity = severity
  BY DEF Anomaly
<1> HIDE DEF x
<1>2. Graded({x}) /\ Graded({})
  BY <1>1, FS_Singleton, FS_EmptySet DEF Graded
<1>3. QED
  BY <1>2 DEF When, x

LEMMA Severities ==
  {"low", "medium", "high"} \subseteq DOMAIN SeverityPoints
BY DEF SeverityPoints

LEMMA DnsGraded ==
  ASSUME NEW d, NEW up
  PROVE  Graded(DnsAnomalies(d, up))
<1> DEFINE A == When(~ SpfFound(d, up), Anomaly("spf_record_missing", "low", d))
           B == When(~ DmarcFound(d, up), Anomaly("dmarc_record_missing", "medium", d))
           C == When(DmarcFound(d, up) /\ Dns[d].dmarc = "none",
                     Anomaly("dmarc_policy_none", "low", d))
<1>1. /\ "spf_record_missing" \in HeaderCodes /\ "dmarc_record_missing" \in HeaderCodes
      /\ "dmarc_policy_none" \in HeaderCodes
      /\ "low" \in DOMAIN SeverityPoints /\ "medium" \in DOMAIN SeverityPoints
  BY Severities DEF HeaderCodes
<1>2. Graded(A) /\ Graded(B) /\ Graded(C)
  BY <1>1, GradedWhen
<1>3. DnsAnomalies(d, up) = IF d = "" THEN {} ELSE (A \cup B) \cup C
  BY DEF DnsAnomalies
<1> HIDE DEF A, B, C
<1>4. Graded({})
  BY FS_EmptySet DEF Graded
<1>5. QED
  BY <1>2, <1>3, <1>4, GradedUnion

LEMMA AuthenticationIs ==
  ASSUME NEW m \in Messages
  PROVE  Authentication(m) \in Seq(Results)
<1> DEFINE fresh == {i \in DOMAIN m.auth : \A j \in 1..(i - 1) :
                       <<m.auth[j].mech, m.auth[j].domain>> # <<m.auth[i].mech, m.auth[i].domain>>}
<1>1. m.auth \in Seq(Results)
  BY MessageAssumption DEF Results
<1>2. fresh \subseteq 1..Len(m.auth)
  BY <1>1
<1>3. Authentication(m) = Picked(m.auth, fresh)
  BY DEF Authentication
<1> HIDE DEF fresh
<1>4. ASSUME NEW S, NEW s \in Seq(S), NEW I, I \subseteq 1..Len(s) PROVE Picked(s, I) \in Seq(S)
  BY <1>4, PickedInOrder
<1>5. Picked(m.auth, fresh) \in Seq(Results)
  BY <1>1, <1>2, <1>4
<1>6. QED
  BY <1>3, <1>5

(* The anomalies that no lookup decides.                                   *)
MailAnomalies(m) ==
       When(Mismatch(m.replyTo.domain, m.from.domain),
            Anomaly("reply_to_domain_mismatch", "high", ""))
  \cup When(Mismatch(m.returnPath.domain, m.from.domain),
            Anomaly("return_path_domain_mismatch", "medium", ""))
  \cup {Anomaly(FailedCode[a.mech], IF a.mech = "dmarc" THEN "high" ELSE "medium", a.domain) :
          a \in {b \in ToSet(Authentication(m)) : b.status \in Failed}}
  \cup When(m.xip # "" /\ HopIPs(m) # {} /\ m.xip \notin HopIPs(m),
            Anomaly("x_originating_ip_not_in_received", "medium", m.xip))
  \cup When(m.hops # <<>> /\ m.hops[1] \in Private,
            Anomaly("private_ip_in_first_hop", "medium", m.hops[1]))
  \cup When(m.from # NoAddress /\ m.replyTo # NoAddress /\ m.from # m.replyTo,
            Anomaly("reply_to_address_mismatch", "medium", ""))

DnsCodes == {"spf_record_missing", "dmarc_record_missing", "dmarc_policy_none"}

LEMMA MailGraded ==
  ASSUME NEW m \in Messages
  PROVE  /\ Graded(MailAnomalies(m))
         /\ \A x \in MailAnomalies(m) : x.code \notin DnsCodes
<1> DEFINE OK(X) == Graded(X) /\ \A x \in X : x.code \notin DnsCodes
           failed == {b \in ToSet(Authentication(m)) : b.status \in Failed}
           h == [a \in failed |-> Anomaly(FailedCode[a.mech],
                                          IF a.mech = "dmarc" THEN "high" ELSE "medium", a.domain)]
           A == When(Mismatch(m.replyTo.domain, m.from.domain),
                     Anomaly("reply_to_domain_mismatch", "high", ""))
           B == When(Mismatch(m.returnPath.domain, m.from.domain),
                     Anomaly("return_path_domain_mismatch", "medium", ""))
           C == {h[a] : a \in failed}
           D == When(m.xip # "" /\ HopIPs(m) # {} /\ m.xip \notin HopIPs(m),
                     Anomaly("x_originating_ip_not_in_received", "medium", m.xip))
           E == When(m.hops # <<>> /\ m.hops[1] \in Private,
                     Anomaly("private_ip_in_first_hop", "medium", m.hops[1]))
           F == When(m.from # NoAddress /\ m.replyTo # NoAddress /\ m.from # m.replyTo,
                     Anomaly("reply_to_address_mismatch", "medium", ""))
<1>1. ASSUME NEW P, NEW code \in HeaderCodes \ DnsCodes, NEW severity \in {"medium", "high"}, NEW about
      PROVE  OK(When(P, Anomaly(code, severity, about)))
  <2>1. Graded(When(P, Anomaly(code, severity, about)))
    BY Severities, GradedWhen
  <2>2. ASSUME NEW x \in When(P, Anomaly(code, severity, about)) PROVE x.code \notin DnsCodes
    <3>1. x = Anomaly(code, severity, about)
      BY InWhen
    <3>2. x.code = code
      BY <3>1 DEF Anomaly
    <3>3. QED
      BY <3>2
  <2>3. QED
    BY <2>1, <2>2
<1>2. /\ "reply_to_domain_mismatch" \in HeaderCodes \ DnsCodes
      /\ "return_path_domain_mismatch" \in HeaderCodes \ DnsCodes
      /\ "x_originating_ip_not_in_received" \in HeaderCodes \ DnsCodes
      /\ "private_ip_in_first_hop" \in HeaderCodes \ DnsCodes
      /\ "reply_to_address_mismatch" \in HeaderCodes \ DnsCodes
  BY DEF HeaderCodes, DnsCodes
<1>3. MailAnomalies(m) = ((((A \cup B) \cup C) \cup D) \cup E) \cup F
  BY DEF MailAnomalies
<1>4. OK(C)
  <2>1. Authentication(m) \in Seq(Results)
    BY AuthenticationIs
  <2>2. IsFiniteSet(failed) /\ failed \subseteq Results
    <3> DEFINE s == Authentication(m)
    <3>1. s \in Seq(Results)
      BY <2>1
    <3> HIDE DEF s
    <3>2. IsFiniteSet(ToSet(s))
      BY <3>1, HeldAtMostLen
    <3>3. ToSet(s) \subseteq Results
      BY <3>1 DEF ToSet
    <3>4. failed \in SUBSET ToSet(s)
      BY DEF s
    <3>5. QED
      BY <3>2, <3>3, <3>4, FS_Subset
  <2>3. ASSUME NEW a \in failed
        PROVE  /\ h[a].code \in HeaderCodes \ DnsCodes /\ h[a].severity \in DOMAIN SeverityPoints
    <3>1. a.mech \in {"spf", "dkim", "dmarc"} /\ a.mech \in DOMAIN FailedCode
      BY <2>2 DEF Results, FailedCode
    <3>2. FailedCode[a.mech] \in {"spf_failed", "dkim_failed", "dmarc_failed"}
      BY <3>1 DEF FailedCode
    <3>3. h[a].code = FailedCode[a.mech] /\ h[a].severity \in {"medium", "high"}
      BY DEF Anomaly
    <3>4. QED
      BY <3>2, <3>3, Severities DEF HeaderCodes, DnsCodes
  <2>4. IsFiniteSet(C)
    <3>1. h \in Surjection(failed, C)
      BY DEF Surjection
    <3> HIDE DEF h, C
    <3>2. QED
      BY <2>2, <3>1, FS_Surjection
  <2> HIDE DEF h, failed
  <2>5. QED
    BY <2>3, <2>4 DEF Graded
<1>5. OK(A) /\ OK(B) /\ OK(D) /\ OK(E) /\ OK(F)
  BY <1>1, <1>2
<1> HIDE DEF A, B, C, D, E, F
<1>6. ASSUME NEW X, OK(X), NEW Y, OK(Y) PROVE OK(X \cup Y)
  BY <1>6, GradedUnion
<1> HIDE DEF OK
<1>7. OK((A \cup B) \cup C)
  BY <1>4, <1>5, <1>6
<1>8. OK((((A \cup B) \cup C) \cup D) \cup E)
  BY <1>5, <1>6, <1>7
<1>9. OK(((((A \cup B) \cup C) \cup D) \cup E) \cup F)
  BY <1>5, <1>6, <1>8
<1>10. QED
  BY <1>3, <1>9 DEF OK

LEMMA AnomaliesAre ==
  ASSUME NEW m, NEW up
  PROVE  DetectAnomalies(m, up) = MailAnomalies(m) \cup DnsAnomalies(m.from.domain, up)
BY DEF DetectAnomalies, MailAnomalies

LEMMA AnalysisIs ==
  ASSUME NEW m \in Messages, NEW up
  PROVE  Analysed(Analysis(m, up)) /\ Analysis(m, up).domains \subseteq DOMAIN Dns
<1> DEFINE an == Analysis(m, up)
<1>1. /\ an.hops = m.hops /\ an.authentication = Authentication(m)
      /\ an.domains = ExtractedDomains(m) /\ an.anomalies = DetectAnomalies(m, up)
  BY DEF Analysis
<1>2. Graded(an.anomalies)
  <2>1. Graded(DetectAnomalies(m, up))
    BY MailGraded, DnsGraded, GradedUnion, AnomaliesAre
  <2>2. QED
    BY <1>1, <2>1
<1>3. an.hops \in Seq(DOMAIN IPFacts \cup Private \cup {""})
  BY <1>1, MessageAssumption
<1>4. an.authentication \in Seq(Results)
  BY <1>1, AuthenticationIs
<1>5. an.domains \subseteq DOMAIN Dns
  BY <1>1 DEF ExtractedDomains
<1> HIDE DEF an
<1>6. Analysed(an)
  BY <1>2, <1>3, <1>4 DEF Analysed
<1>7. QED
  BY <1>5, <1>6 DEF an

-----------------------------------------------------------------------------
(* What an export lists                                                    *)

(* The hits are ordered by time and number, so the list is a prefix of the *)
(* hits in that order.                                                     *)
LEMMA ListedIs ==
  ASSUME NEW S, IsFiniteSet(S), \A h \in S : h.id \in Int /\ h.at \in Int,
         \A g, h \in S : g.id = h.id => g = h, NEW limit \in Nat
  PROVE  /\ Listed(S, limit) \in Seq(S) /\ InTime(Listed(S, limit))
         /\ \A g \in S \ ToSet(Listed(S, limit)), h \in ToSet(Listed(S, limit)) : g.at >= h.at
<1> DEFINE R == {p \in S \X S : Before(p[1], p[2])}
           rank == [x \in S |-> Cardinality({y \in S : Before(y, x)})]
           rows == InOrder(S, Before)
           size == Cardinality(S)
<1>1. \A x, y \in S : Before(x, y) <=> <<x, y>> \in R
  OBVIOUS
<1>2. /\ \A x \in S : ~ Before(x, x)
      /\ \A x, y, z \in S : Before(x, y) /\ Before(y, z) => Before(x, z)
      /\ \A x, y \in S : x = y \/ Before(x, y) \/ Before(y, x)
      /\ \A x, y \in S : ~ Before(x, y) => x.at >= y.at
  BY DEF Before
<1>3. \A x \in S : rank[x] = Cardinality(Below(S, R, x))
  <2>1. ASSUME NEW x \in S PROVE {y \in S : Before(y, x)} = Below(S, R, x)
    BY <1>1 DEF Below
  <2> HIDE DEF R
  <2>2. QED
    BY <2>1
<1> HIDE DEF R, rank
<1> DEFINE row(n) == CHOOSE x \in S : Cardinality({y \in S : Before(y, x)}) = n - 1
<1>4. rows = [n \in 1..size |-> row(n)]
  BY DEF InOrder
<1> HIDE DEF rows, size
<1>5. /\ size \in Nat
      /\ \A x \in S : rank[x] \in 0..(size - 1)
      /\ \A x, y \in S : Before(x, y) => rank[x] < rank[y]
      /\ \A n \in 1..size : \E x \in S : rank[x] = n - 1
  <2>1. /\ \A x \in S : <<x, x>> \notin R
        /\ \A x, y, z \in S : <<x, y>> \in R /\ <<y, z>> \in R => <<x, z>> \in R
        /\ \A x, y \in S : x = y \/ <<x, y>> \in R \/ <<y, x>> \in R
    BY <1>1, <1>2
  <2>2. /\ Cardinality(S) \in Nat
        /\ \A x \in S : Cardinality(Below(S, R, x)) \in 0..(Cardinality(S) - 1)
        /\ \A x, y \in S : <<x, y>> \in R =>
             Cardinality(Below(S, R, x)) < Cardinality(Below(S, R, y))
        /\ \A n \in 1..Cardinality(S) : \E x \in S : Cardinality(Below(S, R, x)) = n - 1
    BY <2>1, Ranks
  <2>3. QED
    BY <1>1, <1>3, <2>2 DEF size
<1>6. ASSUME NEW n \in 1..size PROVE rows[n] \in S /\ rank[rows[n]] = n - 1
  <2>1. rows[n] = row(n)
    BY <1>4
  <2>2. \A x \in S : rank[x] = Cardinality({y \in S : Before(y, x)})
    BY DEF rank
  <2>3. \E x \in S : Cardinality({y \in S : Before(y, x)}) = n - 1
    BY <1>5, <2>2
  <2>4. row(n) \in S /\ Cardinality({y \in S : Before(y, row(n))}) = n - 1
    BY <2>3
  <2> HIDE DEF row
  <2>5. QED
    BY <2>1, <2>2, <2>4
<1> HIDE DEF row
<1>7. rows \in Seq(S) /\ Len(rows) = size
  <2>1. rows \in [1..size -> S]
    BY <1>4, <1>6
  <2>2. QED
    BY <1>5, <2>1
<1> DEFINE k == Least(size, limit)
           list == SubSeq(rows, 1, k)
<1>8. Listed(S, limit) = list
  BY <1>7 DEF Listed, rows
<1>9. k \in 0..size
  BY <1>5 DEF Least
<1> HIDE DEF k
<1>10. list \in Seq(S) /\ Len(list) = k /\ \A i \in 1..k : list[i] = rows[i]
  BY <1>7, <1>9
<1>11. ASSUME NEW g \in S \ ToSet(list), NEW h \in ToSet(list) PROVE g.at >= h.at
  <2>1. PICK i \in 1..k : h = rows[i]
    BY <1>10 DEF ToSet
  <2>2. h \in S /\ rank[h] = i - 1
    BY <1>5, <1>6, <1>9, <2>1
  <2>3. rank[g] \in Int /\ rank[g] >= k
    <3>1. rank[g] \in 0..(size - 1)
      BY <1>5
    <3>2. SUFFICES ASSUME rank[g] < k PROVE FALSE
      BY <1>9, <3>1
    <3> DEFINE n == rank[g] + 1
    <3>3. n \in 1..k /\ n \in 1..size
      BY <1>5, <1>9, <3>1, <3>2
    <3>4. rows[n] \in S /\ rank[rows[n]] = rank[g]
      BY <1>6, <3>1, <3>3
    <3>5. rows[n] = g
      <4>1. ~ Before(rows[n], g) /\ ~ Before(g, rows[n])
        BY <1>5, <3>1, <3>4
      <4>2. QED
        BY <1>2, <3>4, <4>1
    <3>6. list[n] = g /\ n \in DOMAIN list
      BY <1>10, <3>3, <3>5
    <3> HIDE DEF n, list
    <3>7. g \in ToSet(list)
      BY <3>6 DEF ToSet
    <3>8. QED
      BY <3>7
  <2>4. ~ Before(g, h)
    BY <1>5, <1>9, <2>2, <2>3
  <2>5. QED
    BY <1>2, <2>2, <2>4
<1>12. InTime(list)
  <2>1. ASSUME NEW i \in 1..k, NEW j \in 1..k, i < j PROVE rows[i].at <= rows[j].at
    <3>1. i \in 1..size /\ j \in 1..size
      BY <1>5, <1>9
    <3>2. /\ rows[i] \in S /\ rank[rows[i]] = i - 1
          /\ rows[j] \in S /\ rank[rows[j]] = j - 1
      BY <1>6, <3>1
    <3>3. ~ Before(rows[j], rows[i])
      BY <1>5, <2>1, <3>1, <3>2
    <3>4. QED
      BY <1>2, <3>2, <3>3
  <2>2. DOMAIN list = 1..k
    BY <1>10
  <2> HIDE DEF list
  <2>3. QED
    BY <1>10, <2>1, <2>2 DEF InTime
<1>13. QED
  BY <1>8, <1>10, <1>11, <1>12

-----------------------------------------------------------------------------
(* The invariant                                                           *)

LEMMA LargerSeq ==
  ASSUME NEW S, NEW T, S \subseteq T, NEW s \in Seq(S)
  PROVE  s \in Seq(T)
OBVIOUS

LEMMA TimelineHeld ==
  ASSUME NEW S, NEW s \in Seq(S)
  PROVE  ToSet(s) \subseteq S
BY DEF ToSet

LEMMA ReportTyped ==
  ASSUME NEW an, Analysed(an), NEW osint, NEW i, Exported(i), NEW r \in Reports(an, osint, i)
  PROVE  /\ r.overall \in 0..100
         /\ \A c \in DOMAIN Weight : CategoryScore(Of(r.findings, c)) \in 0..100
<1>1. r.overall \in 0..100 /\ r.findings = Findings(an, osint, i)
  BY ReportIs
<1>2. IsFiniteSet(r.findings) /\ \A f \in r.findings : f.points \in Nat
  BY <1>1, FindingsScored
<1>3. QED
  BY <1>1, <1>2, CategoryScoreIs

(* What is scored is an analysis of a message and an export of stored hits. *)
LEMMA PipelineInputs ==
  ASSUME PipelineInv
  PROVE  /\ Exported(inv) /\ Exported(NoInvestigation)
         /\ analysis # NoMail => Analysed(analysis)
<1>1. inv.timeline \in Seq(hits) /\ \A h \in hits : h.ip \in DOMAIN IPFacts
  BY DEF PipelineInv, TypeOK, IPs
<1>2. Exported(inv)
  BY <1>1 DEF Exported
<1>3. Exported(NoInvestigation)
  <2>1. NoInvestigation.timeline = <<>>
    BY DEF NoInvestigation
  <2>2. NoInvestigation.timeline \in Seq({}) /\ \A h \in {} : h.ip \in DOMAIN IPFacts
    BY <2>1
  <2>3. QED
    BY <2>2 DEF Exported
<1>4. analysis # NoMail => Analysed(analysis)
  BY AnalysisIs DEF PipelineInv
<1>5. QED
  BY <1>2, <1>3, <1>4

(* The parts of PipelineInv: the hits, the two files and the report.       *)
HitsInv ==
  /\ hits \subseteq [id : 1..MaxHits, ip : IPs, agent : AgentKinds, at : 1..MaxTime]
  /\ IsFiniteSet(hits)
  /\ \A g, h \in hits : g.id <= Cardinality(hits) /\ (g.id = h.id => g = h)
MailInv ==
  /\ mail \in Messages \cup {NoMail}
  /\ analysis # NoMail =>
       mail \in Messages /\ \E up \in SUBSET {"spf", "dmarc"} : analysis = Analysis(mail, up)
ReportInv ==
  report # NoReport =>
    /\ analysis # NoMail /\ report.investigation \in {NoInvestigation, inv}
    /\ report \in Reports(analysis, report.osint, report.investigation)

ExportInv == inv.timeline \in Seq(hits) /\ InTime(inv.timeline)

Parts == HitsInv /\ MailInv /\ ReportInv /\ ExportInv /\ raised \in BOOLEAN

(* The types of what is computed follow.                                   *)
LEMMA PartsSuffice == Parts => PipelineInv
<1> SUFFICES ASSUME HitsInv, MailInv, ReportInv, ExportInv, raised \in BOOLEAN
             PROVE  PipelineInv
  BY DEF Parts
<1>1. analysis # NoMail => Analysed(analysis) /\ analysis.domains \subseteq DOMAIN Dns
  BY AnalysisIs DEF MailInv
<1>2. ToSet(inv.timeline) \subseteq hits
  BY TimelineHeld DEF ExportInv
<1>3. ASSUME report # NoReport
      PROVE  /\ report.overall \in 0..100
             /\ \A c \in DOMAIN Weight : CategoryScore(Of(report.findings, c)) \in 0..100
  <2>1. Exported(inv)
    BY DEF Exported, HitsInv, ExportInv, IPs
  <2>2. Exported(NoInvestigation)
    <3>1. NoInvestigation.timeline = <<>>
      BY DEF NoInvestigation
    <3>2. NoInvestigation.timeline \in Seq({}) /\ \A h \in {} : h.ip \in DOMAIN IPFacts
      BY <3>1
    <3>3. QED
      BY <3>2 DEF Exported
  <2>3. Analysed(analysis) /\ Exported(report.investigation)
    BY <1>1, <1>3, <2>1, <2>2 DEF ReportInv
  <2>4. report \in Reports(analysis, report.osint, report.investigation)
    BY <1>3 DEF ReportInv
  <2>5. QED
    BY <2>3, <2>4, ReportTyped
<1>4. TypeOK
  BY <1>1, <1>2, <1>3 DEF TypeOK, HitsInv, MailInv
<1>5. QED
  BY <1>4 DEF PipelineInv, HitsInv, MailInv, ReportInv, ExportInv

LEMMA InitPipeline == Init => PipelineInv
<1> SUFFICES ASSUME Init PROVE PipelineInv
  OBVIOUS
<1>1. HitsInv
  BY FS_EmptySet DEF Init, HitsInv
<1>2. MailInv /\ ReportInv
  BY DEF Init, MailInv, ReportInv
<1>3. inv.timeline = <<>> /\ raised \in BOOLEAN
  BY DEF Init, NoInvestigation
<1>4. ExportInv
  BY <1>3 DEF ExportInv, InTime
<1>5. QED
  BY <1>1, <1>2, <1>3, <1>4, PartsSuffice DEF Parts

(* A new hit gets the next number, so numbers stay apart.                  *)
LEMMA RecordHits ==
  ASSUME PipelineInv, NEW ip \in IPs, NEW agent \in AgentKinds, NEW at \in 1..MaxTime,
         Record(ip, agent, at)
  PROVE  HitsInv' /\ hits \subseteq hits'
<1> DEFINE n == Cardinality(hits)
           new == [id |-> n + 1, ip |-> ip, agent |-> agent, at |-> at]
<1>1. IsFiniteSet(hits) /\ n \in Nat /\ n < MaxHits /\ MaxHits \in Nat
  BY FS_CardinalityType, PipelineAssumption DEF PipelineInv, Record
<1>2. hits' = hits \cup {new}
  BY DEF Record
<1>3. \A g, h \in hits : g.id \in Nat /\ g.id <= n /\ (g.id = h.id => g = h)
  BY DEF PipelineInv, TypeOK
<1>4. new \in [id : 1..MaxHits, ip : IPs, agent : AgentKinds, at : 1..MaxTime] /\ new.id = n + 1
  BY <1>1
<1> HIDE DEF new, n
<1>5. new \notin hits
  BY <1>1, <1>3, <1>4
<1>6. IsFiniteSet(hits') /\ Cardinality(hits') = n + 1
  BY <1>1, <1>2, <1>5, FS_AddElement DEF n
<1>7. \A g, h \in hits' : g.id <= Cardinality(hits') /\ (g.id = h.id => g = h)
  BY <1>1, <1>2, <1>3, <1>4, <1>6
<1>8. hits' \subseteq [id : 1..MaxHits, ip : IPs, agent : AgentKinds, at : 1..MaxTime]
  BY <1>2, <1>4 DEF PipelineInv, TypeOK
<1>9. QED
  BY <1>2, <1>6, <1>7, <1>8 DEF HitsInv

(* An export lists hits that are stored.                                   *)
LEMMA ExportLists ==
  ASSUME PipelineInv, NEW limit \in Nat
  PROVE  /\ Listed(hits, limit) \in Seq(hits) /\ InTime(Listed(hits, limit))
         /\ \A g \in hits \ ToSet(Listed(hits, limit)), h \in ToSet(Listed(hits, limit)) :
              g.at >= h.at
<1>1. /\ IsFiniteSet(hits) /\ \A h \in hits : h.id \in Int /\ h.at \in Int
      /\ \A g, h \in hits : g.id = h.id => g = h
  BY DEF PipelineInv, TypeOK
<1>2. QED
  BY <1>1, ListedIs

LEMMA NextPipeline == PipelineInv /\ [Next]_vars => PipelineInv'
<1> SUFFICES ASSUME PipelineInv, [Next]_vars PROVE PipelineInv'
  OBVIOUS
<1>1. HitsInv /\ MailInv /\ ReportInv /\ ExportInv /\ raised \in BOOLEAN
  BY DEF PipelineInv, TypeOK, HitsInv, MailInv, ReportInv, ExportInv
<1>2. ASSUME HitsInv', MailInv', ReportInv', ExportInv', raised' \in BOOLEAN
      PROVE  PipelineInv'
  <2>1. Parts'
    BY <1>2 DEF Parts
  <2>2. Parts' => PipelineInv'
    BY PartsSuffice, PTL
  <2>3. QED
    BY <2>1, <2>2
<1>3. CASE \E ip \in IPs, agent \in AgentKinds, at \in 1..MaxTime : Record(ip, agent, at)
  <2>1. PICK ip \in IPs, agent \in AgentKinds, at \in 1..MaxTime : Record(ip, agent, at)
    BY <1>3
  <2>2. HitsInv' /\ hits \subseteq hits'
    BY <2>1, RecordHits
  <2>3. /\ UNCHANGED <<mail, analysis, inv>> /\ report' = NoReport /\ raised' = FALSE
    BY <2>1 DEF Record
  <2>4. MailInv' /\ ReportInv'
    BY <1>1, <2>3 DEF MailInv, ReportInv, NoReport, NoMail
  <2>5. ExportInv'
    BY <1>1, <2>2, <2>3, LargerSeq DEF ExportInv
  <2>6. QED
    BY <1>2, <2>2, <2>3, <2>4, <2>5
<1>4. CASE \E m \in Messages : Analyze(m)
  <2>1. PICK m \in Messages : Analyze(m)
    BY <1>4
  <2>2. PICK up \in SUBSET {"spf", "dmarc"} :
          /\ mail' = m /\ analysis' = Analysis(m, up)
          /\ report' = NoReport /\ raised' = FALSE /\ UNCHANGED <<hits, inv>>
    BY <2>1 DEF Analyze
  <2>3. MailInv'
    BY <2>2 DEF MailInv
  <2>4. HitsInv' /\ ReportInv' /\ ExportInv'
    BY <1>1, <2>2 DEF HitsInv, ReportInv, ExportInv
  <2>5. QED
    BY <1>2, <2>2, <2>3, <2>4
<1>5. CASE Export
  <2>1. inv'.timeline = Listed(hits, ListLimit)
    BY <1>5 DEF Export
  <2>2. report' = NoReport /\ raised' = FALSE /\ UNCHANGED <<hits, mail, analysis>>
    BY <1>5 DEF Export
  <2>3. Listed(hits, ListLimit) \in Seq(hits) /\ InTime(Listed(hits, ListLimit))
    BY ExportLists, PipelineAssumption
  <2>4. HitsInv' /\ MailInv' /\ ReportInv' /\ ExportInv'
    BY <1>1, <2>1, <2>2, <2>3 DEF HitsInv, MailInv, ReportInv, ExportInv
  <2>5. QED
    BY <1>2, <2>2, <2>4
<1>6. CASE ExportByScript
  <2>1. PICK limit \in ScriptLimits :
          /\ \/ inv'.timeline = Listed(hits, limit) /\ raised' = FALSE
             \/ raised' = TRUE /\ UNCHANGED inv
          /\ report' = NoReport /\ UNCHANGED <<hits, mail, analysis>>
    <3>1. PICK limit \in ScriptLimits :
            /\ \/ \E osint : inv' = [timeline |-> Listed(hits, limit), osint |-> osint]
                               /\ raised' = FALSE
               \/ raised' = TRUE /\ UNCHANGED inv
            /\ report' = NoReport /\ UNCHANGED <<hits, mail, analysis>>
      BY <1>6, Zenon DEF ExportByScript
    <3>2. QED
      BY <3>1
  <2>2. Listed(hits, limit) \in Seq(hits) /\ InTime(Listed(hits, limit))
    BY ExportLists, PipelineAssumption
  <2>3. HitsInv' /\ MailInv' /\ ReportInv' /\ ExportInv'
    BY <1>1, <2>1, <2>2 DEF HitsInv, MailInv, ReportInv, ExportInv
  <2>4. QED
    BY <1>2, <2>1, <2>3
<1>7. CASE \E i \in {NoInvestigation, inv} : ScoreWith(i)
  <2>1. PICK i \in {NoInvestigation, inv} : ScoreWith(i)
    BY <1>7
  <2>2. /\ analysis # NoMail /\ raised' = FALSE /\ UNCHANGED <<hits, mail, analysis, inv>>
        /\ \E osint : report' \in Reports(analysis, osint, i)
    BY <2>1 DEF ScoreWith
  <2>3. PICK osint : report' \in Reports(analysis, osint, i)
    BY <2>2
  <2>4. Analysed(analysis) /\ Exported(i)
    BY <2>2, PipelineInputs
  <2>5. report'.osint = osint /\ report'.investigation = i
    BY <2>3, <2>4, ReportIs
  <2>6. ReportInv'
    BY <2>2, <2>3, <2>5 DEF ReportInv
  <2>7. HitsInv' /\ MailInv' /\ ExportInv'
    BY <1>1, <2>2 DEF HitsInv, MailInv, ExportInv
  <2>8. QED
    BY <1>2, <2>2, <2>6, <2>7
<1>8. CASE UNCHANGED vars
  BY <1>1, <1>2, <1>8 DEF vars, HitsInv, MailInv, ReportInv, ExportInv
<1>9. QED
  BY <1>3, <1>4, <1>5, <1>6, <1>7, <1>8 DEF Next, Score, ScoreByCli

(* PipelineInv: analysis, export and report follow from what they were     *)
(* made of, whatever hits arrive in between.                               *)
THEOREM PipelineInvariant == Spec => []PipelineInv
<1>1. Init => PipelineInv
  BY InitPipeline
<1>2. PipelineInv /\ [Next]_vars => PipelineInv'
  BY NextPipeline
<1>3. QED
  BY <1>1, <1>2, PTL DEF Spec

(* TypeOK: hits, exports and analyses are well-formed, and every score of  *)
(* build_threat_report, of a category or overall, is in 0..100.            *)
THEOREM TypeCorrect == Spec => []TypeOK
<1>1. PipelineInv => TypeOK
  BY DEF PipelineInv
<1>2. QED
  BY <1>1, PipelineInvariant, PTL

-----------------------------------------------------------------------------
(* Reports                                                                 *)

(* A report is one of build_threat_report's for a parsed message.          *)
LEMMA ReportsMade ==
  ASSUME PipelineInv, report # NoReport
  PROVE  /\ Analysed(analysis) /\ Exported(report.investigation)
         /\ report \in Reports(analysis, report.osint, report.investigation)
<1>1. /\ analysis # NoMail /\ report.investigation \in {NoInvestigation, inv}
      /\ report \in Reports(analysis, report.osint, report.investigation)
  BY DEF PipelineInv
<1>2. QED
  BY <1>1, PipelineInputs

(* HighNeedsTwoCategories: no single category of evidence carries a report *)
(* to "high", for any facts, messages and hits.                            *)
THEOREM HighNeedsTwo == Spec => []HighNeedsTwoCategories
<1>1. PipelineInv => HighNeedsTwoCategories
  <2> SUFFICES ASSUME PipelineInv, report.verdict \in {"high", "critical"}
               PROVE  Cardinality({f.category : f \in {g \in report.findings : g.points > 0}}) >= 2
    BY DEF HighNeedsTwoCategories
  <2>1. report # NoReport
    BY DEF NoReport
  <2>2. QED
    BY <2>1, ReportsMade, OneCategory
<1>2. QED
  BY <1>1, PipelineInvariant, PTL

(* Every value of Overall is that of a report.                             *)
LEMMA ReportOf ==
  ASSUME NEW an, NEW osint, NEW i, NEW score \in Overall(Findings(an, osint, i), Bonus(i))
  PROVE  \E s \in Reports(an, osint, i) : s.overall = score
<1> DEFINE G == Findings(an, osint, i)
           s == [overall |-> score, verdict |-> Verdict(score), findings |-> G, osint |-> osint,
                 investigation |-> i, plan |-> Plan(Verdict(score), score, G, i)]
<1>1. s.overall = score
  OBVIOUS
<1>2. Reports(an, osint, i) =
        {[overall |-> n, verdict |-> Verdict(n), findings |-> G, osint |-> osint,
          investigation |-> i, plan |-> Plan(Verdict(n), n, G, i)] : n \in Overall(G, Bonus(i))}
  BY DEF Reports
<1> HIDE DEF G
<1>3. s \in Reports(an, osint, i)
  BY <1>2 DEF G
<1> HIDE DEF s
<1>4. QED
  BY <1>1, <1>3

(* CalmOnlyIfPatternWeak: "no immediate action required" never meets a     *)
(* pattern of hits whose bonus alone leaves "low".                         *)
THEOREM CalmMeansWeak == Spec => []CalmOnlyIfPatternWeak
<1>1. PipelineInv => CalmOnlyIfPatternWeak
  <2> DEFINE i == report.investigation
             osint == report.osint
  <2> SUFFICES ASSUME PipelineInv, report # NoReport, Calm(report.plan), Mixed(i)
               PROVE  /\ Cardinality(Countries(i)) < 2
                      /\ \A ip \in Hitters(i) : Role(i, ip) = "automation_likely" =>
                           AbuseScore(i.osint, ip) < 25 /\ AbuseReports(i.osint, ip) = 0
    BY DEF CalmOnlyIfPatternWeak, Calm
  <2>1. Analysed(analysis) /\ Exported(i) /\ report \in Reports(analysis, osint, i)
    BY ReportsMade
  <2> HIDE DEF i, osint
  <2>2. QED
    BY <2>1, CalmReport
<1>2. QED
  BY <1>1, PipelineInvariant, PTL

-----------------------------------------------------------------------------
(* Exports                                                                 *)

(* NothingEarlierOmitted: the LIMIT of list_hits cuts off the newest hits  *)
(* only, however late a hit was stored.                                    *)
THEOREM OnlyNewestOmitted == Spec => NothingEarlierOmitted
<1> DEFINE Omits == inv' # inv =>
                      \A g \in hits \ ToSet(inv'.timeline), h \in ToSet(inv'.timeline) :
                        g.at >= h.at
<1>1. PipelineInv /\ [Next]_vars => [Omits]_vars
  <2> SUFFICES ASSUME PipelineInv, Next, inv' # inv
               PROVE  \A g \in hits \ ToSet(inv'.timeline), h \in ToSet(inv'.timeline) :
                        g.at >= h.at
    OBVIOUS
  <2>1. \E limit \in Nat : inv'.timeline = Listed(hits, limit)
    <3>1. CASE Export
      BY <3>1, PipelineAssumption DEF Export
    <3>2. CASE ExportByScript
      <4>1. PICK limit \in ScriptLimits :
              \/ \E osint : inv' = [timeline |-> Listed(hits, limit), osint |-> osint]
              \/ UNCHANGED inv
        BY <3>2, Zenon DEF ExportByScript
      <4>2. QED
        BY <4>1, PipelineAssumption
    <3>3. QED
      BY <3>1, <3>2 DEF Next, Record, Analyze, Score, ScoreByCli, ScoreWith
  <2>2. PICK limit \in Nat : inv'.timeline = Listed(hits, limit)
    BY <2>1
  <2>3. QED
    BY <2>2, ExportLists
<1>2. QED
  BY <1>1, PipelineInvariant, PTL DEF Spec, NothingEarlierOmitted

-----------------------------------------------------------------------------
(* What a DNS outage moves                                                 *)

(* The findings of the other categories do not read the anomalies.         *)
LEMMA OthersSame ==
  ASSUME NEW an, NEW bn, an.from = bn.from, an.replyTo = bn.replyTo,
         an.returnPath = bn.returnPath, an.xip = bn.xip, an.hops = bn.hops,
         an.authentication = bn.authentication, NEW osint
  PROVE  /\ IdentityFindings(an) = IdentityFindings(bn)
         /\ AuthFindings(an) = AuthFindings(bn)
         /\ InfrastructureFindings(an, osint) = InfrastructureFindings(bn, osint)
<1>1. IdentityFindings(an) = IdentityFindings(bn)
  BY DEF IdentityFindings
<1>2. AuthFindings(an) = AuthFindings(bn)
  <2> DEFINE Made(auth, domain) ==
        LET last == {SelectLastInSeq(auth, LAMBDA a : a.mech = k) :
                       k \in {"spf", "dkim", "dmarc"}} \ {0}
            outcomes == {auth[i] : i \in last}
        IN     {Finding("authentication", FailedCode[a.mech], IF a.mech = "dmarc" THEN 35 ELSE 25, "") :
                  a \in {b \in outcomes : b.status \in Failed}}
          \cup {Finding("authentication", WeakCode[a.mech], 12, "") :
                  a \in {b \in outcomes : b.status \in {"softfail", "neutral"}}}
          \cup When(auth = <<>> /\ domain # "",
                    Finding("authentication", "auth_results_missing_in_headers", 6, ""))
  <2>1. /\ AuthFindings(an) = Made(an.authentication, an.from.domain)
        /\ AuthFindings(bn) = Made(bn.authentication, bn.from.domain)
    BY DEF AuthFindings
  <2> HIDE DEF Made
  <2>2. QED
    BY <2>1
<1>3. FocusIPs(an) = FocusIPs(bn) /\ FocusDomains(an) = FocusDomains(bn)
  BY DEF FocusIPs, FocusDomains
<1>4. InfrastructureFindings(an, osint) = InfrastructureFindings(bn, osint)
  <2>1. AbuseFindings(an, osint) = AbuseFindings(bn, osint)
    BY <1>3 DEF AbuseFindings
  <2>2. VpnFindings(an, osint) = VpnFindings(bn, osint)
    BY <1>3 DEF VpnFindings
  <2>3. DomainFindings(an, osint) = DomainFindings(bn, osint)
    BY <1>3 DEF DomainFindings
  <2>4. SenderFindings(an, osint) = SenderFindings(bn, osint)
    BY DEF SenderFindings
  <2>5. QED
    BY <2>1, <2>2, <2>3, <2>4 DEF InfrastructureFindings
<1>5. QED
  BY <1>1, <1>2, <1>4

(* The header findings made of some anomalies.                             *)
Headings(A) == {Finding("headers", x.code, HeaderPoints(x), x.about) : x \in A}

LEMMA HeadingsAre ==
  ASSUME NEW A, Graded(A), NEW K, \A x \in A : x.code \in K
  PROVE  Scored(Headings(A), "headers", K)
<1> DEFINE h == [x \in A |-> Finding("headers", x.code, HeaderPoints(x), x.about)]
<1>1. Headings(A) = {h[x] : x \in A}
  BY DEF Headings
<1>2. \A x \in A : h[x].points = HeaderPoints(x) /\ h[x].category = "headers" /\ h[x].code = x.code
  BY FindingFields
<1> HIDE DEF h
<1>3. \A x \in A : h[x].points \in Nat /\ h[x].category = "headers" /\ h[x].code \in K
  BY <1>2, HeaderPointsIs DEF Graded
<1>4. QED
  BY <1>1, <1>3, ScoredImage DEF Graded

LEMMA HeadingsWhen ==
  ASSUME NEW P, NEW code \in DnsCodes, NEW severity, NEW d
  PROVE  Headings(When(P, Anomaly(code, severity, d)))
           = When(P, Finding("headers", code, SeverityPoints[severity], d))
<1> DEFINE x == Anomaly(code, severity, d)
<1>1. x.code = code /\ x.severity = severity /\ x.about = d
  BY DEF Anomaly
<1>2. code # "private_ip_in_first_hop"
  BY DEF DnsCodes
<1> HIDE DEF x
<1>3. HeaderPoints(x) = SeverityPoints[severity]
  BY <1>1, <1>2 DEF HeaderPoints
<1>4. CASE P
  <2>1. When(P, x) = {x}
    BY <1>4 DEF When
  <2>2. Headings({x}) = {Finding("headers", code, SeverityPoints[severity], d)}
    BY <1>1, <1>3 DEF Headings
  <2>3. QED
    BY <1>4, <2>1, <2>2 DEF When, x
<1>5. CASE ~ P
  BY <1>5 DEF When, Headings
<1>6. QED
  BY <1>4, <1>5

If(P, n) == IF P THEN n ELSE 0

(* The findings the DNS anomalies of a domain become.                      *)
DnsFindings(d, up) ==
       When(~ SpfFound(d, up), Finding("headers", "spf_record_missing", 8, d))
  \cup When(~ DmarcFound(d, up), Finding("headers", "dmarc_record_missing", 18, d))
  \cup When(DmarcFound(d, up) /\ Dns[d].dmarc = "none",
            Finding("headers", "dmarc_policy_none", 8, d))

LEMMA DnsHeadings ==
  ASSUME NEW d, NEW up
  PROVE  Headings(DnsAnomalies(d, up)) = IF d = "" THEN {} ELSE DnsFindings(d, up)
<1> DEFINE P == ~ SpfFound(d, up)
           Q == ~ DmarcFound(d, up)
           R == DmarcFound(d, up) /\ Dns[d].dmarc = "none"
           U == When(P, Anomaly("spf_record_missing", "low", d))
           V == When(Q, Anomaly("dmarc_record_missing", "medium", d))
           W == When(R, Anomaly("dmarc_policy_none", "low", d))
<1>1. /\ "spf_record_missing" \in DnsCodes /\ "dmarc_record_missing" \in DnsCodes
      /\ "dmarc_policy_none" \in DnsCodes
  BY DEF DnsCodes
<1>2. Headings(U) = When(P, Finding("headers", "spf_record_missing", SeverityPoints["low"], d))
  BY <1>1, HeadingsWhen
<1>3. Headings(V) = When(Q, Finding("headers", "dmarc_record_missing", SeverityPoints["medium"], d))
  BY <1>1, HeadingsWhen
<1>4. Headings(W) = When(R, Finding("headers", "dmarc_policy_none", SeverityPoints["low"], d))
  BY <1>1, HeadingsWhen
<1>5. SeverityPoints["low"] = 8 /\ SeverityPoints["medium"] = 18
  BY DEF SeverityPoints
<1>6. DnsAnomalies(d, up) = IF d = "" THEN {} ELSE (U \cup V) \cup W
  BY DEF DnsAnomalies
<1>7. DnsFindings(d, up) =
        (When(P, Finding("headers", "spf_record_missing", 8, d))
           \cup When(Q, Finding("headers", "dmarc_record_missing", 18, d)))
          \cup When(R, Finding("headers", "dmarc_policy_none", 8, d))
  BY DEF DnsFindings
<1> HIDE DEF P, Q, R, U, V, W
<1>8. /\ Headings((U \cup V) \cup W) = (Headings(U) \cup Headings(V)) \cup Headings(W)
      /\ Headings({}) = {}
  BY DEF Headings
<1>9. QED
  BY <1>2, <1>3, <1>4, <1>5, <1>6, <1>7, <1>8

(* What the DNS anomalies add to the headers.                              *)
LEMMA DnsPoints ==
  ASSUME NEW d, NEW up
  PROVE  Points(DnsFindings(d, up)) =
           If(~ SpfFound(d, up), 8) + If(~ DmarcFound(d, up), 18)
             + If(DmarcFound(d, up) /\ Dns[d].dmarc = "none", 8)
<1> DEFINE P == ~ SpfFound(d, up)
           Q == ~ DmarcFound(d, up)
           R == DmarcFound(d, up) /\ Dns[d].dmarc = "none"
           f == Finding("headers", "spf_record_missing", 8, d)
           g == Finding("headers", "dmarc_record_missing", 18, d)
           h == Finding("headers", "dmarc_policy_none", 8, d)
           A == When(P, f)
           B == When(Q, g)
           C == When(R, h)
<1>1. DnsFindings(d, up) = (A \cup B) \cup C
  BY DEF DnsFindings
<1>2. /\ f.points = 8 /\ f.code = "spf_record_missing"
      /\ g.points = 18 /\ g.code = "dmarc_record_missing"
      /\ h.points = 8 /\ h.code = "dmarc_policy_none"
  BY DEF Finding
<1> HIDE DEF f, g, h
<1>3. /\ IsFiniteSet(A) /\ \A x \in A : x.points \in Nat
      /\ Points(A) = If(P, 8)
  <2>1. f.points = 8 /\ 8 \in Nat
    BY <1>2
  <2>2. IsFiniteSet(A) /\ \A x \in A : x.points \in Nat
    BY <2>1, PointsOfWhen
  <2>3. Points(A) = IF P THEN 8 ELSE 0
    BY <2>1, PointsOfWhen
  <2>4. QED
    BY <2>2, <2>3 DEF If
<1>4. /\ IsFiniteSet(B) /\ \A x \in B : x.points \in Nat
      /\ Points(B) = If(Q, 18)
  <2>1. g.points = 18 /\ 18 \in Nat
    BY <1>2
  <2>2. IsFiniteSet(B) /\ \A x \in B : x.points \in Nat
    BY <2>1, PointsOfWhen
  <2>3. Points(B) = IF Q THEN 18 ELSE 0
    BY <2>1, PointsOfWhen
  <2>4. QED
    BY <2>2, <2>3 DEF If
<1>5. /\ IsFiniteSet(C) /\ \A x \in C : x.points \in Nat
      /\ Points(C) = If(R, 8)
  <2>1. h.points = 8 /\ 8 \in Nat
    BY <1>2
  <2>2. IsFiniteSet(C) /\ \A x \in C : x.points \in Nat
    BY <2>1, PointsOfWhen
  <2>3. Points(C) = IF R THEN 8 ELSE 0
    BY <2>1, PointsOfWhen
  <2>4. QED
    BY <2>2, <2>3 DEF If
<1>6. A \cap B = {} /\ (A \cup B) \cap C = {}
  BY <1>2 DEF When
<1> HIDE DEF A, B, C
<1>7. Points(A \cup B) = Points(A) + Points(B)
  BY <1>3, <1>4, <1>6, PointsDisjoint
<1>8. Points((A \cup B) \cup C) = Points(A \cup B) + Points(C)
  <2>1. IsFiniteSet(A \cup B) /\ \A x \in (A \cup B) \cup C : x.points \in Nat
    BY <1>3, <1>4, <1>5, FS_Union
  <2>2. QED
    BY <1>5, <1>6, <2>1, PointsDisjoint
<1>9. QED
  BY <1>1, <1>3, <1>4, <1>5, <1>7, <1>8

Answering == {"spf", "dmarc"}

(* Two missing records: 8 and 18 points at most, and never fewer than      *)
(* without the outage.                                                     *)
LEMMA OutagePoints ==
  ASSUME NEW d, NEW up \in SUBSET Answering
  PROVE  /\ Points(Headings(DnsAnomalies(d, up))) \in Nat
         /\ Points(Headings(DnsAnomalies(d, Answering))) \in Nat
         /\ Points(Headings(DnsAnomalies(d, up))) - Points(Headings(DnsAnomalies(d, Answering)))
              \in 0..26
<1>1. CASE d = ""
  <2>1. /\ Headings(DnsAnomalies(d, up)) = {}
        /\ Headings(DnsAnomalies(d, Answering)) = {}
    BY <1>1, DnsHeadings
  <2>2. Points({}) = 0
    BY FS_EmptySet, PointsBounds
  <2>3. QED
    BY <2>1, <2>2
<1>2. CASE d # ""
  <2> DEFINE spf == SpfFound(d, up)
             dmarc == DmarcFound(d, up)
             spf0 == SpfFound(d, Answering)
             dmarc0 == DmarcFound(d, Answering)
             none == Dns[d].dmarc = "none"
             p == Points(DnsFindings(d, up))
             q == Points(DnsFindings(d, Answering))
  <2>1. spf => spf0
    BY DEF SpfFound, Answering
  <2>2. dmarc => dmarc0
    BY DEF DmarcFound, Answering
  <2>3. p = If(~ spf, 8) + If(~ dmarc, 18) + If(dmarc /\ none, 8)
    BY DnsPoints
  <2>4. q = If(~ spf0, 8) + If(~ dmarc0, 18) + If(dmarc0 /\ none, 8)
    BY DnsPoints
  <2> HIDE DEF spf, dmarc, spf0, dmarc0, none, p, q
  <2>5. /\ If(~ spf, 8) - If(~ spf0, 8) \in 0..8
        /\ If(~ spf, 8) \in Nat /\ If(~ spf0, 8) \in Nat
    BY <2>1 DEF If
  <2>6. /\ If(~ dmarc, 18) + If(dmarc /\ none, 8) - (If(~ dmarc0, 18) + If(dmarc0 /\ none, 8))
             \in 0..18
        /\ If(~ dmarc, 18) \in Nat /\ If(dmarc /\ none, 8) \in Nat
        /\ If(~ dmarc0, 18) \in Nat /\ If(dmarc0 /\ none, 8) \in Nat
    <3>1. CASE dmarc
      BY <2>2, <3>1 DEF If
    <3>2. CASE ~ dmarc
      BY <2>2, <3>2 DEF If
    <3>3. QED
      BY <3>1, <3>2
  <2>7. p \in Nat /\ q \in Nat /\ p - q \in 0..26
    BY <2>3, <2>4, <2>5, <2>6
  <2>8. QED
    BY <1>2, <2>7, DnsHeadings DEF p, q
<1>3. QED
  BY <1>1, <1>2

LEMMA HeadersSplit ==
  ASSUME NEW m \in Messages, NEW up
  PROVE  LET A == Headings(MailAnomalies(m))
             B == Headings(DnsAnomalies(m.from.domain, up))
         IN  /\ HeaderFindings(Analysis(m, up)) = A \cup B
             /\ Points(A) \in Nat /\ Points(B) \in Nat
             /\ Points(HeaderFindings(Analysis(m, up))) = Points(A) + Points(B)
<1> DEFINE X == MailAnomalies(m)
           Y == DnsAnomalies(m.from.domain, up)
           A == Headings(X)
           B == Headings(Y)
           H == HeaderFindings(Analysis(m, up))
<1>1. Graded(X) /\ (\A x \in X : x.code \notin DnsCodes) /\ Graded(Y)
  BY MailGraded, DnsGraded
<1>2. \A y \in Y : y.code \in DnsCodes
  <2>1. ASSUME NEW P, NEW code \in DnsCodes, NEW severity, NEW about,
               NEW y \in When(P, Anomaly(code, severity, about))
        PROVE  y.code \in DnsCodes
    <3>1. y = Anomaly(code, severity, about)
      BY InWhen
    <3>2. y.code = code
      BY <3>1 DEF Anomaly
    <3>3. QED
      BY <3>2
  <2>2. /\ "spf_record_missing" \in DnsCodes /\ "dmarc_record_missing" \in DnsCodes
        /\ "dmarc_policy_none" \in DnsCodes
    BY DEF DnsCodes
  <2>3. QED
    BY <2>1, <2>2 DEF DnsAnomalies
<1>3. H = A \cup B
  <2>1. H = Headings(DetectAnomalies(m, up))
    <3>1. Analysis(m, up).anomalies = DetectAnomalies(m, up)
      BY DEF Analysis
    <3>2. QED
      BY <3>1 DEF HeaderFindings, Headings, HeaderPoints
  <2>2. DetectAnomalies(m, up) = X \cup Y
    BY AnomaliesAre
  <2> HIDE DEF X, Y, H
  <2>3. Headings(X \cup Y) = Headings(X) \cup Headings(Y)
    BY DEF Headings
  <2>4. QED
    BY <2>1, <2>2, <2>3
<1> DEFINE K == HeaderCodes \ DnsCodes
<1>4. \A x \in X : x.code \in K
  BY <1>1 DEF Graded
<1> HIDE DEF X, Y, H, K
<1>5. Scored(A, "headers", K) /\ Scored(B, "headers", DnsCodes)
  BY <1>1, <1>2, <1>4, HeadingsAre
<1> HIDE DEF A, B
<1>6. /\ IsFiniteSet(A) /\ IsFiniteSet(B) /\ A \cap B = {}
      /\ \A f \in A \cup B : f.points \in Nat
  BY <1>5 DEF Scored, K
<1>7. Points(A) \in Nat /\ Points(B) \in Nat
  BY <1>6, PointsBounds
<1>8. Points(A \cup B) = Points(A) + Points(B)
  BY <1>6, PointsDisjoint
<1>9. QED
  BY <1>3, <1>7, <1>8 DEF A, B, H, X, Y

(* In hundredths of a point the outage moves the base by 30 * 26 at most.  *)
LEMMA OutageBase ==
  ASSUME NEW m \in Messages, NEW up \in SUBSET Answering, NEW osint, NEW i, Exported(i)
  PROVE  /\ Base(Findings(Analysis(m, up), osint, i)) \in Nat
         /\ Base(Findings(Analysis(m, Answering), osint, i)) \in Nat
         /\ Base(Findings(Analysis(m, up), osint, i))
              - Base(Findings(Analysis(m, Answering), osint, i)) \in 0..780
<1> DEFINE an == Analysis(m, up)
           bn == Analysis(m, Answering)
           F == Findings(an, osint, i)
           G == Findings(bn, osint, i)
           p == Points(Headings(MailAnomalies(m)))
           q == Points(Headings(DnsAnomalies(m.from.domain, up)))
           r == Points(Headings(DnsAnomalies(m.from.domain, Answering)))
           x == CategoryScore(Of(F, "identity"))
           y == CategoryScore(Of(F, "authentication"))
           z == CategoryScore(Of(F, "infrastructure"))
           s == CategoryScore(Of(F, "headers"))
           t == CategoryScore(Of(G, "headers"))
<1>1. Analysed(an) /\ Analysed(bn)
  BY AnalysisIs
<1>2. /\ an.from = bn.from /\ an.replyTo = bn.replyTo /\ an.returnPath = bn.returnPath
      /\ an.xip = bn.xip /\ an.hops = bn.hops /\ an.authentication = bn.authentication
  BY DEF Analysis
<1>3. /\ Points(HeaderFindings(an)) = p + q /\ Points(HeaderFindings(bn)) = p + r
      /\ p \in Nat /\ q \in Nat /\ r \in Nat
  BY HeadersSplit
<1>4. q - r \in 0..26
  BY OutagePoints
<1> HIDE DEF an, bn, p, q, r
<1>5. /\ IdentityFindings(an) = IdentityFindings(bn) /\ AuthFindings(an) = AuthFindings(bn)
      /\ InfrastructureFindings(an, osint) = InfrastructureFindings(bn, osint)
  BY <1>2, OthersSame
<1>6. /\ IsFiniteSet(F) /\ \A f \in F : f.points \in Nat
      /\ Of(F, "identity") = IdentityFindings(an) /\ Of(F, "headers") = HeaderFindings(an)
      /\ Of(F, "authentication") = AuthFindings(an)
      /\ Of(F, "infrastructure") = InfrastructureFindings(an, osint)
  BY <1>1, FindingsScored
<1>7. /\ IsFiniteSet(G) /\ \A f \in G : f.points \in Nat
      /\ Of(G, "identity") = IdentityFindings(bn) /\ Of(G, "headers") = HeaderFindings(bn)
      /\ Of(G, "authentication") = AuthFindings(bn)
      /\ Of(G, "infrastructure") = InfrastructureFindings(bn, osint)
  BY <1>1, FindingsScored
<1> HIDE DEF F, G
<1>8. x \in 0..100 /\ y \in 0..100 /\ z \in 0..100
  BY <1>6, CategoryScoreIs
<1>9. s = Clamp(p + q) /\ t = Clamp(p + r)
  BY <1>3, <1>6, <1>7, CategoryScoreIs
<1>10. s \in Nat /\ t \in Nat /\ s - t \in 0..26
  <2> HIDE DEF s, t
  <2>1. /\ s = IF p + q > 100 THEN 100 ELSE p + q
        /\ t = IF p + r > 100 THEN 100 ELSE p + r
    BY <1>3, <1>9, ClampIs
  <2>2. QED
    BY <1>3, <1>4, <2>1
<1>11. /\ Base(F) = 40 * x + 30 * s + 15 * y + 15 * z
       /\ Base(G) = 40 * x + 30 * t + 15 * y + 15 * z
  BY <1>5, <1>6, <1>7 DEF Base
<1> HIDE DEF x, y, z, s, t
<1>12. Base(F) \in Nat /\ Base(G) \in Nat /\ Base(F) - Base(G) \in 0..780
  BY <1>8, <1>10, <1>11
<1>13. QED
  BY <1>12 DEF F, G, an, bn

(* The score without the outage that rounds down where it may is at most   *)
(* 8 below, and never above.                                               *)
LEMMA OutageScore ==
  ASSUME NEW m \in Messages, NEW up \in SUBSET Answering, NEW osint, NEW i, Exported(i),
         NEW r \in Reports(Analysis(m, up), osint, i)
  PROVE  \E s \in Reports(Analysis(m, Answering), osint, i) : r.overall - s.overall \in 0..8
<1> DEFINE F == Findings(Analysis(m, up), osint, i)
           G == Findings(Analysis(m, Answering), osint, i)
           bonus == Bonus(i)
<1>1. Analysed(Analysis(m, up)) /\ Analysed(Analysis(m, Answering))
  BY AnalysisIs
<1>2. Base(F) \in Nat /\ Base(G) \in Nat /\ Base(F) - Base(G) \in 0..780
  BY OutageBase
<1>3. r.findings = F /\ bonus \in 0..32
  BY <1>1, ReportIs
<1>4. PICK b \in Nat : 100 * b - 50 <= Base(F) /\ Base(F) <= 100 * b + 50
                         /\ r.overall = Clamp(b + bonus)
  <2>1. PICK b \in Rounded(Base(F)) : r.overall = Clamp(b + bonus)
    BY <1>1, <1>3, ReportIs
  <2>2. b \in Nat /\ 100 * b - 50 <= Base(F) /\ Base(F) <= 100 * b + 50
    BY <1>2, RoundedIs
  <2>3. QED
    BY <2>1, <2>2
<1>5. PICK c \in Rounded(Base(G)) : c \in Nat /\ 100 * c - 50 < Base(G) /\ Base(G) <= 100 * c + 50
  BY <1>2, RoundedIs
<1>6. b - c \in 0..8
  BY <1>2, <1>4, <1>5
<1>7. Clamp(b + bonus) - Clamp(c + bonus) \in 0..8
  <2> HIDE DEF bonus
  <2>1. /\ Clamp(b + bonus) = IF b + bonus > 100 THEN 100 ELSE b + bonus
        /\ Clamp(c + bonus) = IF c + bonus > 100 THEN 100 ELSE c + bonus
    BY <1>3, <1>4, <1>5, ClampIs
  <2>2. QED
    BY <1>3, <1>4, <1>5, <1>6, <2>1
<1>8. Clamp(c + bonus) \in Overall(G, bonus)
  <2>1. IsFiniteSet(G) /\ \A f \in G : f.points \in Nat
    BY <1>1, FindingsScored
  <2> HIDE DEF G, bonus
  <2>2. Overall(G, bonus) = {Clamp(k + bonus) : k \in Rounded(Base(G))}
    BY <2>1, OverallIs
  <2>3. QED
    BY <1>5, <2>2
<1>9. \E s \in Reports(Analysis(m, Answering), osint, i) : s.overall = Clamp(c + bonus)
  BY <1>8, ReportOf
<1>10. QED
  BY <1>4, <1>7, <1>9

(* OutageMovesScoreLittle: a DNS outage during the analysis never lowers   *)
(* the score of a report and adds at most 8 points to it.                  *)
THEOREM OutageMovesLittle == Spec => []OutageMovesScoreLittle
<1>1. PipelineInv => OutageMovesScoreLittle
  <2> SUFFICES ASSUME PipelineInv, report # NoReport
               PROVE  \E r \in Reports(Analysis(mail, Answering), report.osint,
                                       report.investigation) : report.overall - r.overall \in 0..8
    BY DEF OutageMovesScoreLittle, Answering
  <2> DEFINE i == report.investigation
             osint == report.osint
  <2>1. Exported(i) /\ report \in Reports(analysis, osint, i)
    BY ReportsMade
  <2>2. PICK up \in SUBSET Answering : mail \in Messages /\ analysis = Analysis(mail, up)
    BY DEF PipelineInv, Answering
  <2> HIDE DEF i, osint
  <2>3. \E r \in Reports(Analysis(mail, Answering), osint, i) : report.overall - r.overall \in 0..8
    BY <2>1, <2>2, OutageScore
  <2>4. QED
    BY <2>3 DEF i, osint
<1>2. QED
  BY <1>1, PipelineInvariant, PTL

-----------------------------------------------------------------------------
(* The bonus of two exports                                                *)

(* SameAnswers, of any two investigations.                                 *)
Agree(i, j) ==
  \A k \in DOMAIN i.osint \cup (IPKeys(Hitters(i)) \cap DOMAIN j.osint) :
    /\ k \in DOMAIN i.osint \cap DOMAIN j.osint
    /\ i.osint[k] = j.osint[k]

LEMMA HittersOf ==
  ASSUME NEW i, NEW H, i.timeline \in Seq(H)
  PROVE  Hitters(i) = {h.ip : h \in ToSet(i.timeline)}
BY DEF Hitters, ToSet

LEMMA AnsweredAlike ==
  ASSUME NEW i, NEW j, Agree(i, j), NEW ip \in Hitters(i), NEW s \in {"ipinfo", "abuseipdb"}
  PROVE  Answered(i.osint, s, ip) <=> Answered(j.osint, s, ip)
<1>1. <<s, ip>> \in IPKeys(Hitters(i))
  BY DEF IPKeys
<1> DEFINE k == <<s, ip>>
<1>2. k \in DOMAIN i.osint \/ k \in DOMAIN j.osint =>
        /\ k \in DOMAIN i.osint /\ k \in DOMAIN j.osint
        /\ i.osint[k] = j.osint[k]
  <2> HIDE DEF k
  <2>1. QED
    BY <1>1 DEF Agree, k
<1>3. QED
  BY <1>2 DEF Answered

(* A hitter keeps its role, or becomes automated once it sends a script's  *)
(* user agent; what AbuseIPDB says of it stays.                            *)
LEMMA HittersKept ==
  ASSUME NEW i, NEW j, NEW H, i.timeline \in Seq(H), NEW K, j.timeline \in Seq(K),
         ToSet(i.timeline) \subseteq ToSet(j.timeline), Agree(i, j)
  PROVE  /\ Hitters(i) \subseteq Hitters(j) /\ Automated(i) \subseteq Automated(j)
         /\ Countries(i) \subseteq Countries(j) /\ (Mixed(i) => Mixed(j))
         /\ \A ip \in Hitters(i) : Uplift(i, ip) = Uplift(j, ip)
<1>1. Hitters(i) \subseteq Hitters(j)
  BY HittersOf
<1>2. ASSUME NEW ip \in Hitters(i)
      PROVE  /\ Answered(i.osint, "ipinfo", ip) <=> Answered(j.osint, "ipinfo", ip)
             /\ Answered(i.osint, "abuseipdb", ip) <=> Answered(j.osint, "abuseipdb", ip)
  BY AnsweredAlike
<1>3. ASSUME NEW ip \in Hitters(i)
      PROVE  /\ Role(i, ip) = "human_likely" => Role(j, ip) = "human_likely"
             /\ Role(i, ip) = "automation_likely" => Role(j, ip) = "automation_likely"
  <2>1. Agents(i, ip) \subseteq Agents(j, ip)
    BY DEF Agents
  <2>2. QED
    BY <1>2, <2>1, RoleIs
<1>4. Automated(i) \subseteq Automated(j)
  BY <1>1, <1>3 DEF Automated
<1>5. Countries(i) \subseteq Countries(j)
  BY <1>1, <1>2 DEF Countries
<1>6. Mixed(i) => Mixed(j)
  BY <1>1, <1>3 DEF Mixed, Roles
<1>7. ASSUME NEW ip \in Hitters(i) PROVE Uplift(i, ip) = Uplift(j, ip)
  <2>1. AbuseScore(i.osint, ip) = AbuseScore(j.osint, ip)
    BY <1>2 DEF AbuseScore
  <2>2. AbuseReports(i.osint, ip) = AbuseReports(j.osint, ip)
    BY <1>2 DEF AbuseReports
  <2>3. QED
    BY <2>1, <2>2 DEF Uplift
<1>8. QED
  BY <1>1, <1>4, <1>5, <1>6, <1>7

(* The bonus grows with the automated hitters and their uplifts, with the  *)
(* countries, and with a pattern that becomes mixed.                       *)
LEMMA BonusMonotone ==
  ASSUME NEW i, NEW H, i.timeline \in Seq(H), \A h \in H : h.ip \in DOMAIN IPFacts,
         NEW j, NEW K, j.timeline \in Seq(K), \A h \in K : h.ip \in DOMAIN IPFacts,
         Automated(i) \subseteq Automated(j), Countries(i) \subseteq Countries(j),
         Mixed(i) => Mixed(j), \A ip \in Automated(i) : Uplift(i, ip) <= Uplift(j, ip)
  PROVE  Bonus(i) <= Bonus(j)
<1> DEFINE p == Pattern(i)
           q == Pattern(j)
           s == SumFunctionOnSet(Uplifts(i), Automated(i))
           t == SumFunctionOnSet(Uplifts(j), Automated(j))
<1>1. /\ Bonus(i) = Least(32, p + s) /\ p \in Nat /\ s \in Nat
      /\ Bonus(j) = Least(32, q + t) /\ q \in Nat /\ t \in Nat
  BY BonusIs
<1>2. s <= t
  <2>1. /\ IsFiniteSet(Automated(j))
        /\ \A ip \in Automated(i) : Uplifts(i)[ip] = Uplift(i, ip) /\ Uplifts(i)[ip] \in Nat
        /\ \A ip \in Automated(j) : Uplifts(j)[ip] = Uplift(j, ip) /\ Uplifts(j)[ip] \in Nat
    BY BonusIs
  <2>2. \A ip \in Automated(i) : Uplifts(i)[ip] <= Uplifts(j)[ip]
    BY <2>1
  <2>3. QED
    BY <2>1, <2>2, SumMonotone
<1>3. p <= q
  <2>1. Cardinality(Countries(i)) <= Cardinality(Countries(j))
    BY HittersFinite, FS_Subset
  <2>2. Cardinality(Countries(i)) \in Nat /\ Cardinality(Countries(j)) \in Nat
    BY HittersFinite
  <2>3. CASE Mixed(i)
    BY <2>1, <2>2, <2>3 DEF Pattern
  <2>4. CASE ~ Mixed(i)
    BY <2>4 DEF Pattern
  <2>5. QED
    BY <2>3, <2>4
<1> HIDE DEF p, q, s, t
<1>4. QED
  BY <1>1, <1>2, <1>3 DEF Least

LEMMA BonusGrows ==
  ASSUME NEW i, NEW H, i.timeline \in Seq(H), \A h \in H : h.ip \in DOMAIN IPFacts,
         NEW j, NEW K, j.timeline \in Seq(K), \A h \in K : h.ip \in DOMAIN IPFacts,
         ToSet(i.timeline) \subseteq ToSet(j.timeline), Agree(i, j)
  PROVE  Bonus(j) >= Bonus(i)
<1>1. /\ Automated(i) \subseteq Automated(j) /\ Countries(i) \subseteq Countries(j)
      /\ (Mixed(i) => Mixed(j)) /\ \A ip \in Hitters(i) : Uplift(i, ip) = Uplift(j, ip)
  BY HittersKept
<1>2. ASSUME NEW ip \in Automated(i) PROVE Uplift(i, ip) <= Uplift(j, ip)
  <2>1. ip \in Hitters(i)
    BY DEF Automated
  <2>2. Uplift(i, ip) \in Nat
    BY BonusIs
  <2>3. QED
    BY <1>1, <2>1, <2>2
<1>3. Bonus(i) \in 0..32 /\ Bonus(j) \in 0..32
  BY BonusIs
<1>4. QED
  BY <1>1, <1>2, <1>3, BonusMonotone

(* MoreHitsNeverLowerBonus: a complete export never yields a smaller bonus *)
(* than the one before, if both learn the same of the IPs they share.      *)
THEOREM BonusNeverLower == Spec => MoreHitsNeverLowerBonus
<1> DEFINE Keeps == inv' # inv /\ ToSet(inv'.timeline) = hits /\ SameAnswers
                      => Bonus(inv') >= Bonus(inv)
           Typed == inv.timeline \in Seq(hits) /\ \A h \in hits : h.ip \in DOMAIN IPFacts
<1>1. PipelineInv => Typed
  BY DEF PipelineInv, TypeOK, IPs
<1>2. Typed /\ Typed' /\ [Next]_vars => [Keeps]_vars
  <2> SUFFICES ASSUME Typed, Typed', ToSet(inv'.timeline) = hits, SameAnswers
               PROVE  Bonus(inv') >= Bonus(inv)
    OBVIOUS
  <2>1. ToSet(inv.timeline) \subseteq ToSet(inv'.timeline)
    BY TimelineHeld
  <2>2. Agree(inv, inv')
    BY DEF SameAnswers, Agree
  <2>3. /\ inv.timeline \in Seq(hits) /\ \A h \in hits : h.ip \in DOMAIN IPFacts
        /\ inv'.timeline \in Seq(hits') /\ \A h \in hits' : h.ip \in DOMAIN IPFacts
    OBVIOUS
  <2>4. QED
    BY <2>1, <2>2, <2>3, BonusGrows
<1>3. QED
  BY <1>1, <1>2, PipelineInvariant, PTL DEF Spec, MoreHitsNeverLowerBonus

-----------------------------------------------------------------------------
(* What an outage of ipinfo and AbuseIPDB moves                            *)

LEMMA AnswersKept ==
  ASSUME NEW osint, NEW e
  PROVE  /\ \A s \in {"ipinfo", "abuseipdb"} :
              /\ Answered(osint, s, e) => Answered(AllAnswered(osint), s, e)
              /\ Answered(AllAnswered(osint), s, e) <=> <<s, e>> \in DOMAIN osint
         /\ DOMAIN AllAnswered(osint) = DOMAIN osint
BY DEF AllAnswered, Answered

(* A registrar's silence stays.                                            *)
LEMMA RegistrationKept ==
  ASSUME NEW osint
  PROVE  /\ \A d : Unregistered(osint, "whois", <<d>>, d) <=>
                     Unregistered(AllAnswered(osint), "whois", <<d>>, d)
         /\ \A l, d : Unregistered(osint, "email", <<l, d>>, d) <=>
                        Unregistered(AllAnswered(osint), "email", <<l, d>>, d)
<1>1. ASSUME NEW k, k[1] \in {"whois", "email"}
      PROVE  /\ k \in DOMAIN osint <=> k \in DOMAIN AllAnswered(osint)
             /\ k \in DOMAIN osint => (osint[k] <=> AllAnswered(osint)[k])
  BY <1>1 DEF AllAnswered
<1>2. ASSUME NEW d PROVE Unregistered(osint, "whois", <<d>>, d) <=>
                           Unregistered(AllAnswered(osint), "whois", <<d>>, d)
  <2> DEFINE k == <<"whois">> \o <<d>>
  <2>1. k[1] = "whois"
    OBVIOUS
  <2> HIDE DEF k
  <2>2. /\ k \in DOMAIN osint <=> k \in DOMAIN AllAnswered(osint)
        /\ k \in DOMAIN osint => (osint[k] <=> AllAnswered(osint)[k])
    BY <1>1, <2>1
  <2>3. QED
    BY <2>2, Zenon DEF Unregistered, k
<1>3. ASSUME NEW l, NEW d PROVE Unregistered(osint, "email", <<l, d>>, d) <=>
                                  Unregistered(AllAnswered(osint), "email", <<l, d>>, d)
  <2> DEFINE k == <<"email">> \o <<l, d>>
  <2>1. k[1] = "email"
    OBVIOUS
  <2> HIDE DEF k
  <2>2. /\ k \in DOMAIN osint <=> k \in DOMAIN AllAnswered(osint)
        /\ k \in DOMAIN osint => (osint[k] <=> AllAnswered(osint)[k])
    BY <1>1, <2>1
  <2>3. QED
    BY <2>2, Zenon DEF Unregistered, k
<1>4. QED
  BY <1>2, <1>3

(* On the sender's side answers only add findings.                         *)
LEMMA InfrastructureGrows ==
  ASSUME NEW an, NEW osint
  PROVE  InfrastructureFindings(an, osint) \subseteq InfrastructureFindings(an, AllAnswered(osint))
<1>1. AbuseFindings(an, osint) \subseteq AbuseFindings(an, AllAnswered(osint))
  BY AnswersKept DEF AbuseFindings
<1>2. VpnFindings(an, osint) \subseteq VpnFindings(an, AllAnswered(osint))
  BY AnswersKept DEF VpnFindings
<1>3. DomainFindings(an, osint) = DomainFindings(an, AllAnswered(osint))
  <2>1. Looked(osint, "whois") = Looked(AllAnswered(osint), "whois")
    BY AnswersKept DEF Looked
  <2>2. QED
    BY <2>1, RegistrationKept DEF DomainFindings
<1>4. SenderFindings(an, osint) = SenderFindings(an, AllAnswered(osint))
  BY RegistrationKept DEF SenderFindings
<1>5. QED
  BY <1>1, <1>2, <1>3, <1>4 DEF InfrastructureFindings

(* With ipinfo answering, a hitter that is not misjudged keeps its role or *)
(* gets one; with AbuseIPDB answering, its uplift grows.                   *)
LEMMA HittersAnswered ==
  ASSUME NEW i, NEW H, i.timeline \in Seq(H), \A h \in H : h.ip \in DOMAIN IPFacts,
         NEW j, j.timeline = i.timeline, j.osint = AllAnswered(i.osint),
         \A ip \in Hitters(i) : ~ Misjudged(i, ip)
  PROVE  /\ Automated(i) \subseteq Automated(j) /\ Countries(i) \subseteq Countries(j)
         /\ Mixed(i) => Mixed(j)
         /\ \A ip \in Automated(i) : Uplift(i, ip) <= Uplift(j, ip)
<1>1. /\ Hitters(j) = Hitters(i) /\ \A ip : Agents(j, ip) = Agents(i, ip)
  BY DEF Hitters, Agents
<1>2. ASSUME NEW ip
      PROVE  /\ Answered(i.osint, "ipinfo", ip) => Answered(j.osint, "ipinfo", ip)
             /\ Answered(j.osint, "ipinfo", ip) <=> <<"ipinfo", ip>> \in DOMAIN i.osint
             /\ Answered(i.osint, "abuseipdb", ip) => Answered(j.osint, "abuseipdb", ip)
  BY AnswersKept
<1>3. ASSUME NEW ip \in Hitters(i)
      PROVE  /\ Role(i, ip) = "human_likely" => Role(j, ip) = "human_likely"
             /\ Role(i, ip) = "automation_likely" => Role(j, ip) = "automation_likely"
  <2>1. ~ Misjudged(i, ip)
    OBVIOUS
  <2>2. Role(i, ip) = "human_likely" => Role(j, ip) = "human_likely"
    BY <1>2, RoleIs
  <2>3. Role(i, ip) = "automation_likely" => Role(j, ip) = "automation_likely"
    BY <1>1, <1>2, <2>1, RoleIs DEF Misjudged
  <2>4. QED
    BY <2>2, <2>3
<1>4. Automated(i) \subseteq Automated(j)
  BY <1>1, <1>3 DEF Automated
<1>5. Countries(i) \subseteq Countries(j)
  BY <1>1, <1>2 DEF Countries
<1>6. Mixed(i) => Mixed(j)
  BY <1>1, <1>3 DEF Mixed, Roles
<1>7. ASSUME NEW ip \in Automated(i) PROVE Uplift(i, ip) <= Uplift(j, ip)
  <2>1. ip \in DOMAIN IPFacts
    BY HittersKnown
  <2>2. CASE Answered(i.osint, "abuseipdb", ip)
    <3>1. /\ AbuseScore(i.osint, ip) = AbuseScore(j.osint, ip)
          /\ AbuseReports(i.osint, ip) = AbuseReports(j.osint, ip)
      BY <1>2, <2>2 DEF AbuseScore, AbuseReports
    <3>2. QED
      BY <2>1, <3>1, UpliftIs
  <2>3. CASE ~ Answered(i.osint, "abuseipdb", ip)
    <3>1. AbuseScore(i.osint, ip) = 0 /\ AbuseReports(i.osint, ip) = 0
      BY <2>3 DEF AbuseScore, AbuseReports
    <3>2. Uplift(i, ip) = 0 /\ Uplift(j, ip) \in Nat
      BY <2>1, <3>1, UpliftIs
    <3>3. QED
      BY <3>2
  <2>4. QED
    BY <2>2, <2>3
<1>8. QED
  BY <1>4, <1>5, <1>6, <1>7

LEMMA BaseGrows ==
  ASSUME NEW an, Analysed(an), NEW osint, NEW i, Exported(i), NEW j, Exported(j)
  PROVE  /\ Base(Findings(an, osint, i)) \in Nat
         /\ Base(Findings(an, AllAnswered(osint), j)) \in Nat
         /\ Base(Findings(an, osint, i)) <= Base(Findings(an, AllAnswered(osint), j))
<1> DEFINE F == Findings(an, osint, i)
           G == Findings(an, AllAnswered(osint), j)
           A == InfrastructureFindings(an, osint)
           B == InfrastructureFindings(an, AllAnswered(osint))
           x == CategoryScore(Of(F, "identity"))
           y == CategoryScore(Of(F, "headers"))
           z == CategoryScore(Of(F, "authentication"))
           s == CategoryScore(Of(F, "infrastructure"))
           t == CategoryScore(Of(G, "infrastructure"))
<1>1. /\ IsFiniteSet(F) /\ \A f \in F : f.points \in Nat
      /\ Of(F, "identity") = IdentityFindings(an) /\ Of(F, "headers") = HeaderFindings(an)
      /\ Of(F, "authentication") = AuthFindings(an) /\ Of(F, "infrastructure") = A
  BY FindingsScored
<1>2. /\ IsFiniteSet(G) /\ \A f \in G : f.points \in Nat
      /\ Of(G, "identity") = IdentityFindings(an) /\ Of(G, "headers") = HeaderFindings(an)
      /\ Of(G, "authentication") = AuthFindings(an) /\ Of(G, "infrastructure") = B
  BY FindingsScored
<1>3. A \subseteq B
  BY InfrastructureGrows
<1> HIDE DEF F, G, A, B
<1>4. /\ Points(A) \in Nat /\ s = Clamp(Points(A))
      /\ IsFiniteSet(B) /\ (\A f \in B : f.points \in Nat)
      /\ Points(B) \in Nat /\ t = Clamp(Points(B))
  BY <1>1, <1>2, CategoryScoreIs
<1>5. Points(A) <= Points(B)
  BY <1>3, <1>4, PointsMonotone
<1>6. x \in 0..100 /\ y \in 0..100 /\ z \in 0..100
  BY <1>1, CategoryScoreIs
<1>7. s \in Nat /\ t \in Nat /\ s <= t
  <2> HIDE DEF s, t
  <2>1. /\ s = IF Points(A) > 100 THEN 100 ELSE Points(A)
        /\ t = IF Points(B) > 100 THEN 100 ELSE Points(B)
    BY <1>4, ClampIs
  <2>2. QED
    BY <1>4, <1>5, <2>1
<1>8. /\ Base(F) = 40 * x + 30 * y + 15 * z + 15 * s
      /\ Base(G) = 40 * x + 30 * y + 15 * z + 15 * t
  BY <1>1, <1>2 DEF Base
<1> HIDE DEF x, y, z, s, t
<1>9. Base(F) \in Nat /\ Base(G) \in Nat /\ Base(F) <= Base(G)
  BY <1>6, <1>7, <1>8
<1>10. QED
  BY <1>9 DEF F, G

(* A larger base may be rounded to no less: where one exact half is        *)
(* rounded up, so may the other be.                                        *)
LEMMA RoundedGrows ==
  ASSUME NEW n \in Nat, NEW m \in Nat, n <= m, NEW b \in Rounded(n)
  PROVE  b \in Nat /\ \E c \in Rounded(m) : c \in Nat /\ b <= c
<1>1. b \in Nat /\ 100 * b <= n + 50
  BY RoundedIs
<1> DEFINE q == m \div 100
           r == m % 100
           k == (m + 50) \div 100
<1>2. q \in Nat /\ r \in 0..99 /\ m = 100 * q + r
  OBVIOUS
<1>3. k \in Nat /\ m + 50 < 100 * k + 100
  OBVIOUS
<1> HIDE DEF q, r, k
<1>4. CASE r = 50
  <2>1. Rounded(m) = {q, q + 1}
    BY <1>4 DEF Rounded, q, r
  <2>2. q + 1 \in Rounded(m) /\ b <= q + 1
    BY <1>1, <1>2, <1>4, <2>1
  <2>3. QED
    BY <1>1, <1>2, <2>2
<1>5. CASE r # 50
  <2>1. Rounded(m) = {k}
    BY <1>5 DEF Rounded, k, r
  <2>2. b <= k
    BY <1>1, <1>3
  <2>3. QED
    BY <1>1, <1>3, <2>1, <2>2
<1>6. QED
  BY <1>4, <1>5

(* OutageNeverAdds: unless a hitter is misjudged without ipinfo, a report  *)
(* scores no more with ipinfo or AbuseIPDB down than with both answering,  *)
(* although the outage moves roles, pattern, countries, uplifts and        *)
(* findings on the sender at once.                                         *)
THEOREM OutagesNeverAdd == Spec => []OutageNeverAdds
<1>1. PipelineInv => OutageNeverAdds
  <2> DEFINE i == report.investigation
             osint == report.osint
             j == [timeline |-> i.timeline, osint |-> AllAnswered(i.osint)]
  <2> SUFFICES ASSUME PipelineInv, report # NoReport, \A ip \in Hitters(i) : ~ Misjudged(i, ip)
               PROVE  \E r \in Reports(analysis, AllAnswered(osint), j) : report.overall <= r.overall
    BY DEF OutageNeverAdds
  <2>1. Analysed(analysis) /\ Exported(i) /\ report \in Reports(analysis, osint, i)
    BY ReportsMade
  <2>2. j.timeline = i.timeline /\ j.osint = AllAnswered(i.osint)
    OBVIOUS
  <2> HIDE DEF i, j, osint
  <2>3. PICK H : i.timeline \in Seq(H) /\ \A h \in H : h.ip \in DOMAIN IPFacts
    BY <2>1 DEF Exported
  <2>4. Exported(j)
    BY <2>2, <2>3 DEF Exported
  <2>5. Bonus(i) \in 0..32 /\ Bonus(j) \in 0..32 /\ Bonus(i) <= Bonus(j)
    <3>1. j.timeline \in Seq(H)
      BY <2>2, <2>3
    <3>2. /\ Automated(i) \subseteq Automated(j) /\ Countries(i) \subseteq Countries(j)
          /\ Mixed(i) => Mixed(j)
          /\ \A ip \in Automated(i) : Uplift(i, ip) <= Uplift(j, ip)
      BY <2>2, <2>3, HittersAnswered
    <3>3. Bonus(i) <= Bonus(j)
      BY <2>3, <3>1, <3>2, BonusMonotone
    <3>4. QED
      BY <2>3, <3>1, <3>3, BonusIs
  <2> DEFINE F == Findings(analysis, osint, i)
             G == Findings(analysis, AllAnswered(osint), j)
  <2>6. Base(F) \in Nat /\ Base(G) \in Nat /\ Base(F) <= Base(G)
    BY <2>1, <2>4, BaseGrows
  <2>7. PICK b \in Rounded(Base(F)) : report.overall = Clamp(b + Bonus(i))
    BY <2>1, ReportIs
  <2>8. IsFiniteSet(G) /\ \A f \in G : f.points \in Nat
    BY <2>1, <2>4, FindingsScored
  <2> HIDE DEF F, G
  <2>9. PICK c \in Rounded(Base(G)) : b \in Nat /\ c \in Nat /\ b <= c
    BY <2>6, <2>7, RoundedGrows
  <2>10. Clamp(b + Bonus(i)) <= Clamp(c + Bonus(j))
    BY <2>5, <2>9, ClampIs
  <2>11. Clamp(c + Bonus(j)) \in Overall(G, Bonus(j))
    BY <2>8, <2>9, OverallIs
  <2>12. \E r \in Reports(analysis, AllAnswered(osint), j) : r.overall = Clamp(c + Bonus(j))
    BY <2>11, ReportOf DEF G
  <2>13. QED
    BY <2>7, <2>10, <2>12
<1>2. QED
  BY <1>1, PipelineInvariant, PTL

-----------------------------------------------------------------------------
(* The profiles                                                            *)

(* ProfilesPartition: the profiles account for every exported hit exactly  *)
(* once and follow the timeline, however hits were delayed and cut off.    *)
THEOREM ProfilesComplete == Spec => []ProfilesPartition
<1>1. PipelineInv => ProfilesPartition
  <2> SUFFICES ASSUME PipelineInv PROVE ProfilesPartition
    OBVIOUS
  <2>1. /\ inv.timeline \in Seq(hits) /\ \A h \in hits : h.at \in Int
        /\ \A a, b \in 1..Len(inv.timeline) : a < b => inv.timeline[a].at <= inv.timeline[b].at
    BY DEF PipelineInv, TypeOK, InTime
  <2> DEFINE ps == Profiles(inv)
  <2>2. /\ UNION {ps[k].hit_ids : k \in DOMAIN ps} = {h.id : h \in ToSet(inv.timeline)}
        /\ SumFunction([k \in DOMAIN ps |-> ps[k].hit_count]) = Len(inv.timeline)
        /\ \A k \in DOMAIN ps : ps[k].first_seen <= ps[k].last_seen
        /\ \A k, l \in DOMAIN ps : k < l => ps[k].first_seen <= ps[l].first_seen
    BY <2>1, ProfilesAccount
  <2> HIDE DEF ps
  <2>3. QED
    BY <2>2 DEF ProfilesPartition, ps
<1>2. QED
  BY <1>1, PipelineInvariant, PTL
=============================================================================
