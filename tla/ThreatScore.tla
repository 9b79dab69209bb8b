----------------------------- MODULE ThreatScore -----------------------------
(***************************************************************************)
(* The threat report (app/services/threat_scorer.py) and its action plan   *)
(* (app/services/threat_action_plan.py) as functions of a header analysis, *)
(* an OSINT response and a canary investigation.  Points, weights and      *)
(* bands are the source's; messages are left out.                          *)
(***************************************************************************)
EXTENDS HeaderAnalysis, Investigation, FiniteSetsExt

CONSTANTS
  Webmail,     \* FREE_WEBMAIL_DOMAINS
  MailInfra,   \* the domains _is_mail_infrastructure_domain accepts
  Whois        \* Whois[d]: "absent", or the age "young", "recent" or "old"

Finding(category, code, points, about) ==
  [category |-> category, code |-> code, points |-> points, about |-> about]

DomainLike(s) == s \in DOMAIN Dns \ Webmail

-----------------------------------------------------------------------------
(* The sender's side of the message.                                       *)

FocusDomains(an) ==
  When(an.from.domain \in Webmail /\ DomainLike(an.from.local), an.from.local)
    \cup ({an.from.domain, an.replyTo.domain, an.returnPath.domain} \ (MailInfra \cup {""}))

(* The outermost hop is the recipient's.                                   *)
FocusIPs(an) ==
  ({an.xip} \cup {an.hops[i] : i \in DOMAIN an.hops \ {1}}) \ (Private \cup {""})

-----------------------------------------------------------------------------
(* Findings                                                                *)

IdentityFindings(an) ==
       When(an.from.name # "" /\ an.from.domain \in Webmail,
            Finding("identity", "business_name_on_free_webmail", 30, ""))
  \cup When(an.from.domain \in Webmail /\ DomainLike(an.from.local),
            Finding("identity", "domain_like_local_part_on_webmail", 28, ""))
  \cup When(Mismatch(an.replyTo.domain, an.from.domain),
            Finding("identity", "reply_to_domain_mismatch", 35, ""))
  \cup When(Mismatch(an.returnPath.domain, an.from.domain),
            Finding("identity", "return_path_domain_mismatch", 18, ""))

SeverityPoints == [low |-> 8, medium |-> 18, high |-> 35]

HeaderFindings(an) ==
  {Finding("headers", x.code,
           IF x.code = "private_ip_in_first_hop"
           THEN Max({4, SeverityPoints[x.severity] \div 3})
           ELSE SeverityPoints[x.severity],
           x.about) : x \in an.anomalies}

WeakCode == [spf |-> "spf_weak", dkim |-> "dkim_weak", dmarc |-> "dmarc_weak"]

(* auth_by_mechanism keeps the last outcome of each mechanism.             *)
AuthFindings(an) ==
  LET last == {SelectLastInSeq(an.authentication, LAMBDA a : a.mech = k) :
                 k \in {"spf", "dkim", "dmarc"}} \ {0}
      outcomes == {an.authentication[i] : i \in last}
  IN     {Finding("authentication", FailedCode[a.mech], IF a.mech = "dmarc" THEN 35 ELSE 25, "") :
            a \in {b \in outcomes : b.status \in Failed}}
    \cup {Finding("authentication", WeakCode[a.mech], 12, "") :
            a \in {b \in outcomes : b.status \in {"softfail", "neutral"}}}
    \cup When(an.authentication = <<>> /\ an.from.domain # "",
              Finding("authentication", "auth_results_missing_in_headers", 6, ""))

Looked(osint, source) == {k[2] : k \in {l \in DOMAIN osint : l[1] = source}}

AbuseFindings(an, osint) ==
  LET ips == {i \in FocusIPs(an) : Answered(osint, "abuseipdb", i)}
  IN     {Finding("infrastructure", "abuseipdb_high_confidence",
                  IF IPFacts[ip].abuse >= 75 THEN 40 ELSE 22, ip) :
            ip \in {i \in ips : IPFacts[i].abuse >= 25}}
    \cup {Finding("infrastructure", "abuseipdb_reports_present", 10, ip) :
            ip \in {i \in ips : IPFacts[i].abuse < 25 /\ IPFacts[i].reports > 0}}

VpnFindings(an, osint) ==
  {Finding("infrastructure", "ip_privacy_or_vpn", 15, ip) :
     ip \in {i \in FocusIPs(an) : Answered(osint, "ipinfo", i) /\ IPFacts[i].vpn}}

(* The WHOIS client turns its own failure into "not found".                *)
Unregistered(osint, source, key, domain) ==
  <<source>> \o key \in DOMAIN osint
    /\ (~ osint[<<source>> \o key] \/ Whois[domain] = "absent")

AgeFinding == [young  |-> Finding("infrastructure", "domain_recently_registered", 30, ""),
               recent |-> Finding("infrastructure", "domain_under_six_months", 14, "")]

DomainFindings(an, osint) ==
  LET focus == FocusDomains(an) \cap Looked(osint, "whois")
      lost  == {d \in focus : Unregistered(osint, "whois", <<d>>, d)}
  IN     {Finding("infrastructure", "whois_domain_not_found", 16, d) :
            d \in {e \in lost : DomainLike(e)}}
    \cup {[AgeFinding[Whois[d]] EXCEPT !.about = d] :
            d \in {e \in focus \ lost : Whois[e] \in DOMAIN AgeFinding}}

SenderFindings(an, osint) ==
  When(/\ an.from.domain \notin Webmail
       /\ Unregistered(osint, "email", <<an.from.local, an.from.domain>>, an.from.domain),
       Finding("infrastructure", "sender_domain_unregistered", 18, an.from.domain))

InfrastructureFindings(an, osint) ==
  AbuseFindings(an, osint) \cup VpnFindings(an, osint)
    \cup DomainFindings(an, osint) \cup SenderFindings(an, osint)

RoleFindings(inv) ==
  {IF Role(inv, ip) = "human_likely"
   THEN Finding("canary", "canary_human_operator_likely", 0, ip)
   ELSE Finding("canary", "canary_automation_followup", 12, ip) :
     ip \in {i \in Hitters(inv) : Role(inv, i) # "unknown"}}

HitterFindings(inv) ==
  LET score(ip) == AbuseScore(inv.osint, ip)
  IN     {Finding("canary", "canary_hitter_abuseipdb_high", IF score(ip) >= 75 THEN 35 ELSE 18, ip) :
            ip \in {i \in Hitters(inv) : score(i) >= 25}}
    \cup {Finding("canary", "canary_hitter_abuseipdb_reports", 10, ip) :
            ip \in {i \in Hitters(inv) : score(i) < 25 /\ AbuseReports(inv.osint, i) > 0}}

CanaryFindings(inv) ==
  IF inv.timeline = <<>> THEN {} ELSE
    {Finding("canary", "canary_trap_triggered", 0, "")}
    \cup When(Mixed(inv), Finding("canary", "canary_human_then_automation", 45, ""))
    \cup When(Cardinality(Countries(inv)) >= 2,
              Finding("canary", "canary_multi_country_ops", 22, ""))
    \cup RoleFindings(inv) \cup HitterFindings(inv)
    \cup When(Bonus(inv) > 0,
              Finding("canary", "canary_suspicious_hit_pattern", Bonus(inv), ""))

-----------------------------------------------------------------------------
(* Scores                                                                  *)

Clamp_Missing(n) == n
Clamp(n) == Max({0, Least(100, n)})

CategoryScore(findings) == Clamp(SumFunction([f \in findings |-> f.points]))

(* In hundredths of a point.                                               *)
Weight_CanaryTwice ==
  [identity |-> 40, headers |-> 30, authentication |-> 15, infrastructure |-> 15, canary |-> 30]
Weight == [identity |-> 40, headers |-> 30, authentication |-> 15, infrastructure |-> 15]

(* The weights are binary floats, so an exact half may round either way.   *)
Rounded(n) ==
  IF n % 100 = 50 THEN {n \div 100, n \div 100 + 1} ELSE {(n + 50) \div 100}

Of(findings, category) == {f \in findings : f.category = category}

(* The values build_threat_report may give overall_score.                  *)
Overall(findings, bonus) ==
  {Clamp(base + bonus) : base \in
     Rounded(SumFunction([c \in DOMAIN Weight |-> Weight[c] * CategoryScore(Of(findings, c))]))}

Verdict(score) ==
  CASE score >= 75 -> "critical"
    [] score \in 55..74 -> "high"
    [] score \in 30..54 -> "moderate"
    [] score < 30 -> "low"

-----------------------------------------------------------------------------
(* build_action_plan: a set of <<priority, action>>.                       *)

BaseActions ==
  [critical |-> {<<"immediate", "do not reply">>, <<"immediate", "quarantine">>,
                 <<"immediate", "block the sender">>, <<"recommended", "change passwords">>,
                 <<"recommended", "preserve evidence">>, <<"optional", "report to a CERT">>},
   high     |-> {<<"immediate", "do not click">>, <<"immediate", "verify the claim">>,
                 <<"recommended", "mark as spam">>, <<"recommended", "search independently">>,
                 <<"optional", "save the message">>},
   moderate |-> {<<"recommended", "verify out-of-band">>, <<"recommended", "avoid links">>,
                 <<"recommended", "check the display name">>, <<"optional", "keep the message">>,
                 <<"optional", "embed canary links">>},
   low      |-> {<<"optional", "standard caution">>, <<"optional", "no immediate action">>}]

PatternCodes == {"canary_suspicious_hit_pattern", "canary_human_then_automation",
                 "canary_multi_country_ops"}

CanaryActions(codes, inv) ==
  IF codes \cap PatternCodes # {}
  THEN {<<"immediate", "do not engage further">>, <<"recommended", "export the investigation">>}
       \cup When(Mixed(inv), <<"recommended", "document the pattern">>)
       \cup When("automation_likely" \in Roles(inv) /\ "human_likely" \notin Roles(inv),
                 <<"optional", "may be a link scanner">>)
  ELSE When(inv.timeline # <<>>, <<"optional", "review the hits">>)

Plan(verdict, score, findings, inv) ==
  LET codes  == {f.code : f \in findings}
      grave  == verdict \in {"critical", "high"}
  IN     BaseActions[verdict]
    \cup When(codes \cap {"business_name_on_free_webmail", "reply_to_domain_mismatch",
                          "domain_like_local_part_on_webmail"} # {},
              <<"recommended", "look up the organization">>)
    \cup When(codes \cap {"reply_to_domain_mismatch", "return_path_domain_mismatch"} # {},
              <<IF grave THEN "immediate" ELSE "recommended", "do not reply for verification">>)
    \cup CanaryActions(codes, inv)
    \cup When(grave /\ score >= 55, <<"recommended", "warn colleagues">>)

-----------------------------------------------------------------------------
(* merge_osint                                                             *)
Merge(primary, secondary) ==
  [k \in DOMAIN primary \cup DOMAIN secondary |->
     IF k \in DOMAIN primary THEN primary[k] ELSE secondary[k]]

Findings(an, osint, inv) ==
  IdentityFindings(an) \cup HeaderFindings(an) \cup AuthFindings(an)
    \cup InfrastructureFindings(an, osint) \cup CanaryFindings(inv)

(* The reports build_threat_report may return.                             *)
Reports(an, osint, inv) ==
  LET found == Findings(an, osint, inv)
  IN  {[overall |-> score, verdict |-> Verdict(score), findings |-> found, osint |-> osint,
        investigation |-> inv, plan |-> Plan(Verdict(score), score, found, inv)] : score \in Overall(found, Bonus(inv))}
=============================================================================
