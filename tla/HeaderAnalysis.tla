--------------------------- MODULE HeaderAnalysis ---------------------------
(***************************************************************************)
(* What app/services/header_evaluator.py makes of a message: the anomalies *)
(* it reports and the entities it extracts for the OSINT lookups.          *)
(*                                                                         *)
(* A message is abstracted to the fields the evaluator compares.  Names    *)
(* and addresses are opaque; "" is a header that is absent.                *)
(***************************************************************************)
EXTENDS Integers, FiniteSets, Sequences, SequencesExt, SortedSeq

CONSTANTS
  Private,   \* the private and reserved IPs
  Dns        \* Dns[d]: the SPF and DMARC records domain d publishes

NoAddress == [name |-> "", local |-> "", domain |-> ""]
Email(a) == [local |-> a.local, domain |-> a.domain]

When(P, x) == IF P THEN {x} ELSE {}
Mismatch(d, e) == d # "" /\ e # "" /\ d # e

(* The outcomes in the Authentication-Results headers, the first for each  *)
(* mechanism and domain.                                                   *)
Authentication(m) ==
  LET fresh == {i \in DOMAIN m.auth : \A j \in 1..(i - 1) :
                  <<m.auth[j].mech, m.auth[j].domain>> # <<m.auth[i].mech, m.auth[i].domain>>}
  IN  Picked(m.auth, fresh)

Failed == {"fail", "permerror"}
FailedCode == [spf |-> "spf_failed", dkim |-> "dkim_failed", dmarc |-> "dmarc_failed"]

(* lookup_spf_record and lookup_dmarc_record: a lookup that raises (it is  *)
(* not in `up`) looks like one that finds nothing.                         *)
SpfFound(d, up)   == "spf" \in up /\ Dns[d].spf
DmarcFound(d, up) == "dmarc" \in up /\ Dns[d].dmarc # "absent"

Anomaly(code, severity, about) == [code |-> code, severity |-> severity, about |-> about]

DnsAnomalies_NoPolicy(d, up) ==
  IF d = "" THEN {} ELSE
       When(~ SpfFound(d, up), Anomaly("spf_record_missing", "low", d))
  \cup When(~ DmarcFound(d, up), Anomaly("dmarc_record_missing", "medium", d))
  \cup When(~ DmarcFound(d, up) \/ Dns[d].dmarc = "none", Anomaly("dmarc_policy_none", "low", d))
DnsAnomalies(d, up) ==
  IF d = "" THEN {} ELSE
       When(~ SpfFound(d, up), Anomaly("spf_record_missing", "low", d))
  \cup When(~ DmarcFound(d, up), Anomaly("dmarc_record_missing", "medium", d))
  \cup When(DmarcFound(d, up) /\ Dns[d].dmarc = "none", Anomaly("dmarc_policy_none", "low", d))

HopIPs(m) == ToSet(m.hops) \ {""}

DetectAnomalies(m, up) ==
       When(Mismatch(m.replyTo.domain, m.from.domain),
            Anomaly("reply_to_domain_mismatch", "high", ""))
  \cup When(Mismatch(m.returnPath.domain, m.from.domain),
            Anomaly("return_path_domain_mismatch", "medium", ""))
  \cup {Anomaly(FailedCode[a.mech], IF a.mech = "dmarc" THEN "high" ELSE "medium", a.domain) :
          a \in {b \in ToSet(Authentication(m)) : b.status \in Failed}}
  \cup DnsAnomalies(m.from.domain, up)
  \cup When(m.xip # "" /\ HopIPs(m) # {} /\ m.xip \notin HopIPs(m),
            Anomaly("x_originating_ip_not_in_received", "medium", m.xip))
  \cup When(m.hops # <<>> /\ m.hops[1] \in Private,
            Anomaly("private_ip_in_first_hop", "medium", m.hops[1]))
  \cup When(m.from # NoAddress /\ m.replyTo # NoAddress /\ m.from # m.replyTo,
            Anomaly("reply_to_address_mismatch", "medium", ""))

(* The conditional expression takes the hops only if there is no           *)
(* X-Originating-IP.                                                       *)
ExtractedIPs(m) == IF m.xip # "" THEN {m.xip} ELSE HopIPs(m)

Addresses(m) == {m.from, m.replyTo, m.returnPath} \ {NoAddress}

(* Relay hosts are found in the text of the headers, and so is a local     *)
(* part that reads like a domain.                                          *)
ExtractedDomains(m) ==
  ({a.domain : a \in Addresses(m)} \cup {a.local : a \in Addresses(m)} \cup m.relays)
    \cap DOMAIN Dns

ExtractedEmails(m) == {Email(a) : a \in Addresses(m)}

Analysis(m, up) ==
  [from |-> m.from, replyTo |-> m.replyTo, returnPath |-> m.returnPath,
   xip |-> m.xip, hops |-> m.hops, authentication |-> Authentication(m),
   ips |-> ExtractedIPs(m), domains |-> ExtractedDomains(m),
   emails |-> ExtractedEmails(m), anomalies |-> DetectAnomalies(m, up)]
=============================================================================
