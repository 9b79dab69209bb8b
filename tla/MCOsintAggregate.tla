-------------------------- MODULE MCOsintAggregate --------------------------
(* Entities, keys and requests of small instances of OsintAggregate.       *)
EXTENDS OsintAggregate

MCTasks == Jobs \X Entities
MCKeys == ({"ipinfo", "abuseipdb"} \X IPs) \cup ({"whois"} \X Domains)
MCLenient == {"whois"} \X Domains
MCEmailDomain == [e \in Emails |-> Head(SetToSeq(Domains))]

Request(is, ds, ms) == [ips |-> is, domains |-> ds, emails |-> ms]

(* A repeated domain with more distinct ones behind it than the cap of two *)
(* allows, and one asked for by name and through an email under it.        *)
MCRequests ==
  LET is == SetToSeq(IPs)
      ds == SetToSeq(Domains)
      ms == SetToSeq(Emails)
  IN  {Request(is, <<>>, <<>>), Request(<<>>, <<Head(ds)>> \o ds, ms)}
=============================================================================
