-------------------------- MODULE MCEvidencePipeline --------------------------
(* Entities and messages of small instances of EvidencePipeline: a cloud   *)
(* IP and two consumer IPs with records in AbuseIPDB, and one domain of    *)
(* every kind the scorer tells apart.                                      *)
EXTENDS EvidencePipeline

MCIPFacts ==
  [cloud  |-> [net |-> "cloud", country |-> "SG", vpn |-> TRUE, abuse |-> 80, reports |-> 9],
   mobile |-> [net |-> "mobile", country |-> "NO", vpn |-> FALSE, abuse |-> 0, reports |-> 2],
   cable  |-> [net |-> "other", country |-> "SE", vpn |-> FALSE, abuse |-> 20, reports |-> 1]]

MCPrivate == {"lan"}
MCWebmail == {"gmail"}
MCMailInfra == {"gmail", "mx"}

MCDns ==
  [gmail |-> [spf |-> TRUE, dmarc |-> "none"],
   mx    |-> [spf |-> TRUE, dmarc |-> "absent"],
   corp  |-> [spf |-> TRUE, dmarc |-> "enforced"],
   fresh |-> [spf |-> FALSE, dmarc |-> "absent"],
   ghost |-> [spf |-> FALSE, dmarc |-> "absent"]]

MCWhois ==
  [gmail |-> "old", mx |-> "old", corp |-> "recent", fresh |-> "young", ghost |-> "absent"]

Address(name, local, domain) == [name |-> name, local |-> local, domain |-> domain]
Auth(mech, status) == [mech |-> mech, status |-> status, domain |-> ""]

Plain ==
  LET sender == Address("", "ann", "corp")
  IN  [from |-> sender, replyTo |-> NoAddress, returnPath |-> sender, xip |-> "",
       hops |-> <<"cable", "cable">>, auth |-> <<Auth("spf", "pass"), Auth("dmarc", "pass")>>,
       relays |-> {"mx"}]

(* A recruiter on free webmail who wants the answers elsewhere.            *)
Recruiter ==
  [Plain EXCEPT !.from = Address("Corp HR", "corp", "gmail"),
                !.replyTo = Address("Corp HR", "jobs", "fresh"),
                !.returnPath = Address("", "bounce", "ghost"),
                !.hops = <<"lan", "cloud">>, !.auth = <<>>]

(* The same person, with and without a display name.                       *)
Renamed ==
  [Plain EXCEPT !.replyTo = Address("Ann", "ann", "corp"), !.xip = "mobile",
                !.hops = <<"cable", "cloud">>]

Spoofed ==
  [Plain EXCEPT !.from = Address("", "ceo", "ghost"), !.xip = "mobile",
                !.hops = <<"cable">>,
                !.auth = <<Auth("spf", "fail"), Auth("dkim", "softfail"),
                           Auth("dmarc", "permerror"), Auth("spf", "pass")>>]

MCMessages == {Plain, Recruiter, Renamed, Spoofed}
=============================================================================
