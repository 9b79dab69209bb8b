---------------------------- MODULE ClientAddress ----------------------------
(***************************************************************************)
(* Whose address a canary hit gets (app/core/client_ip.py), and what of    *)
(* its visitor the API gets to see (deploy/Caddyfile).  What it sees is    *)
(* `real`, X-Real-IP, `fwd`, the hops of X-Forwarded-For, and `peer`, the  *)
(* socket's other end; a header that is absent is a value that is no       *)
(* address.                                                                *)
(***************************************************************************)
EXTENDS Integers, Sequences, SequencesExt

CONSTANTS
  Values,       \* what headers and sockets show
  Parse,        \* _parse_ip: the address a value shows, ports and brackets off
  Public,       \* the addresses _is_public_ip accepts
  Unknown,      \* the string "unknown", and _parse_ip's None
  TrustProxy    \* settings.trusted_proxy_headers

Addresses == {Parse[v] : v \in Values} \ {Unknown}

ASSUME AddressAssumption ==
  /\ Unknown \in Values /\ Parse \in [Values -> Values]
  /\ Parse[Unknown] = Unknown /\ \A a \in Addresses : Parse[a] = a
  /\ Public \subseteq Addresses /\ TrustProxy \in BOOLEAN

FirstAddress(s) ==
  LET i == SelectInSeq(s, LAMBDA v : Parse[v] # Unknown)
  IN  IF i = 0 THEN Unknown ELSE Parse[s[i]]

(* The first public hop, else the hop nearest the edge; a single hop is    *)
(* both, so its branch in the code needs none here.                        *)
IpFromForwarded(hops) ==
  LET i == SelectInSeq(hops, LAMBDA v : Parse[v] \in Public)
  IN  IF i = 0 THEN FirstAddress(Reverse(hops)) ELSE Parse[hops[i]]

PublicPeer(seen) ==
  IF Parse[seen.peer] \in Public THEN Parse[seen.peer] ELSE Unknown

GetClientIp_Raw(seen) == IF TrustProxy THEN seen.real ELSE PublicPeer(seen)

GetClientIp(seen) ==
  LET real == Parse[seen.real]
      fwd  == IpFromForwarded(seen.fwd)
  IN  IF TrustProxy /\ real # Unknown THEN real
      ELSE IF TrustProxy /\ fwd # Unknown THEN fwd
      ELSE PublicPeer(seen)

-----------------------------------------------------------------------------
(* A visit: the visitor's address, the X-Real-IP and X-Forwarded-For it    *)
(* sends itself, and its way to the API: to the API's own port, through    *)
(* Caddy, or through a chain of proxies that append, of which `inner` are  *)
(* the addresses the later ones appended and `proxy` the last one's.       *)

AnyVisit == [via : {"caddy", "direct", "chain"}, visitor : Addresses,
             real : Values, fwd : Seq(Values),
             inner : Seq(Addresses), proxy : Addresses]

(* Caddy sets both headers to the address that connected to it, whatever   *)
(* they held.                                                              *)
ByCaddy_Appended(v) ==
  [real |-> v.real, fwd |-> Append(v.fwd, v.visitor), peer |-> v.proxy]

ByCaddy(v) == [real |-> v.visitor, fwd |-> <<v.visitor>>, peer |-> v.proxy]

ByChain(v) ==
  [real |-> v.real, fwd |-> v.fwd \o <<v.visitor>> \o v.inner, peer |-> v.proxy]

Itself(v) == [real |-> v.real, fwd |-> v.fwd, peer |-> v.visitor]

Seen(v) == IF v.via = "caddy" THEN ByCaddy(v)
           ELSE IF v.via = "chain" THEN ByChain(v) ELSE Itself(v)
=============================================================================
