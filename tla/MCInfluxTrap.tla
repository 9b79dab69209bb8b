---------------------------- MODULE MCInfluxTrap ----------------------------
(* InfluxTrap for TLC: visitors that come through Caddy, whose address is  *)
(* docker's, and send headers that name another address; visitors that     *)
(* reach the API without it; and every kind of hop in X-Forwarded-For.     *)
EXTENDS InfluxTrap

MCAddresses == {"public", "other", "lan", "docker"}
MCValues == MCAddresses \cup {"other:port", "garbage", "unknown"}
MCPublic == {"public", "other"}
MCParse == [v \in MCValues |-> IF v \in MCAddresses THEN v
                               ELSE IF v = "other:port" THEN "other" ELSE "unknown"]

Visit(via, visitor, real, fwd, inner, proxy) ==
  [via |-> via, visitor |-> visitor, real |-> real, fwd |-> fwd,
   inner |-> inner, proxy |-> proxy]

MCVisits ==
  {Visit("caddy", "public", "other:port", <<"lan", "other">>, <<>>, "docker"),
   Visit("caddy", "lan", "garbage", <<>>, <<>>, "docker"),
   Visit("direct", "public", "garbage", <<"garbage">>, <<>>, "docker"),
   Visit("direct", "lan", "garbage", <<>>, <<>>, "docker"),
   Visit("direct", "lan", "other:port", <<>>, <<>>, "docker"),
   Visit("chain", "public", "garbage", <<"lan">>, <<"other", "docker">>, "lan"),
   Visit("chain", "lan", "garbage", <<"garbage">>, <<>>, "docker")}
=============================================================================
