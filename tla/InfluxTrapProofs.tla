--------------------------- MODULE InfluxTrapProofs ---------------------------
(***************************************************************************)
(* InfluxInv of InfluxTrap is inductive: for any visitors and addresses,   *)
(* any number of concurrent requests, and an Influx that may be down,      *)
(* lose or refuse requests and apply them late.                            *)
(***************************************************************************)
EXTENDS InfluxTrap, PositionLemmas, FiniteSetTheorems, SequenceTheorems, TLAPS

(* FirstAddress yields the first address of the sequence, if it has one.   *)
LEMMA FirstAddressFound ==
  ASSUME NEW s, Len(s) \in Nat
  PROVE  \/ /\ FirstAddress(s) = Unknown
            /\ \A i \in 1..Len(s) : Parse[s[i]] = Unknown
         \/ \E i \in 1..Len(s) :
              /\ FirstAddress(s) = Parse[s[i]] /\ Parse[s[i]] # Unknown
              /\ \A j \in 1..Len(s) : Parse[s[j]] # Unknown => i <= j
<1> DEFINE I == {i \in 1..Len(s) : Parse[s[i]] # Unknown}
<1>1. FirstAddress(s) = IF (IF I # {} THEN Min(I) ELSE 0) = 0
                        THEN Unknown ELSE Parse[s[IF I # {} THEN Min(I) ELSE 0]]
  BY DEF FirstAddress, SelectInSeq
<1>2. I # {} => /\ Min(I) \in 1..Len(s) /\ Parse[s[Min(I)]] # Unknown
                /\ \A j \in 1..Len(s) : Parse[s[j]] # Unknown => Min(I) <= j
  <2>1. I # {} => Min(I) \in I /\ \A j \in I : Min(I) <= j
    <3>1. I \subseteq 1..Len(s)
      OBVIOUS
    <3> HIDE DEF I
    <3>2. QED
      BY <3>1, FirstIn
  <2>2. QED
    BY <2>1
<1> HIDE DEF I
<1>3. CASE I # {}
  BY <1>1, <1>2, <1>3
<1>4. CASE I = {}
  BY <1>1, <1>4 DEF I
<1>5. QED
  BY <1>3, <1>4

(* X-Forwarded-For yields its first public address (client_ip.py:46), or   *)
(* else its last address (client_ip.py:56).                                *)
LEMMA ForwardedFound ==
  ASSUME NEW hops \in Seq(Values)
  PROVE  \/ \E i \in 1..Len(hops) :
              /\ IpFromForwarded(hops) = Parse[hops[i]] /\ Parse[hops[i]] \in Public
              /\ \A j \in 1..Len(hops) : Parse[hops[j]] \in Public => i <= j
         \/ /\ \A i \in 1..Len(hops) : Parse[hops[i]] \notin Public
            /\ \/ /\ IpFromForwarded(hops) = Unknown
                  /\ \A i \in 1..Len(hops) : Parse[hops[i]] = Unknown
               \/ \E i \in 1..Len(hops) :
                    /\ IpFromForwarded(hops) = Parse[hops[i]]
                    /\ Parse[hops[i]] # Unknown
                    /\ \A j \in 1..Len(hops) : Parse[hops[j]] # Unknown => j <= i
<1> DEFINE I == {i \in 1..Len(hops) : Parse[hops[i]] \in Public}
           back == Reverse(hops)
<1>1. IpFromForwarded(hops) = IF (IF I # {} THEN Min(I) ELSE 0) = 0
                              THEN FirstAddress(back)
                              ELSE Parse[hops[IF I # {} THEN Min(I) ELSE 0]]
  BY DEF IpFromForwarded, SelectInSeq
<1>2. I # {} => /\ Min(I) \in 1..Len(hops) /\ Parse[hops[Min(I)]] \in Public
                /\ \A j \in 1..Len(hops) : Parse[hops[j]] \in Public => Min(I) <= j
  <2>1. I # {} => Min(I) \in I /\ \A j \in I : Min(I) <= j
    <3>1. I \subseteq 1..Len(hops) /\ Len(hops) \in Nat
      OBVIOUS
    <3> HIDE DEF I
    <3>2. QED
      BY <3>1, FirstIn
  <2>2. QED
    BY <2>1
<1>3. Len(back) = Len(hops) /\ \A i \in 1..Len(hops) : back[i] = hops[(Len(hops) - i) + 1]
  BY DEF Reverse
<1>4. Len(hops) \in Nat
  OBVIOUS
<1> HIDE DEF I, back
<1>5. CASE I # {}
  <2>1. IpFromForwarded(hops) = Parse[hops[Min(I)]]
    BY <1>1, <1>2, <1>5
  <2>2. QED
    BY <1>2, <1>5, <2>1
<1>6. CASE I = {}
  <2>1. IpFromForwarded(hops) = FirstAddress(back)
    BY <1>1, <1>6
  <2>2. \A i \in 1..Len(hops) : Parse[hops[i]] \notin Public
    BY <1>6 DEF I
  <2>3. \/ /\ FirstAddress(back) = Unknown
           /\ \A i \in 1..Len(back) : Parse[back[i]] = Unknown
        \/ \E i \in 1..Len(back) :
             /\ FirstAddress(back) = Parse[back[i]] /\ Parse[back[i]] # Unknown
             /\ \A j \in 1..Len(back) : Parse[back[j]] # Unknown => i <= j
    BY <1>3, <1>4, FirstAddressFound
  <2>4. \A i \in 1..Len(hops) : /\ (Len(hops) - i) + 1 \in 1..Len(hops)
                                /\ hops[i] = back[(Len(hops) - i) + 1]
    BY <1>3, <1>4
  <2>5. CASE /\ FirstAddress(back) = Unknown
             /\ \A i \in 1..Len(back) : Parse[back[i]] = Unknown
    BY <1>3, <2>1, <2>2, <2>4, <2>5
  <2>6. ASSUME NEW i \in 1..Len(back),
               FirstAddress(back) = Parse[back[i]], Parse[back[i]] # Unknown,
               \A j \in 1..Len(back) : Parse[back[j]] # Unknown => i <= j
        PROVE  \E k \in 1..Len(hops) :
                 /\ IpFromForwarded(hops) = Parse[hops[k]]
                 /\ Parse[hops[k]] # Unknown
                 /\ \A j \in 1..Len(hops) : Parse[hops[j]] # Unknown => j <= k
    <3> DEFINE k == (Len(hops) - i) + 1
    <3>1. k \in 1..Len(hops) /\ back[i] = hops[k]
      BY <1>3, <1>4
    <3>2. ASSUME NEW j \in 1..Len(hops), Parse[hops[j]] # Unknown
          PROVE  j <= k
      <4>1. i <= (Len(hops) - j) + 1
        BY <1>3, <2>4, <2>6, <3>2
      <4>2. QED
        BY <1>3, <1>4, <4>1
    <3> HIDE DEF k
    <3>3. QED
      BY <2>1, <2>6, <3>1, <3>2
  <2>7. QED
    BY <2>2, <2>3, <2>5, <2>6
<1>7. QED
  BY <1>5, <1>6

(* What an address is, and what parsing leaves.                            *)
LEMMA ParsedAddress ==
  /\ \A v \in Values : Parse[v] \in Values
  /\ \A v \in Values : Parse[v] # Unknown => Parse[v] \in Addresses
  /\ \A a \in Addresses : a \in Values /\ Parse[a] = a /\ a # Unknown
  /\ Public \subseteq Addresses
BY AddressAssumption DEF Addresses

(* What the API sees of a visit (Caddyfile:68).                             *)
LEMMA SeenType ==
  ASSUME NEW v \in AnyVisit
  PROVE  /\ Seen(v).real \in Values /\ Seen(v).fwd \in Seq(Values)
         /\ Seen(v).peer \in Addresses
<1>1. /\ v.visitor \in Addresses /\ v.real \in Values /\ v.fwd \in Seq(Values)
      /\ v.inner \in Seq(Addresses) /\ v.proxy \in Addresses
  BY DEF AnyVisit
<1>2. v.visitor \in Values /\ v.inner \in Seq(Values)
  BY <1>1, ParsedAddress
<1>3. <<v.visitor>> \in Seq(Values)
  BY <1>2
<1>4. v.fwd \o <<v.visitor>> \o v.inner \in Seq(Values)
  BY <1>1, <1>2, <1>3
<1>5. QED
  BY <1>1, <1>2, <1>3, <1>4 DEF Seen, ByCaddy, ByChain, Itself

(* An address or "unknown" comes of every visit (client_ip.py:64).         *)
LEMMA ClientIpType ==
  ASSUME NEW v \in AnyVisit
  PROVE  GetClientIp(Seen(v)) \in Addresses \cup {Unknown}
<1> DEFINE s == Seen(v)
<1>1. s.real \in Values /\ s.fwd \in Seq(Values) /\ s.peer \in Addresses
  BY SeenType
<1> HIDE DEF s
<1>2. IpFromForwarded(s.fwd) \in Addresses \cup {Unknown}
  <2>1. \A i \in 1..Len(s.fwd) : s.fwd[i] \in Values
    BY <1>1
  <2>2. QED
    BY <1>1, <2>1, ForwardedFound, ParsedAddress
<1>3. PublicPeer(s) \in Addresses \cup {Unknown}
  BY <1>1, ParsedAddress DEF PublicPeer
<1>4. GetClientIp(s) \in Addresses \cup {Unknown}
  BY <1>1, <1>2, <1>3, ParsedAddress DEF GetClientIp
<1>5. QED
  BY <1>4 DEF s

(* Caddy's headers name the visitor, whatever it sent.                     *)
LEMMA ByCaddyNamed ==
  ASSUME NEW v \in AnyVisit, v.via = "caddy", TrustProxy
  PROVE  GetClientIp(Seen(v)) = v.visitor
<1>1. v.visitor \in Addresses
  BY DEF AnyVisit
<1>2. Seen(v).real = v.visitor
  BY DEF Seen, ByCaddy
<1>3. QED
  BY <1>1, <1>2, ParsedAddress DEF GetClientIp

(* Without a proxy a public visitor is the socket's other end.             *)
LEMMA ByItselfNamed ==
  ASSUME NEW v \in AnyVisit, v.via = "direct", v.visitor \in Public,
         TrustProxy => NamesNone(v)
  PROVE  GetClientIp(Seen(v)) = v.visitor
<1>1. Seen(v) = Itself(v)
  BY DEF Seen
<1>2. Seen(v).real = v.real /\ Seen(v).fwd = v.fwd /\ Seen(v).peer = v.visitor
  BY <1>1 DEF Itself
<1>3. PublicPeer(Seen(v)) = v.visitor
  BY <1>2, ParsedAddress DEF PublicPeer
<1>4. CASE TrustProxy
  <2>1. Parse[v.real] = Unknown /\ v.fwd \in Seq(Values)
    BY <1>4 DEF NamesNone, AnyVisit
  <2>2. \A i \in 1..Len(v.fwd) : Parse[v.fwd[i]] \notin Addresses
    BY <1>4, <2>1 DEF NamesNone
  <2>3. \A i \in 1..Len(v.fwd) : Parse[v.fwd[i]] = Unknown /\ Parse[v.fwd[i]] \notin Public
    <3>1. \A i \in 1..Len(v.fwd) : v.fwd[i] \in Values
      BY <2>1
    <3>2. QED
      BY <2>2, <3>1, ParsedAddress
  <2>4. IpFromForwarded(v.fwd) = Unknown
    BY <2>1, <2>3, ForwardedFound
  <2>5. QED
    BY <1>2, <1>3, <2>1, <2>4 DEF GetClientIp
<1>5. CASE ~ TrustProxy
  BY <1>3, <1>5 DEF GetClientIp
<1>6. QED
  BY <1>4, <1>5

(* Where the visitor stands among the hops of a chain.                     *)
LEMMA Chained ==
  ASSUME NEW S, NEW f \in Seq(S), NEW x \in S, NEW g \in Seq(S)
  PROVE  /\ Len(f \o <<x>> \o g) = Len(f) + 1 + Len(g)
         /\ (f \o <<x>> \o g)[Len(f) + 1] = x
         /\ \A i \in 1..Len(f) : (f \o <<x>> \o g)[i] = f[i]
<1> DEFINE front == f \o <<x>>
<1>1. <<x>> \in Seq(S) /\ Len(<<x>>) = 1 /\ <<x>>[1] = x
  OBVIOUS
<1>2. Len(f) \in Nat /\ Len(g) \in Nat
  OBVIOUS
<1>3. /\ front \in Seq(S) /\ Len(front) = Len(f) + 1
      /\ \A i \in 1..(Len(f) + 1) : front[i] = IF i <= Len(f) THEN f[i] ELSE <<x>>[i - Len(f)]
  BY <1>1, ConcatProperties
<1> HIDE DEF front
<1>4. front[Len(f) + 1] = x /\ \A i \in 1..Len(f) : front[i] = f[i]
  BY <1>1, <1>2, <1>3
<1>5. /\ Len(front \o g) = Len(front) + Len(g)
      /\ \A i \in 1..(Len(front) + Len(g)) :
           (front \o g)[i] = IF i <= Len(front) THEN front[i] ELSE g[i - Len(front)]
  BY <1>3, ConcatProperties
<1>6. /\ Len(front \o g) = Len(f) + 1 + Len(g) /\ (front \o g)[Len(f) + 1] = x
      /\ \A i \in 1..Len(f) : (front \o g)[i] = f[i]
  <2> DEFINE all == front \o g
  <2>1. /\ Len(all) = Len(front) + Len(g)
        /\ \A i \in 1..(Len(front) + Len(g)) :
             all[i] = IF i <= Len(front) THEN front[i] ELSE g[i - Len(front)]
    BY <1>5
  <2> HIDE DEF all
  <2>2. Len(all) = Len(f) + 1 + Len(g)
    BY <1>2, <1>3, <2>1
  <2>3. all[Len(f) + 1] = x /\ \A i \in 1..Len(f) : all[i] = f[i]
    BY <1>2, <1>3, <1>4, <2>1
  <2>4. QED
    BY <2>2, <2>3 DEF all
<1>7. QED
  BY <1>6 DEF front

(* Of a chain of proxies, the first public hop is the visitor, or it is    *)
(* the last of hops that are all private.                                  *)
LEMMA ByChainNamed ==
  ASSUME NEW v \in AnyVisit, v.via = "chain", TrustProxy, NamesNone(v),
         v.visitor \in Public \/ v.inner = <<>>
  PROVE  GetClientIp(Seen(v)) = v.visitor
<1> DEFINE hops == v.fwd \o <<v.visitor>> \o v.inner
           m == Len(v.fwd) + 1
<1>1. /\ v.visitor \in Addresses /\ v.fwd \in Seq(Values)
      /\ v.inner \in Seq(Addresses)
  BY DEF AnyVisit
<1>2. Seen(v).real = v.real /\ Seen(v).fwd = hops
  BY DEF Seen, ByChain
<1>3. hops \in Seq(Values)
  BY <1>2, SeenType
<1>4. /\ Len(hops) = m + Len(v.inner) /\ m \in 1..Len(hops)
      /\ hops[m] = v.visitor /\ \A i \in 1..(m - 1) : hops[i] = v.fwd[i]
  <2>1. v.visitor \in Values /\ v.inner \in Seq(Values)
    BY <1>1, ParsedAddress
  <2>2. Len(v.fwd) \in Nat /\ Len(v.inner) \in Nat
    BY <1>1
  <2>3. /\ Len(hops) = Len(v.fwd) + 1 + Len(v.inner) /\ hops[Len(v.fwd) + 1] = v.visitor
        /\ \A i \in 1..Len(v.fwd) : hops[i] = v.fwd[i]
    <3>1. ASSUME NEW f \in Seq(Values), NEW g \in Seq(Values), NEW x \in Values
          PROVE  LET h == f \o <<x>> \o g
                 IN  /\ Len(h) = Len(f) + 1 + Len(g) /\ h[Len(f) + 1] = x
                     /\ \A i \in 1..Len(f) : h[i] = f[i]
      BY Chained
    <3>2. QED
      BY <1>1, <2>1, <3>1, Zenon
  <2> HIDE DEF hops, m
  <2>4. m = Len(v.fwd) + 1
    BY DEF m
  <2>5. Len(hops) = m + Len(v.inner) /\ m \in 1..Len(hops) /\ hops[m] = v.visitor
    <3>1. Len(hops) = m + Len(v.inner)
      BY <2>3, <2>4
    <3>2. \A a \in Nat : \A b \in Nat : a + 1 \in 1..(a + 1 + b)
      OBVIOUS
    <3>3. m \in 1..(m + Len(v.inner))
      BY <2>2, <2>4, <3>2, Zenon
    <3>4. QED
      BY <2>3, <2>4, <3>1, <3>3
  <2>6. \A i \in 1..(m - 1) : i \in 1..Len(v.fwd)
    BY <2>2, <2>4
  <2>7. QED
    BY <2>3, <2>5, <2>6
<1>5. Len(hops) \in Nat /\ m \in Nat
  <2>1. Len(v.fwd) \in Nat
    BY <1>1
  <2> HIDE DEF hops
  <2>2. Len(hops) \in Nat
    BY <1>3
  <2>3. QED
    BY <2>1, <2>2
<1>6. v.inner = <<>> => Len(v.inner) = 0
  OBVIOUS
<1>7. Parse[v.real] = Unknown /\ \A i \in 1..(m - 1) : Parse[v.fwd[i]] \notin Public
  BY <1>1 DEF NamesNone
<1>8. Parse[v.visitor] = v.visitor /\ v.visitor # Unknown
  BY <1>1, ParsedAddress
<1> HIDE DEF hops, m
<1>9. \A i \in 1..Len(hops) : i < m => Parse[hops[i]] \notin Public
  <2>1. \A i \in 1..Len(hops) : i < m => i \in 1..(m - 1)
    BY <1>5
  <2>2. \A i \in 1..(m - 1) : hops[i] = v.fwd[i] /\ Parse[v.fwd[i]] \notin Public
    BY <1>4, <1>7, Zenon
  <2>3. \A i \in 1..(m - 1) : Parse[hops[i]] \notin Public
    BY <2>2, Zenon
  <2>4. QED
    BY <2>1, <2>3, Zenon
<1>10. \A i \in 1..Len(hops) : Parse[hops[i]] \in Public => Parse[hops[i]] # Unknown
  BY ParsedAddress
<1>11. IpFromForwarded(hops) = v.visitor
  <2>1. CASE v.visitor \in Public
    <3>1. PICK i \in 1..Len(hops) :
            /\ IpFromForwarded(hops) = Parse[hops[i]] /\ Parse[hops[i]] \in Public
            /\ \A j \in 1..Len(hops) : Parse[hops[j]] \in Public => i <= j
      BY <1>3, <1>4, <1>8, <2>1, ForwardedFound
    <3>2. i <= m /\ ~ (i < m)
      BY <1>4, <1>8, <1>9, <2>1, <3>1
    <3>3. i = m
      BY <1>5, <3>2
    <3>4. QED
      BY <1>4, <1>8, <3>1, <3>3
  <2>2. CASE v.visitor \notin Public
    <3>1. m = Len(hops)
      BY <1>4, <1>5, <1>6, <2>2
    <3>2. \A i \in 1..Len(hops) : Parse[hops[i]] \notin Public
      <4>1. \A i \in 1..Len(hops) : i < m \/ i = m
        BY <1>5, <3>1
      <4>2. QED
        BY <1>4, <1>8, <1>9, <2>2, <4>1
    <3>3. PICK i \in 1..Len(hops) :
            /\ IpFromForwarded(hops) = Parse[hops[i]]
            /\ \A j \in 1..Len(hops) : Parse[hops[j]] # Unknown => j <= i
      BY <1>3, <1>4, <1>8, <3>2, ForwardedFound
    <3>4. i = m
      BY <1>4, <1>5, <1>8, <3>1, <3>3
    <3>5. QED
      BY <1>4, <1>8, <3>3, <3>4
  <2>3. QED
    BY <2>1, <2>2
<1>12. QED
  BY <1>2, <1>7, <1>8, <1>11 DEF GetClientIp

(* The address recorded for a visit is the one Attributed asks for.        *)
LEMMA ClientIp ==
  ASSUME NEW v \in AnyVisit
  PROVE  RightAddress(v, GetClientIp(Seen(v)))
BY ByCaddyNamed, ByItselfNamed, ByChainNamed DEF RightAddress

(* Hits of distinct times have distinct stamps (storage.py:189).           *)
LEMMA StampInjective ==
  ASSUME NEW x \in Nat, NEW y \in Nat, x # y
  PROVE  Stamp(x) # Stamp(y)
BY DEF Stamp

(* What a stamped hit is made of (routers/canary.py:92).                    *)
LEMMA BuiltHit ==
  ASSUME TypeOK, RequestInv, NEW r \in Requests, BuildHit(r)
  PROVE  /\ hit'[r] \in AnyHit /\ hit'[r].no = hit[r].no /\ hit'[r].at = clock + 1
         /\ hit'[r].from = hit[r].from
         /\ RightAddress(hit'[r].from, hit'[r].ip)
         /\ \A s \in Requests \ {r} : hit'[s] = hit[s] /\ pc'[s] = pc[s]
<1> DEFINE ip == GetClientIp(Seen(hit[r].from))
<1>1. hit[r] \in AnyHit /\ clock + 1 \in Nat
  BY DEF BuildHit, RequestInv, TypeOK
<1>2. hit[r].from \in AnyVisit
  BY <1>1, TrapAssumption DEF AnyHit
<1>3. ip \in Addresses \cup {Unknown} /\ RightAddress(hit[r].from, ip)
  BY <1>2, ClientIpType, ClientIp
<1>4. /\ hit'[r] = [hit[r] EXCEPT !.at = clock + 1, !.ip = ip]
      /\ \A s \in Requests \ {r} : hit'[s] = hit[s] /\ pc'[s] = pc[s]
  BY DEF BuildHit, TypeOK
<1> HIDE DEF ip
<1>5. /\ hit'[r] \in AnyHit /\ hit'[r].no = hit[r].no /\ hit'[r].at = clock + 1
      /\ hit'[r].from = hit[r].from /\ hit'[r].ip = ip
  BY <1>1, <1>3, <1>4 DEF AnyHit
<1>6. QED
  BY <1>3, <1>4, <1>5

(* Every step keeps the variables in their types.                          *)
LEMMA TypeStep ==
  ASSUME TypeOK, RequestInv, [Next]_vars
  PROVE  TypeOK'
<1> USE TrapAssumption, AddressAssumption DEF TypeOK, AnyHit, NoHit, Agents, vars, requests, store
<1>1. CASE Start
  BY <1>1 DEF Start
<1>2. CASE Crash
  <2>1. /\ pc' \in [Requests -> {"idle", "check", "build", "post", "wait", "respond"}]
        /\ reply' \in [Requests -> {"none", "stored", "refused"}]
        /\ outcome' \in [Requests -> {"pending", "logged", "ignored", "failed"}]
    BY <1>2 DEF Crash
  <2>3. hit' \in [Requests -> AnyHit \cup {NoHit}]
    BY <1>2 DEF Crash
  <2>4. serving' \in BOOLEAN
    BY <1>2 DEF Crash
  <2>5. crashes' \in Nat
    BY <1>2 DEF Crash
  <2>6. UNCHANGED <<clock, registered, influx, wire, bucket, arrivals, logged>>
    BY <1>2 DEF Crash
  <2>7. QED
    BY <2>1, <2>3, <2>4, <2>5, <2>6
<1>3. CASE GoDown
  BY <1>3 DEF GoDown
<1>4. CASE ComeUp
  BY <1>4 DEF ComeUp
<1>5. ASSUME NEW t \in Tokens, Register(t)
      PROVE  TypeOK'
  BY <1>5 DEF Register
<1>6. ASSUME NEW r \in Requests, Check(r)
      PROVE  TypeOK'
  BY <1>6 DEF Check, Ignore
<1>7. ASSUME NEW r \in Requests, CheckFails(r)
      PROVE  TypeOK'
  BY <1>7 DEF CheckFails, Ignore
<1>8. ASSUME NEW r \in Requests, BuildHit(r)
      PROVE  TypeOK'
  <2>1. hit'[r] \in AnyHit /\ \A s \in Requests \ {r} : hit'[s] = hit[s]
    BY <1>8, BuiltHit
  <2>2. hit' \in [Requests -> AnyHit \cup {NoHit}]
    BY <1>8, <2>1 DEF BuildHit
  <2>3. QED
    BY <1>8, <2>2 DEF BuildHit
<1>9. ASSUME NEW r \in Requests, Post(r)
      PROVE  TypeOK'
  <2>1. hit[r] \in AnyHit
    BY <1>9 DEF Post, RequestInv
  <2>2. QED
    BY <1>9, <2>1 DEF Post
<1>10. ASSUME NEW r \in Requests, HitLogged(r)
      PROVE  TypeOK'
  <2>1. hit[r] \in AnyHit
    BY <1>10 DEF HitLogged, RequestInv
  <2>2. QED
    BY <1>10, <2>1 DEF HitLogged
<1>11. ASSUME NEW r \in Requests, RecordFails(r)
      PROVE  TypeOK'
  BY <1>11 DEF RecordFails
<1>12. ASSUME NEW r \in Requests, Respond(r)
      PROVE  TypeOK'
  BY <1>12 DEF Respond
<1>13. ASSUME NEW r \in Requests, NEW t \in Tokens, NEW agent \in Agents, NEW v \in Visits, Arrive(r, t, agent, v)
      PROVE  TypeOK'
  BY <1>13 DEF Arrive
<1>14. ASSUME NEW h \in wire, Apply(h)
      PROVE  TypeOK'
  BY <1>14 DEF Apply
<1>15. ASSUME NEW h \in wire, Lose(h)
      PROVE  TypeOK'
  BY <1>15 DEF Lose
<1>16. CASE UNCHANGED vars
  BY <1>16
<1>17. QED
  BY <1>1, <1>2, <1>3, <1>4, <1>5, <1>6, <1>7, <1>8, <1>9, <1>10, <1>11, <1>12, <1>13, <1>14, <1>15, <1>16
  DEF Next, Handle

(* Every step keeps the requests apart by number and, once stamped, by time. *)
LEMMA RequestStep ==
  ASSUME TypeOK, SentInv, RequestInv, [Next]_vars
  PROVE  RequestInv'
<1> USE TrapAssumption, AddressAssumption DEF TypeOK, AnyHit, NoHit, Agents, vars, requests, store, RequestInv, Stamped
<1>1. CASE Start
  BY <1>1 DEF Start
<1>2. CASE Crash
  BY <1>2 DEF Crash
<1>3. CASE GoDown
  BY <1>3 DEF GoDown
<1>4. CASE ComeUp
  BY <1>4 DEF ComeUp
<1>5. ASSUME NEW t \in Tokens, Register(t)
      PROVE  RequestInv'
  BY <1>5 DEF Register
<1>6. ASSUME NEW r \in Requests, Check(r)
      PROVE  RequestInv'
  BY <1>6 DEF Check, Ignore
<1>7. ASSUME NEW r \in Requests, CheckFails(r)
      PROVE  RequestInv'
  BY <1>7 DEF CheckFails, Ignore
<1>8. ASSUME NEW r \in Requests, BuildHit(r)
      PROVE  RequestInv'
  <2>1. /\ hit'[r] \in AnyHit /\ hit'[r].no = hit[r].no /\ hit'[r].at = clock + 1
        /\ \A s \in Requests \ {r} : hit'[s] = hit[s]
    BY <1>8, BuiltHit
  <2>2. pc[r] = "build" /\ pc'[r] = "post" /\ \A s \in Requests \ {r} : pc'[s] = pc[s]
    BY <1>8 DEF BuildHit
  <2>3. clock' = clock + 1 /\ UNCHANGED <<reply, arrivals, bucket>>
    BY <1>8 DEF BuildHit
  <2>4. QED
    BY <2>1, <2>2, <2>3
<1>9. ASSUME NEW r \in Requests, Post(r)
      PROVE  RequestInv'
  <2>1. pc[r] = "post" /\ pc'[r] = "wait" /\ \A s \in Requests \ {r} : pc'[s] = pc[s]
    BY <1>9 DEF Post
  <2>2. UNCHANGED <<clock, hit, reply, arrivals, bucket>>
    BY <1>9 DEF Post
  <2>3. QED
    BY <2>1, <2>2
<1>10. ASSUME NEW r \in Requests, HitLogged(r)
      PROVE  RequestInv'
  BY <1>10 DEF HitLogged
<1>11. ASSUME NEW r \in Requests, RecordFails(r)
      PROVE  RequestInv'
  BY <1>11 DEF RecordFails
<1>12. ASSUME NEW r \in Requests, Respond(r)
      PROVE  RequestInv'
  BY <1>12 DEF Respond
<1>13. ASSUME NEW r \in Requests, NEW t \in Tokens, NEW agent \in Agents, NEW v \in Visits, Arrive(r, t, agent, v)
      PROVE  RequestInv'
  BY <1>13 DEF Arrive
<1>14. ASSUME NEW h \in wire, Apply(h)
      PROVE  RequestInv'
  <2>1. UNCHANGED <<clock, pc, hit, arrivals>>
    BY <1>14 DEF Apply
  <2>2. ASSUME NEW s \in Requests, pc'[s] = "wait", reply'[s] = "stored"
        PROVE  hit'[s] \in bucket'
    <3>1. CASE hit[s] = h
      BY <1>14, <2>1, <2>2, <3>1 DEF Apply
    <3>2. CASE hit[s] # h
      <4>1. hit[s] \in bucket /\ reply'[s] = reply[s]
        BY <1>14, <2>1, <2>2, <3>2 DEF Apply
      <4>2. Identity(hit[s]) # Identity(h)
        <5>1. hit[s].at # h.at /\ hit[s].at \in Nat /\ h.at \in Nat
          BY <2>1, <2>2, <3>2, <4>1 DEF SentInv, Sent
        <5>2. Stamp(hit[s].at) # Stamp(h.at)
          BY <5>1, StampInjective
        <5>3. QED
          BY <5>2 DEF Identity
      <4>3. QED
        BY <1>14, <2>1, <4>1, <4>2 DEF Apply
    <3>3. QED
      BY <3>1, <3>2
  <2>3. \A s \in Requests : reply'[s] # "none" => pc'[s] \in {"wait", "respond"}
    BY <1>14 DEF Apply
  <2>4. QED
    BY <2>1, <2>2, <2>3
<1>15. ASSUME NEW h \in wire, Lose(h)
      PROVE  RequestInv'
  BY <1>15 DEF Lose
<1>16. CASE UNCHANGED vars
  BY <1>16
<1>17. QED
  BY <1>1, <1>2, <1>3, <1>4, <1>5, <1>6, <1>7, <1>8, <1>9, <1>10, <1>11, <1>12, <1>13, <1>14, <1>15, <1>16
  DEF Next, Handle

(* Every step keeps the hits in Influx, or on their way, apart.            *)
LEMMA SentStep ==
  ASSUME TypeOK, SentInv, RequestInv, [Next]_vars
  PROVE  SentInv'
<1> USE TrapAssumption, AddressAssumption DEF TypeOK, AnyHit, NoHit, Agents, vars, requests, store, RequestInv, SentInv, Sent, Stamped
<1>1. CASE Start
  BY <1>1 DEF Start
<1>2. CASE Crash
  BY <1>2 DEF Crash
<1>3. CASE GoDown
  BY <1>3 DEF GoDown
<1>4. CASE ComeUp
  BY <1>4 DEF ComeUp
<1>5. ASSUME NEW t \in Tokens, Register(t)
      PROVE  SentInv'
  BY <1>5 DEF Register
<1>6. ASSUME NEW r \in Requests, Check(r)
      PROVE  SentInv'
  BY <1>6 DEF Check, Ignore
<1>7. ASSUME NEW r \in Requests, CheckFails(r)
      PROVE  SentInv'
  BY <1>7 DEF CheckFails, Ignore
<1>8. ASSUME NEW r \in Requests, BuildHit(r)
      PROVE  SentInv'
  BY <1>8 DEF BuildHit
<1>9. ASSUME NEW r \in Requests, Post(r)
      PROVE  SentInv'
  BY <1>9 DEF Post
<1>10. ASSUME NEW r \in Requests, HitLogged(r)
      PROVE  SentInv'
  BY <1>10 DEF HitLogged
<1>11. ASSUME NEW r \in Requests, RecordFails(r)
      PROVE  SentInv'
  BY <1>11 DEF RecordFails
<1>12. ASSUME NEW r \in Requests, Respond(r)
      PROVE  SentInv'
  BY <1>12 DEF Respond
<1>13. ASSUME NEW r \in Requests, NEW t \in Tokens, NEW agent \in Agents, NEW v \in Visits, Arrive(r, t, agent, v)
      PROVE  SentInv'
  BY <1>13 DEF Arrive
<1>14. ASSUME NEW h \in wire, Apply(h)
      PROVE  SentInv'
  BY <1>14 DEF Apply
<1>15. ASSUME NEW h \in wire, Lose(h)
      PROVE  SentInv'
  BY <1>15 DEF Lose
<1>16. CASE UNCHANGED vars
  BY <1>16
<1>17. QED
  BY <1>1, <1>2, <1>3, <1>4, <1>5, <1>6, <1>7, <1>8, <1>9, <1>10, <1>11, <1>12, <1>13, <1>14, <1>15, <1>16
  DEF Next, Handle

(* Every step keeps the recorded hits in the bucket.                       *)
LEMMA LoggedStep ==
  ASSUME TypeOK, SentInv, RequestInv, LoggedStays, [Next]_vars
  PROVE  LoggedStays'
<1> USE TrapAssumption, AddressAssumption DEF TypeOK, AnyHit, NoHit, Agents, vars, requests, store, LoggedStays
<1>1. CASE Start
  BY <1>1 DEF Start
<1>2. CASE Crash
  BY <1>2 DEF Crash
<1>3. CASE GoDown
  BY <1>3 DEF GoDown
<1>4. CASE ComeUp
  BY <1>4 DEF ComeUp
<1>5. ASSUME NEW t \in Tokens, Register(t)
      PROVE  LoggedStays'
  BY <1>5 DEF Register
<1>6. ASSUME NEW r \in Requests, Check(r)
      PROVE  LoggedStays'
  BY <1>6 DEF Check, Ignore
<1>7. ASSUME NEW r \in Requests, CheckFails(r)
      PROVE  LoggedStays'
  BY <1>7 DEF CheckFails, Ignore
<1>8. ASSUME NEW r \in Requests, BuildHit(r)
      PROVE  LoggedStays'
  BY <1>8 DEF BuildHit
<1>9. ASSUME NEW r \in Requests, Post(r)
      PROVE  LoggedStays'
  BY <1>9 DEF Post
<1>10. ASSUME NEW r \in Requests, HitLogged(r)
      PROVE  LoggedStays'
  <2>1. hit[r] \in bucket
    BY <1>10 DEF HitLogged, RequestInv
  <2>2. QED
    BY <1>10, <2>1 DEF HitLogged
<1>11. ASSUME NEW r \in Requests, RecordFails(r)
      PROVE  LoggedStays'
  BY <1>11 DEF RecordFails
<1>12. ASSUME NEW r \in Requests, Respond(r)
      PROVE  LoggedStays'
  BY <1>12 DEF Respond
<1>13. ASSUME NEW r \in Requests, NEW t \in Tokens, NEW agent \in Agents, NEW v \in Visits, Arrive(r, t, agent, v)
      PROVE  LoggedStays'
  BY <1>13 DEF Arrive
<1>14. ASSUME NEW h \in wire, Apply(h)
      PROVE  LoggedStays'
  <2>1. ASSUME NEW g \in logged, g # h
        PROVE  g \in bucket'
    <3>1. g.at # h.at /\ g.at \in Nat /\ h.at \in Nat
      BY <2>1 DEF SentInv, Sent
    <3>2. Identity(g) # Identity(h)
      BY <3>1, StampInjective DEF Identity
    <3>3. QED
      BY <1>14, <2>1, <3>2 DEF Apply
  <2>2. h \in logged => h \in bucket'
    BY <1>14 DEF Apply
  <2>3. QED
    BY <1>14, <2>1, <2>2 DEF Apply
<1>15. ASSUME NEW h \in wire, Lose(h)
      PROVE  LoggedStays'
  BY <1>15 DEF Lose
<1>16. CASE UNCHANGED vars
  BY <1>16
<1>17. QED
  BY <1>1, <1>2, <1>3, <1>4, <1>5, <1>6, <1>7, <1>8, <1>9, <1>10, <1>11, <1>12, <1>13, <1>14, <1>15, <1>16
  DEF Next, Handle

(* Every step keeps the addresses of hits, stamped or sent, right.         *)
LEMMA AddressStep ==
  ASSUME TypeOK, RequestInv, AddressInv, [Next]_vars
  PROVE  AddressInv'
<1> USE TrapAssumption, AddressAssumption DEF TypeOK, AnyHit, NoHit, Agents, vars, requests, store, AddressInv, RequestInv, Sent, Stamped
<1>1. CASE Start
  BY <1>1 DEF Start
<1>2. CASE Crash
  BY <1>2 DEF Crash
<1>3. CASE GoDown
  BY <1>3 DEF GoDown
<1>4. CASE ComeUp
  BY <1>4 DEF ComeUp
<1>5. ASSUME NEW t \in Tokens, Register(t)
      PROVE  AddressInv'
  BY <1>5 DEF Register
<1>6. ASSUME NEW r \in Requests, Check(r)
      PROVE  AddressInv'
  BY <1>6 DEF Check, Ignore
<1>7. ASSUME NEW r \in Requests, CheckFails(r)
      PROVE  AddressInv'
  BY <1>7 DEF CheckFails, Ignore
<1>8. ASSUME NEW r \in Requests, BuildHit(r)
      PROVE  AddressInv'
  <2>1. RightAddress(hit'[r].from, hit'[r].ip)
    BY <1>8, BuiltHit
  <2>2. \A s \in Requests \ {r} : hit'[s] = hit[s] /\ pc'[s] = pc[s]
    BY <1>8, BuiltHit
  <2>3. UNCHANGED <<wire, bucket>>
    BY <1>8 DEF BuildHit
  <2>4. QED
    BY <2>1, <2>2, <2>3
<1>9. ASSUME NEW r \in Requests, Post(r)
      PROVE  AddressInv'
  BY <1>9 DEF Post
<1>10. ASSUME NEW r \in Requests, HitLogged(r)
      PROVE  AddressInv'
  BY <1>10 DEF HitLogged
<1>11. ASSUME NEW r \in Requests, RecordFails(r)
      PROVE  AddressInv'
  BY <1>11 DEF RecordFails
<1>12. ASSUME NEW r \in Requests, Respond(r)
      PROVE  AddressInv'
  BY <1>12 DEF Respond
<1>13. ASSUME NEW r \in Requests, NEW t \in Tokens, NEW agent \in Agents, NEW v \in Visits, Arrive(r, t, agent, v)
      PROVE  AddressInv'
  BY <1>13 DEF Arrive
<1>14. ASSUME NEW h \in wire, Apply(h)
      PROVE  AddressInv'
  BY <1>14 DEF Apply
<1>15. ASSUME NEW h \in wire, Lose(h)
      PROVE  AddressInv'
  BY <1>15 DEF Lose
<1>16. CASE UNCHANGED vars
  BY <1>16
<1>17. QED
  BY <1>1, <1>2, <1>3, <1>4, <1>5, <1>6, <1>7, <1>8, <1>9, <1>10, <1>11, <1>12, <1>13, <1>14, <1>15, <1>16
  DEF Next, Handle

(* InfluxInv holds at every moment of every behaviour.                     *)
THEOREM InfluxInvariance == Spec => []InfluxInv
<1>1. Init => InfluxInv
  <2> SUFFICES ASSUME Init PROVE InfluxInv
    OBVIOUS
  <2>1. TypeOK
    <3>1. /\ pc \in [Requests -> {"idle", "check", "build", "post", "wait", "respond"}]
          /\ reply \in [Requests -> {"none", "stored", "refused"}]
          /\ outcome \in [Requests -> {"pending", "logged", "ignored", "failed"}]
      BY DEF Init
    <3>3. hit \in [Requests -> AnyHit \cup {NoHit}]
      BY DEF Init
    <3>4. QED
      BY <3>1, <3>3 DEF Init, TypeOK
  <2>2. SentInv /\ LoggedStays
    BY DEF Init, SentInv, Sent, LoggedStays
  <2>3. RequestInv /\ AddressInv
    BY DEF Init, RequestInv, Stamped, AddressInv, Sent
  <2>4. QED
    BY <2>1, <2>2, <2>3 DEF InfluxInv
<1>2. InfluxInv /\ [Next]_vars => InfluxInv'
  BY TypeStep, SentStep, RequestStep, LoggedStep, AddressStep DEF InfluxInv
<1>3. QED
  BY <1>1, <1>2, PTL DEF Spec

(* The variables keep their types: in particular every recorded address is *)
(* one that parses, or "unknown", whatever the headers held.               *)
THEOREM TypeCorrect == Spec => []TypeOK
<1>1. InfluxInv => TypeOK
  BY DEF InfluxInv
<1>2. QED
  BY <1>1, InfluxInvariance, PTL

(* A hit the service took for recorded is in the bucket for good, however  *)
(* requests, outages, lost answers and restarts interleave.                *)
THEOREM LoggedHitsStay == Spec => []LoggedStays
<1>1. InfluxInv => LoggedStays
  BY DEF InfluxInv
<1>2. QED
  BY <1>1, InfluxInvariance, PTL

(* A request leaves at most one point, although a write may be applied     *)
(* after the service gave up on it.                                        *)
THEOREM RequestsLeaveOnePoint == Spec => []OnePointPerRequest
<1>1. InfluxInv => OnePointPerRequest
  BY DEF InfluxInv, SentInv, Sent, OnePointPerRequest
<1>2. QED
  BY <1>1, InfluxInvariance, PTL

(* The points of the bucket have their visitor's address: behind Caddy for *)
(* any headers, without it for visitors that name no other address.        *)
THEOREM HitsAttributed == Spec => []Attributed
<1>1. InfluxInv => Attributed
  BY DEF InfluxInv, AddressInv, Attributed, Sent
<1>2. QED
  BY <1>1, InfluxInvariance, PTL
=============================================================================
