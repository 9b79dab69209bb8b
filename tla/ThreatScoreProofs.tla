--------------------------- MODULE ThreatScoreProofs ---------------------------
(***************************************************************************)
(* What the threat score computes for any analysis and any investigation:  *)
(* the range of every score, what each category of findings contributes,   *)
(* and what the engagement bonus is made of.                               *)
(***************************************************************************)
EXTENDS ThreatScore, SumLemmas

-----------------------------------------------------------------------------
(* Scores                                                                  *)

LEMMA MaxOfTwo ==
  ASSUME NEW a \in Int, NEW b \in Int
  PROVE  Max({a, b}) = IF a >= b THEN a ELSE b
<1> DEFINE m == IF a >= b THEN a ELSE b
<1>1. m \in {a, b} /\ \A y \in {a, b} : m >= y
  OBVIOUS
<1>2. \A x \in {a, b} : (\A y \in {a, b} : x >= y) => x = m
  OBVIOUS
<1> HIDE DEF m
<1>3. QED
  BY <1>1, <1>2 DEF Max

LEMMA ClampIs ==
  ASSUME NEW n \in Int
  PROVE  /\ Clamp(n) = IF n < 0 THEN 0 ELSE IF n > 100 THEN 100 ELSE n
         /\ Clamp(n) \in 0..100
<1>1. Least(100, n) = (IF n > 100 THEN 100 ELSE n) /\ Least(100, n) \in Int
  BY DEF Least
<1>2. Clamp(n) = IF 0 >= Least(100, n) THEN 0 ELSE Least(100, n)
  BY <1>1, MaxOfTwo DEF Clamp
<1>3. QED
  BY <1>1, <1>2

(* Rounding is off by half a point at most, and may go either way only at  *)
(* an exact half.                                                          *)
LEMMA RoundedIs ==
  ASSUME NEW n \in Nat
  PROVE  /\ \A b \in Rounded(n) : b \in Nat /\ 100 * b - 50 <= n /\ n <= 100 * b + 50
         /\ \E b \in Rounded(n) : b \in Nat /\ 100 * b - 50 < n /\ n <= 100 * b + 50
<1> DEFINE q == n \div 100
           r == n % 100
<1>1. q \in Nat /\ r \in 0..99 /\ n = 100 * q + r
  OBVIOUS
<1> HIDE DEF q, r
<1>2. CASE r = 50
  <2>1. Rounded(n) = {q, q + 1}
    BY <1>2 DEF Rounded, q, r
  <2>2. QED
    BY <1>1, <1>2, <2>1
<1>3. CASE r # 50
  <2> DEFINE b == (n + 50) \div 100
  <2>1. Rounded(n) = {b}
    BY <1>3 DEF Rounded, r
  <2>2. b \in Nat /\ 100 * b <= n + 50 /\ n + 50 < 100 * b + 100
    OBVIOUS
  <2> HIDE DEF b
  <2>3. 100 * b # n + 50
    BY <1>1, <1>3, <2>2
  <2>4. QED
    BY <2>1, <2>2, <2>3
<1>4. QED
  BY <1>2, <1>3

(* The base score is the weighted mean of four categories; the canary has  *)
(* no weight of its own.                                                   *)
LEMMA WeightedSum ==
  ASSUME NEW k, \A c \in DOMAIN Weight : k[c] \in Int
  PROVE  /\ DOMAIN Weight = {"identity", "headers", "authentication", "infrastructure"}
         /\ SumFunction([c \in DOMAIN Weight |-> Weight[c] * k[c]]) =
              40 * k["identity"] + 30 * k["headers"] + 15 * k["authentication"]
                + 15 * k["infrastructure"]
<1> DEFINE w == [c \in DOMAIN Weight |-> Weight[c] * k[c]]
           A == {"identity"}
           B == A \cup {"headers"}
           C == B \cup {"authentication"}
           D == C \cup {"infrastructure"}
           Sum(S) == SumFunctionOnSet(w, S)
<1>1. DOMAIN Weight = D
  BY DEF Weight
<1>2. /\ w["identity"] = 40 * k["identity"] /\ w["headers"] = 30 * k["headers"]
      /\ w["authentication"] = 15 * k["authentication"]
      /\ w["infrastructure"] = 15 * k["infrastructure"]
  BY DEF Weight
<1>3. \A c \in D : w[c] \in Int /\ k[c] \in Int
  BY <1>1, <1>2
<1>4. SumFunction(w) = Sum(D)
  <2>1. DOMAIN w = D
    BY <1>1
  <2> HIDE DEF w, D
  <2>2. QED
    BY <2>1 DEF SumFunction
<1>5. IsFiniteSet({}) /\ IsFiniteSet(A) /\ IsFiniteSet(B) /\ IsFiniteSet(C)
  BY FS_EmptySet, FS_Singleton, FS_AddElement
<1> HIDE DEF w
<1>6. Sum(A) = w["identity"]
  <2>1. Sum({} \cup {"identity"}) = w["identity"] + Sum({})
    BY <1>3, <1>5, SumAdd
  <2>2. Sum({}) = 0 /\ {} \cup {"identity"} = A /\ w["identity"] \in Int
    BY <1>3, SumEmpty
  <2> HIDE DEF Sum
  <2>3. QED
    BY <2>1, <2>2
<1>7. Sum(B) = w["headers"] + Sum(A)
  BY <1>3, <1>5, SumAdd
<1>8. Sum(C) = w["authentication"] + Sum(B)
  BY <1>3, <1>5, SumAdd
<1>9. Sum(D) = w["infrastructure"] + Sum(C)
  BY <1>3, <1>5, SumAdd
<1>10. SumFunction(w) = 40 * k["identity"] + 30 * k["headers"] + 15 * k["authentication"]
                         + 15 * k["infrastructure"]
  <2> HIDE DEF Sum
  <2>1. /\ k["identity"] \in Int /\ k["headers"] \in Int
        /\ k["authentication"] \in Int /\ k["infrastructure"] \in Int
    BY <1>3
  <2> HIDE DEF A, B, C, D
  <2>2. QED
    BY <1>2, <1>4, <1>6, <1>7, <1>8, <1>9, <2>1
<1>11. QED
  BY <1>1, <1>10 DEF w

(* The points of a set of findings.                                        *)
Points(F) == SumFunction([f \in F |-> f.points])

LEMMA PointsOnSet ==
  ASSUME NEW F, IsFiniteSet(F), \A f \in F : f.points \in Nat, NEW A, A \subseteq F
  PROVE  IsFiniteSet(A) /\ Points(A) = SumFunctionOnSet([f \in F |-> f.points], A)
<1> DEFINE h == [f \in A |-> f.points]
           k == [f \in F |-> f.points]
<1>1. IsFiniteSet(A)
  BY FS_Subset
<1>2. Points(A) = SumFunctionOnSet(h, A)
  BY DEF Points, SumFunction
<1>3. \A f \in A : h[f] \in Int /\ h[f] = k[f]
  OBVIOUS
<1> HIDE DEF h, k
<1>4. SumFunctionOnSet(h, A) = SumFunctionOnSet(k, A)
  BY <1>1, <1>3, SumSame
<1>5. QED
  BY <1>1, <1>2, <1>4 DEF k

LEMMA PointsBounds ==
  ASSUME NEW F, IsFiniteSet(F), \A f \in F : f.points \in Nat
  PROVE  /\ Points(F) \in Nat
         /\ (\A f \in F : f.points = 0) => Points(F) = 0
         /\ \A f \in F : f.points <= Points(F)
<1> DEFINE h == [f \in F |-> f.points]
<1>1. Points(F) = SumFunctionOnSet(h, F)
  BY DEF Points, SumFunction
<1>2. \A f \in F : h[f] = f.points
  OBVIOUS
<1> HIDE DEF h
<1>3. /\ SumFunctionOnSet(h, F) \in Nat
      /\ \A f \in F : h[f] <= SumFunctionOnSet(h, F)
      /\ (\A f \in F : h[f] = 0) => SumFunctionOnSet(h, F) = 0
  BY <1>2, SumBounds
<1>4. QED
  BY <1>1, <1>2, <1>3

LEMMA PointsMonotone ==
  ASSUME NEW F, IsFiniteSet(F), \A f \in F : f.points \in Nat, NEW A, A \subseteq F
  PROVE  Points(A) <= Points(F)
<1> DEFINE h == [f \in F |-> f.points]
<1>1. Points(A) = SumFunctionOnSet(h, A) /\ Points(F) = SumFunctionOnSet(h, F)
  BY PointsOnSet
<1>2. \A f \in F : h[f] \in Nat /\ h[f] <= h[f]
  OBVIOUS
<1> HIDE DEF h
<1>3. SumFunctionOnSet(h, A) <= SumFunctionOnSet(h, F)
  BY <1>2, SumMonotone
<1>4. QED
  BY <1>1, <1>3

LEMMA PointsDisjoint ==
  ASSUME NEW A, IsFiniteSet(A), NEW B, IsFiniteSet(B), A \cap B = {},
         \A f \in A \cup B : f.points \in Nat
  PROVE  Points(A \cup B) = Points(A) + Points(B)
<1> DEFINE h == [f \in A \cup B |-> f.points]
           Sum(S) == SumFunctionOnSet(h, S)
<1>1. IsFiniteSet(A \cup B)
  BY FS_Union
<1>2. Points(A) = Sum(A) /\ Points(B) = Sum(B) /\ Points(A \cup B) = Sum(A \cup B)
  BY <1>1, PointsOnSet
<1>3. \A f \in A \cup B : h[f] \in Int
  OBVIOUS
<1> HIDE DEF h
<1>4. Sum(A \cup B) = Sum(A) + Sum(B)
  BY <1>3, SumDisjoint
<1>5. QED
  BY <1>2, <1>4

LEMMA PointsOfWhen ==
  ASSUME NEW f, f.points \in Nat, NEW P
  PROVE  /\ IsFiniteSet(When(P, f)) /\ \A x \in When(P, f) : x.points \in Nat
         /\ Points(When(P, f)) = IF P THEN f.points ELSE 0
<1>1. IsFiniteSet({}) /\ IsFiniteSet({f})
  BY FS_EmptySet, FS_Singleton
<1>2. Points({}) = 0
  BY <1>1, PointsBounds
<1>3. Points({f}) = f.points
  <2> DEFINE h == [x \in {f} |-> x.points]
  <2>1. Points({f}) = SumFunctionOnSet(h, {f}) /\ h[f] = f.points
    BY DEF Points, SumFunction
  <2> HIDE DEF h
  <2>2. SumFunctionOnSet(h, {} \cup {f}) = h[f] + SumFunctionOnSet(h, {})
    BY <1>1, <2>1, SumAdd
  <2>3. {} \cup {f} = {f} /\ SumFunctionOnSet(h, {}) = 0
    BY SumEmpty
  <2>4. QED
    BY <2>1, <2>2, <2>3
<1>4. CASE P
  BY <1>1, <1>3, <1>4 DEF When
<1>5. CASE ~ P
  BY <1>1, <1>2, <1>5 DEF When
<1>6. QED
  BY <1>4, <1>5

(* What build_threat_report rounds, in hundredths of a point.              *)
Base(F) ==
  40 * CategoryScore(Of(F, "identity")) + 30 * CategoryScore(Of(F, "headers"))
    + 15 * CategoryScore(Of(F, "authentication")) + 15 * CategoryScore(Of(F, "infrastructure"))

LEMMA CategoryScoreIs ==
  ASSUME NEW F, IsFiniteSet(F), \A f \in F : f.points \in Nat, NEW c
  PROVE  /\ IsFiniteSet(Of(F, c)) /\ \A f \in Of(F, c) : f.points \in Nat
         /\ Points(Of(F, c)) \in Nat
         /\ CategoryScore(Of(F, c)) = Clamp(Points(Of(F, c)))
         /\ CategoryScore(Of(F, c)) \in 0..100
<1>1. Of(F, c) \in SUBSET F
  BY DEF Of
<1>2. IsFiniteSet(Of(F, c)) /\ \A f \in Of(F, c) : f.points \in Nat
  BY <1>1, FS_Subset
<1>3. Points(Of(F, c)) \in Nat
  BY <1>2, PointsBounds
<1>4. CategoryScore(Of(F, c)) = Clamp(Points(Of(F, c)))
  BY DEF CategoryScore, Points
<1>5. QED
  BY <1>2, <1>3, <1>4, ClampIs

LEMMA OverallIs ==
  ASSUME NEW F, IsFiniteSet(F), \A f \in F : f.points \in Nat, NEW bonus
  PROVE  Base(F) \in Nat /\ Overall(F, bonus) = {Clamp(b + bonus) : b \in Rounded(Base(F))}
<1> DEFINE k == [c \in DOMAIN Weight |-> CategoryScore(Of(F, c))]
           D == {"identity", "headers", "authentication", "infrastructure"}
<1>1. \A c \in DOMAIN Weight : k[c] = CategoryScore(Of(F, c)) /\ k[c] \in 0..100
  BY CategoryScoreIs
<1>2. DOMAIN Weight = D
  BY DEF Weight
<1>3. [c \in DOMAIN Weight |-> Weight[c] * CategoryScore(Of(F, c))]
        = [c \in DOMAIN Weight |-> Weight[c] * k[c]]
  OBVIOUS
<1> HIDE DEF k
<1>4. SumFunction([c \in DOMAIN Weight |-> Weight[c] * k[c]]) =
        40 * k["identity"] + 30 * k["headers"] + 15 * k["authentication"]
          + 15 * k["infrastructure"]
  BY <1>1, WeightedSum
<1>5. /\ k["identity"] = CategoryScore(Of(F, "identity")) /\ k["identity"] \in 0..100
      /\ k["headers"] = CategoryScore(Of(F, "headers")) /\ k["headers"] \in 0..100
      /\ k["authentication"] = CategoryScore(Of(F, "authentication"))
      /\ k["authentication"] \in 0..100
      /\ k["infrastructure"] = CategoryScore(Of(F, "infrastructure"))
      /\ k["infrastructure"] \in 0..100
  BY <1>1, <1>2
<1>6. SumFunction([c \in DOMAIN Weight |-> Weight[c] * CategoryScore(Of(F, c))]) = Base(F)
  BY <1>3, <1>4, <1>5 DEF Base
<1>7. Base(F) \in Nat
  <2>1. Base(F) = 40 * k["identity"] + 30 * k["headers"] + 15 * k["authentication"]
                    + 15 * k["infrastructure"]
    BY <1>3, <1>4, <1>6
  <2>2. /\ k["identity"] \in Nat /\ k["headers"] \in Nat
        /\ k["authentication"] \in Nat /\ k["infrastructure"] \in Nat
    BY <1>5
  <2>3. QED
    BY <2>1, <2>2
<1>8. QED
  BY <1>6, <1>7 DEF Overall

-----------------------------------------------------------------------------
(* Findings: those of each category, their points and where they come from *)

Scored(F, category, codes) ==
  IsFiniteSet(F) /\ \A f \in F : f.points \in Nat /\ f.category = category /\ f.code \in codes

LEMMA ScoredUnion ==
  ASSUME NEW c, NEW K, NEW A, Scored(A, c, K), NEW B, Scored(B, c, K)
  PROVE  Scored(A \cup B, c, K)
BY FS_Union DEF Scored

LEMMA FindingFields ==
  ASSUME NEW c, NEW code, NEW points, NEW about
  PROVE  /\ Finding(c, code, points, about).category = c
         /\ Finding(c, code, points, about).code = code
         /\ Finding(c, code, points, about).points = points
         /\ Finding(c, code, points, about).about = about
BY DEF Finding

LEMMA InWhen ==
  ASSUME NEW P, NEW x, NEW y \in When(P, x)
  PROVE  P /\ y = x
BY DEF When

LEMMA ScoredWhen ==
  ASSUME NEW P, NEW c, NEW K, NEW code \in K, NEW points \in Nat, NEW about
  PROVE  Scored(When(P, Finding(c, code, points, about)), c, K)
<1> DEFINE f == Finding(c, code, points, about)
<1>1. f.points \in Nat /\ f.category = c /\ f.code \in K
  BY FindingFields
<1>2. IsFiniteSet({}) /\ IsFiniteSet({f})
  BY FS_EmptySet, FS_Singleton
<1> HIDE DEF f
<1>3. When(P, f) = {f} \/ When(P, f) = {}
  BY DEF When
<1>4. Scored({f}, c, K) /\ Scored({}, c, K)
  BY <1>1, <1>2 DEF Scored
<1>5. QED
  BY <1>3, <1>4 DEF f

(* Findings made of the elements of a finite set.                          *)
LEMMA ScoredImage ==
  ASSUME NEW S, IsFiniteSet(S), NEW c, NEW K, NEW h,
         \A x \in S : h[x].points \in Nat /\ h[x].category = c /\ h[x].code \in K
  PROVE  Scored({h[x] : x \in S}, c, K)
<1>1. [x \in S |-> h[x]] \in Surjection(S, {h[x] : x \in S})
  BY DEF Surjection
<1>2. IsFiniteSet({h[x] : x \in S})
  BY <1>1, FS_Surjection
<1>3. QED
  BY <1>2 DEF Scored

IdentityCodes == {"business_name_on_free_webmail", "domain_like_local_part_on_webmail",
                  "reply_to_domain_mismatch", "return_path_domain_mismatch"}

LEMMA IdentityScored ==
  ASSUME NEW an
  PROVE  Scored(IdentityFindings(an), "identity", IdentityCodes)
<1> DEFINE W(P, code, points) == When(P, Finding("identity", code, points, ""))
           A == W(an.from.name # "" /\ an.from.domain \in Webmail,
                  "business_name_on_free_webmail", 30)
           B == W(an.from.domain \in Webmail /\ DomainLike(an.from.local),
                  "domain_like_local_part_on_webmail", 28)
           C == W(Mismatch(an.replyTo.domain, an.from.domain), "reply_to_domain_mismatch", 35)
           D == W(Mismatch(an.returnPath.domain, an.from.domain),
                  "return_path_domain_mismatch", 18)
<1>1. /\ "business_name_on_free_webmail" \in IdentityCodes
      /\ "domain_like_local_part_on_webmail" \in IdentityCodes
      /\ "reply_to_domain_mismatch" \in IdentityCodes
      /\ "return_path_domain_mismatch" \in IdentityCodes
  BY DEF IdentityCodes
<1>2. /\ Scored(A, "identity", IdentityCodes) /\ Scored(B, "identity", IdentityCodes)
      /\ Scored(C, "identity", IdentityCodes) /\ Scored(D, "identity", IdentityCodes)
  BY <1>1, ScoredWhen, 30 \in Nat, 28 \in Nat, 35 \in Nat, 18 \in Nat
<1>3. IdentityFindings(an) = ((A \cup B) \cup C) \cup D
  BY DEF IdentityFindings
<1> HIDE DEF A, B, C, D
<1>4. Scored(A \cup B, "identity", IdentityCodes)
  BY <1>2, ScoredUnion
<1>5. Scored((A \cup B) \cup C, "identity", IdentityCodes)
  BY <1>2, <1>4, ScoredUnion
<1>6. Scored(((A \cup B) \cup C) \cup D, "identity", IdentityCodes)
  BY <1>2, <1>5, ScoredUnion
<1>7. QED
  BY <1>3, <1>6

HeaderCodes == {"reply_to_domain_mismatch", "return_path_domain_mismatch", "spf_failed",
                "dkim_failed", "dmarc_failed", "spf_record_missing", "dmarc_record_missing",
                "dmarc_policy_none", "x_originating_ip_not_in_received",
                "private_ip_in_first_hop", "reply_to_address_mismatch"}

(* Anomalies of the kinds header_evaluator.py reports.                     *)
Graded(A) ==
  IsFiniteSet(A) /\ \A x \in A : x.code \in HeaderCodes /\ x.severity \in DOMAIN SeverityPoints

HeaderPoints(x) ==
  IF x.code = "private_ip_in_first_hop" THEN Max({4, SeverityPoints[x.severity] \div 3})
  ELSE SeverityPoints[x.severity]

LEMMA HeaderPointsIs ==
  ASSUME NEW x, x.severity \in DOMAIN SeverityPoints
  PROVE  HeaderPoints(x) \in Nat
<1>1. SeverityPoints[x.severity] \in {8, 18, 35}
  BY DEF SeverityPoints
<1>2. SeverityPoints[x.severity] \in Nat /\ SeverityPoints[x.severity] \div 3 \in Nat
  BY <1>1
<1>3. Max({4, SeverityPoints[x.severity] \div 3}) \in Nat
  <2> DEFINE third == SeverityPoints[x.severity] \div 3
  <2>1. third \in Nat
    BY <1>2
  <2> HIDE DEF third
  <2>2. Max({4, third}) = IF 4 >= third THEN 4 ELSE third
    BY <2>1, MaxOfTwo
  <2>3. QED
    BY <2>1, <2>2 DEF third
<1>4. QED
  BY <1>2, <1>3 DEF HeaderPoints

LEMMA HeaderScored ==
  ASSUME NEW an, Graded(an.anomalies)
  PROVE  Scored(HeaderFindings(an), "headers", HeaderCodes)
<1> DEFINE h == [x \in an.anomalies |-> Finding("headers", x.code, HeaderPoints(x), x.about)]
<1>1. HeaderFindings(an) = {h[x] : x \in an.anomalies}
  BY DEF HeaderFindings, HeaderPoints
<1>2. \A x \in an.anomalies :
        h[x].points = HeaderPoints(x) /\ h[x].category = "headers" /\ h[x].code = x.code
  BY FindingFields
<1> HIDE DEF h
<1>3. \A x \in an.anomalies :
        h[x].points \in Nat /\ h[x].category = "headers" /\ h[x].code \in HeaderCodes
  BY <1>2, HeaderPointsIs DEF Graded
<1>4. QED
  BY <1>1, <1>3, ScoredImage DEF Graded

AuthCodes == {"spf_failed", "dkim_failed", "dmarc_failed", "spf_weak", "dkim_weak", "dmarc_weak",
              "auth_results_missing_in_headers"}

(* The results of a header, each of a known mechanism.                     *)
Results == [mech : DOMAIN FailedCode, status : STRING, domain : STRING]

LEMMA KnownCodes ==
  ASSUME NEW k \in DOMAIN FailedCode
  PROVE  FailedCode[k] \in AuthCodes /\ FailedCode[k] \in HeaderCodes /\ WeakCode[k] \in AuthCodes
<1>1. k \in {"spf", "dkim", "dmarc"}
  BY DEF FailedCode
<1>2. /\ FailedCode["spf"] = "spf_failed" /\ FailedCode["dkim"] = "dkim_failed"
      /\ FailedCode["dmarc"] = "dmarc_failed"
      /\ WeakCode["spf"] = "spf_weak" /\ WeakCode["dkim"] = "dkim_weak"
      /\ WeakCode["dmarc"] = "dmarc_weak"
  BY DEF FailedCode, WeakCode
<1>3. QED
  BY <1>1, <1>2 DEF AuthCodes, HeaderCodes

LEMMA AuthScored ==
  ASSUME NEW an, an.authentication \in Seq(Results)
  PROVE  Scored(AuthFindings(an), "authentication", AuthCodes)
<1> DEFINE auth == an.authentication
           last == {SelectLastInSeq(auth, LAMBDA a : a.mech = k) :
                      k \in {"spf", "dkim", "dmarc"}} \ {0}
           outcomes == {auth[i] : i \in last}
           failed == {b \in outcomes : b.status \in Failed}
           weak == {b \in outcomes : b.status \in {"softfail", "neutral"}}
           f == [a \in failed |-> Finding("authentication", FailedCode[a.mech],
                                          IF a.mech = "dmarc" THEN 35 ELSE 25, "")]
           g == [a \in weak |-> Finding("authentication", WeakCode[a.mech], 12, "")]
           missing == When(auth = <<>> /\ an.from.domain # "",
                           Finding("authentication", "auth_results_missing_in_headers", 6, ""))
<1>1. last \subseteq 1..Len(auth)
  <2> DEFINE I(k) == {i \in 1..Len(auth) : auth[i].mech = k}
  <2>1. last = {IF I(k) # {} THEN Max(I(k)) ELSE 0 : k \in {"spf", "dkim", "dmarc"}} \ {0}
    BY DEF SelectLastInSeq
  <2>2. ASSUME NEW k, I(k) # {} PROVE Max(I(k)) \in 1..Len(auth)
    <3>1. Len(auth) \in Nat /\ I(k) \subseteq 1..Len(auth)
      OBVIOUS
    <3> HIDE DEF I
    <3>2. Max(I(k)) \in I(k)
      BY <2>2, <3>1, MaxOfPositions
    <3>3. QED
      BY <3>1, <3>2
  <2> HIDE DEF I, last
  <2>3. QED
    BY <2>1, <2>2
<1>2. IsFiniteSet(outcomes) /\ \A a \in outcomes : a.mech \in DOMAIN FailedCode
  <2> HIDE DEF last
  <2>1. IsFiniteSet(last)
    BY <1>1, FinitePositions, Len(auth) \in Nat
  <2>2. [i \in last |-> auth[i]] \in Surjection(last, outcomes)
    BY DEF Surjection
  <2>3. \A i \in last : auth[i] \in Results
    BY <1>1
  <2>4. QED
    BY <2>1, <2>2, <2>3, FS_Surjection DEF Results
<1>3. IsFiniteSet(failed) /\ IsFiniteSet(weak)
  <2> HIDE DEF outcomes
  <2>1. QED
    BY <1>2, FS_Subset
<1>4. AuthFindings(an) = ({f[a] : a \in failed} \cup {g[a] : a \in weak}) \cup missing
  BY DEF AuthFindings
<1> HIDE DEF last
<1>5. \A a \in failed : /\ f[a].points \in Nat /\ f[a].category = "authentication"
                        /\ f[a].code \in AuthCodes
  <2>1. ASSUME NEW a \in failed
        PROVE  /\ f[a].points \in Nat /\ f[a].category = "authentication"
               /\ f[a].code \in AuthCodes
    <3> DEFINE points == IF a.mech = "dmarc" THEN 35 ELSE 25
    <3>1. a \in outcomes
      OBVIOUS
    <3>2. f[a] = Finding("authentication", FailedCode[a.mech], points, "")
      OBVIOUS
    <3> HIDE DEF outcomes, failed, f
    <3>3. FailedCode[a.mech] \in AuthCodes
      BY <1>2, <3>1, KnownCodes
    <3>4. points \in Nat
      OBVIOUS
    <3> HIDE DEF points
    <3> DEFINE r == Finding("authentication", FailedCode[a.mech], points, "")
    <3>5. r.points = points /\ r.category = "authentication" /\ r.code = FailedCode[a.mech]
      BY DEF Finding
    <3> HIDE DEF r
    <3>6. QED
      BY <3>2, <3>3, <3>4, <3>5 DEF r
  <2> HIDE DEF failed, f
  <2>2. QED
    BY <2>1
<1>6. \A a \in weak : /\ g[a].points \in Nat /\ g[a].category = "authentication"
                      /\ g[a].code \in AuthCodes
  <2>1. ASSUME NEW a \in weak
        PROVE  /\ g[a].points \in Nat /\ g[a].category = "authentication"
               /\ g[a].code \in AuthCodes
    <3>1. a \in outcomes
      OBVIOUS
    <3>2. g[a] = Finding("authentication", WeakCode[a.mech], 12, "")
      OBVIOUS
    <3> HIDE DEF outcomes, weak, g
    <3>3. WeakCode[a.mech] \in AuthCodes
      BY <1>2, <3>1, KnownCodes
    <3> DEFINE r == Finding("authentication", WeakCode[a.mech], 12, "")
    <3>4. r.points = 12 /\ r.category = "authentication" /\ r.code = WeakCode[a.mech]
      BY DEF Finding
    <3>5. g[a] = r
      BY <3>2
    <3> HIDE DEF r
    <3>6. QED
      BY <3>3, <3>4, <3>5
  <2> HIDE DEF weak, g
  <2>2. QED
    BY <2>1
<1>7. Scored(missing, "authentication", AuthCodes)
  <2>1. "auth_results_missing_in_headers" \in AuthCodes
    BY DEF AuthCodes
  <2>2. QED
    BY <2>1, ScoredWhen, 6 \in Nat
<1> HIDE DEF failed, weak, f, g, missing
<1>8. /\ Scored({f[a] : a \in failed}, "authentication", AuthCodes)
      /\ Scored({g[a] : a \in weak}, "authentication", AuthCodes)
  BY <1>3, <1>5, <1>6, ScoredImage
<1>9. Scored({f[a] : a \in failed} \cup {g[a] : a \in weak}, "authentication", AuthCodes)
  BY <1>8, ScoredUnion
<1>10. Scored(({f[a] : a \in failed} \cup {g[a] : a \in weak}) \cup missing,
              "authentication", AuthCodes)
  BY <1>7, <1>9, ScoredUnion
<1>11. QED
  BY <1>4, <1>10

AbuseCodes == {"abuseipdb_high_confidence", "abuseipdb_reports_present"}
WhoisCodes == {"ip_privacy_or_vpn", "whois_domain_not_found", "domain_recently_registered",
               "domain_under_six_months", "sender_domain_unregistered"}

LEMMA FocusFinite ==
  ASSUME NEW an, NEW H, an.hops \in Seq(H)
  PROVE  IsFiniteSet(FocusIPs(an)) /\ IsFiniteSet(FocusDomains(an))
<1>1. IsFiniteSet(FocusIPs(an))
  <2> DEFINE I == DOMAIN an.hops \ {1}
             relays == {an.hops[i] : i \in I}
  <2>1. IsFiniteSet(I)
    BY FinitePositions, Len(an.hops) \in Nat
  <2>2. [i \in I |-> an.hops[i]] \in Surjection(I, relays)
    BY DEF Surjection
  <2>3. IsFiniteSet(relays)
    <3> HIDE DEF I, relays
    <3>1. QED
      BY <2>1, <2>2, FS_Surjection
  <2>4. IsFiniteSet({an.xip} \cup relays)
    <3> HIDE DEF relays
    <3>1. QED
      BY <2>3, FS_Union, FS_Singleton
  <2>5. FocusIPs(an) \in SUBSET ({an.xip} \cup relays)
    BY DEF FocusIPs
  <2> HIDE DEF relays
  <2>6. QED
    BY <2>4, <2>5, FS_Subset
<1>2. IsFiniteSet(FocusDomains(an))
  <2> DEFINE D == ((({an.from.local} \cup {an.from.domain}) \cup {an.replyTo.domain})
                     \cup {an.returnPath.domain})
  <2>1. IsFiniteSet(D)
    BY FS_Union, FS_Singleton
  <2>2. FocusDomains(an) \in SUBSET D
    BY DEF FocusDomains, When
  <2> HIDE DEF D
  <2>3. QED
    BY <2>1, <2>2, FS_Subset
<1>3. QED
  BY <1>1, <1>2

LEMMA AbuseScored ==
  ASSUME NEW an, NEW H, an.hops \in Seq(H), NEW osint
  PROVE  Scored(AbuseFindings(an, osint), "infrastructure", AbuseCodes)
<1> DEFINE ips == {i \in FocusIPs(an) : Answered(osint, "abuseipdb", i)}
           A == {i \in ips : IPFacts[i].abuse >= 25}
           B == {i \in ips : IPFacts[i].abuse < 25 /\ IPFacts[i].reports > 0}
           points(ip) == IF IPFacts[ip].abuse >= 75 THEN 40 ELSE 22
           f == [ip \in A |-> Finding("infrastructure", "abuseipdb_high_confidence", points(ip), ip)]
           g == [ip \in B |-> Finding("infrastructure", "abuseipdb_reports_present", 10, ip)]
<1>1. IsFiniteSet(A) /\ IsFiniteSet(B)
  <2>1. A \in SUBSET FocusIPs(an) /\ B \in SUBSET FocusIPs(an)
    OBVIOUS
  <2> HIDE DEF A, B
  <2>2. QED
    BY <2>1, FocusFinite, FS_Subset
<1>2. AbuseFindings(an, osint) = {f[ip] : ip \in A} \cup {g[ip] : ip \in B}
  BY DEF AbuseFindings
<1>3. \A ip : points(ip) \in Nat
  OBVIOUS
<1>4. "abuseipdb_high_confidence" \in AbuseCodes /\ "abuseipdb_reports_present" \in AbuseCodes
  BY DEF AbuseCodes
<1> HIDE DEF A, B, points
<1>5. ASSUME NEW ip \in A
      PROVE  /\ f[ip].points \in Nat /\ f[ip].category = "infrastructure"
             /\ f[ip].code \in AbuseCodes
  BY <1>3, <1>4 DEF Finding
<1>6. ASSUME NEW ip \in B
      PROVE  /\ g[ip].points \in Nat /\ g[ip].category = "infrastructure"
             /\ g[ip].code \in AbuseCodes
  BY <1>4 DEF Finding
<1> HIDE DEF f, g
<1>7. /\ Scored({f[ip] : ip \in A}, "infrastructure", AbuseCodes)
      /\ Scored({g[ip] : ip \in B}, "infrastructure", AbuseCodes)
  BY <1>1, <1>5, <1>6, ScoredImage
<1>8. Scored({f[ip] : ip \in A} \cup {g[ip] : ip \in B}, "infrastructure", AbuseCodes)
  BY <1>7, ScoredUnion
<1>9. QED
  BY <1>2, <1>8

LEMMA WhoisScored ==
  ASSUME NEW an, NEW H, an.hops \in Seq(H), NEW osint
  PROVE  Scored(VpnFindings(an, osint) \cup DomainFindings(an, osint)
                  \cup SenderFindings(an, osint), "infrastructure", WhoisCodes)
<1> DEFINE c == "infrastructure"
           S(F) == Scored(F, c, WhoisCodes)
<1>0. /\ "ip_privacy_or_vpn" \in WhoisCodes /\ "whois_domain_not_found" \in WhoisCodes
      /\ "domain_recently_registered" \in WhoisCodes
      /\ "domain_under_six_months" \in WhoisCodes
      /\ "sender_domain_unregistered" \in WhoisCodes
  BY DEF WhoisCodes
<1>1. S(VpnFindings(an, osint))
  <2> DEFINE I == {i \in FocusIPs(an) : Answered(osint, "ipinfo", i) /\ IPFacts[i].vpn}
             f == [ip \in I |-> Finding(c, "ip_privacy_or_vpn", 15, ip)]
  <2>1. IsFiniteSet(I)
    <3>1. I \in SUBSET FocusIPs(an)
      OBVIOUS
    <3> HIDE DEF I
    <3>2. QED
      BY <3>1, FocusFinite, FS_Subset
  <2>2. VpnFindings(an, osint) = {f[ip] : ip \in I}
    BY DEF VpnFindings
  <2> HIDE DEF I
  <2>3. \A ip \in I : f[ip].points \in Nat /\ f[ip].category = c /\ f[ip].code \in WhoisCodes
    BY <1>0 DEF Finding
  <2> HIDE DEF f
  <2>4. QED
    BY <2>1, <2>2, <2>3, ScoredImage
<1>2. S(DomainFindings(an, osint))
  <2> DEFINE focus == FocusDomains(an) \cap Looked(osint, "whois")
             lost  == {d \in focus : Unregistered(osint, "whois", <<d>>, d)}
             A == {e \in lost : DomainLike(e)}
             B == {e \in focus \ lost : Whois[e] \in DOMAIN AgeFinding}
             f == [d \in A |-> Finding(c, "whois_domain_not_found", 16, d)]
             g == [d \in B |-> [AgeFinding[Whois[d]] EXCEPT !.about = d]]
  <2>1. IsFiniteSet(A) /\ IsFiniteSet(B)
    <3>1. A \in SUBSET FocusDomains(an) /\ B \in SUBSET FocusDomains(an)
      OBVIOUS
    <3> HIDE DEF A, B
    <3>2. QED
      BY <3>1, FocusFinite, FS_Subset
  <2>2. DomainFindings(an, osint) = {f[d] : d \in A} \cup {g[d] : d \in B}
    BY DEF DomainFindings
  <2>3. \A d \in B : Whois[d] \in {"young", "recent"}
    BY DEF AgeFinding
  <2> HIDE DEF A, B
  <2>4. \A d \in A : f[d].points \in Nat /\ f[d].category = c /\ f[d].code \in WhoisCodes
    BY <1>0 DEF Finding
  <2>5. ASSUME NEW d \in B
        PROVE  g[d].points \in Nat /\ g[d].category = c /\ g[d].code \in WhoisCodes
    <3>1. CASE Whois[d] = "young"
      <4>1. AgeFinding[Whois[d]] = Finding(c, "domain_recently_registered", 30, "")
        BY <3>1 DEF AgeFinding
      <4>2. g[d] = [Finding(c, "domain_recently_registered", 30, "") EXCEPT !.about = d]
        BY <4>1
      <4> HIDE DEF g
      <4>3. g[d] = [category |-> c, code |-> "domain_recently_registered", points |-> 30, about |-> d]
        BY <4>2 DEF Finding
      <4>4. QED
        BY <1>0, <4>3
    <3>2. CASE Whois[d] = "recent"
      <4>1. AgeFinding[Whois[d]] = Finding(c, "domain_under_six_months", 14, "")
        BY <3>2 DEF AgeFinding
      <4>2. g[d] = [Finding(c, "domain_under_six_months", 14, "") EXCEPT !.about = d]
        BY <4>1
      <4> HIDE DEF g
      <4>3. g[d] = [category |-> c, code |-> "domain_under_six_months", points |-> 14, about |-> d]
        BY <4>2 DEF Finding
      <4>4. QED
        BY <1>0, <4>3
    <3>3. QED
      BY <2>3, <3>1, <3>2
  <2> HIDE DEF f, g
  <2>6. S({f[d] : d \in A}) /\ S({g[d] : d \in B})
    BY <2>1, <2>4, <2>5, ScoredImage
  <2>7. S({f[d] : d \in A} \cup {g[d] : d \in B})
    BY <2>6, ScoredUnion
  <2>8. QED
    BY <2>2, <2>7
<1>3. S(SenderFindings(an, osint))
  BY <1>0, ScoredWhen, 18 \in Nat DEF SenderFindings
<1>4. S(VpnFindings(an, osint) \cup DomainFindings(an, osint))
  BY <1>1, <1>2, ScoredUnion
<1>5. QED
  BY <1>3, <1>4, ScoredUnion

-----------------------------------------------------------------------------
(* The engagement bonus                                                    *)

LEMMA HittersFinite ==
  ASSUME NEW inv, NEW H, inv.timeline \in Seq(H)
  PROVE  /\ IsFiniteSet(Hitters(inv)) /\ IsFiniteSet(Countries(inv))
         /\ Cardinality(Countries(inv)) \in Nat
         /\ inv.timeline = <<>> => Hitters(inv) = {}
<1>1. IsFiniteSet(Hitters(inv))
  <2>1. IsFiniteSet(DOMAIN inv.timeline)
    BY FinitePositions, Len(inv.timeline) \in Nat
  <2>2. [i \in DOMAIN inv.timeline |-> inv.timeline[i].ip]
          \in Surjection(DOMAIN inv.timeline, Hitters(inv))
    BY DEF Surjection, Hitters
  <2>3. QED
    BY <2>1, <2>2, FS_Surjection
<1>2. IsFiniteSet(Countries(inv))
  <2> DEFINE I == {i \in Hitters(inv) : Answered(inv.osint, "ipinfo", i)}
             all == {IPFacts[ip].country : ip \in I}
  <2>1. IsFiniteSet(I)
    BY <1>1, FS_Subset
  <2>2. [ip \in I |-> IPFacts[ip].country] \in Surjection(I, all)
    BY DEF Surjection
  <2>3. Countries(inv) \in SUBSET all
    BY DEF Countries
  <2> HIDE DEF I, all
  <2>4. IsFiniteSet(all)
    BY <2>1, <2>2, FS_Surjection
  <2>5. QED
    BY <2>3, <2>4, FS_Subset
<1>3. inv.timeline = <<>> => Hitters(inv) = {}
  BY DEF Hitters
<1>4. QED
  BY <1>1, <1>2, <1>3, FS_CardinalityType

LEMMA RoleIs ==
  ASSUME NEW inv, NEW ip
  PROVE  /\ Role(inv, ip) \in {"automation_likely", "human_likely", "unknown"}
         /\ Role(inv, ip) = "human_likely" <=>
              Answered(inv.osint, "ipinfo", ip) /\ IPFacts[ip].net = "mobile"
         /\ Role(inv, ip) = "automation_likely" <=>
              \/ Answered(inv.osint, "ipinfo", ip) /\ IPFacts[ip].net = "cloud"
              \/ /\ ~ (Answered(inv.osint, "ipinfo", ip) /\ IPFacts[ip].net = "mobile")
                 /\ "script" \in Agents(inv, ip)
BY DEF Role

Automated(inv) == {ip \in Hitters(inv) : Role(inv, ip) = "automation_likely"}

Pattern(inv) ==
  IF Mixed(inv) THEN IF Cardinality(Countries(inv)) >= 2 THEN 32 ELSE 26
  ELSE IF Automated(inv) # {} THEN 8 ELSE 0

Uplifts(inv) == [ip \in Automated(inv) |-> Uplift(inv, ip)]

LEMMA UpliftIs ==
  ASSUME NEW inv, NEW ip \in DOMAIN IPFacts
  PROVE  /\ AbuseScore(inv.osint, ip) \in Nat /\ AbuseReports(inv.osint, ip) \in Nat
         /\ Uplift(inv, ip) = IF AbuseScore(inv.osint, ip) >= 25 THEN 6
                              ELSE IF AbuseReports(inv.osint, ip) > 0 THEN 4 ELSE 0
<1> DEFINE n == AbuseScore(inv.osint, ip)
           r == AbuseReports(inv.osint, ip)
<1>1. n \in Nat /\ r \in Nat
  BY FactsAssumption DEF AbuseScore, AbuseReports
<1>2. Uplift(inv, ip) = CASE n >= 25 -> 6 [] n < 25 /\ r > 0 -> 4 [] OTHER -> 0
  BY DEF Uplift
<1> HIDE DEF n, r
<1>3. Uplift(inv, ip) = IF n >= 25 THEN 6 ELSE IF r > 0 THEN 4 ELSE 0
  BY <1>1, <1>2
<1>4. QED
  BY <1>1, <1>3 DEF n, r

LEMMA HittersKnown ==
  ASSUME NEW inv, NEW H, inv.timeline \in Seq(H), \A h \in H : h.ip \in DOMAIN IPFacts
  PROVE  Hitters(inv) \subseteq DOMAIN IPFacts /\ Automated(inv) \subseteq DOMAIN IPFacts
BY DEF Hitters, Automated

LEMMA BonusIs ==
  ASSUME NEW inv, NEW H, inv.timeline \in Seq(H), \A h \in H : h.ip \in DOMAIN IPFacts
  PROVE  /\ Bonus(inv) = Least(32, Pattern(inv) + SumFunctionOnSet(Uplifts(inv), Automated(inv)))
         /\ IsFiniteSet(Automated(inv))
         /\ \A ip \in Automated(inv) : Uplifts(inv)[ip] = Uplift(inv, ip)
                                         /\ Uplifts(inv)[ip] \in Nat
         /\ SumFunctionOnSet(Uplifts(inv), Automated(inv)) \in Nat
         /\ Pattern(inv) \in Nat /\ Bonus(inv) \in 0..32
<1>1. IsFiniteSet(Automated(inv))
  <2>1. Automated(inv) \in SUBSET Hitters(inv)
    BY DEF Automated
  <2>2. QED
    BY <2>1, HittersFinite, FS_Subset
<1>2. \A ip \in Automated(inv) : Uplifts(inv)[ip] = Uplift(inv, ip) /\ Uplifts(inv)[ip] \in Nat
  <2>1. ASSUME NEW ip \in Automated(inv)
        PROVE  Uplifts(inv)[ip] = Uplift(inv, ip) /\ Uplifts(inv)[ip] \in Nat
    <3>1. Uplifts(inv)[ip] = Uplift(inv, ip)
      BY DEF Uplifts
    <3>2. Uplift(inv, ip) \in {0, 4, 6}
      BY HittersKnown, UpliftIs
    <3>3. QED
      BY <3>1, <3>2
  <2>2. QED
    BY <2>1
<1>3. SumFunctionOnSet(Uplifts(inv), Automated(inv)) \in Nat
  BY <1>1, <1>2, SumBounds
<1>4. Pattern(inv) \in Nat
  BY DEF Pattern
<1>5. Bonus(inv) = Least(32, Pattern(inv) + SumFunctionOnSet(Uplifts(inv), Automated(inv)))
  <2> DEFINE automated == {ip \in Hitters(inv) : Role(inv, ip) = "automation_likely"}
             n == Cardinality(Countries(inv))
             pattern == CASE Mixed(inv) /\ n >= 2 -> 32
                          [] Mixed(inv) /\ n < 2  -> 26
                          [] ~ Mixed(inv) -> IF automated # {} THEN 8 ELSE 0
  <2>1. pattern = Pattern(inv)
    <3>1. automated = Automated(inv)
      BY DEF Automated
    <3>2. n \in Nat
      BY HittersFinite
    <3> HIDE DEF automated, n
    <3>3. pattern = IF Mixed(inv) THEN IF n >= 2 THEN 32 ELSE 26
                    ELSE IF automated # {} THEN 8 ELSE 0
      <4>1. CASE Mixed(inv) /\ n >= 2
        BY <3>2, <4>1
      <4>2. CASE Mixed(inv) /\ n < 2
        BY <3>2, <4>2
      <4>3. CASE ~ Mixed(inv)
        BY <4>3
      <4>4. QED
        BY <3>2, <4>1, <4>2, <4>3
    <3>4. QED
      BY <3>1, <3>3 DEF Pattern, n
  <2>2. SumFunction([ip \in automated |-> Uplift(inv, ip)])
          = SumFunctionOnSet(Uplifts(inv), Automated(inv))
    BY DEF SumFunction, Uplifts, Automated
  <2>3. Bonus(inv) = Least(32, pattern + SumFunction([ip \in automated |-> Uplift(inv, ip)]))
    BY DEF Bonus
  <2> HIDE DEF pattern, automated
  <2>4. QED
    BY <2>1, <2>2, <2>3
<1>6. Bonus(inv) \in 0..32
  <2> DEFINE n == Pattern(inv) + SumFunctionOnSet(Uplifts(inv), Automated(inv))
  <2>1. n \in Nat
    BY <1>3, <1>4
  <2> HIDE DEF n
  <2>2. Least(32, n) \in 0..32
    BY <2>1 DEF Least
  <2>3. QED
    BY <1>5, <2>2 DEF n
<1>7. QED
  BY <1>1, <1>2, <1>3, <1>4, <1>5, <1>6

(* A human and an automated hitter are worth 26 points; two countries, or  *)
(* an automated hitter AbuseIPDB knows, leave room for more.               *)
LEMMA MixedBonus ==
  ASSUME NEW inv, NEW H, inv.timeline \in Seq(H), \A h \in H : h.ip \in DOMAIN IPFacts,
         Mixed(inv)
  PROVE  /\ Cardinality(Countries(inv)) >= 2 => Bonus(inv) = 32
         /\ \A ip \in Automated(inv) :
              AbuseScore(inv.osint, ip) >= 25 \/ AbuseReports(inv.osint, ip) # 0
                => Bonus(inv) >= 30
<1> DEFINE sum == SumFunctionOnSet(Uplifts(inv), Automated(inv))
<1>1. sum \in Nat /\ Bonus(inv) = Least(32, Pattern(inv) + sum)
  BY BonusIs
<1>2. Pattern(inv) \in {26, 32} /\ (Cardinality(Countries(inv)) >= 2 => Pattern(inv) = 32)
  BY DEF Pattern
<1>3. Cardinality(Countries(inv)) >= 2 => Bonus(inv) = 32
  <2> HIDE DEF sum
  <2>1. QED
    BY <1>1, <1>2 DEF Least
<1>4. ASSUME NEW ip \in Automated(inv),
             AbuseScore(inv.osint, ip) >= 25 \/ AbuseReports(inv.osint, ip) # 0
      PROVE  Bonus(inv) >= 30
  <2>1. Uplift(inv, ip) \in {4, 6}
    <3>1. ip \in DOMAIN IPFacts
      BY HittersKnown
    <3>2. QED
      BY <1>4, <3>1, UpliftIs
  <2>2. Uplift(inv, ip) <= sum
    <3>1. /\ IsFiniteSet(Automated(inv)) /\ \A x \in Automated(inv) : Uplifts(inv)[x] \in Nat
          /\ Uplifts(inv)[ip] = Uplift(inv, ip)
      BY BonusIs
    <3>2. Uplifts(inv)[ip] <= sum
      BY <3>1, SumBounds
    <3>3. QED
      BY <3>1, <3>2
  <2> HIDE DEF sum
  <2>3. QED
    BY <1>1, <1>2, <2>1, <2>2 DEF Least
<1>5. QED
  BY <1>3, <1>4

-----------------------------------------------------------------------------
(* Findings about the canary                                               *)

CanaryCodes ==
  {"canary_hitter_abuseipdb_high", "canary_hitter_abuseipdb_reports",
   "canary_trap_triggered", "canary_human_then_automation", "canary_multi_country_ops",
   "canary_human_operator_likely", "canary_automation_followup",
   "canary_suspicious_hit_pattern"}

LEMMA RolesScored ==
  ASSUME NEW inv, NEW H, inv.timeline \in Seq(H)
  PROVE  Scored(RoleFindings(inv), "canary", CanaryCodes)
<1> DEFINE I == {i \in Hitters(inv) : Role(inv, i) # "unknown"}
           f == [ip \in I |->
                   IF Role(inv, ip) = "human_likely"
                   THEN Finding("canary", "canary_human_operator_likely", 0, ip)
                   ELSE Finding("canary", "canary_automation_followup", 12, ip)]
<1>1. IsFiniteSet(I)
  <2>1. I \in SUBSET Hitters(inv)
    OBVIOUS
  <2> HIDE DEF I
  <2>2. QED
    BY <2>1, HittersFinite, FS_Subset
<1>2. RoleFindings(inv) = {f[ip] : ip \in I}
  BY DEF RoleFindings
<1> HIDE DEF I
<1>3. ASSUME NEW ip \in I
      PROVE  f[ip].points \in Nat /\ f[ip].category = "canary" /\ f[ip].code \in CanaryCodes
  <2>1. CASE Role(inv, ip) = "human_likely"
    <3>1. f[ip] = [category |-> "canary", code |-> "canary_human_operator_likely",
                   points |-> 0, about |-> ip]
      BY <2>1 DEF Finding
    <3> HIDE DEF f
    <3>2. QED
      BY <3>1 DEF CanaryCodes
  <2>2. CASE Role(inv, ip) # "human_likely"
    <3>1. f[ip] = [category |-> "canary", code |-> "canary_automation_followup",
                   points |-> 12, about |-> ip]
      BY <2>2 DEF Finding
    <3> HIDE DEF f
    <3>2. QED
      BY <3>1 DEF CanaryCodes
  <2>3. QED
    BY <2>1, <2>2
<1> HIDE DEF f
<1>4. Scored({f[ip] : ip \in I}, "canary", CanaryCodes)
  BY <1>1, <1>3, ScoredImage
<1>5. QED
  BY <1>2, <1>4

LEMMA HittersScored ==
  ASSUME NEW inv, NEW H, inv.timeline \in Seq(H)
  PROVE  Scored(HitterFindings(inv), "canary", CanaryCodes)
<1> DEFINE n(ip) == AbuseScore(inv.osint, ip)
           A == {i \in Hitters(inv) : n(i) >= 25}
           B == {i \in Hitters(inv) : n(i) < 25 /\ AbuseReports(inv.osint, i) > 0}
           points(ip) == IF n(ip) >= 75 THEN 35 ELSE 18
           f == [ip \in A |-> Finding("canary", "canary_hitter_abuseipdb_high", points(ip), ip)]
           g == [ip \in B |-> Finding("canary", "canary_hitter_abuseipdb_reports", 10, ip)]
<1>1. IsFiniteSet(A) /\ IsFiniteSet(B)
  <2>1. A \in SUBSET Hitters(inv) /\ B \in SUBSET Hitters(inv)
    OBVIOUS
  <2> HIDE DEF A, B
  <2>2. QED
    BY <2>1, HittersFinite, FS_Subset
<1>2. HitterFindings(inv) = {f[ip] : ip \in A} \cup {g[ip] : ip \in B}
  BY DEF HitterFindings
<1>3. \A ip : points(ip) \in Nat
  OBVIOUS
<1> HIDE DEF A, B, points
<1>4. ASSUME NEW ip \in A
      PROVE  /\ f[ip].points \in Nat /\ f[ip].category = "canary"
             /\ f[ip].code \in CanaryCodes
  BY <1>3 DEF Finding, CanaryCodes
<1>5. ASSUME NEW ip \in B
      PROVE  /\ g[ip].points \in Nat /\ g[ip].category = "canary"
             /\ g[ip].code \in CanaryCodes
  BY DEF Finding, CanaryCodes
<1> HIDE DEF f, g
<1>6. /\ Scored({f[ip] : ip \in A}, "canary", CanaryCodes)
      /\ Scored({g[ip] : ip \in B}, "canary", CanaryCodes)
  BY <1>1, <1>4, <1>5, ScoredImage
<1>7. Scored({f[ip] : ip \in A} \cup {g[ip] : ip \in B}, "canary", CanaryCodes)
  BY <1>6, ScoredUnion
<1>8. QED
  BY <1>2, <1>7

LEMMA CanaryScored ==
  ASSUME NEW inv, NEW H, inv.timeline \in Seq(H), \A h \in H : h.ip \in DOMAIN IPFacts
  PROVE  /\ Scored(CanaryFindings(inv), "canary", CanaryCodes)
         /\ Bonus(inv) > 0 => \E f \in CanaryFindings(inv) : f.points = Bonus(inv)
<1> DEFINE S(F) == Scored(F, "canary", CanaryCodes)
           W(P, code, points) == When(P, Finding("canary", code, points, ""))
           A == W(TRUE, "canary_trap_triggered", 0)
           B == W(Mixed(inv), "canary_human_then_automation", 45)
           C == W(Cardinality(Countries(inv)) >= 2, "canary_multi_country_ops", 22)
           D == W(Bonus(inv) > 0, "canary_suspicious_hit_pattern", Bonus(inv))
           R == RoleFindings(inv)
           T == HitterFindings(inv)
           plain == {"canary_trap_triggered", "canary_human_then_automation",
                     "canary_multi_country_ops", "canary_suspicious_hit_pattern"}
<1>1. Bonus(inv) \in 0..32 /\ (inv.timeline = <<>> => Bonus(inv) = 0)
  <2>1. Bonus(inv) \in 0..32
    BY BonusIs
  <2>2. ASSUME inv.timeline = <<>> PROVE Bonus(inv) = 0
    <3>1. Hitters(inv) = {}
      BY <2>2, HittersFinite
    <3>2. ~ Mixed(inv) /\ Automated(inv) = {}
      BY <3>1 DEF Mixed, Roles, Automated
    <3>3. Pattern(inv) = 0 /\ SumFunctionOnSet(Uplifts(inv), Automated(inv)) = 0
      BY <3>2, SumEmpty DEF Pattern
    <3>4. Bonus(inv) = Least(32, Pattern(inv) + SumFunctionOnSet(Uplifts(inv), Automated(inv)))
      BY BonusIs
    <3>5. QED
      BY <3>3, <3>4 DEF Least
  <2>3. QED
    BY <2>1, <2>2
<1>2. plain \subseteq CanaryCodes
  BY DEF CanaryCodes
<1>3. \A X \in {A, B, C, D} : S(X)
  <2>1. ASSUME NEW P, NEW code \in plain, NEW points \in Nat
        PROVE  S(W(P, code, points))
    BY <1>2, ScoredWhen
  <2>2. Bonus(inv) \in Nat /\ 0 \in Nat /\ 45 \in Nat /\ 22 \in Nat
    BY <1>1, SMTT(30)
  <2>3. /\ "canary_trap_triggered" \in plain /\ "canary_human_then_automation" \in plain
        /\ "canary_multi_country_ops" \in plain /\ "canary_suspicious_hit_pattern" \in plain
    BY DEF plain
  <2> HIDE DEF S, W, plain
  <2>4. S(A)
    BY <2>1, <2>2, <2>3
  <2>5. S(B)
    BY <2>1, <2>2, <2>3
  <2>6. S(C)
    BY <2>1, <2>2, <2>3
  <2>7. S(D)
    BY <2>1, <2>2, <2>3
  <2> HIDE DEF A, B, C, D
  <2>8. QED
    BY <2>4, <2>5, <2>6, <2>7
<1>4. S(R) /\ S(T)
  BY RolesScored, HittersScored
<1>5. inv.timeline # <<>> =>
        CanaryFindings(inv) = ((((A \cup B) \cup C) \cup R) \cup T) \cup D
  BY DEF CanaryFindings, When
<1>6. CASE inv.timeline = <<>>
  <2>1. CanaryFindings(inv) = {}
    BY <1>6 DEF CanaryFindings
  <2>2. Bonus(inv) = 0
    BY <1>1, <1>6
  <2>3. QED
    BY <2>1, <2>2, FS_EmptySet DEF Scored
<1>7. CASE inv.timeline # <<>>
  <2>1. S(A) /\ S(B) /\ S(C) /\ S(D)
    BY <1>3
  <2>2. Bonus(inv) > 0 => \E f \in D : f.points = Bonus(inv)
    <3>1. ASSUME Bonus(inv) > 0 PROVE \E f \in D : f.points = Bonus(inv)
      <4> DEFINE f == Finding("canary", "canary_suspicious_hit_pattern", Bonus(inv), "")
      <4>1. D = {f}
        BY <3>1 DEF When
      <4>2. f.points = Bonus(inv)
        BY DEF Finding
      <4> HIDE DEF f, D
      <4>3. QED
        BY <4>1, <4>2
    <3>2. QED
      BY <3>1
  <2> HIDE DEF A, B, C, D, R, T, plain
  <2>3. S(A \cup B)
    BY <2>1, ScoredUnion
  <2>4. S((A \cup B) \cup C)
    BY <2>1, <2>3, ScoredUnion
  <2>5. S(((A \cup B) \cup C) \cup R)
    BY <1>4, <2>4, ScoredUnion
  <2>6. S((((A \cup B) \cup C) \cup R) \cup T)
    BY <1>4, <2>5, ScoredUnion
  <2>7. S(((((A \cup B) \cup C) \cup R) \cup T) \cup D)
    BY <2>1, <2>6, ScoredUnion
  <2>8. QED
    BY <1>5, <1>7, <2>2, <2>7
<1>8. QED
  BY <1>6, <1>7

-----------------------------------------------------------------------------
(* All the findings                                                        *)

(* What the evaluator makes of a message, and what an export lists.        *)
Analysed(an) ==
  /\ Graded(an.anomalies) /\ an.authentication \in Seq(Results)
  /\ \E H : an.hops \in Seq(H)
Exported(inv) == \E H : inv.timeline \in Seq(H) /\ \A h \in H : h.ip \in DOMAIN IPFacts

LEMMA InfrastructureScored ==
  ASSUME NEW an, Analysed(an), NEW osint
  PROVE  Scored(InfrastructureFindings(an, osint), "infrastructure", AbuseCodes \cup WhoisCodes)
<1> DEFINE A == AbuseFindings(an, osint)
           B == VpnFindings(an, osint) \cup DomainFindings(an, osint) \cup SenderFindings(an, osint)
<1>1. PICK H : an.hops \in Seq(H)
  BY DEF Analysed
<1>2. Scored(A, "infrastructure", AbuseCodes)
  BY <1>1, AbuseScored
<1>3. Scored(B, "infrastructure", WhoisCodes)
  BY <1>1, WhoisScored
<1>4. InfrastructureFindings(an, osint) = A \cup B
  BY DEF InfrastructureFindings
<1> HIDE DEF A, B
<1>5. Scored(A \cup B, "infrastructure", AbuseCodes \cup WhoisCodes)
  BY <1>2, <1>3, FS_Union DEF Scored
<1>6. QED
  BY <1>4, <1>5

(* The findings of a category are those of its scorer.                     *)
LEMMA FindingsScored ==
  ASSUME NEW an, Analysed(an), NEW osint, NEW inv, Exported(inv)
  PROVE  /\ IsFiniteSet(Findings(an, osint, inv))
         /\ \A f \in Findings(an, osint, inv) : f.points \in Nat
         /\ Of(Findings(an, osint, inv), "identity") = IdentityFindings(an)
         /\ Of(Findings(an, osint, inv), "headers") = HeaderFindings(an)
         /\ Of(Findings(an, osint, inv), "authentication") = AuthFindings(an)
         /\ Of(Findings(an, osint, inv), "infrastructure") = InfrastructureFindings(an, osint)
         /\ Of(Findings(an, osint, inv), "canary") = CanaryFindings(inv)
<1> DEFINE F == Findings(an, osint, inv)
           A == IdentityFindings(an)
           B == HeaderFindings(an)
           C == AuthFindings(an)
           D == InfrastructureFindings(an, osint)
           E == CanaryFindings(inv)
<1>1. PICK H : inv.timeline \in Seq(H) /\ \A h \in H : h.ip \in DOMAIN IPFacts
  BY DEF Exported
<1>2. /\ Scored(A, "identity", IdentityCodes) /\ Scored(B, "headers", HeaderCodes)
      /\ Scored(C, "authentication", AuthCodes)
  BY IdentityScored, HeaderScored, AuthScored DEF Analysed
<1>3. Scored(D, "infrastructure", AbuseCodes \cup WhoisCodes)
  BY InfrastructureScored
<1>4. Scored(E, "canary", CanaryCodes)
  BY <1>1, CanaryScored
<1>5. F = (((A \cup B) \cup C) \cup D) \cup E
  BY DEF Findings
<1> HIDE DEF A, B, C, D, E, F
<1>6. /\ IsFiniteSet(A) /\ IsFiniteSet(B) /\ IsFiniteSet(C) /\ IsFiniteSet(D) /\ IsFiniteSet(E)
      /\ \A f \in A : f.points \in Nat /\ f.category = "identity"
      /\ \A f \in B : f.points \in Nat /\ f.category = "headers"
      /\ \A f \in C : f.points \in Nat /\ f.category = "authentication"
      /\ \A f \in D : f.points \in Nat /\ f.category = "infrastructure"
      /\ \A f \in E : f.points \in Nat /\ f.category = "canary"
  BY <1>2, <1>3, <1>4 DEF Scored
<1>7. IsFiniteSet(F)
  <2>1. IsFiniteSet(A \cup B)
    BY <1>6, FS_Union
  <2>2. IsFiniteSet((A \cup B) \cup C)
    BY <1>6, <2>1, FS_Union
  <2>3. IsFiniteSet(((A \cup B) \cup C) \cup D)
    BY <1>6, <2>2, FS_Union
  <2>4. QED
    BY <1>5, <1>6, <2>3, FS_Union
<1>8. \A f \in F : f.points \in Nat
  BY <1>5, <1>6
<1>9. /\ Of(F, "identity") = A /\ Of(F, "headers") = B /\ Of(F, "authentication") = C
      /\ Of(F, "infrastructure") = D /\ Of(F, "canary") = E
  BY <1>5, <1>6 DEF Of
<1>10. QED
  BY <1>7, <1>8, <1>9 DEF A, B, C, D, E, F

-----------------------------------------------------------------------------
(* Reports                                                                 *)

LEMMA ReportIs ==
  ASSUME NEW an, Analysed(an), NEW osint, NEW inv, Exported(inv),
         NEW r \in Reports(an, osint, inv)
  PROVE  /\ r.findings = Findings(an, osint, inv) /\ r.osint = osint /\ r.investigation = inv
         /\ r.verdict = Verdict(r.overall)
         /\ r.plan = Plan(r.verdict, r.overall, r.findings, inv)
         /\ Base(r.findings) \in Nat /\ Bonus(inv) \in 0..32 /\ r.overall \in 0..100
         /\ \E b \in Rounded(Base(r.findings)) :
              /\ b \in Nat /\ 100 * b - 50 <= Base(r.findings)
              /\ r.overall = Clamp(b + Bonus(inv))
<1> DEFINE F == Findings(an, osint, inv)
<1>1. PICK score \in Overall(F, Bonus(inv)) :
        r = [overall |-> score, verdict |-> Verdict(score), findings |-> F, osint |-> osint,
             investigation |-> inv, plan |-> Plan(Verdict(score), score, F, inv)]
  BY DEF Reports
<1>2. PICK H : inv.timeline \in Seq(H) /\ \A h \in H : h.ip \in DOMAIN IPFacts
  BY DEF Exported
<1>3. Bonus(inv) \in 0..32
  BY <1>2, BonusIs
<1>4. IsFiniteSet(F) /\ \A f \in F : f.points \in Nat
  BY FindingsScored
<1> HIDE DEF F
<1>5. Base(F) \in Nat /\ Overall(F, Bonus(inv)) = {Clamp(b + Bonus(inv)) : b \in Rounded(Base(F))}
  BY <1>4, OverallIs
<1>6. PICK b \in Rounded(Base(F)) : score = Clamp(b + Bonus(inv))
  BY <1>5
<1>7. b \in Nat /\ 100 * b - 50 <= Base(F)
  BY <1>5, RoundedIs
<1>8. score \in 0..100
  BY <1>3, <1>6, <1>7, ClampIs
<1>9. /\ r.overall = score /\ r.verdict = Verdict(score) /\ r.findings = F /\ r.osint = osint
      /\ r.investigation = inv /\ r.plan = Plan(Verdict(score), score, F, inv)
  BY <1>1
<1>10. QED
  BY <1>3, <1>5, <1>6, <1>7, <1>8, <1>9 DEF F

LEMMA VerdictIs ==
  ASSUME NEW n \in 0..100
  PROVE  /\ Verdict(n) \in {"critical", "high", "moderate", "low"}
         /\ Verdict(n) \in {"high", "critical"} => n >= 55
         /\ Verdict(n) = "low" => n < 30
<1>1. CASE n >= 75
  BY <1>1 DEF Verdict
<1>2. CASE n >= 55 /\ n < 75
  BY <1>2 DEF Verdict
<1>3. CASE n >= 30 /\ n < 55
  BY <1>3 DEF Verdict
<1>4. CASE n < 30
  BY <1>4 DEF Verdict
<1>5. QED
  BY <1>1, <1>2, <1>3, <1>4

(* One category alone: at most its weight; the canary has none, but its    *)
(* bonus comes with points of the canary only.                             *)
LEMMA OneCategory ==
  ASSUME NEW an, Analysed(an), NEW osint, NEW inv, Exported(inv),
         NEW r \in Reports(an, osint, inv), r.verdict \in {"high", "critical"}
  PROVE  Cardinality({f.category : f \in {g \in r.findings : g.points > 0}}) >= 2
<1> DEFINE F == r.findings
           P == {g \in F : g.points > 0}
           C == {f.category : f \in P}
<1>1. PICK H : inv.timeline \in Seq(H) /\ \A h \in H : h.ip \in DOMAIN IPFacts
  BY DEF Exported
<1>2. /\ F = Findings(an, osint, inv) /\ Base(F) \in Nat /\ Bonus(inv) \in 0..32
      /\ r.overall \in 0..100 /\ r.verdict = Verdict(r.overall)
  BY ReportIs
<1>3. PICK b \in Nat : 100 * b - 50 <= Base(F) /\ r.overall = Clamp(b + Bonus(inv))
  BY ReportIs
<1>4. r.overall >= 55
  BY <1>2, VerdictIs
<1>5. IsFiniteSet(F) /\ \A f \in F : f.points \in Nat
  BY <1>2, FindingsScored
<1>6. IsFiniteSet(C) /\ Cardinality(C) \in Nat
  <2>1. IsFiniteSet(P)
    BY <1>5, FS_Subset
  <2> DEFINE h == [f \in P |-> f.category]
  <2>2. h \in Surjection(P, C)
    BY DEF Surjection
  <2> HIDE DEF C, P, h
  <2>3. QED
    BY <2>1, <2>2, FS_Surjection, FS_CardinalityType
<1>7. SUFFICES ASSUME Cardinality(C) < 2 PROVE FALSE
  BY <1>6
<1>8. PICK c : C \subseteq {c}
  <2>1. Cardinality(C) = 0 \/ Cardinality(C) = 1
    BY <1>6, <1>7
  <2> HIDE DEF C
  <2>2. QED
    BY <1>6, <2>1, FS_EmptySet, FS_Singleton
<1>9. ASSUME NEW k, k # c PROVE CategoryScore(Of(F, k)) = 0
  <2>1. /\ IsFiniteSet(Of(F, k)) /\ \A f \in Of(F, k) : f.points \in Nat
        /\ CategoryScore(Of(F, k)) = Clamp(Points(Of(F, k)))
    BY <1>5, CategoryScoreIs
  <2>2. \A f \in Of(F, k) : f.points = 0
    BY <1>5, <1>8, <1>9 DEF Of
  <2>3. Points(Of(F, k)) = 0
    BY <2>1, <2>2, PointsBounds
  <2>4. QED
    BY <2>1, <2>3, ClampIs
<1>10. /\ CategoryScore(Of(F, "identity")) \in 0..100 /\ CategoryScore(Of(F, "headers")) \in 0..100
       /\ CategoryScore(Of(F, "authentication")) \in 0..100
       /\ CategoryScore(Of(F, "infrastructure")) \in 0..100
  BY <1>5, CategoryScoreIs
<1>11. Bonus(inv) > 0 => c = "canary"
  <2>1. ASSUME Bonus(inv) > 0 PROVE c = "canary"
    <3>1. PICK f \in CanaryFindings(inv) : f.points = Bonus(inv)
      BY <1>1, <2>1, CanaryScored
    <3>2. f \in F /\ f.category = "canary"
      BY <1>2, FindingsScored DEF Of
    <3>3. QED
      BY <1>8, <2>1, <3>1, <3>2
  <2>2. QED
    BY <2>1
<1> DEFINE i == CategoryScore(Of(F, "identity"))
           h == CategoryScore(Of(F, "headers"))
           a == CategoryScore(Of(F, "authentication"))
           n == CategoryScore(Of(F, "infrastructure"))
<1>12. Base(F) = 40 * i + 30 * h + 15 * a + 15 * n
  BY DEF Base
<1>13. /\ c # "identity" => i = 0
       /\ c # "headers" => h = 0
       /\ c # "authentication" => a = 0
       /\ c # "infrastructure" => n = 0
  BY <1>9
<1>14. i \in 0..100 /\ h \in 0..100 /\ a \in 0..100 /\ n \in 0..100
  BY <1>10
<1> HIDE DEF i, h, a, n
<1>15. Base(F) <= 4000 /\ (Bonus(inv) > 0 => Base(F) = 0)
  <2>1. \/ i = 0 /\ h = 0 /\ a = 0
        \/ i = 0 /\ h = 0 /\ n = 0
        \/ i = 0 /\ a = 0 /\ n = 0
        \/ h = 0 /\ a = 0 /\ n = 0
    BY <1>13
  <2>2. Base(F) <= 4000
    BY <1>12, <1>14, <2>1
  <2>3. c = "canary" => i = 0 /\ h = 0 /\ a = 0 /\ n = 0
    BY <1>13
  <2>4. QED
    BY <1>11, <1>12, <2>2, <2>3
<1>16. b + Bonus(inv) <= 40
  BY <1>2, <1>3, <1>15
<1>17. QED
  BY <1>2, <1>3, <1>4, <1>16, ClampIs

Calm(plan) == <<"optional", "no immediate action">> \in plan

(* Only the base actions of "low" say that nothing need be done.           *)
LEMMA CalmIsLow ==
  ASSUME NEW score \in 0..100, NEW F, NEW inv, Calm(Plan(Verdict(score), score, F, inv))
  PROVE  score < 30
<1> DEFINE v == Verdict(score)
<1>1. v \in {"critical", "high", "moderate", "low"}
  BY VerdictIs
<1>2. Calm(BaseActions[v])
  <2>1. ~ Calm(CanaryActions({f.code : f \in F}, inv))
    BY DEF CanaryActions, When, Calm
  <2>2. QED
    BY <2>1 DEF Plan, When, Calm
<1>3. v = "low"
  <2> HIDE DEF v
  <2>1. ~ Calm(BaseActions["critical"])
    BY DEF BaseActions, Calm
  <2>2. ~ Calm(BaseActions["high"])
    BY DEF BaseActions, Calm
  <2>3. ~ Calm(BaseActions["moderate"])
    BY DEF BaseActions, Calm
  <2>4. QED
    BY <1>1, <1>2, <2>1, <2>2, <2>3
<1>4. QED
  BY <1>3, VerdictIs

(* CalmOnlyIfPatternWeak, of any report.                                   *)
LEMMA CalmReport ==
  ASSUME NEW an, Analysed(an), NEW osint, NEW inv, Exported(inv),
         NEW r \in Reports(an, osint, inv),
         Calm(r.plan), Mixed(inv)
  PROVE  /\ Cardinality(Countries(inv)) < 2
         /\ \A ip \in Hitters(inv) : Role(inv, ip) = "automation_likely" =>
              AbuseScore(inv.osint, ip) < 25 /\ AbuseReports(inv.osint, ip) = 0
<1>1. PICK H : inv.timeline \in Seq(H) /\ \A h \in H : h.ip \in DOMAIN IPFacts
  BY DEF Exported
<1>2. /\ r.verdict = Verdict(r.overall) /\ r.overall \in 0..100 /\ Bonus(inv) \in 0..32
      /\ r.plan = Plan(r.verdict, r.overall, r.findings, inv)
  BY ReportIs
<1>3. PICK b \in Nat : r.overall = Clamp(b + Bonus(inv))
  BY ReportIs
<1>4. r.overall < 30
  BY <1>2, CalmIsLow
<1>5. Bonus(inv) < 30
  BY <1>2, <1>3, <1>4, ClampIs
<1>6. Cardinality(Countries(inv)) \in Nat
  BY <1>1, HittersFinite
<1>7. Cardinality(Countries(inv)) < 2
  BY <1>1, <1>5, <1>6, MixedBonus
<1>8. ASSUME NEW ip \in Hitters(inv), Role(inv, ip) = "automation_likely"
      PROVE  AbuseScore(inv.osint, ip) < 25 /\ AbuseReports(inv.osint, ip) = 0
  <2>1. ip \in Automated(inv) /\ ip \in DOMAIN IPFacts
    BY <1>1, <1>8, HittersKnown DEF Automated
  <2>2. AbuseScore(inv.osint, ip) \in Nat
    BY <2>1, UpliftIs
  <2>3. AbuseScore(inv.osint, ip) >= 25 \/ AbuseReports(inv.osint, ip) # 0 => Bonus(inv) >= 30
    BY <1>1, <2>1, MixedBonus
  <2>4. Bonus(inv) \in Nat /\ ~ Bonus(inv) >= 30
    BY <1>2, <1>5
  <2>5. QED
    BY <2>2, <2>3, <2>4
<1>9. QED
  BY <1>7, <1>8

-----------------------------------------------------------------------------
(* Profiles of the hitters                                                 *)

(* The positions of an IP in the timeline, and those where one is new.     *)
Places(inv, ip) == {i \in DOMAIN inv.timeline : inv.timeline[i].ip = ip}
Firsts(inv) == {i \in DOMAIN inv.timeline :
                  \A j \in 1..(i - 1) : inv.timeline[j].ip # inv.timeline[i].ip}

(* The hits of a hitter are those at its positions, the first hit first    *)
(* and the last one last.                                                  *)
LEMMA HitsOfIs ==
  ASSUME NEW inv, NEW H, inv.timeline \in Seq(H), NEW ip, Places(inv, ip) # {}
  PROVE  LET own == HitsOf(inv, ip)
             P == Places(inv, ip)
         IN  /\ IsFiniteSet(P) /\ P \subseteq 1..Len(inv.timeline) /\ Len(own) = Cardinality(P)
             /\ ToSet(own) = {inv.timeline[i] : i \in P}
             /\ \E i \in P : Head(own) = inv.timeline[i] /\ \A j \in P : i <= j
             /\ \E i \in P : Last(own) = inv.timeline[i] /\ \A j \in P : j <= i
<1> DEFINE T == inv.timeline
           P == Places(inv, ip)
           own == HitsOf(inv, ip)
           n == Cardinality(P)
<1>1. Len(T) \in Nat /\ P \subseteq 1..Len(T)
  BY DEF Places
<1>2. own = Picked(T, P)
  BY DEF HitsOf, Places
<1>3. IsFiniteSet(P) /\ n \in Nat
  BY <1>1, FinitePositions
<1>4. T \in Seq(H) /\ P # {}
  OBVIOUS
<1> HIDE DEF T, P, own
<1>5. n >= 1
  BY <1>3, <1>4, FS_EmptySet
<1>6. own \in Seq(H) /\ Len(own) = n
  BY <1>1, <1>2, <1>4, PickedInOrder
<1> DEFINE q == Ordered(P)
<1>7. /\ \A k \in 1..n : q[k] \in P /\ own[k] = T[q[k]]
      /\ \A k, m \in 1..n : k < m => q[k] < q[m]
      /\ \A i \in P : \E k \in 1..n : q[k] = i
  <2>1. \A k \in 1..n : q[k] \in P /\ own[k] = T[q[k]]
    BY <1>1, <1>2, <1>4, PickedInOrder
  <2>2. /\ \A k, m \in 1..n : k < m => q[k] < q[m]
        /\ \A i \in P : \E k \in 1..n : q[k] = i
    BY <1>1, OrderedIs
  <2>3. QED
    BY <2>1, <2>2
<1> HIDE DEF n, q
<1>8. ToSet(own) = {T[i] : i \in P}
  <2>1. ToSet(own) = {own[k] : k \in 1..n}
    BY <1>6 DEF ToSet
  <2>2. QED
    BY <1>7, <2>1
<1>9. 1 \in 1..n /\ n \in 1..n /\ Head(own) = own[1] /\ Last(own) = own[n]
  BY <1>3, <1>5, <1>6 DEF n, Last
<1>10. ASSUME NEW k \in 1..n PROVE q[k] \in Int
  <2>1. q[k] \in 1..Len(T)
    BY <1>1, <1>7
  <2>2. QED
    BY <1>1, <2>1
<1>11. \A j \in P : q[1] <= j
  <2>1. ASSUME NEW j \in P PROVE q[1] <= j
    <3>1. PICK k \in 1..n : q[k] = j
      BY <1>7
    <3>2. k = 1 \/ 1 < k
      OBVIOUS
    <3>3. QED
      BY <1>7, <1>9, <1>10, <3>1, <3>2
  <2>2. QED
    BY <2>1
<1>12. \A j \in P : j <= q[n]
  <2>1. ASSUME NEW j \in P PROVE j <= q[n]
    <3>1. PICK k \in 1..n : q[k] = j
      BY <1>7
    <3>2. k = n \/ k < n
      BY <1>9
    <3>3. QED
      BY <1>7, <1>9, <1>10, <3>1, <3>2
  <2>2. QED
    BY <2>1
<1>13. q[1] \in P /\ q[n] \in P /\ Head(own) = T[q[1]] /\ Last(own) = T[q[n]]
  BY <1>7, <1>9
<1>14. /\ \E i \in P : Head(own) = T[i] /\ \A j \in P : i <= j
       /\ \E i \in P : Last(own) = T[i] /\ \A j \in P : j <= i
  BY <1>11, <1>12, <1>13
<1>15. QED
  BY <1>1, <1>3, <1>6, <1>8, <1>14 DEF T, P, own, n

(* Every hit follows, or is, the first one from its IP.                    *)
LEMMA FirstOfEach ==
  ASSUME NEW inv, NEW H, inv.timeline \in Seq(H), NEW i \in 1..Len(inv.timeline)
  PROVE  \E f \in Firsts(inv) : f <= i /\ inv.timeline[f].ip = inv.timeline[i].ip
<1> DEFINE T == inv.timeline
           P == Places(inv, T[i].ip)
           f == Min(P)
<1>1. Len(T) \in Nat /\ P \subseteq 1..Len(T) /\ i \in P /\ DOMAIN T = 1..Len(T)
  BY DEF Places
<1>2. \A j \in DOMAIN T : j \in P <=> T[j].ip = T[i].ip
  BY DEF Places
<1> HIDE DEF P
<1>3. IsFiniteSet(P) /\ P \subseteq Nat
  <2>1. IsFiniteSet(P)
    BY <1>1, FinitePositions
  <2>2. QED
    BY <1>1, <2>1
<1>4. f \in P /\ \A j \in P : f <= j
  BY <1>1, <1>3, MinOfPositions
<1> HIDE DEF f
<1>5. f \in DOMAIN T /\ T[f].ip = T[i].ip /\ f <= i
  BY <1>1, <1>2, <1>4
<1>6. ASSUME NEW j \in 1..(f - 1) PROVE T[j].ip # T[f].ip
  <2>1. j \in DOMAIN T /\ j < f
    BY <1>1, <1>5
  <2>2. j \notin P
    BY <1>3, <1>4, <2>1
  <2>3. QED
    BY <1>2, <1>5, <2>1, <2>2
<1>7. f \in Firsts(inv)
  BY <1>5, <1>6 DEF Firsts
<1>8. QED
  BY <1>5, <1>7

(* The k-th profile is of the IP that is new at the k-th such position: it *)
(* counts the hits at its positions, the earliest of which is that one.    *)
LEMMA ProfilesAre ==
  ASSUME NEW inv, NEW H, inv.timeline \in Seq(H)
  PROVE  LET T == inv.timeline
             F == Firsts(inv)
             q == Ordered(F)
             ps == Profiles(inv)
         IN  /\ Cardinality(F) \in Nat /\ DOMAIN ps = 1..Cardinality(F)
             /\ \A k \in 1..Cardinality(F) :
                  LET P == Places(inv, T[q[k]].ip)
                  IN  /\ q[k] \in F /\ q[k] \in P /\ IsFiniteSet(P) /\ P \subseteq 1..Len(T)
                      /\ ps[k].hit_ids = {T[i].id : i \in P}
                      /\ ps[k].hit_count = Cardinality(P)
                      /\ ps[k].first_seen = T[q[k]].at
                      /\ \E j \in P : q[k] <= j /\ ps[k].last_seen = T[j].at
<1> DEFINE T == inv.timeline
           F == Firsts(inv)
           q == Ordered(F)
           m == Cardinality(F)
           heads == Picked(T, F)
           ps == Profiles(inv)
<1>1. Len(T) \in Nat /\ F \subseteq 1..Len(T) /\ T \in Seq(H)
  BY DEF Firsts
<1>2. ps = [k \in DOMAIN heads |-> Profile(inv, heads[k].ip)] /\ heads = Picked(T, F)
  BY DEF Profiles, Firsts
<1> HIDE DEF T, F, heads, ps
<1>3. m \in Nat /\ heads \in Seq(H) /\ Len(heads) = m
  BY <1>1, <1>2, PickedInOrder
<1>4. \A k \in 1..m : q[k] \in F /\ heads[k] = T[q[k]]
  <2>1. \A k \in 1..m : q[k] \in F
    BY <1>1, OrderedIs
  <2>2. heads = [k \in 1..m |-> T[q[k]]]
    BY <1>2, PickedIs
  <2>3. QED
    BY <2>1, <2>2
<1> HIDE DEF m, q
<1>5. DOMAIN heads = 1..m
  BY <1>3
<1>6. ASSUME NEW k \in 1..m
      PROVE  LET P == Places(inv, T[q[k]].ip)
             IN  /\ q[k] \in F /\ q[k] \in P /\ IsFiniteSet(P) /\ P \subseteq 1..Len(T)
                 /\ ps[k].hit_ids = {T[i].id : i \in P}
                 /\ ps[k].hit_count = Cardinality(P)
                 /\ ps[k].first_seen = T[q[k]].at
                 /\ \E j \in P : q[k] <= j /\ ps[k].last_seen = T[j].at
  <2> DEFINE ip == T[q[k]].ip
             P == Places(inv, ip)
             own == HitsOf(inv, ip)
  <2>1. q[k] \in F
    BY <1>4
  <2>2. q[k] \in P
    BY <2>1 DEF F, T, Firsts, Places
  <2>3. P = {j \in 1..Len(T) : T[j].ip = ip} /\ q[k] \in 1..Len(T)
    <3>1. DOMAIN T = 1..Len(T) /\ inv.timeline = T
      BY <1>1 DEF T
    <3> HIDE DEF ip
    <3>2. P = {j \in 1..Len(T) : T[j].ip = ip}
      BY <3>1 DEF Places
    <3>3. QED
      BY <1>1, <2>1, <3>2
  <2> HIDE DEF P
  <2>4. \A j \in P : q[k] <= j
    <3>1. ASSUME NEW j \in P, j < q[k] PROVE FALSE
      <4>1. j \in 1..Len(T) /\ T[j].ip = ip
        BY <2>3
      <4>2. j \in 1..(q[k] - 1)
        BY <1>1, <2>3, <3>1, <4>1
      <4>3. \A i \in 1..(q[k] - 1) : T[i].ip # T[q[k]].ip
        BY <2>1 DEF F, T, Firsts
      <4>4. QED
        BY <4>1, <4>2, <4>3
    <3>2. \A j \in P : j \in Int /\ q[k] \in Int
      BY <1>1, <2>3
    <3>3. QED
      BY <3>1, <3>2
  <2>5. /\ IsFiniteSet(P) /\ P \subseteq 1..Len(T) /\ Len(own) = Cardinality(P)
        /\ ToSet(own) = {T[i] : i \in P}
        /\ \E i \in P : Head(own) = T[i] /\ \A j \in P : i <= j
        /\ \E i \in P : Last(own) = T[i] /\ \A j \in P : j <= i
    BY <1>1, <2>2, HitsOfIs DEF T, P
  <2>6. ps[k] = Profile(inv, ip)
    BY <1>2, <1>4, <1>5
  <2>7. /\ ps[k].hit_ids = {h.id : h \in ToSet(own)} /\ ps[k].hit_count = Len(own)
        /\ ps[k].first_seen = Head(own).at /\ ps[k].last_seen = Last(own).at
    BY <2>6 DEF Profile
  <2> HIDE DEF own, ps
  <2>8. Head(own) = T[q[k]]
    <3>1. PICK i \in P : Head(own) = T[i] /\ \A j \in P : i <= j
      BY <2>5
    <3>2. i <= q[k] /\ q[k] <= i
      BY <2>2, <2>4, <3>1
    <3>3. i \in Int /\ q[k] \in Int
      BY <1>1, <2>3
    <3>4. i = q[k]
      BY <3>2, <3>3
    <3>5. QED
      BY <3>1, <3>4
  <2>9. \E j \in P : q[k] <= j /\ ps[k].last_seen = T[j].at
    BY <2>4, <2>5, <2>7
  <2>10. ps[k].hit_ids = {T[i].id : i \in P}
    BY <2>5, <2>7
  <2>11. QED
    BY <2>1, <2>2, <2>5, <2>7, <2>8, <2>9, <2>10 DEF P
<1>7. DOMAIN ps = 1..m
  BY <1>2, <1>5
<1>8. QED
  BY <1>3, <1>6, <1>7 DEF T, F, q, m, ps

(* Every position is one of the hitters' own, and of one hitter only.      *)
LEMMA PlacesPartition ==
  ASSUME NEW inv, NEW H, inv.timeline \in Seq(H)
  PROVE  LET T == inv.timeline
             m == Cardinality(Firsts(inv))
             c == [k \in 1..m |-> Places(inv, T[Ordered(Firsts(inv))[k]].ip)]
         IN  /\ \A k, l \in 1..m : k # l => c[k] \cap c[l] = {}
             /\ UNION {c[k] : k \in 1..m} = 1..Len(T)
<1> DEFINE T == inv.timeline
           F == Firsts(inv)
           q == Ordered(F)
           m == Cardinality(F)
           c == [k \in 1..m |-> Places(inv, T[q[k]].ip)]
<1>1. Len(T) \in Nat /\ F \subseteq 1..Len(T)
  BY DEF Firsts
<1>2. \A f \in F : \A j \in 1..(f - 1) : T[j].ip # T[f].ip
  BY DEF Firsts
<1>3. \A i \in 1..Len(T) : \E f \in F : T[f].ip = T[i].ip
  BY FirstOfEach
<1> HIDE DEF F
<1>4. /\ m \in Nat
      /\ \A k \in 1..m : q[k] \in F
      /\ \A k, l \in 1..m : k < l => q[k] < q[l]
      /\ \A f \in F : \E k \in 1..m : q[k] = f
  BY <1>1, OrderedIs
<1> HIDE DEF m, q
<1>5. ASSUME NEW k \in 1..m PROVE c[k] = {i \in 1..Len(T) : T[i].ip = T[q[k]].ip}
  BY DEF Places
<1> HIDE DEF c, T
<1>6. ASSUME NEW k \in 1..m, NEW l \in 1..m, k < l PROVE T[q[k]].ip # T[q[l]].ip
  <2>1. q[k] \in F /\ q[l] \in F /\ q[k] < q[l]
    BY <1>4, <1>6
  <2>2. q[k] \in 1..Len(T) /\ q[l] \in 1..Len(T)
    BY <1>1, <2>1
  <2>3. q[k] \in 1..(q[l] - 1)
    BY <1>1, <2>1, <2>2
  <2>4. QED
    BY <1>2, <2>1, <2>3
<1>7. ASSUME NEW k \in 1..m, NEW l \in 1..m, k # l PROVE c[k] \cap c[l] = {}
  <2>1. T[q[k]].ip # T[q[l]].ip
    <3>1. k < l \/ l < k
      BY <1>4, <1>7
    <3>2. QED
      BY <1>6, <3>1
  <2>2. QED
    BY <1>5, <2>1
<1>8. UNION {c[k] : k \in 1..m} = 1..Len(T)
  <2>1. ASSUME NEW i \in 1..Len(T) PROVE \E k \in 1..m : i \in c[k]
    <3>1. PICK f \in F : T[f].ip = T[i].ip
      BY <1>3
    <3>2. PICK k \in 1..m : q[k] = f
      BY <1>4
    <3>3. i \in c[k]
      BY <1>5, <3>1, <3>2
    <3>4. QED
      BY <3>3
  <2>2. \A k \in 1..m : c[k] \subseteq 1..Len(T)
    BY <1>5
  <2>3. QED
    BY <2>1, <2>2
<1>9. QED
  BY <1>7, <1>8 DEF c, m, q, F, T

(* The profiles account for every hit of the timeline once, and in the     *)
(* order of the timeline.                                                  *)
LEMMA ProfilesAccount ==
  ASSUME NEW inv, NEW H, inv.timeline \in Seq(H), \A h \in H : h.at \in Int,
         \A a, b \in 1..Len(inv.timeline) :
           a < b => inv.timeline[a].at <= inv.timeline[b].at
  PROVE  LET ps == Profiles(inv)
         IN  /\ UNION {ps[k].hit_ids : k \in DOMAIN ps} = {h.id : h \in ToSet(inv.timeline)}
             /\ SumFunction([k \in DOMAIN ps |-> ps[k].hit_count]) = Len(inv.timeline)
             /\ \A k \in DOMAIN ps : ps[k].first_seen <= ps[k].last_seen
             /\ \A k, l \in DOMAIN ps : k < l => ps[k].first_seen <= ps[l].first_seen
<1> DEFINE T == inv.timeline
           F == Firsts(inv)
           q == Ordered(F)
           m == Cardinality(F)
           c == [k \in 1..m |-> Places(inv, T[q[k]].ip)]
           ps == Profiles(inv)
           count == [k \in DOMAIN ps |-> ps[k].hit_count]
<1>1. Len(T) \in Nat /\ F \subseteq 1..Len(T) /\ T \in Seq(H)
  BY DEF Firsts
<1>2. /\ m \in Nat /\ DOMAIN ps = 1..m
      /\ \A k \in 1..m :
           /\ q[k] \in F /\ IsFiniteSet(c[k]) /\ c[k] \subseteq 1..Len(T)
           /\ ps[k].hit_ids = {T[i].id : i \in c[k]}
           /\ ps[k].hit_count = Cardinality(c[k])
           /\ ps[k].first_seen = T[q[k]].at
           /\ \E j \in c[k] : q[k] <= j /\ ps[k].last_seen = T[j].at
  <2> HIDE DEF F, q, m, ps
  <2>1. \A k \in 1..m : c[k] = Places(inv, T[q[k]].ip)
    OBVIOUS
  <2> HIDE DEF c
  <2>2. /\ m \in Nat /\ DOMAIN ps = 1..m
        /\ \A k \in 1..m :
             LET P == Places(inv, T[q[k]].ip)
             IN  /\ q[k] \in F /\ q[k] \in P /\ IsFiniteSet(P) /\ P \subseteq 1..Len(T)
                 /\ ps[k].hit_ids = {T[i].id : i \in P}
                 /\ ps[k].hit_count = Cardinality(P)
                 /\ ps[k].first_seen = T[q[k]].at
                 /\ \E j \in P : q[k] <= j /\ ps[k].last_seen = T[j].at
    BY ProfilesAre DEF F, q, m, ps
  <2> HIDE DEF T
  <2>3. QED
    BY <2>1, <2>2
<1>3. /\ \A k, l \in 1..m : k # l => c[k] \cap c[l] = {}
      /\ UNION {c[k] : k \in 1..m} = 1..Len(T)
  BY PlacesPartition
<1>4. \A k, l \in 1..m : k < l => q[k] < q[l]
  BY <1>1, OrderedIs
<1>5. \A a, b \in 1..Len(T) : a <= b => T[a].at <= T[b].at
  <2>1. \A a \in 1..Len(T) : T[a].at \in Int
    BY <1>1
  <2>2. \A a, b \in 1..Len(T) : a < b => T[a].at <= T[b].at
    OBVIOUS
  <2> HIDE DEF T
  <2>3. QED
    BY <1>1, <2>1, <2>2
<1> HIDE DEF T, F, q, c, ps
<1>6. \A n \in Nat : IsFiniteSet(1..n) /\ Cardinality(1..n) = n
  <2>1. ASSUME NEW n \in Nat PROVE IsFiniteSet(1..n) /\ Cardinality(1..n) = n
    BY FS_Interval
  <2>2. QED
    BY <2>1
<1>7. UNION {ps[k].hit_ids : k \in DOMAIN ps} = {h.id : h \in ToSet(T)}
  <2>1. ToSet(T) = {T[i] : i \in 1..Len(T)}
    BY <1>1 DEF ToSet
  <2> HIDE DEF m
  <2>2. QED
    BY <1>2, <1>3, <2>1
<1>8. SumFunction(count) = Len(T)
  <2> HIDE DEF m
  <2>1. DOMAIN count = 1..m /\ count = [k \in 1..m |-> Cardinality(c[k])]
    BY <1>2
  <2>2. SumFunctionOnSet([k \in 1..m |-> Cardinality(c[k])], 1..m) = Cardinality(UNION {c[k] : k \in 1..m})
    <3>1. IsFiniteSet(1..m)
      BY <1>2, <1>6
    <3> DEFINE S == 1..m
    <3>2. IsFiniteSet(S) /\ \A x \in S : IsFiniteSet(c[x])
      BY <1>2, <3>1
    <3>3. \A x, y \in S : x # y => c[x] \cap c[y] = {}
      BY <1>3
    <3> HIDE DEF S
    <3>4. SumFunctionOnSet([k \in S |-> Cardinality(c[k])], S) = Cardinality(UNION {c[k] : k \in S})
      BY <3>2, <3>3, SumOfCardinalities
    <3>5. QED
      BY <3>4 DEF S
  <2>3. Cardinality(1..Len(T)) = Len(T)
    BY <1>1, <1>6
  <2> HIDE DEF count
  <2>4. QED
    BY <1>3, <2>1, <2>2, <2>3 DEF SumFunction
<1>9. ASSUME NEW k \in 1..m PROVE ps[k].first_seen <= ps[k].last_seen
  <2>1. PICK j \in c[k] : q[k] <= j /\ ps[k].last_seen = T[j].at
    BY <1>2
  <2>2. q[k] \in 1..Len(T) /\ j \in 1..Len(T) /\ ps[k].first_seen = T[q[k]].at
    BY <1>1, <1>2
  <2>3. QED
    BY <1>5, <2>1, <2>2
<1>10. ASSUME NEW k \in 1..m, NEW l \in 1..m, k < l PROVE ps[k].first_seen <= ps[l].first_seen
  <2>1. q[k] \in 1..Len(T) /\ q[l] \in 1..Len(T) /\ q[k] < q[l]
    BY <1>1, <1>2, <1>4, <1>10
  <2>2. T[q[k]].at <= T[q[l]].at
    BY <1>5, <2>1
  <2>3. QED
    BY <1>2, <2>2
<1> HIDE DEF m
<1>11. QED
  BY <1>2, <1>7, <1>8, <1>9, <1>10 DEF ps, T
=============================================================================
