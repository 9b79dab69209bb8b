----------------------------- MODULE InfluxTrap -----------------------------
(***************************************************************************)
(* The canary service with CANARY_STORAGE=influx (InfluxCanaryStorage):    *)
(* the hits are points of an InfluxDB bucket, written over HTTP with a     *)
(* timeout, while the token registry stays in SQLite.                      *)
(*                                                                         *)
(* A point is identified by its tags and its time: a second point of the   *)
(* same identity replaces the first.  Requests to Influx travel in `wire`: *)
(* one may be lost, and one that its sender gave up on, or died over, may  *)
(* still be applied.  The trap, a tag of two values, is left out of the    *)
(* identity, and so are the escapes: neither a well-formed token nor an    *)
(* address has a space or a comma.                                         *)
(***************************************************************************)
EXTENDS ClientAddress, FiniteSets

CONSTANTS
  Requests,            \* slots of concurrent canary requests
  Tokens,              \* tokens that appear in URLs
  WellFormed,          \* those that match CANARY_TOKEN_RE
  Visits,              \* who visits, which way and with which headers
  RequireRegistered,   \* settings.canary_require_registered_token
  MaxArrivals,         \* bound on the requests accepted
  MaxCrashes           \* bound on the deaths of the API process

ASSUME TrapAssumption ==
  /\ WellFormed \subseteq Tokens /\ RequireRegistered \in BOOLEAN
  /\ Visits \subseteq AnyVisit
  /\ MaxArrivals \in Nat /\ MaxCrashes \in Nat

(* "quoted": the User-Agent or Referer holds a quote that breaks the line  *)
(* it is written in.  Not every quote does; the others count as "plain".   *)
Agents == {"plain", "quoted"}

VARIABLES
  serving,      \* is the API process past its start-up?
  clock,        \* wall clock, in microseconds
  registered,   \* canary_tokens, still in SQLite
  pc,           \* pc[r]: where request r is
  hit,          \* hit[r]: the CanaryHitRecord under construction, with the
                \* number `no` and the visit `from` of its request
  reply,        \* reply[r]: Influx's answer, once it reached the process
  outcome,      \* outcome[r]: what became of the hit (the debug log)
  influx,       \* is InfluxDB up?
  wire,         \* hits in requests Influx has not yet handled
  bucket,       \* the points of the bucket
  arrivals, crashes,   \* counts, for the bounds
  logged        \* history: the hits the service took for recorded

requests == <<pc, hit, reply, outcome>>
store    == <<influx, wire, bucket>>
vars     == <<serving, clock, registered, requests, store, arrivals, crashes, logged>>

AnyHit == [no : Nat, from : Visits, token : Tokens, agent : Agents,
           ip : Addresses \cup {Unknown}, at : Nat]
NoHit  == [no |-> 0]

TypeOK ==
  /\ serving \in BOOLEAN /\ clock \in Nat /\ registered \subseteq Tokens
  /\ pc \in [Requests -> {"idle", "check", "build", "post", "wait", "respond"}]
  /\ hit \in [Requests -> AnyHit \cup {NoHit}]
  /\ reply \in [Requests -> {"none", "stored", "refused"}]
  /\ outcome \in [Requests -> {"pending", "logged", "ignored", "failed"}]
  /\ influx \in BOOLEAN
  /\ wire \subseteq AnyHit /\ bucket \subseteq AnyHit /\ logged \subseteq AnyHit
  /\ arrivals \in Nat /\ crashes \in Nat

Init ==
  /\ serving = FALSE /\ clock = 0 /\ registered = {}
  /\ pc = [r \in Requests |-> "idle"]
  /\ hit = [r \in Requests |-> NoHit]
  /\ reply = [r \in Requests |-> "none"]
  /\ outcome = [r \in Requests |-> "pending"]
  /\ influx = TRUE /\ wire = {} /\ bucket = {}
  /\ arrivals = 0 /\ crashes = 0 /\ logged = {}

-----------------------------------------------------------------------------
(* The API process and the operator.  init does nothing and the prune      *)
(* returns 0 here: what starts is the registry.                            *)

Start ==
  /\ ~ serving /\ serving' = TRUE
  /\ UNCHANGED <<clock, registered, requests, store, arrivals, crashes, logged>>

(* The death of the process takes its requests, not what they have sent.   *)
Crash ==
  /\ serving /\ crashes < MaxCrashes
  /\ serving' = FALSE /\ crashes' = crashes + 1
  /\ pc' = [r \in Requests |-> "idle"]
  /\ hit' = [r \in Requests |-> NoHit]
  /\ reply' = [r \in Requests |-> "none"]
  /\ outcome' = [r \in Requests |-> "pending"]
  /\ UNCHANGED <<clock, registered, store, arrivals, logged>>

Register(t) ==
  /\ t \in WellFormed \ registered
  /\ registered' = registered \cup {t}
  /\ UNCHANGED <<serving, clock, requests, store, arrivals, crashes, logged>>

-----------------------------------------------------------------------------
(* A canary request.                                                       *)

Arrive(r, t, agent, v) ==
  /\ serving /\ pc[r] = "idle" /\ arrivals < MaxArrivals
  /\ arrivals' = arrivals + 1
  /\ pc' = [pc EXCEPT ![r] = "check"]
  /\ hit' = [hit EXCEPT ![r] =
               [no |-> arrivals', from |-> v, token |-> t, agent |-> agent,
                ip |-> Unknown, at |-> 0]]
  /\ UNCHANGED <<serving, clock, registered, reply, outcome, store, crashes, logged>>

ShouldLog(t) ==
  /\ t \in WellFormed
  /\ RequireRegistered => t \in registered

Ignore(r) ==
  /\ pc' = [pc EXCEPT ![r] = "respond"]
  /\ outcome' = [outcome EXCEPT ![r] = "ignored"]

Check(r) ==
  /\ pc[r] = "check"
  /\ IF ShouldLog(hit[r].token)
     THEN pc' = [pc EXCEPT ![r] = "build"] /\ UNCHANGED outcome
     ELSE Ignore(r)
  /\ UNCHANGED <<serving, clock, registered, hit, reply, store, arrivals,
                 crashes, logged>>

(* The registry's file cannot be read.                                     *)
CheckFails(r) ==
  /\ pc[r] = "check" /\ RequireRegistered /\ hit[r].token \in WellFormed
  /\ Ignore(r)
  /\ UNCHANGED <<serving, clock, registered, hit, reply, store, arrivals,
                 crashes, logged>>

(* No two hits are stamped in the same microsecond: one event loop builds  *)
(* them one after the other.                                               *)
BuildHit(r) ==
  /\ pc[r] = "build"
  /\ clock' = clock + 1
  /\ hit' = [hit EXCEPT ![r].at = clock', ![r].ip = GetClientIp(Seen(hit[r].from))]
  /\ pc' = [pc EXCEPT ![r] = "post"]
  /\ UNCHANGED <<serving, registered, reply, outcome, store, arrivals,
                 crashes, logged>>

Post(r) ==
  /\ pc[r] = "post" /\ influx
  /\ wire' = wire \cup {hit[r]}
  /\ pc' = [pc EXCEPT ![r] = "wait"]
  /\ UNCHANGED <<serving, clock, registered, hit, reply, outcome, influx,
                 bucket, arrivals, crashes, logged>>

HitLogged(r) ==
  /\ pc[r] = "wait" /\ reply[r] = "stored"
  /\ outcome' = [outcome EXCEPT ![r] = "logged"]
  /\ logged' = logged \cup {hit[r]}
  /\ pc' = [pc EXCEPT ![r] = "respond"]
  /\ UNCHANGED <<serving, clock, registered, hit, reply, store, arrivals, crashes>>

RecordFails_NoTimeout(r) ==
  /\ pc[r] = "post" \/ reply[r] = "refused"
  /\ pc' = [pc EXCEPT ![r] = "respond"]
  /\ outcome' = [outcome EXCEPT ![r] = "failed"]
  /\ UNCHANGED <<serving, clock, registered, hit, reply, store, arrivals,
                 crashes, logged>>

RecordFails_Retried(r) ==
  /\ pc[r] \in {"post", "wait"}
  /\ pc' = [pc EXCEPT ![r] = IF pc[r] = "post" THEN "respond" ELSE "build"]
  /\ outcome' = [outcome EXCEPT ![r] = "failed"]
  /\ UNCHANGED <<serving, clock, registered, hit, reply, store, arrivals,
                 crashes, logged>>

(* The connection fails, ten seconds pass (even as an answer arrives), or  *)
(* raise_for_status does; the router swallows the exception.               *)
RecordFails(r) ==
  /\ pc[r] \in {"post", "wait"}
  /\ pc' = [pc EXCEPT ![r] = "respond"]
  /\ outcome' = [outcome EXCEPT ![r] = "failed"]
  /\ UNCHANGED <<serving, clock, registered, hit, reply, store, arrivals,
                 crashes, logged>>

Respond(r) ==
  /\ pc[r] = "respond"
  /\ pc' = [pc EXCEPT ![r] = "idle"]
  /\ hit' = [hit EXCEPT ![r] = NoHit]
  /\ reply' = [reply EXCEPT ![r] = "none"]
  /\ outcome' = [outcome EXCEPT ![r] = "pending"]
  /\ UNCHANGED <<serving, clock, registered, store, arrivals, crashes, logged>>

Handle(r) ==
  Check(r) \/ CheckFails(r) \/ BuildHit(r) \/ Post(r) \/ HitLogged(r)
    \/ RecordFails(r) \/ Respond(r)

-----------------------------------------------------------------------------
(* InfluxDB.                                                               *)

Stamp_Seconds(at) == at \div 1000000

(* ts_ns.  Doubles of today's size are 256 ns apart, which keeps distinct  *)
(* microseconds distinct.                                                  *)
Stamp(at) == at * 1000

Identity(h) == <<h.token, h.ip, Stamp(h.at)>>

(* User agent and referer are quoted without escaping the quotes in them:  *)
(* a line that no longer parses for it is refused.                         *)
Accepts(h) == h.agent = "plain"

Apply(h) ==
  /\ influx /\ h \in wire
  /\ wire' = wire \ {h}
  /\ bucket' = IF Accepts(h)
               THEN {g \in bucket : Identity(g) # Identity(h)} \cup {h}
               ELSE bucket
  /\ reply' = [r \in Requests |->
                 IF pc[r] = "wait" /\ hit[r] = h
                 THEN IF Accepts(h) THEN "stored" ELSE "refused"
                 ELSE reply[r]]
  /\ UNCHANGED <<serving, clock, registered, pc, hit, outcome, influx,
                 arrivals, crashes, logged>>

(* The answer may be lost as well: then RecordFails comes first.           *)
Lose(h) ==
  /\ h \in wire /\ wire' = wire \ {h}
  /\ UNCHANGED <<serving, clock, registered, requests, influx, bucket,
                 arrivals, crashes, logged>>

GoDown ==
  /\ influx /\ influx' = FALSE
  /\ UNCHANGED <<serving, clock, registered, requests, wire, bucket, arrivals,
                 crashes, logged>>

ComeUp ==
  /\ ~ influx /\ influx' = TRUE
  /\ UNCHANGED <<serving, clock, registered, requests, wire, bucket,
                 arrivals, crashes, logged>>

-----------------------------------------------------------------------------
Next ==
  \/ Start \/ Crash \/ GoDown \/ ComeUp
  \/ \E t \in Tokens : Register(t)
  \/ \E r \in Requests :
       \/ Handle(r)
       \/ \E t \in Tokens, agent \in Agents, v \in Visits : Arrive(r, t, agent, v)
  \/ \E h \in wire : Apply(h) \/ Lose(h)

Spec == Init /\ [][Next]_vars

(* The event loop resumes every handler, whose wait httpx ends; nothing is *)
(* asked of Influx, which may stay down or silent for ever.                *)
FairSpec == Spec /\ \A r \in Requests : WF_vars(Handle(r))

-----------------------------------------------------------------------------
(* Properties.  Definitions whose name has a suffix (Stamp_Seconds) are    *)
(* faulty variants kept to show that the properties notice them.           *)

(* What the service took for recorded is in the bucket and stays there:    *)
(* no later point, of a concurrent, a repeated or an abandoned request,    *)
(* has its identity and replaces it.                                       *)
LoggedStays == logged \subseteq bucket

(* A canary request leaves at most one point, although Influx may apply a  *)
(* write after the service has given up on it or restarted.                *)
OnePointPerRequest ==
  \A g, h \in bucket : g.no = h.no => g = h

(* Does the visitor itself name no address that could pass for its own?    *)
NamesNone(v) ==
  /\ Parse[v.real] = Unknown
  /\ \A i \in DOMAIN v.fwd :
       Parse[v.fwd[i]] \notin (IF v.via = "chain" THEN Public ELSE Addresses)

(* Behind Caddy a hit has the visitor's address whatever headers the       *)
(* visitor sent, and whether or not its address is public.  Without Caddy  *)
(* headers are believed: there it has it if the visitor names no other     *)
(* address, or its headers are not trusted, and its own address is public  *)
(* or was appended by the proxy next to the API.                           *)
RightAddress(v, ip) ==
  /\ v.via = "caddy" /\ TrustProxy => ip = v.visitor
  /\ v.via = "direct" /\ v.visitor \in Public /\ (TrustProxy => NamesNone(v)) =>
       ip = v.visitor
  /\ v.via = "chain" /\ TrustProxy /\ NamesNone(v)
       /\ (v.visitor \in Public \/ v.inner = <<>>) => ip = v.visitor

(* Every point of the bucket, one applied after its request was given up   *)
(* or the process restarted too, has the address that request calls for.   *)
Attributed == \A h \in bucket : RightAddress(h.from, h.ip)

(* Every accepted request is answered, unless its process dies: neither a  *)
(* dead nor a silent Influx leaves a requester waiting.                    *)
Answered ==
  \A r \in Requests : pc[r] # "idle" ~> pc[r] = "idle"

-----------------------------------------------------------------------------
(* The inductive invariant behind the safety properties.                   *)

Sent == bucket \cup wire
Stamped(r) == pc[r] \in {"post", "wait"}

(* A hit in Influx or on its way there has a number and a time that no     *)
(* other such hit and no other request has.                                *)
SentInv ==
  /\ \A h \in Sent : h.no <= arrivals /\ h.at <= clock
  /\ \A g, h \in Sent : g.no = h.no \/ g.at = h.at => g = h
  /\ \A r \in Requests, h \in Sent :
       /\ pc[r] # "idle" /\ hit[r].no = h.no => pc[r] \in {"wait", "respond"}
       /\ Stamped(r) /\ (hit[r].no = h.no \/ hit[r].at = h.at) => hit[r] = h

RequestInv ==
  /\ \A r \in Requests :
       /\ pc[r] # "idle" => hit[r] \in AnyHit  /\ hit[r].no <= arrivals
       /\ Stamped(r) => hit[r].at <= clock
       /\ reply[r] # "none" => pc[r] \in {"wait", "respond"}
       /\ pc[r] = "wait" /\ reply[r] = "stored" => hit[r] \in bucket
  /\ \A r, s \in Requests :
       /\ pc[r] # "idle" /\ pc[s] # "idle" /\ hit[r].no = hit[s].no => r = s
       /\ Stamped(r) /\ Stamped(s) /\ hit[r].at = hit[s].at => r = s

(* From the moment it is stamped a hit has the right address, and so has   *)
(* what is sent of it.                                                     *)
AddressInv ==
  /\ \A h \in Sent : RightAddress(h.from, h.ip)
  /\ \A r \in Requests : Stamped(r) => RightAddress(hit[r].from, hit[r].ip)

InfluxInv == TypeOK /\ SentInv /\ RequestInv /\ LoggedStays /\ AddressInv
=============================================================================
