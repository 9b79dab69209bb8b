----------------------------- MODULE CanaryTrap -----------------------------
(***************************************************************************)
(* The canary honeypot: the API process that serves the decoys and logs    *)
(* the hits (app/main.py, app/routers/canary.py, app/services/canary), and *)
(* the operator scripts that write the same SQLite file from processes of  *)
(* their own (register_canary_token.py, flush_canary_db.py).               *)
(*                                                                         *)
(* Committed database state is `hitsTable`, `tokensTable`, `hits`,         *)
(* `tokens` and `seq`.  Every operation opens a connection of its own;     *)
(* `lock` is the connection holding SQLite's write lock.  The rows of an   *)
(* open transaction live in the local state of its connection until the    *)
(* commit, so a crash or an error rolls back by forgetting them.  A read   *)
(* is one SELECT: it sees the committed state.                             *)
(***************************************************************************)
EXTENDS Integers, FiniteSets

CONSTANTS
  Requests,            \* slots of concurrent canary requests
  Tokens,              \* tokens that appear in URLs and on command lines
  WellFormed,          \* those that match CANARY_TOKEN_RE
  NoToken,             \* filler of an idle slot
  RequireRegistered,   \* settings.canary_require_registered_token
  RetentionDays,       \* settings.canary_hit_retention_days
  TicksPerDay,         \* clock resolution
  MaxClock,            \* bound on the clock
  MaxArrivals,         \* bound on the requests accepted
  MaxCrashes           \* bound on the deaths of the API process

Operators == {"api", "register", "flush"}

ASSUME RequestsAssumption ==
  IsFiniteSet(Requests) /\ Requests \cap (Operators \cup {"free"}) = {}
ASSUME TokensAssumption ==
  WellFormed \subseteq Tokens /\ NoToken \notin Tokens
ASSUME SettingsAssumption ==
  RequireRegistered \in BOOLEAN /\ RetentionDays \in Int
ASSUME BoundsAssumption ==
  /\ TicksPerDay \in Nat \ {0}
  /\ MaxClock \in Nat /\ MaxArrivals \in Nat /\ MaxCrashes \in Nat

VARIABLES
  clock,        \* wall clock, in ticks
  phase,        \* where the lifespan of the API process is
  cutoff,       \* the prune's cutoff, a local of prune_old_hits
  hitsTable,    \* "absent", "old" (no trap column) or "current"
  tokensTable,  \* TRUE once canary_tokens exists
  hits,         \* committed rows of canary_hits
  tokens,       \* committed rows of canary_tokens
  seq,          \* sqlite_sequence: highest id ever committed
  lock,         \* connection that holds the write lock, or "free"
  pc,           \* pc[r]: where request r is
  hit,          \* hit[r]: the CanaryHitRecord under construction
  outcome,      \* outcome[r]: what became of the hit (the debug log)
  reg,          \* the registration script
  flush,        \* the flush script, with the rows its transaction deletes
  arrivals,     \* counts Arrive, for MaxArrivals
  crashes,      \* counts Crash, for MaxCrashes
  bootedAt,     \* history: clock when the process last started
  evidence,     \* history: every row ever committed to canary_hits
  known         \* history: every token ever committed to canary_tokens

files    == <<hitsTable, tokensTable, hits, tokens, seq>>
requests == <<pc, hit, outcome>>
boot     == <<phase, cutoff, bootedAt>>
history  == <<evidence, known>>
counters == <<arrivals, crashes>>
vars     == <<clock, boot, files, lock, requests, reg, flush, counters, history>>

Conns  == Requests \cup Operators
Phases == {"down", "create", "migrate", "registry", "prune", "delete",
           "commit", "serving"}
Hits   == [id : Nat, token : Tokens \cup {NoToken}, at : Nat]
NoHit  == [id |-> 0, token |-> NoToken, at |-> 0]
Idle   == [pc |-> "idle", token |-> NoToken]
Quiet  == [pc |-> "idle", keep |-> FALSE, count |-> 0, hits |-> {}, tokens |-> {}]

TypeOK ==
  /\ clock \in Nat
  /\ phase \in Phases
  /\ cutoff \in Int
  /\ hitsTable \in {"absent", "old", "current"}
  /\ tokensTable \in BOOLEAN
  /\ hits \subseteq Hits /\ IsFiniteSet(hits) /\ evidence \subseteq Hits
  /\ tokens \subseteq Tokens /\ known \subseteq Tokens
  /\ seq \in Nat
  /\ lock \in Conns \cup {"free"}
  /\ pc \in [Requests -> {"idle", "check", "build", "insert", "commit", "respond"}]
  /\ hit \in [Requests -> Hits]
  /\ outcome \in [Requests -> {"pending", "logged", "ignored", "failed"}]
  /\ reg \in [pc : {"create", "insert", "commit"}, token : WellFormed] \cup {Idle}
  /\ flush \in [pc : {"idle", "delete", "tokens", "commit"}, keep : BOOLEAN,
                count : Nat, hits : SUBSET Hits, tokens : SUBSET Tokens]
  /\ arrivals \in Nat /\ crashes \in Nat
  /\ bootedAt \in Nat

(* Deployments start with no database file or with one that an older       *)
(* release left, whose canary_hits has no trap column.  The table of the   *)
(* older release starts without rows: its rows are not followed.           *)
Init ==
  /\ clock = 0
  /\ phase = "down" /\ cutoff = 0 /\ bootedAt = 0
  /\ hitsTable \in {"absent", "old"} /\ tokensTable = FALSE
  /\ hits = {} /\ tokens = {} /\ seq = 0
  /\ lock = "free"
  /\ pc = [r \in Requests |-> "idle"]
  /\ hit = [r \in Requests |-> NoHit]
  /\ outcome = [r \in Requests |-> "pending"]
  /\ reg = Idle /\ flush = Quiet
  /\ arrivals = 0 /\ crashes = 0
  /\ evidence = {} /\ known = {}

Tick ==
  /\ clock < MaxClock
  /\ clock' = clock + 1
  /\ UNCHANGED <<boot, files, lock, requests, reg, flush, counters, history>>

-----------------------------------------------------------------------------
(* The API process: lifespan start-up, death.                              *)

Midnight(t) == t - (t % TicksPerDay)
RetentionSpan == RetentionDays * TicksPerDay

Cutoff_DayEarly == Midnight(clock) - RetentionSpan - TicksPerDay
Cutoff_DayLate  == Midnight(clock) - RetentionSpan + TicksPerDay
Cutoff == Midnight(clock) - RetentionSpan

Boot ==
  /\ phase = "down"
  /\ phase' = "create" /\ bootedAt' = clock
  /\ UNCHANGED <<clock, cutoff, files, lock, requests, reg, flush, counters, history>>

(* Python's sqlite3 runs DDL outside a transaction: each statement commits *)
(* on its own, and takes the write lock only when it has something to do.  *)
(* The two CREATE INDEX IF NOT EXISTS that follow the table are taken with *)
(* it: they commit apart from it, but no statement depends on an index.    *)
CreateHits_NotIdempotent ==
  /\ phase = "create" /\ lock = "free"
  /\ hitsTable = "absent" /\ hitsTable' = "old"
  /\ phase' = "migrate"
  /\ UNCHANGED <<clock, cutoff, bootedAt, tokensTable, hits, tokens, seq, lock,
                 requests, reg, flush, counters, history>>

CreateHits ==
  /\ phase = "create"
  /\ hitsTable = "absent" => lock = "free"
  /\ hitsTable' = IF hitsTable = "absent" THEN "old" ELSE hitsTable
  /\ phase' = "migrate"
  /\ UNCHANGED <<clock, cutoff, bootedAt, tokensTable, hits, tokens, seq, lock,
                 requests, reg, flush, counters, history>>

MigrateHits_Missing ==
  /\ phase = "migrate" /\ phase' = "registry"
  /\ UNCHANGED <<clock, cutoff, bootedAt, files, lock, requests, reg, flush,
                 counters, history>>

MigrateHits ==
  /\ phase = "migrate"
  /\ hitsTable = "old" => lock = "free"
  /\ hitsTable' = "current"
  /\ phase' = "registry"
  /\ UNCHANGED <<clock, cutoff, bootedAt, tokensTable, hits, tokens, seq, lock,
                 requests, reg, flush, counters, history>>

CreateTokens ==
  /\ phase = "registry"
  /\ tokensTable \/ lock = "free"
  /\ tokensTable' = TRUE
  /\ phase' = "prune"
  /\ UNCHANGED <<clock, cutoff, bootedAt, hitsTable, hits, tokens, seq, lock,
                 requests, reg, flush, counters, history>>

PruneCutoff ==
  /\ phase = "prune"
  /\ IF RetentionDays <= 0
     THEN phase' = "serving" /\ UNCHANGED cutoff
     ELSE phase' = "delete" /\ cutoff' = Cutoff
  /\ UNCHANGED <<clock, bootedAt, files, lock, requests, reg, flush, counters, history>>

PruneDelete ==
  /\ phase = "delete" /\ lock = "free"
  /\ phase' = "commit" /\ lock' = "api"
  /\ UNCHANGED <<clock, cutoff, bootedAt, files, requests, reg, flush, counters, history>>

PruneCommit ==
  /\ phase = "commit"
  /\ hits' = {h \in hits : ~ (h.at < cutoff)}
  /\ phase' = "serving" /\ lock' = "free"
  /\ UNCHANGED <<clock, cutoff, bootedAt, hitsTable, tokensTable, tokens, seq,
                 requests, reg, flush, counters, history>>

(* The process dies, or a start-up step raises (a locked database); the    *)
(* container restarts it.  Its connections, and their locks, go with it.   *)
Crash ==
  /\ phase # "down" /\ crashes < MaxCrashes
  /\ phase' = "down" /\ crashes' = crashes + 1
  /\ lock' = IF lock \in Requests \cup {"api"} THEN "free" ELSE lock
  /\ pc' = [r \in Requests |-> "idle"]
  /\ hit' = [r \in Requests |-> NoHit]
  /\ outcome' = [r \in Requests |-> "pending"]
  /\ UNCHANGED <<clock, cutoff, bootedAt, files, reg, flush, arrivals, history>>

-----------------------------------------------------------------------------
(* A canary request.                                                       *)

Unserved == <<clock, boot, hitsTable, tokensTable, tokens, reg, flush, crashes, known>>

Arrive(r, t) ==
  /\ phase = "serving" /\ pc[r] = "idle" /\ arrivals < MaxArrivals
  /\ pc' = [pc EXCEPT ![r] = "check"]
  /\ hit' = [hit EXCEPT ![r] = [NoHit EXCEPT !.token = t]]
  /\ arrivals' = arrivals + 1
  /\ UNCHANGED <<Unserved, hits, seq, evidence, lock, outcome>>

ShouldLog_FormatOnly(t) == t \in WellFormed

(* _should_log_hit; CheckFails is its blanket exception handler.           *)
ShouldLog(t) ==
  /\ t \in WellFormed
  /\ RequireRegistered => t \in tokens

Check(r) ==
  /\ pc[r] = "check"
  /\ IF ShouldLog(hit[r].token)
     THEN pc' = [pc EXCEPT ![r] = "build"] /\ UNCHANGED outcome
     ELSE /\ pc' = [pc EXCEPT ![r] = "respond"]
          /\ outcome' = [outcome EXCEPT ![r] = "ignored"]
  /\ UNCHANGED <<Unserved, hits, seq, evidence, lock, hit, arrivals>>

CheckFails(r) ==
  /\ pc[r] = "check" /\ RequireRegistered /\ hit[r].token \in WellFormed
  /\ pc' = [pc EXCEPT ![r] = "respond"]
  /\ outcome' = [outcome EXCEPT ![r] = "ignored"]
  /\ UNCHANGED <<Unserved, hits, seq, evidence, lock, hit, arrivals>>

BuildHit(r) ==
  /\ pc[r] = "build"
  /\ pc' = [pc EXCEPT ![r] = "insert"]
  /\ hit' = [hit EXCEPT ![r].at = clock]
  /\ UNCHANGED <<Unserved, hits, seq, evidence, lock, outcome, arrivals>>

NextId_RowidReuse ==
  1 + (IF hits = {} THEN 0
       ELSE CHOOSE m \in {h.id : h \in hits} : \A h \in hits : h.id <= m)

(* AUTOINCREMENT: one more than the largest id the table ever held.        *)
NextId == seq + 1

InsertHit(r) ==
  /\ pc[r] = "insert" /\ lock = "free"
  /\ pc' = [pc EXCEPT ![r] = "commit"]
  /\ hit' = [hit EXCEPT ![r].id = NextId]
  /\ lock' = r
  /\ UNCHANGED <<Unserved, hits, seq, evidence, outcome, arrivals>>

CommitHit_Forgotten(r) ==
  /\ pc[r] = "commit"
  /\ pc' = [pc EXCEPT ![r] = "respond"]
  /\ outcome' = [outcome EXCEPT ![r] = "logged"]
  /\ lock' = "free"
  /\ UNCHANGED <<Unserved, hits, seq, evidence, hit, arrivals>>

CommitHit(r) ==
  /\ pc[r] = "commit"
  /\ pc' = [pc EXCEPT ![r] = "respond"]
  /\ outcome' = [outcome EXCEPT ![r] = "logged"]
  /\ hits' = hits \cup {hit[r]}
  /\ evidence' = evidence \cup {hit[r]}
  /\ seq' = hit[r].id
  /\ lock' = "free"
  /\ UNCHANGED <<Unserved, hit, arrivals>>

RecordFails_Uncaught(r) ==
  /\ pc[r] = "insert" /\ lock # "free"
  /\ pc' = [pc EXCEPT ![r] = "failed"]
  /\ UNCHANGED <<Unserved, hits, seq, evidence, lock, hit, outcome, arrivals>>

(* record_hit raises (busy timeout, disk error): closing the connection    *)
(* rolls back, and the router swallows the exception.                      *)
RecordFails(r) ==
  /\ pc[r] \in {"insert", "commit"}
  /\ pc' = [pc EXCEPT ![r] = "respond"]
  /\ outcome' = [outcome EXCEPT ![r] = "failed"]
  /\ lock' = IF lock = r THEN "free" ELSE lock
  /\ UNCHANGED <<Unserved, hits, seq, evidence, hit, arrivals>>

(* The decoy, whatever the outcome.                                        *)
Respond(r) ==
  /\ pc[r] = "respond"
  /\ pc' = [pc EXCEPT ![r] = "idle"]
  /\ hit' = [hit EXCEPT ![r] = NoHit]
  /\ outcome' = [outcome EXCEPT ![r] = "pending"]
  /\ UNCHANGED <<Unserved, hits, seq, evidence, lock, arrivals>>

Handle(r) ==
  Check(r) \/ CheckFails(r) \/ BuildHit(r) \/ InsertHit(r) \/ CommitHit(r)
    \/ RecordFails(r) \/ Respond(r)

-----------------------------------------------------------------------------
(* The operator scripts.  Each may die, or time out on the lock, anywhere. *)

Unregistered ==
  <<clock, boot, hitsTable, hits, seq, requests, flush, counters, evidence>>

RegisterStart(t) ==
  /\ reg.pc = "idle" /\ t \in WellFormed
  /\ reg' = [pc |-> "create", token |-> t]
  /\ UNCHANGED <<Unregistered, tokensTable, tokens, lock, known>>

RegisterCreate ==
  /\ reg.pc = "create"
  /\ tokensTable \/ lock = "free"
  /\ tokensTable' = TRUE
  /\ reg' = [reg EXCEPT !.pc = "insert"]
  /\ UNCHANGED <<Unregistered, tokens, lock, known>>

(* A duplicate raises IntegrityError and the connection closes.            *)
RegisterInsert ==
  /\ reg.pc = "insert" /\ lock = "free"
  /\ IF reg.token \in tokens
     THEN reg' = Idle /\ UNCHANGED lock
     ELSE reg' = [reg EXCEPT !.pc = "commit"] /\ lock' = "register"
  /\ UNCHANGED <<Unregistered, tokensTable, tokens, known>>

RegisterCommit ==
  /\ reg.pc = "commit"
  /\ tokens' = tokens \cup {reg.token}
  /\ known' = known \cup {reg.token}
  /\ reg' = Idle /\ lock' = "free"
  /\ UNCHANGED <<Unregistered, tokensTable>>

RegisterFails ==
  /\ reg.pc # "idle"
  /\ reg' = Idle
  /\ lock' = IF lock = "register" THEN "free" ELSE lock
  /\ UNCHANGED <<Unregistered, tokensTable, tokens, known>>

Register == RegisterCreate \/ RegisterInsert \/ RegisterCommit \/ RegisterFails

Unflushed ==
  <<clock, boot, hitsTable, tokensTable, seq, requests, reg, counters, history>>

(* The counts it will print are read before the transaction begins; on a   *)
(* file without the tables the script raises.                              *)
FlushCount(keep) ==
  /\ flush.pc = "idle"
  /\ hitsTable # "absent"
  /\ keep \/ tokensTable
  /\ flush' = [Quiet EXCEPT !.pc = "delete", !.keep = keep,
                            !.count = Cardinality(hits)]
  /\ UNCHANGED <<Unflushed, hits, tokens, lock>>

AfterHits == IF flush.keep THEN "commit" ELSE "tokens"

FlushHits_Autocommit ==
  /\ flush.pc = "delete" /\ lock = "free"
  /\ hits' = {}
  /\ flush' = [flush EXCEPT !.pc = AfterHits]
  /\ UNCHANGED <<Unflushed, tokens, lock>>

(* DELETE FROM canary_hits begins the transaction, even on an empty table. *)
FlushHits ==
  /\ flush.pc = "delete" /\ lock = "free"
  /\ flush' = [flush EXCEPT !.pc = AfterHits, !.hits = hits]
  /\ lock' = "flush"
  /\ UNCHANGED <<Unflushed, hits, tokens>>

FlushTokens ==
  /\ flush.pc = "tokens"
  /\ flush' = [flush EXCEPT !.pc = "commit", !.tokens = tokens]
  /\ UNCHANGED <<Unflushed, hits, tokens, lock>>

FlushCommit ==
  /\ flush.pc = "commit"
  /\ hits' = hits \ flush.hits
  /\ tokens' = tokens \ flush.tokens
  /\ flush' = Quiet /\ lock' = "free"
  /\ UNCHANGED Unflushed

(* It dies, or waits for the lock in vain: the open transaction goes.      *)
FlushFails ==
  /\ flush.pc # "idle"
  /\ flush' = Quiet
  /\ lock' = IF lock = "flush" THEN "free" ELSE lock
  /\ UNCHANGED <<Unflushed, hits, tokens>>

Flush == FlushHits \/ FlushTokens \/ FlushCommit \/ FlushFails

-----------------------------------------------------------------------------
StartUp ==
  Boot \/ CreateHits \/ MigrateHits \/ CreateTokens \/ PruneCutoff
    \/ PruneDelete \/ PruneCommit

Next ==
  \/ Tick \/ StartUp \/ Crash
  \/ \E r \in Requests : Handle(r) \/ \E t \in Tokens : Arrive(r, t)
  \/ Register \/ \E t \in Tokens : RegisterStart(t)
  \/ Flush \/ \E keep \in BOOLEAN : FlushCount(keep)

Spec == Init /\ [][Next]_vars

(* Started work goes on: the event loop resumes every handler, the         *)
(* container restarts the process, and a script runs to its end.           *)
FairSpec ==
  /\ Spec
  /\ WF_vars(StartUp) /\ WF_vars(Register) /\ WF_vars(Flush)
  /\ \A r \in Requests : WF_vars(Handle(r))
-----------------------------------------------------------------------------
(* Properties.  Definitions above whose name has a suffix (Cutoff_DayLate) *)
(* are faulty variants kept to show that the properties notice them.       *)

(* A row id names one hit for ever: no id comes back after a flush, a      *)
(* prune, a rollback or a crash, so exported evidence stays unambiguous.   *)
UniqueIds ==
  \A g, h \in evidence : g.id = h.id => g = h

(* With the registry required, no hit is ever stored for a token that no   *)
(* operator had registered, whatever the requests and scripts interleave.  *)
KnownTokensOnly ==
  RequireRegistered => \A h \in evidence : h.token \in known \cap WellFormed

(* A hit the router takes for recorded was committed, even when the        *)
(* process was in a race for the write lock with the scripts.              *)
LoggedMeansStored ==
  \A r \in Requests : outcome[r] = "logged" => hit[r] \in evidence

(* However often start-up was cut short between its separately committed   *)
(* statements, a process that serves has the complete schema.              *)
SchemaReady ==
  phase = "serving" => hitsTable = "current" /\ tokensTable

(* Once a process serves, no stored hit had outlived the retention period  *)
(* by a whole day or more when that process started.                       *)
FreshAfterBoot ==
  phase = "serving" /\ RetentionDays > 0 =>
    \A h \in hits : bootedAt - h.at < RetentionSpan + TicksPerDay

(* A stored hit disappears only in a flush, or once it is older than the   *)
(* whole retention period: the prune never takes younger evidence.         *)
KeptForRetention ==
  [][\A h \in hits \ hits' :
       \/ flush.pc = "commit"
       \/ RetentionDays > 0 /\ clock - h.at > RetentionSpan]_vars

(* A flush can overtake requests between their registry check and their    *)
(* insert, whose hits then name tokens no longer registered.  There are    *)
(* never more such hits than the process serves requests at a time: no     *)
(* flush, finished, raced or dead between its two DELETEs, leaves the hits *)
(* of more requests than it overtook, and flushes do not pile them up.     *)
StrayHits == {h \in hits : h.token \notin tokens}
StrayHitsBounded ==
  RequireRegistered => Cardinality(StrayHits) <= Cardinality(Requests)

(* The abstract log of CanaryLog, seen in the committed rows.              *)
Log == INSTANCE CanaryLog WITH log <- hits, last <- seq, now <- clock

(* The service implements that log: whatever the processes interleave and  *)
(* crashes cut short, every change of canary_hits is one of the log.       *)
ImplementsLog == Log!Spec

(* Every accepted request is answered, unless its process dies: neither a  *)
(* locked database nor a failing insert leaves a requester waiting.        *)
Answered ==
  \A r \in Requests : pc[r] # "idle" ~> pc[r] = "idle"

(* Whatever state a crash left the file in, the process comes back to      *)
(* serving for good once crashes end and no script keeps the lock.         *)
BootsAgain ==
  <>[](lock \notin {"register", "flush"}) => <>[](phase = "serving")

-----------------------------------------------------------------------------
(* The inductive invariant behind the safety properties.                   *)

(* A connection holds the write lock exactly while its transaction has     *)
(* written and not yet committed.                                          *)
LockInv ==
  /\ \A r \in Requests : pc[r] = "commit" <=> lock = r
  /\ phase = "commit" <=> lock = "api"
  /\ reg.pc = "commit" <=> lock = "register"
  /\ flush.pc \in {"tokens", "commit"} <=> lock = "flush"

(* What an open flush has deleted is still the whole of each table.        *)
FlushInv ==
  /\ flush.pc \in {"tokens", "commit"} => flush.hits = hits
  /\ flush.pc = "tokens" => ~ flush.keep
  /\ flush.tokens = IF flush.pc = "commit" /\ ~ flush.keep THEN tokens ELSE {}

SchemaInv ==
  /\ phase \notin {"down", "create", "migrate"} => hitsTable = "current"
  /\ phase \notin {"down", "create", "migrate", "registry"} => tokensTable

EvidenceInv ==
  /\ hits \subseteq evidence
  /\ \A h \in evidence : h.id <= seq /\ h.at <= clock
  /\ UniqueIds
  /\ tokens \subseteq known
  /\ KnownTokensOnly

(* What each stage of a request has established.                           *)
RequestInv == \A r \in Requests :
  /\ pc[r] # "idle" => phase = "serving" /\ hit[r].token \in Tokens
  /\ pc[r] \in {"build", "insert", "commit"} =>
       /\ hit[r].token \in WellFormed
       /\ RequireRegistered => hit[r].token \in known
  /\ pc[r] \in {"insert", "commit"} =>
       bootedAt <= hit[r].at /\ hit[r].at <= clock
  /\ pc[r] = "commit" => hit[r].id = seq + 1
  /\ outcome[r] = "logged" => pc[r] = "respond" /\ hit[r] \in evidence

(* Requests past the registry check whose token a flush has taken: each    *)
(* can add one stray hit to those stored.                                  *)
Overtaken == {r \in Requests :
  pc[r] \in {"build", "insert", "commit"} /\ hit[r].token \notin tokens}
StrayInv ==
  RequireRegistered =>
    Cardinality(StrayHits) + Cardinality(Overtaken) <= Cardinality(Requests)

RetentionInv ==
  /\ bootedAt <= clock
  /\ phase \in {"delete", "commit"} =>
       /\ RetentionDays > 0
       /\ cutoff <= clock - RetentionSpan
       /\ bootedAt - RetentionSpan - TicksPerDay < cutoff
  /\ FreshAfterBoot

(* Everything above together is preserved by every step.                   *)
IInv ==
  /\ TypeOK
  /\ LockInv
  /\ SchemaInv
  /\ EvidenceInv
  /\ RequestInv
  /\ RetentionInv
  /\ FlushInv
  /\ StrayInv

-----------------------------------------------------------------------------
(* Claims of the repository that the code does not keep.                   *)

(* deploy/DEPLOY.md: hits are auto-pruned after the retention period.  The *)
(* prune runs in the start-up only.                                        *)
RetentionEnforced ==
  phase = "serving" /\ RetentionDays > 0 =>
    \A h \in hits : clock - h.at <= RetentionSpan + TicksPerDay

(* tokens.py: only known tokens produce hit records.  A flush between the  *)
(* registry check and the insert leaves a hit of a token no longer known.  *)
OnlyRegisteredStored ==
  RequireRegistered => \A h \in hits : h.token \in tokens
=============================================================================
