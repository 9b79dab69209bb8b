--------------------------- MODULE CanaryTrapProofs ---------------------------
(***************************************************************************)
(* IInv of CanaryTrap is inductive, for any number of concurrent requests, *)
(* any set of tokens, any settings and any bounds.  Each lemma <Part>Step  *)
(* shows that a step of the system preserves one part of it.               *)
(***************************************************************************)
EXTENDS CanaryTrap, FiniteSetTheorems, TLAPS

(* The start of a day: the clock of the prune's cutoff.                    *)
LEMMA MidnightBounds ==
  ASSUME NEW t \in Nat
  PROVE  /\ Midnight(t) \in Int
         /\ Midnight(t) <= t
         /\ t < Midnight(t) + TicksPerDay
BY BoundsAssumption, SMT DEF Midnight

(* The retention period of storage.py:109 is a whole number of ticks, and  *)
(* positive when the setting is.                                           *)
LEMMA SpanType ==
  /\ RetentionSpan \in Int
  /\ RetentionDays > 0 => RetentionSpan > 0
<1>1. TicksPerDay \in Int /\ TicksPerDay > 0 /\ RetentionDays \in Int
  BY BoundsAssumption, SettingsAssumption
<1>2. ASSUME NEW d \in Int, NEW t \in Int, d > 0, t > 0
      PROVE  d * t > 0
  BY <1>2
<1>3. QED
  BY <1>1, <1>2 DEF RetentionSpan

(* The steps not named here touch neither the rows nor the flush.          *)
LEMMA OtherSteps ==
  ASSUME [Next]_vars
  PROVE  \/ PruneCommit \/ Crash \/ RegisterCommit
         \/ \E r \in Requests : Handle(r) \/ \E t \in Tokens : Arrive(r, t)
         \/ Flush \/ \E keep \in BOOLEAN : FlushCount(keep)
         \/ UNCHANGED <<pc, hit, flush, hits, tokens>>
<1> USE DEF vars, files, requests, boot, history, counters
<1>1. CASE \/ Tick \/ Boot \/ CreateHits \/ MigrateHits \/ CreateTokens
           \/ PruneCutoff \/ PruneDelete
  BY <1>1 DEF Tick, Boot, CreateHits, MigrateHits, CreateTokens, PruneCutoff,
              PruneDelete
<1>2. CASE \/ RegisterCreate \/ RegisterInsert \/ RegisterFails
           \/ \E t \in Tokens : RegisterStart(t)
  BY <1>2 DEF RegisterStart, RegisterCreate, RegisterInsert, RegisterFails,
              Unregistered
<1>3. CASE UNCHANGED vars
  BY <1>3
<1>4. QED
  BY <1>1, <1>2, <1>3 DEF Next, StartUp, Register

(* Every step keeps the variables of the service in their types.           *)
LEMMA TypeStep ==
  ASSUME TypeOK, [Next]_vars
  PROVE  TypeOK'
<1> USE TokensAssumption, SettingsAssumption, BoundsAssumption
    DEF TypeOK, Conns, Operators, Phases, Hits, NoHit, Idle, Quiet,
        vars, files, requests, boot, history, counters
<1>1. CASE Tick
  BY <1>1 DEF Tick
<1>2. CASE Boot
  BY <1>2 DEF Boot
<1>3. CASE CreateHits
  BY <1>3 DEF CreateHits
<1>4. CASE MigrateHits
  BY <1>4 DEF MigrateHits
<1>5. CASE CreateTokens
  BY <1>5 DEF CreateTokens
<1>6. CASE PruneCutoff
  <2>1. Cutoff \in Int
    BY MidnightBounds, SpanType DEF Cutoff
  <2>2. QED
    BY <1>6, <2>1 DEF PruneCutoff

<1>7. CASE PruneDelete
  BY <1>7 DEF PruneDelete
<1>8. CASE PruneCommit
  <2>1. IsFiniteSet({h \in hits : ~ (h.at < cutoff)})
    BY FS_Subset
  <2>2. QED
    BY <1>8, <2>1 DEF PruneCommit

<1>9. CASE Crash
  BY <1>9 DEF Crash
<1>10. ASSUME NEW r \in Requests, NEW t \in Tokens, Arrive(r, t)
      PROVE  TypeOK'
  BY <1>10 DEF Arrive, Unserved
<1>11. ASSUME NEW r \in Requests, Check(r) PROVE TypeOK'
  BY <1>11 DEF Check, Unserved
<1>12. ASSUME NEW r \in Requests, CheckFails(r) PROVE TypeOK'
  BY <1>12 DEF CheckFails, Unserved
<1>13. ASSUME NEW r \in Requests, BuildHit(r) PROVE TypeOK'
  BY <1>13 DEF BuildHit, Unserved
<1>14. ASSUME NEW r \in Requests, InsertHit(r) PROVE TypeOK'
  BY <1>14 DEF InsertHit, Unserved, NextId
<1>15. ASSUME NEW r \in Requests, CommitHit(r) PROVE TypeOK'
  <2>1. IsFiniteSet(hits \cup {hit[r]})
    BY FS_AddElement
  <2>2. QED
    BY <1>15, <2>1 DEF CommitHit, Unserved

<1>16. ASSUME NEW r \in Requests, RecordFails(r) PROVE TypeOK'
  BY <1>16 DEF RecordFails, Unserved
<1>17. ASSUME NEW r \in Requests, Respond(r) PROVE TypeOK'
  BY <1>17 DEF Respond, Unserved
<1>18. ASSUME NEW t \in Tokens, RegisterStart(t) PROVE TypeOK'
  BY <1>18 DEF RegisterStart, Unregistered
<1>19. CASE RegisterCreate
  BY <1>19 DEF RegisterCreate, Unregistered
<1>20. CASE RegisterInsert
  BY <1>20 DEF RegisterInsert, Unregistered
<1>21. CASE RegisterCommit
  BY <1>21 DEF RegisterCommit, Unregistered
<1>22. CASE RegisterFails
  BY <1>22 DEF RegisterFails, Unregistered
<1>23. ASSUME NEW keep \in BOOLEAN, FlushCount(keep) PROVE TypeOK'
  <2>1. Cardinality(hits) \in Nat
    BY FS_CardinalityType
  <2>2. QED
    BY <1>23, <2>1 DEF FlushCount, Unflushed

<1>24. CASE FlushHits
  BY <1>24 DEF FlushHits, AfterHits, Unflushed
<1>25. CASE FlushTokens
  BY <1>25 DEF FlushTokens, Unflushed
<1>26. CASE FlushCommit
  <2>1. IsFiniteSet(hits \ flush.hits)
    BY FS_Difference
  <2>2. QED
    BY <1>26, <2>1 DEF FlushCommit, Unflushed
<1>27. CASE FlushFails
  BY <1>27 DEF FlushFails, Unflushed
<1>28. CASE UNCHANGED vars
  BY <1>28
<1>29. QED
  BY <1>1, <1>2, <1>3, <1>4, <1>5, <1>6, <1>7, <1>8, <1>9, <1>10, <1>11,
     <1>12, <1>13, <1>14, <1>15, <1>16, <1>17, <1>18, <1>19, <1>20,
     <1>21, <1>22, <1>23, <1>24, <1>25, <1>26, <1>27, <1>28
  DEF Next, StartUp, Handle, Register, Flush

(* Every step keeps the write lock with the one connection whose           *)
(* transaction is open.                                                    *)
LEMMA LockStep ==
  ASSUME TypeOK, LockInv, [Next]_vars
  PROVE  LockInv'
<1> USE RequestsAssumption, TokensAssumption, SettingsAssumption, BoundsAssumption
    DEF TypeOK, Conns, Operators, Phases, Hits, NoHit, Idle, Quiet,
        vars, files, requests, boot, history, counters, LockInv
<1>1. CASE Tick
  BY <1>1 DEF Tick
<1>2. CASE Boot
  BY <1>2 DEF Boot
<1>3. CASE CreateHits
  BY <1>3 DEF CreateHits
<1>4. CASE MigrateHits
  BY <1>4 DEF MigrateHits
<1>5. CASE CreateTokens
  BY <1>5 DEF CreateTokens
<1>6. CASE PruneCutoff
  BY <1>6 DEF PruneCutoff
<1>7. CASE PruneDelete
  BY <1>7 DEF PruneDelete
<1>8. CASE PruneCommit
  BY <1>8 DEF PruneCommit
<1>9. CASE Crash
  BY <1>9 DEF Crash
<1>10. ASSUME NEW r \in Requests, NEW t \in Tokens, Arrive(r, t)
      PROVE  LockInv'
  BY <1>10 DEF Arrive, Unserved
<1>11. ASSUME NEW r \in Requests, Check(r) PROVE LockInv'
  BY <1>11 DEF Check, Unserved
<1>12. ASSUME NEW r \in Requests, CheckFails(r) PROVE LockInv'
  BY <1>12 DEF CheckFails, Unserved
<1>13. ASSUME NEW r \in Requests, BuildHit(r) PROVE LockInv'
  BY <1>13 DEF BuildHit, Unserved
<1>14. ASSUME NEW r \in Requests, InsertHit(r) PROVE LockInv'
  BY <1>14 DEF InsertHit, Unserved, NextId
<1>15. ASSUME NEW r \in Requests, CommitHit(r) PROVE LockInv'
  BY <1>15 DEF CommitHit, Unserved
<1>16. ASSUME NEW r \in Requests, RecordFails(r) PROVE LockInv'
  BY <1>16 DEF RecordFails, Unserved
<1>17. ASSUME NEW r \in Requests, Respond(r) PROVE LockInv'
  BY <1>17 DEF Respond, Unserved
<1>18. ASSUME NEW t \in Tokens, RegisterStart(t) PROVE LockInv'
  BY <1>18 DEF RegisterStart, Unregistered
<1>19. CASE RegisterCreate
  BY <1>19 DEF RegisterCreate, Unregistered
<1>20. CASE RegisterInsert
  BY <1>20 DEF RegisterInsert, Unregistered
<1>21. CASE RegisterCommit
  BY <1>21 DEF RegisterCommit, Unregistered
<1>22. CASE RegisterFails
  BY <1>22 DEF RegisterFails, Unregistered
<1>23. ASSUME NEW keep \in BOOLEAN, FlushCount(keep) PROVE LockInv'
  BY <1>23 DEF FlushCount, Unflushed
<1>24. CASE FlushHits
  BY <1>24 DEF FlushHits, AfterHits, Unflushed
<1>25. CASE FlushTokens
  BY <1>25 DEF FlushTokens, Unflushed
<1>26. CASE FlushCommit
  BY <1>26 DEF FlushCommit, Unflushed
<1>27. CASE FlushFails
  BY <1>27 DEF FlushFails, Unflushed
<1>28. CASE UNCHANGED vars
  BY <1>28
<1>29. QED
  BY <1>1, <1>2, <1>3, <1>4, <1>5, <1>6, <1>7, <1>8, <1>9, <1>10, <1>11,
     <1>12, <1>13, <1>14, <1>15, <1>16, <1>17, <1>18, <1>19, <1>20,
     <1>21, <1>22, <1>23, <1>24, <1>25, <1>26, <1>27, <1>28
  DEF Next, StartUp, Handle, Register, Flush

(* Every step keeps the schema as complete as the start-up phase promises. *)
LEMMA SchemaStep ==
  ASSUME TypeOK, SchemaInv, [Next]_vars
  PROVE  SchemaInv'
<1> USE RequestsAssumption, TokensAssumption, SettingsAssumption, BoundsAssumption
    DEF TypeOK, Conns, Operators, Phases, Hits, NoHit, Idle, Quiet,
        vars, files, requests, boot, history, counters, SchemaInv
<1>1. CASE Tick
  BY <1>1 DEF Tick
<1>2. CASE Boot
  BY <1>2 DEF Boot
<1>3. CASE CreateHits
  BY <1>3 DEF CreateHits
<1>4. CASE MigrateHits
  BY <1>4 DEF MigrateHits
<1>5. CASE CreateTokens
  BY <1>5 DEF CreateTokens
<1>6. CASE PruneCutoff
  BY <1>6 DEF PruneCutoff
<1>7. CASE PruneDelete
  BY <1>7 DEF PruneDelete
<1>8. CASE PruneCommit
  BY <1>8 DEF PruneCommit
<1>9. CASE Crash
  BY <1>9 DEF Crash
<1>10. ASSUME NEW r \in Requests, NEW t \in Tokens, Arrive(r, t)
      PROVE  SchemaInv'
  BY <1>10 DEF Arrive, Unserved
<1>11. ASSUME NEW r \in Requests, Check(r) PROVE SchemaInv'
  BY <1>11 DEF Check, Unserved
<1>12. ASSUME NEW r \in Requests, CheckFails(r) PROVE SchemaInv'
  BY <1>12 DEF CheckFails, Unserved
<1>13. ASSUME NEW r \in Requests, BuildHit(r) PROVE SchemaInv'
  BY <1>13 DEF BuildHit, Unserved
<1>14. ASSUME NEW r \in Requests, InsertHit(r) PROVE SchemaInv'
  BY <1>14 DEF InsertHit, Unserved, NextId
<1>15. ASSUME NEW r \in Requests, CommitHit(r) PROVE SchemaInv'
  BY <1>15 DEF CommitHit, Unserved
<1>16. ASSUME NEW r \in Requests, RecordFails(r) PROVE SchemaInv'
  BY <1>16 DEF RecordFails, Unserved
<1>17. ASSUME NEW r \in Requests, Respond(r) PROVE SchemaInv'
  BY <1>17 DEF Respond, Unserved
<1>18. ASSUME NEW t \in Tokens, RegisterStart(t) PROVE SchemaInv'
  BY <1>18 DEF RegisterStart, Unregistered
<1>19. CASE RegisterCreate
  BY <1>19 DEF RegisterCreate, Unregistered
<1>20. CASE RegisterInsert
  BY <1>20 DEF RegisterInsert, Unregistered
<1>21. CASE RegisterCommit
  BY <1>21 DEF RegisterCommit, Unregistered
<1>22. CASE RegisterFails
  BY <1>22 DEF RegisterFails, Unregistered
<1>23. ASSUME NEW keep \in BOOLEAN, FlushCount(keep) PROVE SchemaInv'
  BY <1>23 DEF FlushCount, Unflushed
<1>24. CASE FlushHits
  BY <1>24 DEF FlushHits, AfterHits, Unflushed
<1>25. CASE FlushTokens
  BY <1>25 DEF FlushTokens, Unflushed
<1>26. CASE FlushCommit
  BY <1>26 DEF FlushCommit, Unflushed
<1>27. CASE FlushFails
  BY <1>27 DEF FlushFails, Unflushed
<1>28. CASE UNCHANGED vars
  BY <1>28
<1>29. QED
  BY <1>1, <1>2, <1>3, <1>4, <1>5, <1>6, <1>7, <1>8, <1>9, <1>10, <1>11,
     <1>12, <1>13, <1>14, <1>15, <1>16, <1>17, <1>18, <1>19, <1>20,
     <1>21, <1>22, <1>23, <1>24, <1>25, <1>26, <1>27, <1>28
  DEF Next, StartUp, Handle, Register, Flush

(* Every step keeps ids unique and below the sequence, hits in the past    *)
(* and of known tokens.                                                    *)
LEMMA EvidenceStep ==
  ASSUME TypeOK, EvidenceInv, RequestInv, [Next]_vars
  PROVE  EvidenceInv'
<1> USE RequestsAssumption, TokensAssumption, SettingsAssumption, BoundsAssumption
    DEF TypeOK, Conns, Operators, Phases, Hits, NoHit, Idle, Quiet,
        vars, files, requests, boot, history, counters, EvidenceInv, RequestInv, UniqueIds, KnownTokensOnly
<1>1. CASE Tick
  BY <1>1 DEF Tick
<1>2. CASE Boot
  BY <1>2 DEF Boot
<1>3. CASE CreateHits
  BY <1>3 DEF CreateHits
<1>4. CASE MigrateHits
  BY <1>4 DEF MigrateHits
<1>5. CASE CreateTokens
  BY <1>5 DEF CreateTokens
<1>6. CASE PruneCutoff
  BY <1>6 DEF PruneCutoff
<1>7. CASE PruneDelete
  BY <1>7 DEF PruneDelete
<1>8. CASE PruneCommit
  BY <1>8 DEF PruneCommit
<1>9. CASE Crash
  BY <1>9 DEF Crash
<1>10. ASSUME NEW r \in Requests, NEW t \in Tokens, Arrive(r, t)
      PROVE  EvidenceInv'
  BY <1>10 DEF Arrive, Unserved
<1>11. ASSUME NEW r \in Requests, Check(r) PROVE EvidenceInv'
  BY <1>11 DEF Check, Unserved
<1>12. ASSUME NEW r \in Requests, CheckFails(r) PROVE EvidenceInv'
  BY <1>12 DEF CheckFails, Unserved
<1>13. ASSUME NEW r \in Requests, BuildHit(r) PROVE EvidenceInv'
  BY <1>13 DEF BuildHit, Unserved
<1>14. ASSUME NEW r \in Requests, InsertHit(r) PROVE EvidenceInv'
  BY <1>14 DEF InsertHit, Unserved, NextId
<1>15. ASSUME NEW r \in Requests, CommitHit(r) PROVE EvidenceInv'
  BY <1>15 DEF CommitHit, Unserved
<1>16. ASSUME NEW r \in Requests, RecordFails(r) PROVE EvidenceInv'
  BY <1>16 DEF RecordFails, Unserved
<1>17. ASSUME NEW r \in Requests, Respond(r) PROVE EvidenceInv'
  BY <1>17 DEF Respond, Unserved
<1>18. ASSUME NEW t \in Tokens, RegisterStart(t) PROVE EvidenceInv'
  BY <1>18 DEF RegisterStart, Unregistered
<1>19. CASE RegisterCreate
  BY <1>19 DEF RegisterCreate, Unregistered
<1>20. CASE RegisterInsert
  BY <1>20 DEF RegisterInsert, Unregistered
<1>21. CASE RegisterCommit
  BY <1>21 DEF RegisterCommit, Unregistered
<1>22. CASE RegisterFails
  BY <1>22 DEF RegisterFails, Unregistered
<1>23. ASSUME NEW keep \in BOOLEAN, FlushCount(keep) PROVE EvidenceInv'
  BY <1>23 DEF FlushCount, Unflushed
<1>24. CASE FlushHits
  BY <1>24 DEF FlushHits, AfterHits, Unflushed
<1>25. CASE FlushTokens
  BY <1>25 DEF FlushTokens, Unflushed
<1>26. CASE FlushCommit
  BY <1>26 DEF FlushCommit, Unflushed
<1>27. CASE FlushFails
  BY <1>27 DEF FlushFails, Unflushed
<1>28. CASE UNCHANGED vars
  BY <1>28
<1>29. QED
  BY <1>1, <1>2, <1>3, <1>4, <1>5, <1>6, <1>7, <1>8, <1>9, <1>10, <1>11,
     <1>12, <1>13, <1>14, <1>15, <1>16, <1>17, <1>18, <1>19, <1>20,
     <1>21, <1>22, <1>23, <1>24, <1>25, <1>26, <1>27, <1>28
  DEF Next, StartUp, Handle, Register, Flush

(* Every step keeps what the stages of a canary request have established.  *)
LEMMA RequestStep ==
  ASSUME TypeOK, LockInv, EvidenceInv, RequestInv, RetentionInv, [Next]_vars
  PROVE  RequestInv'
<1> USE RequestsAssumption, TokensAssumption, SettingsAssumption, BoundsAssumption
    DEF TypeOK, Conns, Operators, Phases, Hits, NoHit, Idle, Quiet,
        vars, files, requests, boot, history, counters, LockInv, EvidenceInv, RequestInv, RetentionInv, ShouldLog
<1>1. CASE Tick
  BY <1>1 DEF Tick
<1>2. CASE Boot
  BY <1>2 DEF Boot
<1>3. CASE CreateHits
  BY <1>3 DEF CreateHits
<1>4. CASE MigrateHits
  BY <1>4 DEF MigrateHits
<1>5. CASE CreateTokens
  BY <1>5 DEF CreateTokens
<1>6. CASE PruneCutoff
  BY <1>6 DEF PruneCutoff
<1>7. CASE PruneDelete
  BY <1>7 DEF PruneDelete
<1>8. CASE PruneCommit
  BY <1>8 DEF PruneCommit
<1>9. CASE Crash
  BY <1>9 DEF Crash
<1>10. ASSUME NEW r \in Requests, NEW t \in Tokens, Arrive(r, t)
      PROVE  RequestInv'
  BY <1>10 DEF Arrive, Unserved
<1>11. ASSUME NEW r \in Requests, Check(r) PROVE RequestInv'
  BY <1>11 DEF Check, Unserved
<1>12. ASSUME NEW r \in Requests, CheckFails(r) PROVE RequestInv'
  BY <1>12 DEF CheckFails, Unserved
<1>13. ASSUME NEW r \in Requests, BuildHit(r) PROVE RequestInv'
  BY <1>13 DEF BuildHit, Unserved
<1>14. ASSUME NEW r \in Requests, InsertHit(r) PROVE RequestInv'
  BY <1>14 DEF InsertHit, Unserved, NextId
<1>15. ASSUME NEW r \in Requests, CommitHit(r) PROVE RequestInv'
  BY <1>15 DEF CommitHit, Unserved
<1>16. ASSUME NEW r \in Requests, RecordFails(r) PROVE RequestInv'
  BY <1>16 DEF RecordFails, Unserved
<1>17. ASSUME NEW r \in Requests, Respond(r) PROVE RequestInv'
  BY <1>17 DEF Respond, Unserved
<1>18. ASSUME NEW t \in Tokens, RegisterStart(t) PROVE RequestInv'
  BY <1>18 DEF RegisterStart, Unregistered
<1>19. CASE RegisterCreate
  BY <1>19 DEF RegisterCreate, Unregistered
<1>20. CASE RegisterInsert
  BY <1>20 DEF RegisterInsert, Unregistered
<1>21. CASE RegisterCommit
  BY <1>21 DEF RegisterCommit, Unregistered
<1>22. CASE RegisterFails
  BY <1>22 DEF RegisterFails, Unregistered
<1>23. ASSUME NEW keep \in BOOLEAN, FlushCount(keep) PROVE RequestInv'
  BY <1>23 DEF FlushCount, Unflushed
<1>24. CASE FlushHits
  BY <1>24 DEF FlushHits, AfterHits, Unflushed
<1>25. CASE FlushTokens
  BY <1>25 DEF FlushTokens, Unflushed
<1>26. CASE FlushCommit
  BY <1>26 DEF FlushCommit, Unflushed
<1>27. CASE FlushFails
  BY <1>27 DEF FlushFails, Unflushed
<1>28. CASE UNCHANGED vars
  BY <1>28
<1>29. QED
  BY <1>1, <1>2, <1>3, <1>4, <1>5, <1>6, <1>7, <1>8, <1>9, <1>10, <1>11,
     <1>12, <1>13, <1>14, <1>15, <1>16, <1>17, <1>18, <1>19, <1>20,
     <1>21, <1>22, <1>23, <1>24, <1>25, <1>26, <1>27, <1>28
  DEF Next, StartUp, Handle, Register, Flush

(* Every step keeps the cutoff of the prune a whole retention period in    *)
(* the past, and the hits of a serving process fresh.                      *)
LEMMA RetentionStep ==
  ASSUME TypeOK, RequestInv, RetentionInv, [Next]_vars
  PROVE  RetentionInv'
<1> USE RequestsAssumption, TokensAssumption, SettingsAssumption, BoundsAssumption
    DEF TypeOK, Conns, Operators, Phases, Hits, NoHit, Idle, Quiet,
        vars, files, requests, boot, history, counters, RequestInv, RetentionInv, FreshAfterBoot
<1>1. CASE Tick
  BY <1>1, SpanType DEF Tick
<1>2. CASE Boot
  BY <1>2, SpanType DEF Boot
<1>3. CASE CreateHits
  BY <1>3 DEF CreateHits
<1>4. CASE MigrateHits
  BY <1>4 DEF MigrateHits
<1>5. CASE CreateTokens
  BY <1>5 DEF CreateTokens
<1>6. CASE PruneCutoff
  <2>1. /\ Cutoff \in Int /\ Cutoff <= clock - RetentionSpan
        /\ clock - RetentionSpan - TicksPerDay < Cutoff
    BY MidnightBounds, SpanType DEF Cutoff
  <2>2. QED
    BY <1>6, <2>1, SpanType DEF PruneCutoff
<1>7. CASE PruneDelete
  BY <1>7 DEF PruneDelete
<1>8. CASE PruneCommit
  BY <1>8, SpanType DEF PruneCommit
<1>9. CASE Crash
  BY <1>9 DEF Crash
<1>10. ASSUME NEW r \in Requests, NEW t \in Tokens, Arrive(r, t)
      PROVE  RetentionInv'
  BY <1>10 DEF Arrive, Unserved
<1>11. ASSUME NEW r \in Requests, Check(r) PROVE RetentionInv'
  BY <1>11 DEF Check, Unserved
<1>12. ASSUME NEW r \in Requests, CheckFails(r) PROVE RetentionInv'
  BY <1>12 DEF CheckFails, Unserved
<1>13. ASSUME NEW r \in Requests, BuildHit(r) PROVE RetentionInv'
  BY <1>13 DEF BuildHit, Unserved
<1>14. ASSUME NEW r \in Requests, InsertHit(r) PROVE RetentionInv'
  BY <1>14 DEF InsertHit, Unserved, NextId
<1>15. ASSUME NEW r \in Requests, CommitHit(r) PROVE RetentionInv'
  BY <1>15, SpanType DEF CommitHit, Unserved
<1>16. ASSUME NEW r \in Requests, RecordFails(r) PROVE RetentionInv'
  BY <1>16 DEF RecordFails, Unserved
<1>17. ASSUME NEW r \in Requests, Respond(r) PROVE RetentionInv'
  BY <1>17 DEF Respond, Unserved
<1>18. ASSUME NEW t \in Tokens, RegisterStart(t) PROVE RetentionInv'
  BY <1>18 DEF RegisterStart, Unregistered
<1>19. CASE RegisterCreate
  BY <1>19 DEF RegisterCreate, Unregistered
<1>20. CASE RegisterInsert
  BY <1>20 DEF RegisterInsert, Unregistered
<1>21. CASE RegisterCommit
  BY <1>21 DEF RegisterCommit, Unregistered
<1>22. CASE RegisterFails
  BY <1>22 DEF RegisterFails, Unregistered
<1>23. ASSUME NEW keep \in BOOLEAN, FlushCount(keep) PROVE RetentionInv'
  BY <1>23 DEF FlushCount, Unflushed
<1>24. CASE FlushHits
  BY <1>24 DEF FlushHits, AfterHits, Unflushed
<1>25. CASE FlushTokens
  BY <1>25 DEF FlushTokens, Unflushed
<1>26. CASE FlushCommit
  BY <1>26 DEF FlushCommit, Unflushed
<1>27. CASE FlushFails
  BY <1>27 DEF FlushFails, Unflushed
<1>28. CASE UNCHANGED vars
  BY <1>28
<1>29. QED
  BY <1>1, <1>2, <1>3, <1>4, <1>5, <1>6, <1>7, <1>8, <1>9, <1>10, <1>11,
     <1>12, <1>13, <1>14, <1>15, <1>16, <1>17, <1>18, <1>19, <1>20,
     <1>21, <1>22, <1>23, <1>24, <1>25, <1>26, <1>27, <1>28
  DEF Next, StartUp, Handle, Register, Flush

(* Every step keeps what an open flush has deleted equal to what is there: *)
(* the write lock it holds keeps every other writer out.                   *)
LEMMA FlushStep ==
  ASSUME TypeOK, LockInv, FlushInv, [Next]_vars
  PROVE  FlushInv'
<1> USE DEF vars, files, requests, boot, history, counters, FlushInv
<1>1. CASE UNCHANGED <<flush, hits, tokens>>
  BY <1>1
<1>2. CASE PruneCommit
  <2>1. lock # "flush"
    BY <1>2 DEF PruneCommit, LockInv
  <2>2. QED
    BY <1>2, <2>1 DEF PruneCommit, LockInv
<1>3. ASSUME NEW r \in Requests, CommitHit(r) PROVE FlushInv'
  <2>1. lock # "flush"
    BY <1>3, RequestsAssumption DEF CommitHit, LockInv, Operators
  <2>2. QED
    BY <1>3, <2>1 DEF CommitHit, Unserved, LockInv
<1>4. CASE RegisterCommit
  <2>1. lock # "flush"
    BY <1>4 DEF RegisterCommit, LockInv
  <2>2. QED
    BY <1>4, <2>1 DEF RegisterCommit, Unregistered, LockInv
<1>5. CASE FlushCommit \/ FlushFails \/ \E keep \in BOOLEAN : FlushCount(keep)
  <2>1. CASE FlushCommit \/ FlushFails
    BY <2>1 DEF FlushCommit, FlushFails, Quiet
  <2>2. ASSUME NEW keep \in BOOLEAN, FlushCount(keep)
        PROVE  FlushInv'
    <3>1. flush' = [Quiet EXCEPT !.pc = "delete", !.keep = keep,
                                 !.count = Cardinality(hits)]
      BY <2>2 DEF FlushCount
    <3>2. flush'.pc = "delete" /\ flush'.tokens = {}
      BY <3>1 DEF Quiet
    <3>3. QED
      BY <3>2
  <2>3. QED
    BY <1>5, <2>1, <2>2
<1>6. CASE FlushHits
  <2>1. /\ flush'.pc = IF flush.keep THEN "commit" ELSE "tokens"
        /\ flush'.hits = hits /\ flush'.tokens = flush.tokens
        /\ flush'.keep = flush.keep
    BY <1>6 DEF FlushHits, AfterHits, TypeOK
  <2>2. flush.tokens = {} /\ UNCHANGED <<hits, tokens>>
    BY <1>6 DEF FlushHits
  <2>3. QED
    BY <2>1, <2>2
<1>7. CASE FlushTokens
  <2>1. /\ flush'.pc = "commit" /\ flush'.tokens = tokens
        /\ flush'.hits = flush.hits /\ flush'.keep = flush.keep
    BY <1>7 DEF FlushTokens, TypeOK
  <2>2. ~ flush.keep /\ flush.hits = hits /\ UNCHANGED <<hits, tokens>>
    BY <1>7 DEF FlushTokens
  <2>3. QED
    BY <2>1, <2>2
<1>8. CASE Crash
  BY <1>1, <1>8 DEF Crash
<1>9. ASSUME NEW r \in Requests,
             \/ Check(r) \/ CheckFails(r) \/ BuildHit(r) \/ InsertHit(r)
             \/ RecordFails(r) \/ Respond(r) \/ \E t \in Tokens : Arrive(r, t)
      PROVE  FlushInv'
  BY <1>1, <1>9 DEF Check, CheckFails, BuildHit, InsertHit, RecordFails,
                    Respond, Arrive, Unserved
<1>10. QED
  BY <1>1, <1>2, <1>3, <1>4, <1>5, <1>6, <1>7, <1>8, <1>9, OtherSteps
  DEF Handle, Flush

(* Every step keeps the stray hits, and the requests that can still add    *)
(* one, no more than the request slots: a request passes the registry      *)
(* check with a registered token only, and turns into a hit once.          *)
LEMMA StrayStep ==
  ASSUME TypeOK, FlushInv, StrayInv, [Next]_vars
  PROVE  StrayInv'
<1> SUFFICES ASSUME RequireRegistered
             PROVE  Cardinality(StrayHits') + Cardinality(Overtaken')
                      <= Cardinality(Requests)
  BY DEF StrayInv
<1> USE DEF vars, files, requests, boot, history, counters
<1>a. Cardinality(StrayHits) + Cardinality(Overtaken) <= Cardinality(Requests)
  BY DEF StrayInv
<1>b. /\ IsFiniteSet(StrayHits) /\ Cardinality(StrayHits) \in Nat
      /\ IsFiniteSet(Overtaken) /\ Cardinality(Overtaken) \in Nat
  <2>1. IsFiniteSet(hits) /\ StrayHits \subseteq hits
    BY DEF TypeOK, StrayHits
  <2>2. IsFiniteSet(Requests) /\ Overtaken \subseteq Requests
    BY RequestsAssumption DEF Overtaken
  <2>3. IsFiniteSet(StrayHits) /\ IsFiniteSet(Overtaken)
    BY <2>1, <2>2, FS_Subset
  <2>4. QED
    BY <2>3, FS_CardinalityType
<1>c. ASSUME StrayHits' \subseteq StrayHits, Overtaken' \subseteq Overtaken
      PROVE  Cardinality(StrayHits') + Cardinality(Overtaken')
               <= Cardinality(Requests)
  <2>1. /\ Cardinality(StrayHits') <= Cardinality(StrayHits)
        /\ Cardinality(Overtaken') <= Cardinality(Overtaken)
        /\ IsFiniteSet(StrayHits') /\ IsFiniteSet(Overtaken')
    BY <1>b, <1>c, FS_Subset
  <2>2. Cardinality(StrayHits') \in Nat /\ Cardinality(Overtaken') \in Nat
    BY <2>1, FS_CardinalityType
  <2>3. Cardinality(Requests) \in Nat
    BY RequestsAssumption, FS_CardinalityType
  <2>4. QED
    BY <1>a, <1>b, <2>1, <2>2, <2>3
<1>1. CASE UNCHANGED <<pc, hit, hits, tokens>>
  BY <1>1, <1>c DEF StrayHits, Overtaken
<1>2. CASE PruneCommit
  BY <1>2, <1>c DEF PruneCommit, StrayHits, Overtaken
<1>3. CASE Crash
  BY <1>3, <1>c DEF Crash, StrayHits, Overtaken
<1>4. ASSUME NEW r \in Requests, Check(r)
      PROVE  Cardinality(StrayHits') + Cardinality(Overtaken')
               <= Cardinality(Requests)
  <2>1. pc'[r] \in {"build", "insert", "commit"} => hit[r].token \in tokens
    BY <1>4 DEF Check, ShouldLog, TypeOK
  <2>2. UNCHANGED <<hit, hits, tokens>> /\ \A q \in Requests \ {r} : pc'[q] = pc[q]
    BY <1>4 DEF Check, Unserved, TypeOK
  <2>3. QED
    BY <1>c, <2>1, <2>2 DEF StrayHits, Overtaken
<1>5. ASSUME NEW r \in Requests,
             \/ CheckFails(r) \/ BuildHit(r) \/ InsertHit(r) \/ RecordFails(r)
             \/ Respond(r) \/ \E t \in Tokens : Arrive(r, t)
      PROVE  Cardinality(StrayHits') + Cardinality(Overtaken')
               <= Cardinality(Requests)
  <2>1. /\ UNCHANGED <<hits, tokens>>
        /\ \A q \in Requests \ {r} : pc'[q] = pc[q] /\ hit'[q] = hit[q]
    BY <1>5 DEF CheckFails, BuildHit, InsertHit, RecordFails, Respond, Arrive,
                Unserved, TypeOK
  <2>2. pc'[r] \in {"build", "insert", "commit"} =>
          /\ pc[r] \in {"build", "insert", "commit"}
          /\ hit'[r].token = hit[r].token
    BY <1>5 DEF CheckFails, BuildHit, InsertHit, RecordFails, Respond, Arrive,
                TypeOK, Hits
  <2>3. QED
    BY <1>c, <2>1, <2>2 DEF StrayHits, Overtaken
<1>6. ASSUME NEW r \in Requests, CommitHit(r)
      PROVE  Cardinality(StrayHits') + Cardinality(Overtaken')
               <= Cardinality(Requests)
  <2>1. /\ pc[r] = "commit" /\ pc'[r] = "respond"
        /\ hits' = hits \cup {hit[r]} /\ UNCHANGED <<tokens, hit>>
        /\ \A q \in Requests \ {r} : pc'[q] = pc[q]
    BY <1>6 DEF CommitHit, Unserved, TypeOK
  <2>2. CASE hit[r].token \in tokens
    BY <1>c, <2>1, <2>2 DEF StrayHits, Overtaken
  <2>3. CASE hit[r].token \notin tokens
    <3>1. StrayHits' = StrayHits \cup {hit[r]}
      BY <2>1, <2>3 DEF StrayHits
    <3>2. r \in Overtaken /\ Overtaken' = Overtaken \ {r}
      BY <2>1, <2>3 DEF Overtaken
    <3>3. Cardinality(StrayHits') \in {Cardinality(StrayHits), Cardinality(StrayHits) + 1}
      BY <1>b, <3>1, FS_AddElement
    <3>4. Cardinality(Overtaken') = Cardinality(Overtaken) - 1
      BY <1>b, <3>2, FS_RemoveElement
    <3>5. Cardinality(Requests) \in Nat
      BY RequestsAssumption, FS_CardinalityType
    <3>6. QED
      BY <1>a, <1>b, <3>3, <3>4, <3>5
  <2>4. QED
    BY <2>2, <2>3
<1>7. CASE RegisterCommit
  BY <1>7, <1>c DEF RegisterCommit, Unregistered, StrayHits, Overtaken
<1>8. CASE FlushCommit
  <2>1. StrayHits' = {} /\ Overtaken' \subseteq Requests
    BY <1>8 DEF FlushCommit, FlushInv, StrayHits, Overtaken
  <2>2. /\ Cardinality(StrayHits') = 0
        /\ Cardinality(Overtaken') <= Cardinality(Requests)
        /\ IsFiniteSet(Overtaken')
    BY <2>1, RequestsAssumption, FS_EmptySet, FS_Subset
  <2>3. Cardinality(Overtaken') \in Nat /\ Cardinality(Requests) \in Nat
    BY <2>2, RequestsAssumption, FS_CardinalityType
  <2>4. QED
    BY <2>2, <2>3
<1>9. CASE \/ FlushHits \/ FlushTokens \/ FlushFails
           \/ \E keep \in BOOLEAN : FlushCount(keep)
  BY <1>1, <1>9 DEF FlushHits, FlushTokens, FlushFails, FlushCount, Unflushed
<1>10. QED
  BY <1>1, <1>2, <1>3, <1>4, <1>5, <1>6, <1>7, <1>8, <1>9, OtherSteps
  DEF Handle, Flush

(* The type invariant and the safety invariants hold in every behaviour.   *)
THEOREM Invariance == Spec => []IInv
<1>1. Init => IInv
  <2> SUFFICES ASSUME Init PROVE IInv
    OBVIOUS
  <2>1. TypeOK
    <3>1. IsFiniteSet({})
      BY FS_EmptySet
    <3>2. tokensTable \in BOOLEAN
      BY DEF Init
    <3>3. QED
      BY <3>1, <3>2
      DEF Init, TypeOK, Conns, Operators, Phases, Hits, NoHit, Idle, Quiet
  <2>2. LockInv
    BY RequestsAssumption DEF Init, LockInv, Operators, Idle, Quiet
  <2>3. SchemaInv /\ EvidenceInv /\ RequestInv /\ RetentionInv
    BY DEF Init, SchemaInv, EvidenceInv, UniqueIds, KnownTokensOnly,
           RequestInv, RetentionInv, FreshAfterBoot
  <2>4. FlushInv
    BY DEF Init, FlushInv, Quiet
  <2>5. StrayInv
    <3>1. StrayHits = {} /\ Overtaken = {}
      BY DEF Init, StrayHits, Overtaken
    <3>2. Cardinality(StrayHits) = 0 /\ Cardinality(Overtaken) = 0
      BY <3>1, FS_EmptySet
    <3>3. Cardinality(Requests) \in Nat
      BY RequestsAssumption, FS_CardinalityType
    <3>4. QED
      BY <3>2, <3>3 DEF StrayInv
  <2>6. QED
    BY <2>1, <2>2, <2>3, <2>4, <2>5 DEF IInv
<1>2. IInv /\ [Next]_vars => IInv'
  BY TypeStep, LockStep, SchemaStep, EvidenceStep, RequestStep, RetentionStep,
     FlushStep, StrayStep
  DEF IInv
<1>3. QED
  BY <1>1, <1>2, PTL DEF Spec

(* Type correctness of CanaryTrap for every value of its constants.        *)
THEOREM TypeCorrect == Spec => []TypeOK
<1>1. IInv => TypeOK
  BY DEF IInv
<1>2. QED
  BY <1>1, Invariance, PTL

(* Row ids never repeat, over flushes, prunes, rollbacks and crashes.      *)
THEOREM IdsUnique == Spec => []UniqueIds
<1>1. IInv => UniqueIds
  BY DEF IInv, EvidenceInv
<1>2. QED
  BY <1>1, Invariance, PTL

(* No hit is stored for a token that was never registered.                 *)
THEOREM TokensKnown == Spec => []KnownTokensOnly
<1>1. IInv => KnownTokensOnly
  BY DEF IInv, EvidenceInv
<1>2. QED
  BY <1>1, Invariance, PTL

(* What the router takes for logged was committed.                         *)
THEOREM LoggedStored == Spec => []LoggedMeansStored
<1>1. IInv => LoggedMeansStored
  BY DEF IInv, RequestInv, LoggedMeansStored
<1>2. QED
  BY <1>1, Invariance, PTL

(* A serving process has the whole schema, whatever crashes preceded.      *)
THEOREM SchemaComplete == Spec => []SchemaReady
<1>1. IInv => SchemaReady
  BY DEF IInv, SchemaInv, SchemaReady
<1>2. QED
  BY <1>1, Invariance, PTL

(* However flushes and requests race, no more hits of unregistered tokens  *)
(* are stored than there are request slots.                                *)
THEOREM StrayBounded == Spec => []StrayHitsBounded
<1>1. IInv => StrayHitsBounded
  <2> SUFFICES ASSUME IInv, RequireRegistered
               PROVE  Cardinality(StrayHits) <= Cardinality(Requests)
    BY DEF StrayHitsBounded
  <2>1. Cardinality(StrayHits) + Cardinality(Overtaken) <= Cardinality(Requests)
    BY DEF IInv, StrayInv
  <2>2. IsFiniteSet(hits) /\ StrayHits \subseteq hits
    BY DEF IInv, TypeOK, StrayHits
  <2>3. Overtaken \subseteq Requests
    BY DEF Overtaken
  <2>4. IsFiniteSet(StrayHits) /\ IsFiniteSet(Overtaken)
    BY <2>2, <2>3, RequestsAssumption, FS_Subset
  <2>5. /\ Cardinality(StrayHits) \in Nat /\ Cardinality(Overtaken) \in Nat
        /\ Cardinality(Requests) \in Nat
    BY <2>4, RequestsAssumption, FS_CardinalityType
  <2>6. QED
    BY <2>1, <2>5
<1>2. QED
  BY <1>1, Invariance, PTL

(* No hit stored while serving had outlived its retention at start-up.     *)
THEOREM BootFresh == Spec => []FreshAfterBoot
<1>1. IInv => FreshAfterBoot
  BY DEF IInv, RetentionInv
<1>2. QED
  BY <1>1, Invariance, PTL

-----------------------------------------------------------------------------
(* Steps.                                                                  *)

(* Only PruneCommit and FlushCommit lose hits.                             *)
LEMMA Removals ==
  ASSUME [Next]_vars
  PROVE  PruneCommit \/ FlushCommit \/ hits \subseteq hits'
<1> USE DEF vars, files, requests, boot, history, counters
<1>1. CASE Tick \/ Boot \/ CreateHits \/ MigrateHits \/ CreateTokens
            \/ PruneCutoff \/ PruneDelete \/ Crash
  BY <1>1 DEF Tick, Boot, CreateHits, MigrateHits, CreateTokens, PruneCutoff,
              PruneDelete, Crash
<1>2. ASSUME NEW r \in Requests, Handle(r) \/ \E t \in Tokens : Arrive(r, t)
      PROVE  hits \subseteq hits'
  BY <1>2 DEF Handle, Arrive, Check, CheckFails, BuildHit, InsertHit, CommitHit,
              RecordFails, Respond, Unserved
<1>3. CASE Register \/ \E t \in Tokens : RegisterStart(t)
  BY <1>3 DEF Register, RegisterStart, RegisterCreate, RegisterInsert,
              RegisterCommit, RegisterFails, Unregistered
<1>4. CASE \/ FlushHits \/ FlushTokens \/ FlushFails
           \/ \E keep \in BOOLEAN : FlushCount(keep)
  BY <1>4 DEF FlushHits, FlushTokens, FlushFails, FlushCount, Unflushed
<1>5. CASE UNCHANGED vars
  BY <1>5
<1>6. QED
  BY <1>1, <1>2, <1>3, <1>4, <1>5 DEF Next, StartUp, Flush

(* Evidence younger than the retention period leaves only in a flush.      *)
THEOREM RetentionKept == Spec => KeptForRetention
<1>1. ASSUME IInv, [Next]_vars, NEW h \in hits \ hits'
      PROVE  \/ flush.pc = "commit"
             \/ RetentionDays > 0 /\ clock - h.at > RetentionSpan
  <2>1. CASE PruneCommit
    <3>1. h.at < cutoff /\ h.at \in Nat
      BY <1>1, <2>1 DEF PruneCommit, IInv, TypeOK, Hits
    <3>2. RetentionDays > 0 /\ cutoff <= clock - RetentionSpan
      BY <1>1, <2>1 DEF PruneCommit, IInv, RetentionInv
    <3>3. clock \in Nat /\ cutoff \in Int
      BY <1>1 DEF IInv, TypeOK
    <3>4. QED
      BY <3>1, <3>2, <3>3, SpanType
  <2>2. CASE FlushCommit
    BY <2>2 DEF FlushCommit
  <2>3. QED
    BY <1>1, <2>1, <2>2, Removals
<1>2. IInv /\ [Next]_vars =>
        [\A h \in hits \ hits' :
           \/ flush.pc = "commit"
           \/ RetentionDays > 0 /\ clock - h.at > RetentionSpan]_vars
  BY <1>1
<1>3. QED
  BY <1>2, Invariance, PTL DEF Spec, KeptForRetention



-----------------------------------------------------------------------------
(* Refinement: every step of the service is a step of the abstract log or  *)
(* leaves it alone.                                                        *)
LEMMA LogStep ==
  ASSUME IInv, [Next]_vars
  PROVE  [Log!Next]_(Log!vars)
<1> USE DEF vars, files, requests, boot, history, counters, Log!vars
<1>1. CASE Tick
  BY <1>1 DEF Tick, Log!Next, Log!Pass
<1>2. CASE PruneCommit
  <2>1. ASSUME NEW h \in hits \ hits' PROVE Log!Expired(h)
    <3>1. h.at < cutoff /\ h.at \in Nat
      BY <1>2, <2>1 DEF PruneCommit, IInv, TypeOK, Hits
    <3>2. RetentionDays > 0 /\ cutoff <= clock - RetentionSpan
      BY <1>2 DEF PruneCommit, IInv, RetentionInv
    <3>3. clock \in Nat /\ cutoff \in Int
      BY DEF IInv, TypeOK
    <3>4. QED
      BY <3>1, <3>2, <3>3, SpanType DEF Log!Expired
  <2>2. Log!Expire
    BY <1>2, <2>1 DEF PruneCommit, Log!Expire
  <2>3. QED
    BY <2>2 DEF Log!Next
<1>3. CASE FlushCommit
  BY <1>3 DEF FlushCommit, Unflushed, IInv, FlushInv, Log!Next, Log!Wipe
<1>4. CASE RegisterCommit
  <2>1. reg.token \in Tokens
    BY <1>4, TokensAssumption DEF RegisterCommit, IInv, TypeOK, Idle
  <2>2. Log!Learn(reg.token)
    BY <1>4 DEF RegisterCommit, Unregistered, Log!Learn
  <2>3. QED
    BY <2>1, <2>2 DEF Log!Next
<1>5. ASSUME NEW r \in Requests, CommitHit(r)
      PROVE  Log!Next
  <2> DEFINE t == hit[r].token
  <2> DEFINE at == hit[r].at
  <2>1. t \in Tokens /\ at \in 0..clock
    BY <1>5 DEF CommitHit, IInv, TypeOK, RequestInv, Hits
  <2>2. RequireRegistered => t \in known
    BY <1>5 DEF CommitHit, IInv, RequestInv
  <2>3. hit[r] = [id |-> seq + 1, token |-> t, at |-> at]
    BY <1>5 DEF CommitHit, IInv, TypeOK, RequestInv, Hits
  <2>4. Log!Note(t, at)
    BY <1>5, <2>2, <2>3 DEF CommitHit, Unserved, Log!Note
  <2>5. QED
    BY <2>1, <2>4 DEF Log!Next
<1>6. CASE Boot \/ CreateHits \/ MigrateHits \/ CreateTokens \/ PruneCutoff
             \/ PruneDelete \/ Crash
  BY <1>6 DEF Boot, CreateHits, MigrateHits, CreateTokens, PruneCutoff,
              PruneDelete, Crash
<1>7. ASSUME NEW r \in Requests,
             \/ Check(r) \/ CheckFails(r) \/ BuildHit(r) \/ InsertHit(r)
             \/ RecordFails(r) \/ Respond(r) \/ \E t \in Tokens : Arrive(r, t)
      PROVE  UNCHANGED Log!vars
  BY <1>7 DEF Arrive, Check, CheckFails, BuildHit, InsertHit, RecordFails,
              Respond, Unserved
<1>8. CASE \/ RegisterCreate \/ RegisterInsert \/ RegisterFails
           \/ \E t \in Tokens : RegisterStart(t)
  BY <1>8 DEF RegisterStart, RegisterCreate, RegisterInsert, RegisterFails,
              Unregistered
<1>9. CASE \/ FlushHits \/ FlushTokens \/ FlushFails
           \/ \E keep \in BOOLEAN : FlushCount(keep)
  BY <1>9 DEF FlushHits, FlushTokens, FlushFails, FlushCount, Unflushed
<1>10. CASE UNCHANGED vars
  BY <1>10
<1>11. QED
  BY <1>1, <1>2, <1>3, <1>4, <1>5, <1>6, <1>7, <1>8, <1>9, <1>10
  DEF Next, StartUp, Handle, Register, Flush

(* The service implements the abstract log of CanaryLog.                   *)
THEOREM LogImplemented == Spec => ImplementsLog
<1>1. Init => Log!Init
  BY DEF Init, Log!Init
<1>2. IInv /\ [Next]_vars => [Log!Next]_(Log!vars)
  BY LogStep
<1>3. QED
  BY <1>1, <1>2, Invariance, PTL DEF Spec, ImplementsLog, Log!Spec
=============================================================================
