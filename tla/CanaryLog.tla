------------------------------ MODULE CanaryLog ------------------------------
(***************************************************************************)
(* What the canary service promises an investigator, without processes,    *)
(* transactions or tables: a log of hits in which every entry has a fresh  *)
(* id and a token somebody registered, and from which entries leave only   *)
(* by growing old or in a wipe of the whole log.                           *)
(***************************************************************************)
EXTENDS Integers

CONSTANTS Tokens, RequireRegistered, RetentionSpan

VARIABLES
  log,     \* entries an investigator can list
  last,    \* highest id ever given
  known,   \* tokens ever registered
  now

vars == <<log, last, known, now>>

Init == log = {} /\ last = 0 /\ known = {} /\ now = 0

Pass ==
  /\ now' = now + 1
  /\ UNCHANGED <<log, last, known>>

Learn(t) ==
  /\ known' = known \cup {t}
  /\ UNCHANGED <<log, last, now>>

Note(t, at) ==
  /\ RequireRegistered => t \in known
  /\ last' = last + 1
  /\ log' = log \cup {[id |-> last', token |-> t, at |-> at]}
  /\ UNCHANGED <<known, now>>

Expired(h) == RetentionSpan > 0 /\ now - h.at > RetentionSpan

Expire ==
  /\ log' \subseteq log
  /\ \A h \in log \ log' : Expired(h)
  /\ UNCHANGED <<last, known, now>>

Wipe ==
  /\ log' = {}
  /\ UNCHANGED <<last, known, now>>

Next ==
  \/ Pass \/ Expire \/ Wipe
  \/ \E t \in Tokens : Learn(t) \/ \E at \in 0..now : Note(t, at)

Spec == Init /\ [][Next]_vars
=============================================================================
