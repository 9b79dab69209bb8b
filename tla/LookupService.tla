---------------------------- MODULE LookupService ----------------------------
(***************************************************************************)
(* What an OSINT request is promised, without cache, tasks or upstreams:   *)
(* each lookup it asks for is reported once, those of an entity in their   *)
(* order, nothing else is, and then the request is answered.               *)
(***************************************************************************)
EXTENDS Integers

CONSTANTS
  Jobs,      \* slots of concurrent requests
  Lookups    \* <<entity, n>> is the n-th lookup of an entity

VARIABLES
  busy,      \* busy[q]: is there a request in slot q?
  wanted,    \* wanted[q]: the lookups it asks for
  told       \* told[q]: those reported so far

vars == <<busy, wanted, told>>

Init ==
  /\ busy = [q \in Jobs |-> FALSE]
  /\ wanted = [q \in Jobs |-> {}]
  /\ told = [q \in Jobs |-> {}]

Accept(q) ==
  /\ ~ busy[q]
  /\ busy' = [busy EXCEPT ![q] = TRUE]
  /\ wanted'[q] \subseteq Lookups
  /\ wanted' = [wanted EXCEPT ![q] = wanted'[q]]
  /\ UNCHANGED told

InTurn(q, l) == \A m \in wanted[q] : m[1] = l[1] /\ m[2] < l[2] => m \in told[q]

Report(q, l) ==
  /\ busy[q]
  /\ l \in wanted[q] \ told[q] /\ InTurn(q, l)
  /\ told' = [told EXCEPT ![q] = @ \cup {l}]
  /\ UNCHANGED <<busy, wanted>>

Answer(q) ==
  /\ busy[q] /\ told[q] = wanted[q]
  /\ busy' = [busy EXCEPT ![q] = FALSE]
  /\ wanted' = [wanted EXCEPT ![q] = {}]
  /\ told' = [told EXCEPT ![q] = {}]

Next == \E q \in Jobs : Accept(q) \/ Answer(q) \/ \E l \in Lookups : Report(q, l)

Safety == Init /\ [][Next]_vars

Spec == Safety /\ \A q \in Jobs : busy[q] ~> ~ busy[q]
=============================================================================
