# A verification of Norwegian Honey

TLA+ models of the phishing-investigation toolkit in this repository, checked
with TLC on small instances, and theorems, proved with TLAPS for instances of
any size. Every safety property and action property a passing run checks is
also a theorem.

    tlc -config Trap_service.cfg MCCanaryTrap     # any run of PROJECT.json
    tlapm CanaryTrapProofs.tla                    # the proofs
    tlapm OsintCacheProofs.tla
    tlapm InfluxTrapProofs.tla
    tlapm PositionLemmas.tla                      # lemmas the next ones cite
    tlapm SumLemmas.tla
    tlapm ThreatScoreProofs.tla
    tlapm OsintAggregateProofs.tla
    tlapm EvidencePipelineProofs.tla

## The system

An investigator embeds *canary* links in mail to a suspected scammer. The API
process serves decoys for them and logs every hit, to SQLite or, if so
configured, to InfluxDB. Apart from that it analyses mail headers, looks up
entities at public sources (OSINT), groups the hits into an investigation and
scores all of it into a threat report.

| Component | State | Operations | Talks to |
|---|---|---|---|
| Canary trap (`routers/canary.py`, `services/canary/`, `main.py`) | tables `canary_hits`, `canary_tokens` | start-up (create, migrate, registry, prune), check / insert / commit of a hit, decoy | the SQLite file |
| Operator scripts (`register_`, `flush_`, `generate_`) | the same file, from processes of their own | register a token, flush hits and tokens | the SQLite file |
| Influx storage (`InfluxCanaryStorage`) | points of a bucket, in another process | write over HTTP with a timeout | InfluxDB |
| Client address (`core/client_ip.py`, `deploy/Caddyfile`) | none | choose among two headers and the socket | canary trap |
| OSINT cache (`core/cache.py`) | bounded TTL store | get, set, evict | aggregator |
| Aggregator (`services/osint/`) | none of its own | deduplicate, cap, three gathers of lookups | cache, ipinfo, AbuseIPDB, WHOIS |
| Header evaluator (`header_evaluator.py`, `auth_checks.py`) | none | anomalies, extracted entities | DNS |
| Investigation (`canary_investigation.py`, `list_hits`) | exported JSON | list, group by IP, role per IP | SQLite, aggregator |
| Scorer and plan (`threat_scorer.py`, `threat_action_plan.py`) | none | findings, score, verdict, actions, merge | the three above |
| Routers, export script, CLI | JSON files the investigator keeps | analyze, export, score | all of the above |
| API key, body limit, JSON documents, visualisation, assets, deployment | – | – | not modelled, see below |

What is hard here, and where the models look (PROJECT.json lists it line by
line): several connections and processes share one SQLite file without a
transaction around *check, then insert*; start-up commits statement by
statement and may be cut short; retention is a date computation that runs once
per start; lookups interleave between a cache miss and the store of its answer;
any lookup may fail and its failure travels on as data; a write to InfluxDB may
be applied after the service gave up on it; evidence is exported, truncated,
merged and scored at different times.

What makes each component correct: the trap logs each hit of a registered token
once, under an id that never repeats, keeps it for the retention period and
always answers; over InfluxDB it leaves at most one point per request and loses
none it took for recorded; behind Caddy a hit bears the visitor's address whatever
headers came with it, and without Caddy only under the conditions `Attributed`
states; the cache never outgrows its capacity and serves nothing stale or failed;
the aggregator reports one result per lookup, bounds its upstream calls and always
answers; the investigation accounts for every hit; an outage of ipinfo or AbuseIPDB
adds nothing to a report, but for a client it makes look automated, and a DNS outage
adds little. A failed WHOIS lookup *is* held against the domain.

## Modules

| Module | Models |
|---|---|
| `CanaryTrap` | the trap service and the scripts, one action per statement that takes or releases SQLite's write lock |
| `CanaryLog` | what the trap promises, without processes, transactions or tables |
| `CanaryTrapProofs` | the inductive invariant of `CanaryTrap`, its theorems, and that it implements `CanaryLog` |
| `ClientAddress` | the address a hit gets, as operators, and what Caddy makes of a visit |
| `InfluxTrap` | the trap service over InfluxDB: requests, writes in flight, the bucket |
| `InfluxTrapProofs` | the inductive invariant of `InfluxTrap` and its theorems |
| `OsintCache` | the TTL cache and the read-through lookup of concurrent tasks |
| `OsintCacheProofs` | the inductive invariant of `OsintCache` and its theorems |
| `OsintAggregate` | `aggregate_osint`: requests of lanes of lookups over `OsintCache` |
| `LookupService` | what a lookup request is promised, without cache, tasks or upstreams |
| `OsintAggregateProofs` | the inductive invariant of `OsintAggregate`, its theorems, and the safety part of its refinement of `LookupService` |
| `SortedSeq` | sequences in a given order and selections from them, as operators |
| `HeaderAnalysis` | a message's anomalies and extracted entities, as operators |
| `Investigation` | listing, profiles, roles and the engagement bonus, as operators |
| `ThreatScore` | findings, score, verdict, plan and merge, as operators |
| `EvidencePipeline` | the case of an investigator: hits arrive, a message is analysed, an investigation exported by router or script, a report made by router or CLI |
| `ThreatScoreProofs` | what the operators of `ThreatScore` and `Investigation` compute for any analysis and any hits |
| `EvidencePipelineProofs` | the inductive invariant of `EvidencePipeline` and its theorems |
| `PositionLemmas`, `SumLemmas` | facts about positions in sequences and about sums over finite sets those proofs need |
| `MC*` | instances for TLC |

A definition whose name has a suffix after an underscore (`Cutoff_DayLate`) is a
plausible faulty variant of the one it is named after. It is in no
specification: it is there to show that a property notices the fault.

### How state and actions correspond to the code

*CanaryTrap.* `hitsTable`, `tokensTable`, `hits`, `tokens` and `seq` are
the committed database. Rows of an open transaction are in the local state of
their connection (`hit[r]`, `reg`, `flush`), which is why a crash or an error
rolls back by forgetting. `lock` is the write lock: DDL that has work to do and
every first write wait until it is free. Python's `sqlite3` opens a transaction
before a write statement and not before DDL or SELECT, so `CREATE` and `ALTER`
commit on their own, and so does the flush script's `COUNT`. `pc[r]` follows
`_canary_handler`: check, build, insert, commit, respond; `outcome[r]` is what
the router believes became of the hit. The `except Exception` of the router and
of the registry check are the actions `RecordFails` and `CheckFails`, enabled
wherever the code may raise. A failing or killed script is `RegisterFails` or
`FlushFails`. The flush's two `DELETE`s are steps of their own: the rows they took
wait in `flush.hits` and `flush.tokens` for `FlushCommit`. `CREATE TABLE` and the
`CREATE INDEX`es behind it are one step, since no index changes what is stored.
`evidence`, `known` and `bootedAt` are history variables.

*InfluxTrap.* `wire` holds the writes Influx has not handled, whoever sent them
and whether or not anyone still waits; `Apply` may come after `RecordFails` (the
timeout of `httpx`) or after `Crash`. `bucket` is keyed by `Identity`, the tags
and the time of a point: a point of the same identity replaces the other, which
is what InfluxDB does. `no` numbers the requests and is in no point. `clock`
counts microseconds, the resolution of `datetime.now`; that no two hits have the
same one is assumed (one event loop builds them in turn, and the wall clock is
taken not to be set back). `Stamp` multiplies in exact integers; the code does so
in a float whose spacing of 256 ns at today's dates keeps microseconds apart. A
quote in the user agent is the only content that decides anything: `Accepts`.

*ClientAddress.* Values are opaque; `Parse` is `_parse_ip`, which takes ports and
brackets off and maps what is no address to `Unknown`. A visit comes through Caddy,
which replaces both headers, directly to the API's port, or through a chain of
proxies that append. The last two are not the documented deployment: there the code
believes a header the visitor forged, as the model does.

*OsintCache.* `get` and `set` never await under their lock: each is one step.
The await is between `Miss` and `Answer` or `Fail`. An answer is
abstracted to the time it arrived and whether it is a failure reported as data
(`Lenient` keys: the WHOIS client never raises).

*OsintAggregate.* A lane is one `_enrich_*` coroutine; `stage` is the gather a
request awaits; `out` is what the lanes have noted. `Service` maps these to
`LookupService`: lookup `<<e, n>>` counts as told once the lane of `e` has noted
`n` results.

*EvidencePipeline.* `analysis` and `inv` are the documents the investigator
keeps. What a source says of an entity is a constant; whether a lookup was
answered is chosen anew for each enrichment, per source, up to `MaxFailures`
failures. `Export` is the router's, which cuts the list of IPs and always reads
`ListLimit` hits; `ExportByScript` has the limit of its option, passes all IPs,
and sets `raised` if they exceed `MaxRequest`, the length the request model
accepts. `ScoreByCli` never has an investigation. A report keeps the
investigation it was made with. `Record` may store a hit up to `Lag` ticks after
its timestamp, because the timestamp is taken before the write lock. The points,
weights and bands are those of the source; an exact half is rounded either way,
since the source rounds a sum of binary floats. `InOrder` is the `ORDER BY` of
`list_hits`; `Picked` is what a pass over a list keeps of it, as the grouping by
IP does. Profiles stand in the order in which their IPs first appear: the source
sorts them by first hit, which for a timeline in order is the same.

## Runs

| Run | Question | Bounds |
|---|---|---|
| `Trap_service` | ids, known tokens, logged hits, schema in every interleaving; every request is answered; the process comes back | 2 request slots, 2 requests, 1 good and 1 malformed token, 2 clock values, 1 crash, fairness |
| `Trap_retention` | what the midnight cutoff keeps and removes; how many hits of unknown tokens flushes can leave; refinement of `CanaryLog`; the inductive invariant | 1 slot, 2 requests, 2 ticks a day, 5 ticks, 1 day retention, 1 crash |
| `Osint_cache` | capacity, eviction, expiry, failures | 2 tasks, 3 keys (one lenient), capacity 2, TTL 1, 5 clock values |
| `Osint_aggregate` | complete replies, bounded upstream calls; refinement of `LookupService`, the answer included | 2 requests at a time, 1 IP or 3 domains (one repeated) and 1 email, cap 2, cache of 1, fairness |
| `Evidence_hits` | profiles, the LIMIT, the bonus | 3 hits of 3 IPs and 2 kinds of agents, LIMIT 2 (router) or 3 (script), at most 2 IPs per request, timestamps 1 or 2, late by 1 |
| `Evidence_reports` | score range, two categories for *high*, outages of sources and of DNS, plans that contradict their canary findings | 2 hits, 4 messages, any one source down per enrichment, SPF and DMARC lookups up or down each |
| `Influx_trap` | logged hits stay, one point per request, the address of a hit, every request is answered | 2 request slots, 2 requests, 7 visits (through Caddy with forged headers, directly, and through a chain with every kind of hop), 1 crash, Influx down or losing writes at any time, fairness |

Why these bounds are enough. Races for the lock need two requests and a script;
a third request would only wait as the second does. The settings without
registry, without retention and without trusted proxy headers are not run: the
theorems cover them. A restart in the middle of start-up needs one crash, which
leaves every prefix of the start-up behind. Off-by-one errors of the cutoff show
with two ticks a day and two days past the retention. Two hits suffice for one
point to replace another, one crash for a write that outlives its sender. A
cache of two, three keys and two tasks contain eviction among entries of
different ages, two lookups of one key in flight, and both sides of the expiry
boundary. In the pipeline the IPs and messages are chosen so that every finding,
role and verdict band except those that differ in points only occurs; one
failing source suffices because findings of different sources are independent.
The request model accepts ten entities; the instances say two or ten, and where
it is two the script meets the limit with three IPs as it does with eleven.
`CHECK_DEADLOCK FALSE` appears where the number of accepted requests is bounded
and the instance really stops; elsewhere TLC checks for deadlock too.

### Claims the code does not keep

Each of these runs checks one property that restates a line of the code or its
documentation, and TLC finds a counterexample. PROJECT.json quotes the lines.

| Run | Claim | What happens |
|---|---|---|
| `Trap_retention_doc` | hits are pruned after the retention period | only at start-up |
| `Trap_flush_race` | only known tokens produce hits | a flush between check and insert |
| `Claim_merge` | the secondary response fills gaps | not those left by failures |
| `Claim_focus` | entities are collected for OSINT | hops are not, given an X-Originating-IP |
| `Claim_export` | `--run-osint` looks up the unique IPs | with more than ten it raises and exports nothing |

### Observed while modelling

The models do what the code does in these places too; no run is spent on them.

- The flush script counts the rows before its transaction begins
  (`scripts/flush_canary_db.py:23`), so a hit committed in between is deleted
  and missing from the count it prints (`:33`).
- The WHOIS client answers its own failure as data (`whois_client.py:38`), which
  the cache keeps for a whole TTL. `OsintCache` names such keys `Lenient`, and
  `FailuresNotServed` is about the others.
- Hits from several countries add to the score only inside the human and
  automation pattern (`threat_scorer.py:510`); the finding of its own is in a
  category of weight 0. `README.md:134` counts them as a pattern.
- The plan of a low verdict with a canary pattern holds an immediate item
  (`threat_action_plan.py:199`) next to "No immediate action required" (`:116`).
  `CalmOnlyIfPatternWeak` says how strong that pattern may be.
- A DNS failure is reported as a missing SPF or DMARC record
  (`auth_checks.py:106`, `header_evaluator.py:135`). `OutageMovesScoreLittle`
  bounds the harm.
- A WHOIS failure, an error or `found: False`, is scored like a domain without
  registration (`threat_scorer.py:386`), and the finding says so (`:394`).
- Without ipinfo a mobile client with a scripted user agent, human otherwise,
  counts as automation (`canary_investigation.py:78`): a bonus of 8 and the uplift of
  its AbuseIPDB reports where there would be none. `OutageNeverAdds` excepts exactly
  such a hitter (`Misjudged`).
- The message of the human-then-automation finding speaks of an order
  (`threat_scorer.py:565`); the finding depends on the set of roles (`:557`).
- `docker-compose.yml:9` sets `CANARY_STORAGE: sqlite` in `environment`, which
  takes precedence over the `.env` its line 22 says to use for InfluxDB.
- Influx: retention is said to be configured at the bucket (`storage.py:220`), and
  the compose file configures none; a quote in user agent or referer makes the
  line invalid and the hit is dropped without a trace (`storage.py:197`);
  `list_hits` raises (`:230`), and the flush script knows SQLite only. The decoy
  of a hit waits for the write, up to its timeout (`:208`).
- Reply-To and From are compared with their display names
  (`header_evaluator.py:178`), and the message speaks of addresses (`:183`).

### Fairness

`CanaryTrap!FairSpec`: weak fairness of start-up (the container restarts a dead
process and the lifespan runs on), of each request's handler (the event loop
resumes every coroutine; an insert that cannot get the lock times out, which is
`RecordFails`) and of the scripts (a process that runs ends). Nothing is assumed
of arrivals, crashes, or of which process gets the lock. `BootsAgain` therefore
assumes that scripts leave the lock alone in the end: without it a stream of
scripts can starve start-up, in the model as in SQLite.
`OsintAggregate!FairSpec`: weak fairness of each lane and of each gather; HTTP
clients have a timeout and `python-whois` returns or raises.
`InfluxTrap!FairSpec`: weak fairness of each request's handler, whose wait ends
in an answer or in the timeout. Nothing is asked of InfluxDB or of the network.

## Proofs

All theorems hold for every value of the constants that meets the named
assumptions in the modules (`TokensAssumption`, `SettingsAssumption`,
`CacheAssumption` and so on), which TLC evaluates on the runs.

*CanaryTrap.* None of the safety properties is inductive by itself. That a hit
taken for logged was committed, or that an id is fresh, depends on who holds the
lock (`LockInv`: a connection holds it exactly while its transaction has written
and not committed), since `InsertHit` picks `seq + 1` and only the lock keeps
`seq` still until `CommitHit`. That stored tokens are known needs what each
stage of a request has established (`RequestInv`), in terms of tokens that were
*ever* registered: a flush may remove them at any time. `SchemaInv` says which
tables exist in which phase; `RetentionInv` carries the cutoff from
`PruneCutoff` to `PruneCommit`, and that hits of a serving process are no older
than its start allows. `IInv` is the conjunction. `CanaryTrapProofs` has one
lemma per part, with one step per action, and `Invariance` puts them together;
the theorems named after properties follow from `IInv`. A hit of a token that a
flush took can only come from a request past its registry check: `StrayInv` counts
the stray hits stored and the requests that may still add one (`Overtaken`), and
their sum never exceeds the requests served at a time, because a flush that takes
the tokens takes every hit with them (`FlushInv`: what an open flush has deleted is
still the whole of each table). `StrayBounded` is its consequence.
`RetentionKept` is about steps and rests on the lemma `Removals`: only two
actions lose rows. `LogImplemented` proves that every step of the service is a
step of `CanaryLog` or a stutter, using `IInv` for the freshness of ids, the
tokens of hits and the age of what the prune removes.

*OsintCache.* `EntryInv` ties an entry's expiry to its landing, `LandedInv`
says an answer that landed within the TTL is present unless evicted,
`AnswerInv` that only lenient keys hold failures. Capacity needs facts about
cardinalities: eviction of one entry of a full store makes room for one
(`RoomAfterEviction`), and adding one adds at most one (`OneMore`).

*InfluxTrap.* That two requests never share a point's identity rests on hits in
the bucket, on the wire and in the hands of requests alike: `SentInv` and
`RequestInv` say that a number or a time belongs to one hit among all three,
and that a request whose hit was sent cannot build another. `StampInjective`
carries it to points. `AddressInv` says of hits in hand, on the wire and in the
bucket alike that they have the address their visit calls for; it rests on what
`ClientAddress` computes for each way to the API (`ByCaddyNamed`, `ByItselfNamed`,
`ByChainNamed`, together `ClientIp`), for any addresses and headers.

*OsintAggregate.* `AggregateInv` is the cache's invariant (lemma `CacheStep` is
used as it is) and one `JobInv` per request: `LaneInv` says that a lane's
results are those of a prefix of its plan and that what it awaits is the next,
`StageInv` that gathers passed are complete, `CallsInv` that the calls of a
gather are bounded by the set `Begun` of lookups begun in it. The cap on that
set's size needs that removing duplicates keeps ranks without gaps
(`RankReached`) and that a list holds no more than its length
(`HeldAtMostLen`). `PromiseKept` shows that every step, the cache's included,
maps to a step of `LookupService` or a stutter; that requests end in an answer,
the `~>` of `LookupService!Spec`, is model-checked.

*EvidencePipeline.* Four facts about the steps carry every theorem
(`PipelineInv`): the analysis at hand is `Analysis` of the message at hand with
some of the DNS lookups up; the report follows from that analysis and from the
export at hand or none; the exported timeline is a sequence of hits still stored,
in the order of time; numbers of hits are unique and do not exceed their count,
without which the order of a listing would not be total. None of the
properties is inductive without them: a property of a report says nothing once
the report is forgotten, and a timeline says nothing of hits stored later.
`PartsSuffice` shows that the types of everything computed follow, `NextPipeline`
has one step per action. `PipelineInv` was also checked by TLC on the instances of
both `Evidence` runs. The rest is about operators, for any message, hits, facts
and OSINT response, and needs three things the provers do not find by themselves:

- *Order.* `InOrder` places an element by how many precede it. `Ranks` shows
  that in a total order of a finite set the ranks are those from 0 up, each once;
  so a listing holds each hit once, its prefix the oldest (`ListedIs`), and the
  positions of an IP come out in order (`HitsOfIs`). Every position belongs to
  one IP (`PlacesPartition`), and the sizes of disjoint sets add up to the size of
  their union (`SumOfCardinalities`): hence `ProfilesComplete`.
- *Sums.* Scores are `SumFunction`s. `SumLemmas` derives what a sum over a finite
  set is from its definition as a fold: one more term, two disjoint parts, more or
  larger terms (`SumMonotone`). `FindingsScored` says that each category's
  findings are finite and worth no less than nothing, so each category score is
  in 0..100 and the overall score is too. If only one category has
  points, the score is at most the greatest weight, 40, with no bonus; or, if it is
  the canary's, whose weight is zero, a bonus of at most 32. Both are below the 55
  of *high* (`OneCategory`). A DNS
  outage adds at most a missing SPF and a missing DMARC record, 8 and 18 points of
  headers at weight 30, which is 780 hundredths and rounds to 8 at most
  (`OutageBase`, `OutageScore`).
- *Evidence.* `BonusMonotone` splits the bonus into the pattern and the uplifts:
  whatever only adds roles, automated hitters, countries and terms never lowers it.
  More hits do so if the IPs both exports share have the same answers
  (`BonusGrows`), and so do answers in place of outages if no hitter is misjudged
  (`HittersAnswered`). The points of the sender's IPs grow with answers too
  (`InfrastructureGrows`), and weights and rounding keep the order (`BaseGrows`,
  `RoundedGrows`): hence `OutagesNeverAdd`. `CalmIsLow` follows a plan's
  "no immediate action" back to a verdict of *low*, whose score leaves no room
  for the bonus of a strong pattern.

The assumptions are `FactsAssumption` (confidences and numbers of reports are
naturals; the source counts anything else as 0), `PipelineAssumption` (bounds are
naturals, settings as the source's defaults relate them) and `MessageAssumption`
(what parsing makes of a message is finite; its authentication results are those
of three mechanisms).

Two forms in the models are chosen for the provers: `InOrder` instead of a
sorting operator of the community modules, and `SumFunction` of a function instead
of a fold over a set. Neither changes what is computed.

Only model-checked: the liveness properties `Answered` and `BootsAgain`, and the
`~>` in `ImplementsService` (temporal reasoning with fairness and ENABLED is out
of the provers' reach). The claims the code does not keep are refuted by TLC.

## Not modelled

- Regular expressions, MIME, date and JSON parsing, among it the search for a JSON
  root in a noisy or truncated capture (`json_document.py:52`): string
  processing of one input.
- Wording and layout: messages, summaries, `report_visualizer.py`, decoys.
- The API key and the body limit: checks of one request that keep no state. The
  limits of input sizes in the analyze routes, for the same reason.
- Filters by token and trap, and OSINT, analysis or report documents handed to an
  export or a score instead of being made for it: the document is used as it is.
- Listing and flushing with Influx storage, which the code does not support.
  That storage does not implement `CanaryLog`: ids are timestamps, and a write
  may take effect after its request was answered.
- The deployment files, except the restart policy and the headers Caddy sets. One
  container runs one API process, so there is no topology of several.
- The flush script's error on a missing file changes no state.
- A `canary_hits` of an old release starts without rows: that its rows survive the
  `ALTER TABLE` is SQLite's promise.
- A JSON answer of ipinfo or AbuseIPDB that is no object: it is cached
  (`aggregator.py:29`) before the result model rejects it (`:45`). The two sources
  answer with objects.
- The search for addresses in the text of all headers (`header_evaluator.py:231`),
  beyond the hops and X-Originating-IP: a regular expression over one input.

## Plan

Done: the trap over SQLite, its log and their proofs; the trap over InfluxDB, the
client address and their proofs; the cache and its proofs; the aggregator, its
abstract service and their proofs; the evidence pipeline with its operators,
both ways to export and to score, and its proofs.

Left, in this order:

1. That the Influx trap is a lossy log: an abstract specification weaker than
   `CanaryLog`, and the proof that `InfluxTrap` implements it.
2. Uploaded OSINT documents in exports and scores, as documents made by an earlier
   lookup of the same case.
