# CRK-model-HG: a verification project

CRK-model-HG is the inference service of an unattended refrigerator or freezer.
A door opens, cameras and load cells report *triggers* (a video and a weight
series of one zone), a worker judges which products left or came back, the door
closes, and the customer is charged. Every product whose event is lost, doubled
or late is money: a sale missed or a customer charged twice. This directory
holds TLA+ models of the parts that decide this, the TLC configurations that
check them, and TLAPS proofs of what matters most.

    cd tla
    tlasany SessionClose.tla
    tlc -workers 2 -config MCSessionClose_block.cfg MCSessionClose
    tlapm SessionCloseProofs.tla

## 1. The system

Paths are below `src/crk_model/`.

| Component | State | Operations |
|---|---|---|
| gateway (`gateway/state_machine.py`) | door state, session id, barrier, three timestamps, watermark flag | `handle_open`, `handle_close`, `poll`, `notify_enqueued`, `notify_processed`, `record_trigger` |
| causal barrier (`ledger/barrier.py`) | per zone: enqueued, processed, last sequence number, watermark, expected count | one method per counter, `status` |
| serial worker (`service/worker.py`) | queue, ring of outcomes | `submit`, `drain` |
| event log (`ledger/events.py`) | events per session, finalized marks, rejected list | `append`, `events_for`, `mark_finalized`, `prune` |
| settlement (`ledger/settler.py`) | cache of settlements per session | `settle` (four layers), `prune` |
| demotions (`ledger/ghost_ledger.py`, `ledger/cross_zone.py`) | none (pure) | `apply_ghost_demotion`, `apply_cross_zone_penalty` |
| journal, archive (`ledger/journal.py`, `ledger/archive.py`) | dated files | `append`, `replay`, `save`, retention |
| service facade (`service/model_service.py`) | the lock, counters, recent session ids | `handle_trigger`, `handle_multi_zone`, `process_pending`, archive hook |
| product snapshot (`service/snapshot.py`) | current and last valid list | `update`, `snapshot` |
| trigger pipeline (`service/pipeline.py`) | none between triggers | `process`: segment, frame loop, judge, retries |
| idempotency (`ingest/idempotency.py`) | keys with their time | `register` |
| load-cell analysis (`ingest/loadcell.py`, `ingest/bocpd.py`) | none | `analyze` |
| frame sources (`adapters/avi_frames.py`, `frames/prefetch.py`, `frames/bundle.py`) | subprocess; queue, stop event, error slot | iteration, `close` |
| motion gate, hand latch (`frames/motion_gate.py`) | last passed frame, skip counter; latch counter | `evaluate`, `update_after_inference` |
| perception (`perception/*.py`) | votes, tracks, per-trigger filter state | `add_frame`, `observe`, `combine`, `should_stop` |
| judgment (`judgment/*.py`) | none | `judge`: stages, then the first strategy with an answer |
| HTTP adapter (`adapters/http_app.py`) | none | `/trigger`, `/api/judge/multi-zone`, `/api/health`, the worker thread's loop |
| configuration, types (`core/*.py`, `adapters/serve.py`) | constants | reading the environment |
| command lines (`adapters/*_cli.py`), `scripts/` | none | offline reports, device setup |

**How they interact.** FastAPI runs the synchronous endpoints in a thread pool,
so triggers, OPEN, CLOSE and null polls come in concurrently. A daemon thread
calls `drain()` in a loop. One reentrant lock (`model_service.py:298`) covers the
gateway, log, settler and queue, but the worker releases it during inference,
which takes seconds to tens of seconds. A CLOSE is level-triggered: the edge
repeats it until it gets a payment (given once, in a FINALIZED answer), an
error, or "no active session". Within a trigger each camera's frames may be
decoded by a background thread.

**What is hard.** The unlocked inference between the worker's two critical
sections; an OPEN replacing the barrier in that interval; a reopened door; late,
reordered or missing triggers; a lost or misdirected answer; two timeouts with
different reference times; a journal failure half-way through a commit; returns
put back in the wrong zone, or several at once; the stop/drain/join dance of the
prefetcher; a registry of deliveries that no lock protects; a gate and a stop
predicate that decide while a batch of frames waits; a dozen strategies and
three kinds of second judgement, each of which may undo what another decided. `PROJECT.json` lists these hazards by line.

**What makes each part correct.** *Session*: no session is paid twice; a paid
bill has every trigger accepted for it; nothing changes a settled log; a session
ends; a working worker is not timed out. *Settlement*: never more than was
judged, never (beyond a tolerance) more than the scales say, exact for an honest
customer, no refund given twice. *Prefetch*: the same frames, end or exception
as the source; nobody blocks for ever. *Ingest*: a retry is not a second sale,
and no sale is taken for a retry. *Frame loop*: batches change nothing, a hand is
not overlooked, a stop is not overtaken, the shelf does not vote. *Judgment*: a
complete verdict explains all of the weight, by whichever path it came; vision
chooses where weight cannot, weight refutes where it can; trays have no order.
*Review*: an event is not left worse than it was; what two zones were charged for
does not vanish from both; one scene is one witness; events have no order.

## 2. The modules

| Module | What it is |
|---|---|
| `CausalBarrier` | the barrier as a data type: a record, an operator per method, `status()` as predicates |
| `SessionClose` | the core: gateway, worker, log, settler's cache and entry points; extends `CausalBarrier` |
| `SessionContract` | what a session promises, with no clock, queue or log; `SessionClose` implements it (`KeepsContract`) |
| `SessionCloseProofs` | theorems about `SessionClose`, including that refinement |
| `MCSessionClose` | its small instances, and the claims of comments the code does not keep |
| `TriggerIngest` | a delivery from its arrival to the queue: the registry of deliveries, without a lock |
| `Perception` | filters, tracks, votes and stop predicate as a data type |
| `FrameLoop` | the loop over the frames of a trigger; extends `Perception` |
| `Lists` | a list comprehension with a condition, as a fold |
| `Judgment` | matcher, strategies and router as operators over a context |
| `Trays` | what a trigger makes of its weight events, as functions: retries, trays, merge, the event it logs; extends `Judgment` |
| `TriggerJudgment` | the same one step at a time; extends `Trays` |
| `SessionReview` | the ghost pass and the cross-zone pass of a CLOSE, over the log that triggers leave; extends `Trays` |
| `Settlement` | the four layers of `settle()`, after a shopping session that makes the log |
| `SettlementProofs` | theorems about `Settlement` |
| `PrefetchFrames` | the two threads of the prefetcher |
| `FrameStream` | plain iteration over a source; `PrefetchFrames` implements it (`KeepsStream`) |
| `PrefetchProofs` | theorems about `PrefetchFrames`, including that refinement |
| `IngestProofs`, `LoopProofs` | theorems about `TriggerIngest` and `FrameLoop` |
| `JudgmentProofs` | theorems about `TriggerJudgment` and `SessionReview` |
| `StrategyProofs` | what any strategy of `Judgment` may answer, for `JudgmentProofs` |
| `FoldFacts` | what folds over sets and lists compute: sums, filters, firsts; for all proofs that meet one |
| `MCTriggerIngest`, `MCFrameLoop`, `MCTriggerJudgment`, `MCSessionReview`, `MCSettlement` | small instances |

A trigger passes through them in this order: `TriggerIngest` hands a delivery to
the queue of `SessionClose`; while the worker infers without the lock, its frames
come through `PrefetchFrames` into `FrameLoop`, whose votes are the candidates of
`TriggerJudgment`; the verdict is an event of the log that `SessionReview` and
then `Settlement` turn into the bill `SessionClose` pays once. Each module takes
what the one before it can deliver as an input set, wider than what it does
deliver where that costs nothing. `SessionReview` takes triggers, not verdicts: its
log is what `Outcome` of `Trays` makes of each, with both retries and the merge,
and `TriggerDelivers` proves that the steps of `TriggerJudgment` come to the same.

### SessionClose

One action is one critical section of the lock.

| Code | Action |
|---|---|
| OPEN in IDLE or ERROR: number, prune, `handle_open` | `OpenNewSession` |
| OPEN while ACTIVE or PENDING_CLOSE | `Reopen` |
| CLOSE while ACTIVE: `handle_close`, then `poll` | `Close(wm, ex)` |
| CLOSE while PENDING_CLOSE; null poll | `RepeatClose`; `NullPoll` |
| the three outcomes of `poll` | `Waits`, `Settles`, `TimesOut` |
| `handle_trigger` under the lock, with `submit` | `Trigger(z, seq)` |
| `drain()`, first and second `with` block | `WorkerPop`, `WorkerCommit(ok)` |
| the second block when `journal.append` raises | `WorkerJournalFails(ok)` |
| the monotonic clock | `Tick` |

Calls that change nothing (a CLOSE or poll in IDLE, ACTIVE or ERROR) are
stutters. The queue is the part of `jobs` after `popped`. Timestamps are kept as
ages that saturate at the largest timeout: the code only compares
`clock() - max(...)` with constants, and an absent timestamp (`None`) behaves as
one long past. The clock in the code is real-valued; a tick stands for the shortest
of its timeouts. A session's bill is the set of jobs added
up: arithmetic is in `Settlement`. `carried` and `leaked` are history variables
that say what the current barrier cannot know of: jobs under way when it was
made, and jobs whose commit failed. `payments` is the history of answers.

The barrier is credited and replaced as the code does it, so what goes wrong
across sessions is in the model; the properties distinguish *clean* sessions,
which began with nothing outstanding, from the others.

### Settlement

The log is made by a shopper who takes and puts back products, with the right or
a wrong judgement, so that properties can compare a bill with what was really
held. Returns carry no judgement, as in the code, which matches them by weight.
One action is one iteration of a layer's loop. Which of several equally good
matches is taken depends on the order in which products entered a dictionary:
the model allows each. The vision evidence that ranks and vetoes combinations of
two kinds in layer 4 (`_vision_combo`) is a free choice between the combinations
whose weight fits. Weights are whole grams.

`remove_one` refuses to take out what is not there; `Without` does not, so that
`ChargedWithinJudged`, for which there must be no count below zero, shows that no
layer relies on the refusal. Products have a weight here: one without (0 g, which
`http_app.py:142` lets through) could be taken without an event of the log, and in layer 4 the snap to it is none (`settler.py:434`).

### PrefetchFrames

There is no lock, so an action is one access to shared state: the producer's
pull, its look at `stop`, its put or the put's timeout, the closing of the
source; the consumer's wait, get, `close()`, drain and join. `join(timeout=5)`
may return before the thread has ended. The number of frames and whether the
source raises at the end are chosen at the start.

### TriggerIngest

Each delivery is a request thread. `handle_trigger` calls `register` before it
takes the lock, and `register` reads the clock, lists what has expired, deletes
it, tests and sets. Python may switch threads between any two of these, so each
is an action:

| Code | Action |
|---|---|
| `key_for`, the clock, the start of the iteration over the registry | `Arrive` |
| the end of that iteration; it raises if the registry's size changed | `Scan` |
| `del` of one expired key; it raises if the key has gone | `Delete` |
| `if key in self._entries` | `Test` |
| the new entry, with the time read at the start | `New` |
| the critical section with `submit` | `Submit` |

The trigger counter is not a hazard: the versions of CPython the project asks for
do not switch threads inside `+= 1`, so it is left out and a trigger's
id is its delivery.

### Perception and FrameLoop

`Perception` keeps everything a trigger's vision knows in one record, with an
operator per method. Boxes lie on a line, so distances are whole numbers.
`FrameLoop` takes the frames one at a time:

| Code | Action |
|---|---|
| one turn of the `for` loop: gate, then append to the batch | `Pull(f)` |
| `consume` for one frame of `flush_pending`, with the latch and the stop | `Infer` |
| the flush after the last frame | `LastBatch` |
| the next camera, with a gate and a latch of its own | `NextCamera` |
| the end; a source or a detector that raises | `Finish`, `Raises` |

Scenes that differ do so by more than the gate's threshold. What the detector
answers for a frame is a free choice from a set, so every sequence of answers is
covered. What lies still (`LiesStill`) is read off those answers, not off the tracks
the model builds from them. `BatchesLikeFrames` compares the loop with itself
without batches, run over the same frames as a fold (`Plain`).

### Judgment, Trays and TriggerJudgment

A strategy is an operator from a context to a verdict, `Undecided` where the
code returns `None`; the router is the first verdict that is not. Where the code
sorts and takes the first, the model names the order and takes the element
that comes before all others; where it searches by backtracking, the
model names the set the search finds, and the order in which it finds it where
ties depend on that. Confidences of candidates are percentages, weights whole
grams and a score is scaled to an integer, so every comparison is exact.

| Code | Action |
|---|---|
| empty product list; no removal to judge | `Spare` |
| the candidates of the frame loop | `See` |
| one judgement of the zone, with `_segment_target_retry` | `JudgeZone` |
| one tray of `_judge_tray_events`, with the same retry | `JudgeTray` |
| one tray of `_pool_exhaustion_retry` | `JudgeAgain` |
| the merge of the trays' bills | `Merge` |
| anything that raises | `Fail` |

### SessionReview

The log is made of triggers as they come in (`TriggerType`): `Logged` is the
event each leaves, that of a trigger that raised included. A bill merged from
several trays may exceed the stock, and its reason lists those of all trays, so
that one refit among them leaves the whole bill without the weight's word
(`MergedReason`, which keeps of a reason what `_weight_backed_classes` looks for).

`settle()` reviews the log before it adds it up. One action is one event of a
pass: `Exorcise` demotes ghosts (products that several zones saw and no weight
confirmed), `Penalize` demotes what another zone was charged for in the same
scene; both judge the event again and adopt the result only under the code's
conditions. Which classes are ghosts, and what the second pass compares an event
with, is fixed before the pass begins, as in the code. The passes call
`JudgmentRouter()` with its defaults, whatever router the pipeline was given.

## 3. The runs

| Run | Instance | Shows |
|---|---|---|
| `close_block` | 2 zones, 2 sessions, 2 triggers with sequence numbers, a CLOSE with or without a watermark (of a zone or of a foreign key) and an expected count, fairness | type, `BarrierAccounting`, `CleanBillIsComplete`, `PaidAtMostOnce`, `SignalsHonoured`, `SettledLogIsFrozen`, `NoTimeoutWhileWorking`, `KeepsContract`, `ClosedDoorResolves` |
| `close_race` | 1 zone, 2 sessions, 2 triggers | **violated**: `EveryBillIsComplete` |
| `close_poll` | 1 session, 1 trigger | **violated**: `NullPollsPayNothing` |
| `close_gap` | sequence numbers and a watermark | **violated**: `NothingBelowWatermarkIsLate` |
| `settle_layers` | a refrigerated and a freezer zone, 2 products, 3 events, wrong judgements | type, `ChargedWithinJudged`, `NotOvercharged`, `CorrectionStopsAtNet`, `HonestBill` |
| `settle_twice` | 2 refrigerated zones, up to 3 pieces per event, right judgements | **violated**: `RefundedOnce` |
| `prefetch` | queue of 2, up to 4 frames, source ending or raising | type, `Pipeline`, `LittleLeftBehind`, `KeepsStream`, `StopReachesSource`, `LoopNotStarved` |
| `ingest` | 4 deliveries, 3 of one key, time to live 1, clock to 2 | type, `LoneTriggerOnce`, `DuplicateOfAccepted`, `NotDroppedLate` |
| `frames` | 4 and 2 frames, 2 scenes, 4 detector answers, 2 changes, batches of 2, keepalive 2 | type, `EveryPassedFrameVotes`, `HandSeenInTime`, `BatchesLikeFrames`, `StopIsFinal`, `ShelfHasNoVote` |
| `judge` | 3 shops, both profiles, 1 to 3 candidates, 1 to 3 trays, wrong and missing steps | type, `CompleteExplains`, `WeightDoesNotChoose`, `NothingTooHeavy`, `TraysHaveNoOrder` |
| `judge_return` | the same | **violated**: `ReturnsAreNotCharged` |
| `review` | 2 or 3 triggers with 1 or 2 trays in 4 zones, 3 products, both modes of the ghost ledger | type, `ReviewImproves`, `SharedSurvives`, `EventsHaveNoOrder`, `OneSceneIsNoEvidence` |

Every property of a passing run has a mutant in `PROJECT.json`: a definition
changed as a plausible bug would, for which TLC finds the property violated. The
mutants stand next to what they change in the modules.

**Bounds.** *Session*: two sessions are the smallest number with which a job
outlives its session, a log is pruned and a barrier replaced; `KeepSessions = 1`
makes an OPEN prune the session just before, the worst case (the default is 4).
Two triggers give the worker one to hold while the other waits, in the same or
another zone. Timeouts of 1, 1 and 2 ticks put the grace window, the close and
the stall timeout in an order that lets each expire alone. TLC checks the policy
that blocks the payment on an error; the proofs cover both. *Prefetch*: a queue
that is neither empty nor full at one moment (2) and more frames than it holds
(4). *Settlement*: three events are the fewest in which a return follows removals
in two zones; 100 g and 250 g keep single products and pairs apart by more than
twice the tolerance, while 2 x 250 g and 5 x 100 g are one weight, an alias in
the freezer. *Ingest*: three deliveries of one key are the fewest in which two
race to delete what a third registered again; a fourth, of another key, changes
the registry's size during their iterations. *Frames*: four frames hold a full
batch, a skip and a rest; the second camera needs one batch. Two pieces of one
product stay on the shelf, out of reach of each other, while another product passes
between them, with and without a hand; the change is the weight of either product,
so the leader may or may not explain it. *Judge*: two products
10 g apart, a heavy one that weighs as much as two of another, one without a
class and an empty shop; changes that one, two or no products explain; steps that
agree with the change and steps that do not. *Review*: two zones in one scene,
within one's window only, apart, apart in one recording; three in a chain; twins
that differ in their zone alone, beside a third; triggers with two trays, some of
whose bills exceed the stock and some of which a refit goes into, with a trigger
that raised, one without its load cells and one too light to be looked at.

**Symmetry.** Only `ingest` uses it: the three deliveries of one key are
interchangeable, and it has no liveness property.

**Deadlock.** Checked wherever the system has no last state. A settlement, the
frames of a trigger, a judgement, a review and a set of deliveries do end, so
their runs say `CHECK_DEADLOCK FALSE`; in `SessionClose` the clock, in
`PrefetchFrames` a repeated `close()`, can always go on.

**Fairness.** `close_block` assumes that the clock runs and that the edge goes on
polling (the device repeats CLOSE until it is answered; every ten seconds,
`model_service.py:296`). It does *not* assume that the worker makes progress:
`ClosedDoorResolves` must, and does, hold with a dead worker. Its antecedent
says that the door is not opened again for ever. `prefetch` assumes that both
threads are scheduled and that the source answers; the consumer may stay away
between two calls for as long as it likes, but once in `__next__` or `close()`
it goes on. The other modules end by themselves and need none.

## 4. Where the code and its comments differ

- **`close_race`** (`service/worker.py:4-6`: a close that does not see what is
  left in the queue is "structurally impossible"). Session 1 accepts a trigger
  and ends in ERROR while the worker still has it; OPEN starts session 2 with a
  new barrier; session 2 accepts a trigger; the worker ends the job of session 1
  and credits session 2's barrier: 1 enqueued, 1 processed. Session 2 is paid
  without its own trigger, whose event is later rejected.
- **`close_poll`** (`service/model_service.py:430`: a null poll makes no
  transition). It calls `poll()`, which settles, and consumes the only answer
  that carries the payment; the next CLOSE hears that there is no session.
- **`close_gap`** (`ledger/barrier.py:6`: with a watermark, all triggers up to it
  have arrived). Only the largest number is kept, and a watermark also switches
  the grace window off, so trigger 1 may be paid before trigger 0 arrives.
- **`settle_twice`** (`ledger/settler.py:364`: prevents a double deduction
  across zones). The customer takes b (300 g) in zone 1 and three a (100 g) in
  zone 2 and puts the three a back at once. Layer 1 finds no match (it tries one
  or two products), layer 2 takes out three a, none of which weighs what the
  return did, and layer 3 takes b out of zone 1 for the same return.

- **`judge_return`** (`docs/03-judgment-and-settlement.md:330`: removals add
  what was judged, a return is matched by weight and deducted). In a trigger with
  several trays each is judged by the size of its change, whatever its sign
  (`service/pipeline.py:319`), and all bills are merged: a tray that lost 220 g
  and one that gained 100 g are charged as 220 g and 100 g taken.

Some more that no run shows, because they need an instance of their own or no
comment denies them:

- Over HTTP the keys of `seq_watermark` stay strings (`http_app.py:180`), whereas
  `expected_triggers` is converted. The barrier looks such a key up among zone
  numbers, finds nothing and blocks until the timeout. `close_block` has such a
  key; while its watermark stands, nothing is paid.
- `ingest/README.md:214` says that within the time to live a duplicate returns
  the id it duplicates and is dropped. Two deliveries that overlap may both be
  accepted, and a delivery that deletes what another has just registered again
  lets a third in. `LoneTriggerOnce` excludes exactly this (`Alone`).
- The comment on `batch_size` in `TriggerPipeline` bounds the delay of the latch
  by `batch_size - 1` frames. It is that many frames *that pass*, and up to
  keepalive as many pulled: the bound `HandSeenInTime` checks.
- `cross_zone.py:243-245` calls the mutual exemption an invariant against mutual
  extinction. It compares zones in pairs. With three zones in one scene (X 40 g,
  Y 60 g, A 100 g, C 50 g, D 42 g; zone 1 lost 101 g and was charged X and Y,
  zone 2 lost 44 g and was charged X, zone 3 lost 60 g and was charged Y), zone 1
  is exempt for X but not for Y, is judged again to A, and zone 2 loses X to
  D: X is charged nowhere. `SharedSurvives` therefore asks that nothing else the
  two zones saw was charged elsewhere.
- A product whose weight is missing counts as 0 g (`http_app.py:142`), and the
  matcher adds it to a bill for free (`strict.py:83`).
- `stage_count_combo` charges combinations of several kinds without vision, which
  `docs/07-rejected-and-retired.md:278` and the docstring of
  `NoCandidateFallbackStrategy` rule out.
- `docs/06-verification-report.md:279` says that I12, the stock as an upper bound,
  prevents charging for more than there is. It bounds each verdict (`TypeOK` of
  `TriggerJudgment`), but the merge of a trigger's trays (`service/pipeline.py:360-366`)
  adds them up without looking at it: with two pieces of 100 g in stock, two freezer
  trays of 220 g each are charged two pieces, four together. Such bills are in the log
  that `review` starts from, and neither review undoes them, so `ReviewTypeOK` claims
  only that a review itself adds nothing beyond the stock.

## 5. The proofs

All are proved by TLAPS for every value of the constants, from the named
assumptions in the modules (`KeysAreNotZones`, `ConstantsAssumption`,
`SettlementAssumption`, `PrefetchAssumption`, `IngestAssumption`,
`LoopAssumption`, `JudgmentAssumption`, `ReviewAssumption`), which TLC evaluates on
each instance.

**SessionCloseProofs.** `TypeCorrect` is inductive by itself. `Accounting`
follows with it: each action moves a job between "outstanding" and "processed"
or "leaked" together with the counter, and a new barrier takes what is
outstanding as `carried`. The sets of outstanding jobs are finite, and lemmas on
`OutstandingIn` say how a submit, a pop and a commit change their size.
`CleanBills` is not inductive: a bill is right only because the log is.
`LogInv` says that while a session can be paid its log is exactly what it
accepted less what is outstanding, that it is not settled, and that future
sessions have left no trace. Settling requires `~QueuePending`; with
`BarrierAccounting` and nothing carried over, no job is then outstanding, so the
log is everything accepted. Afterwards `BillInv` has to say also that none of
the billed jobs is still outstanding, so that a later failure cannot change what
the bill should have been. `PaidOnce` needs from `PaidInv` that a session paid is
not live, and that no payment belongs to a session yet to come. This is also why
the counterexample `close_race` is the only way: without `clean` the step from
`~QueuePending` to "nothing outstanding" fails.

`SignalsKept` adds `ArrivalInv`: the barrier has counted just what its session has
accepted, and some accepted trigger of a zone reaches the highest sequence number
it keeps. A bill that is complete and free of errors then is what was counted,
and `Satisfied` compared that with both signals.

Two more are about steps. `FrozenLog` follows from `TypeOK`: the only action that
adds to a log refuses a settled session, and an OPEN only removes. `Patience`
uses the balance the other way round: with work outstanding and nothing carried
over, some zone is pending, and a pending zone makes `Expired` the stall timeout.

`Implements`, the refinement: a step is an OPEN of a new session, a
trigger, a payment, or moves nothing the contract sees but the door, and does
not open it (`KindsOfStep`). These map to `Begin`, `Accept`, `Pay`, and `Fail` or
a stutter. `BillIsRight` is where the invariants are needed: by `LogInv` the bill
holds triggers of the session only, and by the balance the log behind a trusted
bill is everything accepted, so the failed ones among it are the witness for
`RightBills`; under `BlockPayment` there are none, or it would not be payable.

**FoldFacts.** Sums, filters and loops are folds of the community modules, each
defined by a recursive function over the subsets of a finite set. Nothing is known
of such a function until one that satisfies its equation is shown to exist. The
induction behind that needs no operator as a parameter: it is by a smallest
counterexample among the subsets (`WFMin`, with the well-founded order of the
strict subsets), and the steps of a fold are given as functions (`FoldExists`,
`ListFoldExists`). From there the lemmas say what the models use: how a sum changes
with one summand (`TotalPlus`, `SumUnique`), that a filtered list comes from rising
positions of the other (`FilteredFrom`), that an order has a first element
(`FirstExists`), that a sort key by key is one (`KeysOrder`), and that the bags of
a bounded stock are finite (`BagsFinite`). `SelectSeq` is recursive without being
a fold and has no such facts, so the models filter lists by `Filtered` of `Lists`.

**SettlementProofs.** `NothingChargedUnjudged`: charges stay between zero and
what was judged, outside the freezer. It is inductive with typing
(`SettlementTyped`); the pair in `MatchReturn` needs that a pair of one product has
two pieces. `CorrectionsStop` follows from the guard and the weight of a piece.

`BillFollowsScales` states `NotOvercharged`. Nothing keeps a bill near the scales
before the second layer, so `BillInv` says layer by layer which zones are
`Cleared`: in the second those the loop has left, in the third all, since a zone no
event named is charged nothing and nothing left it. Taking more out of a basket
leaves a zone cleared; the last layer counts a freezer zone anew, within its own
tolerance (`Follows`).

`HonestIsExact` states `HonestBill`. What is charged before the layers have read
the whole log agrees with nothing the shopper holds at the end, so `HonestInv`
carries the story of the session: a list of holdings, one per event, that the
first layer goes through one by one (`Story`). A return is matched to just the
products that came back because weight tells them apart, alone and in pairs
(`Separated`, a hypothesis of the property: with two products of one weight the
code cannot know either). Every zone then balances, and the second and third layer
find nothing to correct.

**PrefetchProofs.** `InOrder`, `LeavesLittle` and `Transparent`. `Pipeline` needs
to know where the producer is: `ProducerInv` ties its program counter to the
frame in its hand, the open source and the error slot, `ConsumerInv` the
consumer's to `stop` and the result, `LeftInv` counts what a stopped producer can
still put. With these, every step maps to a step of `FrameStream` or a stutter:
a `GetFrame` is `Give`, a `GetSentinel` is `End`, the first `Close` is `Close`.

`Typed` is the type part of the same invariant.

**IngestProofs.** A registry no lock protects, for any number of deliveries.
What is told a duplicate rests on `EntryInv`: an entry holds the time and the key
of a delivery that was accepted. `LateSalesCount` rests on `FreshInv`: after the
clean-up, whatever a delivery finds from one answered before it began has not
expired. `LoneTriggers` is the other direction, `LoneInv`: the entry of a lone
delivery stays until the time to live is over, because nobody who may delete it
began before it was answered. Without `Alone` this fails, as section 4 says.

**LoopProofs.** `EveryFrameConsumed` states `NothingLost`, the first part of
`EveryPassedFrameVotes`: by `AlignInv` what was consumed and what waits lie side
by side on what passed. `FramesVote` states all of it: that the count of the vote
goes up by one with each consumed frame (`CountInv`) has to be followed through
the filters and the loop over the detections, which keep it. `SeenInTime` rests on
`GapInv`: the skips are the distance to the frame last passed and stay below the
keepalive, and each frame that waits is at most a keepalive older than the one
after it. The product in that bound is not linear, so it goes through lemmas in
which `room` stands for it. `StopsForGood` states `StopIsFinal`: the stop
was decided on the votes at that moment, and after a stop no frame is consumed, so
they are the votes at the end.

`BatchesAgree` states `BatchesLikeFrames`, which compares the loop with itself
without batches. It is a simulation (`Meets`): there are two runs, p of the loop
without batches over the frames so far, and d that consumes the frames that
wait, and both end in the same eye, latch, stop and list of consumed frames; and
until p stops its gate is the loop's. A frame that passes is a turn more of both
runs, one that is consumed is taken off the front of d, and a stop ends d there,
because nothing is consumed after one (`StoppedStays`). The hypothesis of the
property, no hand so far or batches of one, is what makes the gates agree: in the
first case neither latch is ever active, in the second nothing waits when the gate
decides. `Plain` is the end of p because two courses of the same turns are equal
(`SameCourse`).

`ShelfNeverVotes` states `ShelfHasNoVote`: a class that this camera has seen only
at rest (`LiesStill`) is no candidate but by votes of the camera before, provided that only
movement counts (`MovementCounts`: the evidence is on, has a floor, and exempts
no track for being short; with an exemption the code means to count such votes).
What lies still need not be one piece: detections of the class
are in the same place, or more than the longest reach of a track apart, 1.5 times
`MaxJump`, since a track may be joined again after a gap. `ShelfInv` has three
parts, each a loop over the detections of a frame that has to be followed:

- a vote has its ground (`AllGrounded`): its track is of its camera and class, or
  there was a detection of them without a box;
- a camera adds to the eye (`Adds`): tracks are not lost, change neither camera nor
  class, and those of the other camera stay as they are, as do its votes,
  exemptions and last position. `CamerasApart` states these two for themselves;
- what has been seen at rest is at rest for the tracks (`Resting`): each stands
  where it began, at a place the class was seen in, and has moved by nothing. One
  detection more keeps this (`OneRests`): what it joins is a track of its class
  within reach, so in the very same place (`SamePlace`). The frames pulled so far
  only grow, and what lies still in all of them did so in those before
  (`StillWider`).

A vote of this camera that counts would then need a track that has moved; a vote of
the other one counted before this camera began, on the same track.

`LoopTyped` has the type of the eye from the same invariant: that every operation
of the filters, the tracks and the votes keeps it of the type `Eye`.

`CandidatesFit` is the joint between the proofs about the frames and those about the
judgement, which assume that a class is a candidate once (`Distinct`,
in `JudgmentAssumption`): what `Combine` returns is one candidate for each class,
with a vote that counts and a confidence between 0 and 100 percent. What is assumed
of a trigger's candidates is thus what its frames deliver; of the products it
remains an assumption.

**StrategyProofs.** What a verdict may be is stated once, for every context the
router can be given (`Sound`: the profile, products and candidates are of their
types, a class is a candidate once, the tolerance is at least the 5 g of
`relaxed_loadcell_only`): the bill keeps to the stock, in the freezer it is chosen
by what was seen, and where weight tells the products apart nothing on it is too
heavy (`Answers`).
Each strategy has its lemma; the greedy ones go by an invariant of their fold, the
searches by finiteness and by what comes first in their order. `JudgeAnswers`
composes them with the router and its enforcement. That no stock and no weight is
negative is an assumption on the inputs (`JudgmentAssumption`, `ReviewAssumption`).

**JudgmentProofs.** `TraysAlike` and `TraysExplained` hold whatever the strategies
find: `Routed` is not expanded. `PassInv` says what each tray's verdict is at each
point of the two passes, by its own steps and by what the first pass as a whole has
left, with no word of its place (`TraysAlike`). Its difficult step is that what
counts as consumed does not change while the second pass replaces verdicts
(`SameConsumed`): only verdicts that were not complete are replaced.
`TraysExplained` states `EachTrayExplained`: `Judge` enforces it, and both retries
and the merge keep it (`VerdictInv`).

The others use `JudgeAnswers`. `SoundInv` says that every context a verdict was
reached in is a `Sound` one of this trigger: the first pass, the retry over the sum
of the steps, and the second pass, whose candidates are fewer but still distinct.
`ResultInv` says that a complete trigger weighs what its trays' bills weigh, since
the weight of a merged bill is the sum of its parts (`ChargeWeighs`). From these
follow the types (`JudgmentTyped`), `CompleteExplains` (`TriggerExplained`),
`NothingTooHeavy` (`WeightRefutes`) and `WeightDoesNotChoose` (`SightChooses`).

`TriggerDelivers` is the joint to the reviews: a trigger that does not fail ends with
the verdict `Outcome` computes from its context and trays in one go. By `PassInv` the
verdicts of the steps are those of `Firsts` and then of `Seconds` (`BothPasses`).

The reviews of a CLOSE are in the same module, over the same facts. `ReviewInv` says
that the k-th event after a pass is what the pass makes of the k-th event in the log
the pass before has left: no pass reads what it has itself written. With it each
property is about one event, or two.

- `ReviewTyped` and `ReviewsImprove`: a logged event is what its trigger left, with a
  bill that is a sum of its trays' bills (`LoggedIs`, `MergedBill`) and may exceed the
  stock; a new judgement keeps to it (`JudgeAnswers`), so of each product a review
  leaves what the trigger charged, or no more than there are. Neither pass touches
  more of an event than its candidates and its verdict (`Keeping`); the first adopts a verdict only if `Judge`
  completed it, which `Enforced` ties to the weight; the second may also drop
  products that are among its sources (`Alters`). An event the first pass changed is
  complete, so that what the second drops was dropped from the first judgement.
- `SharedProductSurvives`: of two rivals at least one keeps the product (`OneKeeps`:
  exactly one if the alternatives tell them apart, else the one that misses its weight
  by less, else both), and an exempt zone whose only foreign class is that product is
  not judged again.
- `OrderIsIrrelevant`: two events that are alike have the same sources and the same
  exemptions in the log before the pass (`SourcesAlike`, `ExemptAlike`), because the
  events of all other zones are foreign to both and each is foreign to the other in
  the same way. The recordings may be anything: the ghosts are one set for the session.
- `OneSceneSpared`: two sightings that overlap one removal are one episode through it
  (`ThroughOne`), and a ghost needs two episodes.

**Model-checked only.** Liveness (`ClosedDoorResolves`, `StopReachesSource`,
`LoopNotStarved`), which is out of the prover's reach. Every other property of a
passing run is stated by a theorem.

## 6. Not modelled

- The detector and TensorRT: an external engine; its answers are free choices.
- Load-cell analysis and Bayesian change points (`ingest/loadcell.py`,
  `ingest/bocpd.py`): pure functions of a series of real numbers, the latter over
  floating-point likelihoods. Their result, the changes and steps of each
  tray, is the input of `TriggerJudgment`, where steps that contradict the change
  are among the inputs.
- The vertical coordinate of boxes, and with it the vertical regions of interest,
  which are off by default; tubes, summaries and every other field that only
  diagnostics read.
- The vision evidence of the settlement's last layer (`_vision_combo`): a free
  choice among the combinations whose weight fits.
- Routers other than the default pipeline: an offline experiment may build one,
  the service does not.
- The load-cell condition of the barrier: nothing calls `set_loadcell_stable`.
- Contents of answers beyond "paid with these jobs"; prices; interim summaries.
- The product snapshot store: one lock around "current, or the last valid". A
  reader gets a list, which is a constant of the judgement modules; within a
  session a store's weights and prices do not change.
- Restarts: the service keeps no session across one (the journal is written and
  never replayed at start), so a restart is just the initial state. There is no
  recovery code to model.
- Archive, journal rotation and retention, AVI decoding, the reading of the
  environment, command lines, previews and scripts: input and output around the
  service that nothing in it reads back.
