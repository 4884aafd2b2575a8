# Verification of the Governed Cognitive Loop

TLA+ models of `gcl/`, the TLC configurations that check them on small
instances, and proofs that TLAPS checks for every value of the constants.
Paths are relative to the repository's root.

## 1. The system

One asyncio process (FastAPI) receives evidence about an inference fleet and
turns each batch into at most one signed proposal:

    evidence -> classify -> predict -> interpret -> plan -> cooldown
             -> falsify -> sign -> propose to the fleet -> record

Every stage writes an entry to an immutable ledger under the cycle's
correlation id.  A language model may be asked by the classifier, the
interpreter and the gate.  Nothing is persisted in the process: a crash
forgets everything that is not in the ledger or at the fleet.

| Component (source) | State | Operations | What makes it correct |
|---|---|---|---|
| AccountabilityTracker (`gcl/loop/accountability.py`) | log of recent commits, pending outcomes | `can_commit`, `record_commit`, `check_outcomes` | cooldown between commits of a type, also when the log is cut; each commit judged at most once, lost only to newer ones |
| LoopDriver and Committer (`gcl/loop/driver.py`, `gcl/committer/committer.py`) | none of its own; shares tracker and ledger among cycles | `run_cycle`, `commit` | the ledger never tells what did not happen, whatever writes fail; nothing is proposed ungoverned; every cycle ends; the cooldown among overlapping cycles |
| LedgerClient (`gcl/loop/ledger.py`) | local entries | `write_entry`, `query_chain` | a proof is never invented; no entry is repeated or merged with another |
| FleetIntentAdapter (`gcl/adapter/proposer_adapter.py`) | none | `propose` | what became of a package is told truthfully; a repeat is admitted once |
| ConstraintClassifier (`gcl/classifier/`) | rules | `classify` | a model adds constraints and never removes one |
| Controller (`gcl/controller/`) | none | `optimize` | hard constraints; enough replicas; load shed last |
| FalsificationGate (`gcl/falsification/`) | none | `falsify` | agrees with the controller on the limits; a flaw with a reason rejects, nothing else of an answer does |
| HorizonPredictor (`gcl/predictor/`) | none | `predict` | a confident trajectory has earned its confidence; a spike is foreseen |
| Evidence adapters (`gcl/adapter/classification_adapter.py`, `deepfield_event_adapter.py`, `gcl/loop/signals.py`) | none | conversions to evidence | a value that is not a number never becomes a confident trajectory; a forecast they pass on is used |
| ObjectiveInterpreter (`gcl/interpreter/`), inference client (`gcl/inference/`) | none | `interpret`, `infer` | failures do not stop the loop |
| DecisionPackage (`gcl/domain/decision_package.py`) | none | build, sign, verify | a package is valid no longer than what it rests on |
| API (`gcl/api/`) | finished cycles | requests for cycles, event ingress, `get_chain`, `reset` | a redelivered or expired event causes no second action; a registered cycle can be shown |
| DecisionSampler (`gcl/loop/decision_sampler.py`) | watermark, results | `poll_and_audit`, for ever | no record is passed unread; the sample is fair; what is counted is in the ledger, once |
| Cascade audit (`gcl/loop/cascade_audit.py`) | none | `audit` | judges as the sampler does; completes only what it has judged |
| Prompt classifier, decision-event adapter, legacy fleet adapters, scenario engine, dashboard, deployment | | | outside the governed loop |

The components meet in three ways: the driver calls the others and awaits
them; all cycles share one tracker; the ledger and the fleet are reached over
HTTP, where a call may fail, or succeed without its reply arriving.  Two
auditors, a background task of the process and a command that is run beside it,
read the decisions of other systems from the ledger and write their verdicts to
it.

What is hard here: overlapping cycles (every await is a point where another
cycle runs), a commit log checked at one await and written at another, failing
models, ledger writes that fail unnoticed, replies that are lost or do not validate,
a wall clock that is corrected, a crash between two entries, events that are delivered again while
the first cycle is under way, pages and windows that overflow, fractional
capacities and bounds that a model names.  `PROJECT.json` lists these hazards line by line, with the
properties that cover each, or why none does.

## 2. Modules

| Module | Models | State and actions |
|---|---|---|
| `Accountability` | the tracker | `now` is `time.time()`; `recentCommits` and `pendingOutcomes` are the two lists; `outcomes` and `history` record what was returned and appended.  `TrackerSpec` is the tracker under a caller that commits in the step in which it asks |
| `GovernedCycle` | what `run_cycle` promises | the abstract specification: `phase[c]` is idle, deciding, approved, answered or over; `admitted` and `recorded` are what the fleet and the tracker know |
| `LoopDriver` (extends `Accountability`) | `run_cycle`, `commit`, `propose` | `pc[c]` is the call that cycle `c` awaits; an action is what a cycle does from one await to the next, so every interleaving of asyncio is a behaviour.  `chain[c]` is what the cycle has written, `missed` the entries among it whose write failed and which the ledger therefore lacks, `delivered` what the fleet has admitted.  `Governed` instantiates `GovernedCycle` with a refinement mapping from `pc`, `delivered` and the tracker's records |
| `Contracts` | the data classes | integers that count 1/`Unit`, because bounds such as 0.7 replicas matter |
| `ConstraintClassifier`, `Controller`, `FalsificationGate` | the three deterministic components | operators only, named after the functions |
| `ControlPath` (extends those three) | the data of one cycle | one action for each component, inputs chosen from constants, among them everything a model may answer |
| `LedgerClient` | `write_entry`, `query_chain` and, external, the ledger | `remote` is what the ledger holds, by idempotency key, `memory` the local copies, `missed` the entries whose write failed; a write ends `ok`, `lost`, or with a `lost_reply` |
| `DeepFieldIngress` (extends `GovernedCycle` and `LedgerClient`) | the HTTP boundary, the event contract, a package's lifetime and key | deliveries start cycles of `GovernedCycle`; to its steps are added time, entries, packages and registration; `Reset`, `Restart` |
| `Sampling` | the arithmetic of samples | operators |
| `Auditing` (extends `LedgerClient` and `Sampling`) | the sampler and the cascade audit | `poll` and `command` hold the call each awaits and its local variables; records of others arrive in `log`; calls fail, the process restarts |
| `HorizonPredictor` | `predict` | operators in whole numbers |
| `EvidencePath` (extends it) | evidence adapters and requests | one action for each endpoint that starts a cycle, then the prediction |
| `MCAccountability`, `MCLoopDriver`, `MCControlPath`, `MCDeepFieldIngress`, `MCAuditing`, `MCEvidencePath` | | values of the constants for TLC |
| `Arithmetic` | | lemmas: least elements, division |
| `AccountabilityProofs`, `ControlPathProofs` | | theorems about `TrackerSpec` and `ControlPath` |
| `DriverProofs`, `OverlapProofs` | | theorems about `LoopDriver`: the invariants of the `chain` run and the steps of the refinement; those of the `overlap` run |
| `IngressProofs`, `AuditingProofs`, `EvidenceProofs` | | theorems about `DeepFieldIngress`, `Auditing` (with `Sampling`) and `EvidencePath` (with `HorizonPredictor`): every invariant of their runs |

Operators such as `CanCommitOldestFirst`, each next to the definition it
resembles, are plausible mistakes: replacing the definition by one of them
makes the property it is paired with in `PROJECT.json` fail.

One cycle is seen in four ways.  `LoopDriver` has the awaits and chooses the
planned action and the verdict freely; `EvidencePath` and then `ControlPath` have
the data and no concurrency; `DeepFieldIngress` has deliveries, time and keys and
takes the cycle from its abstract specification.  Leaving the data out of the
first is sound because between the await that returns constraints and the one
that asks the adversary the components keep no state: what one cycle computes
cannot depend on another.  Taking the abstract cycle in the last is sound because
`LoopDriver` implements it (`GovernedSpec`): whatever holds of every behaviour of
`GovernedCycle`, in its variables, holds of `run_cycle`.

## 3. What the runs check

| Run | Question | Instance |
|---|---|---|
| `accountability` | Does the cooldown hold when the log loses its oldest records?  Is each outcome judged once, and lost only to newer ones? | 2 types, log of 2 for 4 commits, 1 pending outcome, 6 instants |
| `chain` | With failing models, signatures, promotion and ledger writes, any answer of the fleet, a crash and a clock set back: does `run_cycle` implement `GovernedCycle`?  Does the ledger never tell what a cycle did not do, is nothing proposed before the write of a verdict in its favour has ended, does every cycle end and is every admitted package recorded? | 2 cycles in flight, 4 kinds of plan, 1 failed write, 1 crash, no symmetry; 264,000 states |
| `overlap` | What is left of the cooldown when cycles overlap? | 3 cycles, 2 in flight, 2 types, 4 instants; 365,000 states |
| `control` | Do plans respect the limits in the evidence whatever a model answers, and are breaches answered? | the shipped rules, capacities 1, 2.5 and 4, a pressure bound of 0.7, 8 answers of a model; 57,000 states |
| `audit` | Is every record read, or lost only for a reason that can be named?  Is the sample fair, do the auditors agree, are verdicts complete and not repeated, is what is counted in the ledger, does the sampler get past every record? | 3 records of 3 kinds, pages of 1, batches of 2, 2 results, windows of 1 and of 2 entries, 2 failures, restarts or audits; 294,000 states |
| `ingress` | However an event is delivered, is one package admitted, valid no longer than it may be?  What can be shown of a registered cycle? | 2 deliveries or direct requests of 2 good events and 2 bad ones, 1 failed write, reset or crash, 5 half seconds; 2.1 million states |
| `predict` | What does a confident trajectory rest on, whatever evidence comes in? | up to 5 latencies of 5 values, one of them negative, and 10 of 2; latencies mixed with samples of another metric, of several sources; batches of up to 5 records, alone or with other signals; 50 events; snapshots of up to 5 models; 62,000 states |

Five runs show where a document promises what the code does not do; each
stops at a behaviour of the code:

| Run | Promise | Behaviour |
|---|---|---|
| `race` | "After committing an action, the GCL enforces a 60-second cooldown before the same action type can be committed again" | two cycles pass `can_commit` before either has recorded |
| `llm` | "If the LLM is unavailable ... the interpreter falls back to a TemplateInterpreter" | `infer` raises on a timeout and nothing in the loop catches it |
| `answer` | "The committer records proposer acceptance, rejection, deferral ..." | the fleet has admitted the package, its reply does not validate, `propose` raises, no entry is written |
| `unrecorded` | "When the ledger is unreachable, a configured ledger error fails closed. The system does not fall back to fabricated evidence in memory." | the write of a verdict fails, `write_entry` keeps the entry in a list and returns, the cycle proposes |
| `forecast` | "classification-backed predictions are high confidence" (`predictor.py:39`) | the classification adapter names another source than the predictor looks for, so that the forecast counts as a sample of latency |

Four more places where the documents and the code part have no run of their own,
since the models show them in what their properties leave open:

* `governed-autonomy-framework.md:155` says that the LLM cannot override hard
  constraints.  A negative latency bound that a model names becomes the target
  (`optimizer.py:62`), and the scale asked for is negative: `ScaleSuffices` and
  `BreachAnswered` therefore ask for positive bounds.
* `governed-autonomy-framework.md:188` says that an action is rejected if the probe
  identifies a flaw.  One with a null reason is taken for none
  (`llm_adversary.py:43`): `GateAgrees` says exactly which answers reject.
* `governed-cognitive-loop-whitepaper.md:219` says that every committed action
  produces a `gcl.outcome` entry.  `run_cycle` records every commit as not eligible
  for one (`driver.py:316`), so in `LoopDriver` no outcome is ever found; the
  judgement itself is checked in `Accountability`, under a caller that may ask for it.
* `test_decision_sampler.py:159` speaks of "every sampled result" as durable.
  `ResultsBacked` holds for all but the verdicts whose own write failed, which are
  counted and are nowhere but in memory.

Of the cooldown, two weaker properties hold with overlapping cycles and say how
far the promise is off: only a check made before the other commit was recorded
breaks it (`OnlyOverlapBreaksCooldown`), and within one cooldown the fleet
admits no more packages of a type than cycles may be in flight (`BoundedBurst`).

### Bounds, and why they are enough

* Cycles: the cooldown relates two commits; a burst of three with two in flight
  needs three cycles.  The properties of `chain` and `ingress` relate at most two
  cycles.  Cycles are interchangeable, so invariants are checked up to symmetry,
  except in `chain`, which also checks liveness.
* `Cooldown` is 1 or 2 and `MaxTime` at most 5, so a commit can come within, at
  and after the end of the cooldown.
* `CommitCap` is 1 or 2 where losing records is the question.  `CooldownHolds`
  (below) shows for every size that a log with room for one record of each type
  is enough.
* `MaxLostWrites` is 1 in `chain`, for all entries of both cycles together: what the
  ledger lacks of one cycle never enters the steps of another, and a second entry
  missing of the same cycle only weakens what `AuditTrail` may conclude.  It is 0
  where the ledger is not the question; `DriverProofs` has no bound on it.
* `MaxStepBack`, `MaxRestarts` and `MaxCommits` bound what the environment does,
  and so do `MaxFaults` and `MaxCrashes` (ingress) and `MaxEvents` (audit), which
  count failures and restarts together.  Two of them in `audit` make the pairs that
  matter: a lost reply and then a restart, an audit that fails and its repetition.
  The clock is set back in `chain`; in `accountability` it only moves forward,
  because a log that loses records keeps the cooldown only then;
  `CooldownHoldsAnyClock` (below) covers a log that loses none.
* Time in `ingress` is counted in half seconds, since `int()` cuts off a fraction
  of the remaining time.  Its five instants cover an event that is delivered in
  time, with less than a second left, and too late.  `DefaultTtl` is longer than
  what any event has left, so that the event's own lifetime decides; direct
  requests live for `DefaultTtl`.
* `PageSize` 1, `FetchCap` 2, `ResultCap` 2 and `GatewayCap` 2 are all exceeded by
  the three records, so that paging, cutting off and trimming happen.  `RateInverse`
  is 1, which makes a sample as large as `MaxVerdicts`; `QuotasCorrect` is proved
  for every size.
* Ten samples are the most that make a difference to the code that computes
  confidence but for its last factor, which goes on to twenty.
* `Unit` is 10: the shipped thresholds are tenths.  The latency rule's 5000 is
  5 there; only the ratio of latency to bound enters the controller.
* Trajectories have two points: `optimize` treats the first and the later
  points differently, and the later ones alike.  The points lie below, just
  under, over and far over the bound.

### Fairness

`WF_vars(Proceed(c))` for each cycle: every awaited call ends, because each
HTTP client has a timeout (`llm_timeout_seconds`, `ledger_timeout_seconds`, the
timeouts of the adapters), and asyncio resumes a task whose call has ended.
Nothing forces a cycle to start, the clock to advance or the process to crash.
An await that does not suspend, such as a ledger write with no ledger
configured, makes the code's interleavings fewer than the model's, never more.
That a call ends says nothing of how: a ledger write that fails is a step, too.
Under it the fairness of the abstract cycle is implied, not assumed: TLC checks
`WF(Advance(c))` of `GovernedCycle` as part of `GovernedSpec`.
`DeliveredIsRecorded` makes no claim about a cycle that a crash ends, or whose reply
does not validate; for the latter the `answer` run shows what happens.

`WF_vars(SamplerStep)` in `Auditing`: `_sampler_loop` catches whatever a poll raises
and polls again, and all its calls have timeouts.  A failing call is such a step,
too; that calls do not fail for ever is the bound `MaxEvents`.  Nobody has to run
the cascade audit.

Deadlock is not checked for `LoopDriver`, `DeepFieldIngress` and `EvidencePath`: once
every cycle is over and the clock at its bound nothing is left to do.  It is
checked everywhere else.

## 4. What is proved

`AccountabilityProofs`, for every cooldown, cap, set of types and number of
commits:

* `TrackerTypeCorrect`: types and both limits.  `TypeInv` adds to the type
  invariant that pending commits carry ids of the history (`PendingNumbered`), so
  that a new record is new and `KeepNewest` keeps at most the cap.
* `JudgedOnceHolds`: `JudgedOnce` is not inductive by itself; `JudgedInv` adds
  that judged commits, too, come from the history.
* `LostOnlyToNewerHolds`: an action property, from `TypeInv` and a lemma on what
  `KeepNewest` drops.
* `CooldownHolds`, assuming `SteadyClock` (no step back) and `RoomForEveryType`
  (`CommitCap >= Cardinality(ActionTypes)`).  The log is the end of the history
  (`KeepLast`).  A commit that is still cooling down has no later commit of its
  own type, and the commits after it that are cooling down have distinct types;
  so there are fewer than there are types, and it is still in the log.  The
  code keeps 100 records and has 7 types.
* `CooldownHoldsAnyClock`, assuming `NothingLost` (`MaxCommits <= CommitCap`) and
  `CooldownOn`, for a clock that is set back however often and far.  `can_commit`
  looks at the latest record of a type, not at the one with the greatest
  timestamp; since the log is the whole history, that is the last commit.

`ControlPathProofs`, for all rules, evidence, answers of models and
trajectories.  The invariant `PathInv` says that the constraints, the plan and
the verdict of a state are what `Classify`, `Optimize` and `FailedCheck` give
for the data before them; everything else is about those functions:

* `ControlTypeCorrect`, `GovernedByEvidenceHolds`, `GateAgreesHolds`,
  `ShedOnlyWhenExhaustedHolds`, `BreachAnsweredHolds`, `ScaleSufficesHolds`: one
  for each invariant of the `control` run.  They rest on `RelieveBounds`, the
  arithmetic of scaling (rounding up for the target, down for the capacity),
  and on `PlanSteps`, that every step of a plan satisfies the hard constraints.

`DriverProofs`, for any number of cycles, models that fail at any await, any number
of restarts and a clock set back however far.  `DriverInv` ties the call a cycle
awaits to the entries it has written (`CyclesOK`: at `pc[c]` the chain is one of the
eight beginnings of a complete chain, and the plan and the verdict are set when it
says so) and to what the fleet has (`AdmittedOK`: a package
admitted belongs to a cycle past its proposing, one package for each cycle, and the
cycle keeps the plan and the verdict it was sent with, and has written that verdict),
and says that what the fleet answered is told truthfully (`ToldOK`).  None of
the invariants is inductive without it, since each relates entries written at
different awaits.  All of it is about what a cycle has *written*: any number of those
writes may have failed (`missed`), and what the ledger has is the rest.

* `DriverTypeCorrect`, `AuditTrailHolds` and `ProposalsGovernedHolds`: one for each
  invariant of the `chain` run.  Of the ledger they say that it never contradicts what
  became of a package, and that it has the verdict of an admitted package unless the
  write of this very entry failed.  That it has the verdict whatever fails is what
  the documents promise and the `unrecorded` run refutes.
* `DriverIsGoverned`: the refinement of `GovernedCycle`, but for its fairness.  The
  initial states map to initial states, and each step of a cycle is, seen through
  the mapping, the step its phase allows, or a stutter.  The phase `approved` begins
  when the write of a verdict in favour has ended, well or not: what is refined is the
  order of the steps, and no claim about the ledger.  That `WF(Advance(c))` is
  implied stays with TLC.

`OverlapProofs`, assuming `SteadyClock`, `NoRestarts` (a restart empties the log) and
`RoomForBursts`: the log has room for the commits that the cycles in flight can make
of every type.  The code keeps 100 records and proposes four types: room for 25
cycles in flight, of which the service promises no number; `MaxInFlight` is a bound
of the model that the theorems make a parameter.  `OverlapInv` says that what
`can_commit` found stays true (`ChecksHold`) and that the cycles which were past
their check when a record was made, and have made one since or still may
(`Overlapped`), are no more than may be in flight.  A cycle that joins the set later
would have to have been in flight then, and one that leaves never returns.  So a
record that is cooling down has fewer than `RoomForBursts` records after it, and the
log, which forgets, has not forgotten it.

* `OnlyOverlapHolds`: two commits closer than the cooldown are of cycles of which the
  later asked before the earlier was recorded.
* `CooldownWithoutOverlap`: with `MaxInFlight = 1` the driver keeps the cooldown.
* `BoundedBurstHolds`, assuming also `RepliesValidate`, since a package whose reply
  does not validate is at the fleet and in no record: within a cooldown the fleet
  admits no more packages of a type than cycles may be in flight.

`IngressProofs`, for any events, deliveries, failing writes, resets and restarts.
`IngressInv` says that an idempotency id stands for one admission and that a repeat
has one (`AdmissionsOK`), what a delivery has fixed for its cycle and what the
package took from it (`DeliveryOK`, `PackageOK`), that a cycle under way or
registered has all its entries in memory unless a reset spanned it (`Kept`), that a
configured ledger has what a cycle wrote but for the writes that failed
(`WrittenHeld`), and that the key of an entry tells it from every other (`LedgerOK`):

* `IngressTypeCorrect`, `OneAdmissionHolds`, `RepeatsHold`, `PackageWithinEventHolds`,
  `RegisteredShown`, `IngressProofsAreReal`: one for each invariant of the `ingress`
  run.  `RegisteredShown` says that a ledger which answers shows every entry of a
  registered cycle but those whose own write failed: `query_chain` does not add
  what memory has of these.  When the ledger does not answer, or none is configured,
  it is the copies in memory that are shown, and those are complete unless a
  reset came while the cycle was under way.

`AuditingProofs`, for any records, page sizes, caps and windows, with calls that fail
and restarts.  `AuditInv` is TLC-checked on the instance of `audit`; its parts are

* `Gapless`: the pages fetched so far are positions `b + 1 .. b + n` of the log, and
  `b` ends the entries before the watermark's next instant; a record that arrives
  between two pages comes after both.  `WatermarkOK`: the watermark is the instant
  of a record that was read.  Together they give `WatermarkHolds`.
* `PollOK`: the verdict awaited is the sampler's on a decision of the sample, and the
  sample is fair (`SamplesFair`, from `QuotasCorrect`): `SampleFairHolds`.
* `RemoteOK`: a verdict in the ledger follows from its decision, and keys tell
  verdicts apart (`KeysApart`, `KeyMeans`): `AuditorsAgreeHolds`,
  `VerdictsNotRepeatedHolds`.
* `ResultsOK`: what the poll has written and what the results count is in the ledger,
  unless the write of that very verdict failed: `ResultsBackedHolds`.  `MemoryOK`: a
  local entry that carries a proof is in the ledger: `AuditProofsAreReal`.
* `CommandOK`, `CoveredOK`: the work of a cascade audit is its window's, and what is no
  longer left to do is posted, under a key that no other subject has; an entry that
  cannot be read is work that is never done, so an audit that completes had none:
  `CompletedAuditHolds`.
* `SampleSizeBounds` and `QuotasCorrect`, for any numbers of decisions: the quotas take
  only what is there, fill the sample, give half of it to judgement calls if there are
  as many, and leave out no kind.
* `AuditTypeCorrect` takes a conjunct from most of them.

`EvidenceProofs`, for sequences of integer samples, batches, records, events and
snapshots of any size, horizons and thresholds (`EvidenceAssumption`).  `EvidenceInv`,
TLC-checked on the instance of `predict`, says that evidence is made of pieces that the
adapters can make (`Piece`), that only an event brings what predict may take for a
forecast of DeepField, and comes alone, and that a trajectory is what `Predict` gives
for the evidence.  What is left is about `Predict`:

* `TrajectoryAcceptedHolds`: the confidence of a regression comes from the share of the
  variance that a line explains.  `LineExplainsAShare` shows that it is one: `n` times
  the sums of `Line` are sums of products of positions and values less their means
  (`CentredProducts`), and a quadratic form in two sequences is a sum of squares
  (`FormNatural`), which is the inequality of Cauchy and Schwarz in whole numbers.
  So the clamps of `slo_seed.py:33` and `predictor.py:87` never act in exact arithmetic;
  they only catch what floating point rounds beyond 0 and 1.
* `ConfidenceEarnedHolds`: the samples that count are those of the metric `predict`
  looks at: latencies if there are three, otherwise the metric with the most samples
  (`PrimaryIs`).  Fewer than five of them give less than 50 (`FewSamples`), however many
  another metric has, and an event that is not a number is one sample.
* `SpikeForeseenHolds`: values below a quarter of the peak have a mean below a quarter
  of it (`TotalBelow`), whatever their number and order, so that the
  detector finds them low for every threshold up to 4.

`FlattenSeq`, with which the model collects evidence, and the fold that sums are recursive
functions picked by CHOOSE.  That they exist, and what they give, is shown without
induction: of the lengths, or of the sizes of the sets, for which a claim fails one
would be the least (`FlatteningExists`, `FlattenTyped`, `SumExists`, `TotalStep`,
`TotalRemove`).

Assumed are, beyond what is named above, only the ASSUMEs of the modules: ranges that
`Settings` validates, that a trajectory has a point (`horizon_length > 0`), that
records and events have the fields the code reads.

Assumed of what is outside the program, in the models and so in the proofs:

* the fleet admits a package once for each idempotency key;
* the ledger keeps one record for each idempotency key and loses none;
* the gateway answers a query of records in ascending order of time, page after page
  (`decision_sampler.py:251` takes the greatest timestamp of what it has fetched, and
  a poll that stops at its limit never asks for anything older again);
* a record or an entry that the ledger has is returned by every later query that
  is answered.

Only model-checked:

* liveness, which is out of the prover's reach: `CyclesEnd`, `DeliveredIsRecorded`,
  `EveryRecordPassed`, and the fairness in `GovernedSpec`;
* `CooldownRespected` of the tracker when a log loses records *and* the clock is set
  back: it does not hold then.

## 5. What is not modelled

* The interpreter's weights: `optimize` does not read them.
* Digests, signatures, the CloudEvent envelope, the copies of evidence and
  candidates in a package.  Signing succeeds or raises.
* `verify_proof` and `verify_actuation`, which nothing in the program calls, and
  `decision_event_adapter`, a conversion that nothing calls either.
* The guardian in front of the models: it rewrites prompts, and what a model
  answers is free in the models.
* Slopes of trajectories after their first point in `EvidencePath`; `ControlPath`
  takes trajectories of every slope.
* Pure reads of the API, its response layout, the ModelPlane and scenario
  endpoints.
* The prompt classifier, a stateless endpoint; the legacy fleet adapters, which
  the intent adapter has replaced on the governed path; the scenario engine, a
  generator of demonstration data; dashboard and deployment.
* `assumed_warmup_seconds`: no action of the controller carries it, so the
  warm-up check looks at nothing.

Three hazards have no property, for the reasons `PROJECT.json` gives: that finished
cycles are kept without limit, that the cascade audit reads one page, and that
readings of several models at one instant reach the predictor as if they were a
series over time.  Two are covered in part: that the cooldown does not survive a
restart, and that an entry whose write failed is missing from what a ledger that
answers shows.

## 6. Plan

Every invariant and action property of the runs that expect no violation is a theorem.
What is left is to prove more of what the models say without a property of their own:
that a correct trajectory reaches the controller (`EvidencePath` and `ControlPath`
composed, with the points of each shape), and, from a bound on the failing writes,
how long a beginning of a cycle's chain the ledger can still vouch for.
