# Verification of fast-mlsirm

TLA+ modules, TLC configurations and TLAPS proofs for the parts of fast-mlsirm whose
correctness is a matter of control: what may follow what, which threads and processes
interleave, what a crash leaves behind. The numerical core is not modelled; where it
decides what happens next, it is left open (any answer it could give).

## 1. The system

fast-mlsirm fits and scores multilevel latent-space item response models. A Rust core
(`crates/mlsirm-core`, bound by `crates/fast-mlsirm-py`) does the numerics; the Python
package (`python/fast_mlsirm`) validates, drives and reports; scripts build and check
releases. State that outlives a step is kept in few places; the rest is immutable, sealed
records, and what can go wrong with those is that a caller puts together what does not
belong together.

| part | state | operations | what is hard | must hold |
|---|---|---|---|---|
| Item bank (`rubric/item_bank.py`, `rubric/_item_bank_reactivation_validation.py`) | immutable lifecycle records held by the caller, each naming its predecessor | admit a pilot record, transition | long and branching lineages; evidence that accumulates, is replayed or renamed; a limit of 64 references | use rests on evidence and fresh approvals; concerns are answered afresh; scope and evidence never change |
| Item generation (`rubric/generation.py`, `candidates.py`, `audit*.py`, `verified_pilot.py`) | sealed blueprints, requests, candidates, reports | request, parse, audit, admit | a provider answers anything; the report class is public; answers to another request | what is piloted was audited, and rests on its sources |
| Pilot evidence (`rubric/*_pilot.py`, `pilot_observations.py`) | observations a caller gathers | observe, build six kinds of design | providers name the items; missing responses; terms | one text per column, one response per cell |
| Scoring contracts (`scoring/*.py`) | assessments, requests, results, ratings, designs | build, authorize, score, project, bundle, fit | every builder takes any artifact of any origin | what is fitted is traceable, permitted and linked |
| Essay scoring (`scoring/essay`) | prompts, submissions, reports | request, score, report, calibrate | two requests for one response | no reason for review is lost |
| Enterprise issues (`scoring/enterprise_issue`) | sources, issues, requests | extract, compile, observe, calibrate | passages that do not replay, rewritten issues, notes made by hand | scores rest on the issue's own evidence |
| Threshold judge (`llm_judge.py`) | one record per question, a thread pool | judge boundaries, conclude | completions out of order, failures of some | a category means what the gateway said; one unanswered boundary fails the call |
| Judge calibration (`judge_calibration.py`) | outcomes of a pool of threads | evaluate cases, report | one judge shared by threads; a pool inside a pool | an outcome stays with its case; the gateway's limit holds |
| JMLE fit (`fit.py`, `jmle_opt.rs`) | the current point, its trace, the best candidate | restart, Adam, L-BFGS | NaN and infinity in every comparison | usable end points; the best restart is returned |
| Bifactor bootstrap (`bifactor_bootstrap.py`) | stored replicates, batches, the previous endpoints | batch, finish, stop | completion order, failures, the compute budget | flags and summary are those of the replicates |
| Item screening (`fitstats.py`: `select_items`) | kept items, the last fit | fit, screen, drop, refit | the last round, the floor per dimension, failed fits | the final fit is of what is kept |
| Anchor purification (`polytomous.py`) | the anchor, the flags of a sweep | sweep, intersect | four exits; the anchor moves between sweeps | a trusted anchor is clean in every group |
| Test assembly (`ata.py`) | the partial form | choose, refuse | a greedy choice that leaves no completion | it refuses only the impossible |
| Flexilevel test (`exposure.py`, `exposure.rs`) | position and count of right answers | ask, answer | index arithmetic at the ends | the next item is the one the rule names |
| Sequential DIF (`sequential_dif.py`) | an archive directory: lock, manifest, claims, rounds | run: replay or fit rounds | crashes between any two steps, partial and damaged files, a second caller | no round is fitted twice; replays give the same answer |
| Artifact readiness (`_artifact_readiness.py`) | stamps and digests of an installation, on a disk others may write | verify in two passes | changes between any two system calls | ready means approved at one moment |
| Release chain (`scripts/build_commercial_release.py`, the nine scripts it runs) | an output directory that earlier runs have used | run scripts, write reports, archive | a script killed at any write; files of an earlier run or version | a manifest that says ok rests on its own run |
| Bounded capture (`scripts/_bounded_subprocess.py`) | a process group, two pipes, two drain threads, a deadline | run a command | threads, processes and the clock in any order; descendants that leave the group | a result is the whole output; failures leave nothing behind; the call returns |
| Rust numerics, estimators, statistics, rotation, multilevel, RAG adapters, serving, CLI, loaders, licence scripts | none beyond a call, or one lock | | | (not modelled, section 6) |

Generated items are piloted; pilot designs and calibrations enter the item bank as evidence
references. The essay and issue adapters write requests and results of the shared scoring
contracts, and only those reach a calibration. Judge calibration calls the judge, which
brings a thread pool of its own. The bootstrap and the native rounds of sequential DIF call
fits. The release chain runs its scripts under deadlines. `PilotStudy` extends
`ItemGeneration`, and `ScoringServices` composes both adapters with the contracts, because
there records flow from one into the other; elsewhere what one part gets from another is a
nondeterministic choice, and each is a specification of its own.

## 2. Modules

| module | what it is | extends |
|---|---|---|
| `ItemBank` | the lifecycle and its gates | |
| `ItemGovernance` | the promise: decisions, signatures spent once, open concerns, a fixed scope | |
| `ItemBankRefinement` | the mapping from one to the other | `ItemBank`, instantiates `ItemGovernance` |
| `ItemBankProofs` | theorems of both | `ItemBankRefinement` |
| `GovernedScoring` | scoring contracts up to the facets fit | |
| `EssayScoring`, `IssueScoring` | the two adapters | `GovernedScoring` |
| `ScoringServices` | contracts and adapters together | `EssayScoring`, `IssueScoring` |
| `ScoringProofs` | theorems of contracts and adapters | `ScoringServices`, `CountingLemmas` |
| `ItemGeneration` | from a blueprint to an item that may be piloted | |
| `PilotStudy` | responses and the designs made of them | `ItemGeneration` |
| `ThresholdJudge` | one judgment by binary thresholds | |
| `JudgeCalibration` | paired cases on a pool of threads | |
| `PilotAndJudgeProofs` | theorems of the pilot, the threshold judge and judge calibration | `PilotStudy`, `ThresholdJudge`, `JudgeCalibration`, `CountingLemmas` |
| `JmleFit` | restarts around the optimizers | |
| `BifactorBootstrap`, `ItemScreening`, `AnchorPurification`, `FormAssembly`, `Flexilevel` | procedures a test is built with | |
| `ConstructionProofs` | theorems of each of the five and of the fit | these five, `JmleFit`, `CountingLemmas` |
| `CountingLemmas` | induction by least counterexample, sums over finite sets | |
| `SequentialDif`, `SequentialDifProofs` | calls sharing an archive, and theorems | |
| `ArtifactReadiness` | the two-pass verification | |
| `ReleaseChain` | the builder and its scripts | |
| `ReleaseProofs` | theorems of the release chain and of artifact readiness | `ReleaseChain`, `ArtifactReadiness`, `CountingLemmas` |
| `BoundedCapture`, `BoundedCaptureProofs` | one captured command on POSIX, and theorems | |
| `MC...` | small instances for TLC; `MCTestConstruction` holds the five procedures, of which an initial state starts one | |

Definitions whose comment begins with "(fault" are not part of the model. Each is a
plausible mistake in the definition that follows it, used to see that a property notices.

### Item bank
A record is identified with its lineage, since it names its predecessor by content.
`held` is the set of lineages the caller still has; the library keeps no registry, so a
caller may extend a lineage twice or one that is superseded. `BuildPilotRecord` admits
an item to the pilot, `Transition` is a call that creates a successor; `CanTransition` is the conjunction of its gates
and `Successor` its result. `ItemGovernance` says the same without evidence, identifiers
or limits: a decision that puts an item into use spends signatures never spent before,
and a suspension leaves named concerns open.

### Scoring
Sealed records are named by the digest of their content and builders are functions, so the
records that can exist are sets defined by what the builders refuse (`Requests`, `Results`,
`Projections`), and the state is what a caller has put together of them: `collected` ratings,
the `bundle` built last, the designs of the last fit. `Sheets` are observations that a caller
may hand to `build_scoring_result`, also of two requests or two engines. Requests carry
opaque `notes`, observations what they cite and a `stamp`: these are the metadata that the
adapters write and read back. `EssayRequest` is what the essay builder makes of a prompt and
a submission, `IssueReport` binds a request and a result in a report with its
`ReviewTriggers`. `Extract` replays the passages of proposed issues against the source
texts; `ExecutionAllowed` is the replay of one issue, request, result and engine before
calibration. Notes made by hand and issues that no extraction returned are part of the
model. One initial state serves essays, another issues.

### Item generation and pilot
The same view of sealed records. A text is a name; `Normal` and `Trait` say what an audit
can tell of it. `ItemGeneration` defines which candidates a parser accepts from any answer,
what an audit finds and which reports a pilot accepts; `PilotStudy` gathers responses and
hands them to one of six designs.

### Threshold judge and judge calibration
Each question has a record that its thread updates in the order of the code (`Begin`, then
`Answered`, `Unreadable` or `Raised`). `CollectResult` is `list(pool.map(...))`: results are
taken in request order. `ConcludeJudgment` appends thresholds and sums them. In
`JudgeCalibration` a worker takes a case, makes the gateway calls of its method (`Ask`,
`Return`), and `Judge` turns them into what the judge said; `Conclude` builds the report.
`BoundaryCalls` and `AdmittedCalls` are the `CallCount` and `LocalConcurrency` of a threshold
judge. `replies` is a ghost: what the gateway made of each request.

### JMLE fit
The objective is any function from points to finite levels, infinity or NaN; every
comparison with NaN is false, as for doubles. Updates and line searches may go anywhere.
`finals` is a ghost: the objectives of all candidates.

### Test construction
Five procedures whose statistics are unknown: which replicates converge is fixed, as seeds
fix it; a screening may flag any item; a sweep may flag any column; any admissible candidate
may bring a form nearest to its target; a person may answer anything. What is left is the
control: who is dropped, restored, kept in the anchor, chosen or asked next, and when it ends.

### Sequential DIF
A call takes the lock, settles the manifest, then goes through the rounds, replaying what
is there and fitting what is not. Creating a file and writing it are two steps, and a call
may die between any two (`Crash`): its lock goes with it, its files stay. `Damage` truncates
or alters a round. `asked` and `results` are ghosts: the fits made and the results returned.
The lock is the second defence: exclusive creation of the claim alone already prevents a
second fit, which is why the fault that breaks `NeverRefitted` is in the claim.

### Artifact readiness
The file system is inodes, directory entries and contents; any change gives what it touches
a stamp never seen before. Every system call of `_verify_files` that can see a change is a
step, and an installer may act between any two. Two consecutive observations of one name or
one descriptor are one step. `between` is a ghost: the installation when the second pass
began. `Levels` is what lies how deep below the package roots, `Approved` what the policy asks of
all of it.

### Release chain
A file is the script that wrote it and its kind; what a script writes is a sequence, of
which a deadline or a crash leaves any beginning, the next file torn. The output directory is
that of earlier runs, and `dist` keeps the wheels of earlier versions.

### Bounded capture
`todo` is what the calling thread has yet to run, so a helper is its labels put in front
of the caller's. A clock is one flag, bytes are counted. A descendant may hold either pipe
and may be in a process group of its own (`escaped`).

## 3. Runs

| run | shows | bounds |
|---|---|---|
| `item_bank_chain` | use rests on evidence, approvals are single-use, concerns are answered, exits stay open below the limit, `ItemGovernance` is implemented | lineages of nine records: two suspensions and reactivations, every gate with packets that pass it and packets that break one rule; 14 references are too few for nine records of full packets, so the limit is met |
| `governed_scoring_fit` | `CellsTraceable`, `OneTextPerCell`, `FitsAreLinked`, `NoCriterionLeftOut`, and of the adapters `ReviewIsNotLost`, `ScoresRestOnEvidence` | two respondents (or issues), two task revisions, three engines, two criteria, four results: three cells link a design, the fourth is free to contradict; a second text, one name for two texts, an issue rewritten under its name, notes and stamps made by hand |
| `pilot_handoff` | sound items, grounded items, unambiguous matrices, up to the estimator | three admissible items, two of one name, two terms, four responses; seven answers that must not get through; symmetric respondents and raters |
| `threshold_judge_pool` | the verdict follows the answers; the call returns | two criteria with two boundaries, two threads: a thread idles, waits and overtakes |
| `judge_calibration_paired` | the report follows the cases; the gateway's limit across nested pools; it returns | two questions of two variants or one of three, three boundaries, a limit of two |
| `jmle_fit` | usable ends, best of restarts | three points, every objective on them; three iterations, so `adam_lbfgs` splits unevenly; two restarts |
| `jmle_valid_fit` | violation: a first restart at NaN is never replaced | two points |
| `test_construction_calls` | `EndsTruthfully` (bootstrap), `FinalFitIsOfWhatIsKept` (screening), `TrustedAnchorsHold`, `RefusesOnlyTheImpossible` (assembly), `FollowsLordsRule` | seven replicates in batches of two, so that the last is short and the rule has two batches to compare before it; six items in two dimensions and two rounds, so that the last may remove; three columns, two focal groups, up to three sweeps; five items of two contents and a content without items, forms of three, four and no items; nine items of a flexilevel pool |
| `sequential_dif_archive` | no second fit, one request per archive, same answers, every call ends | two callers, three calls (fit, crash, replay), two rounds, two items, two libraries |
| `artifact_readiness_install` | ready means approved; no false alarm | two changes: enough to put something in and take it out again |
| `release_chain_runs` | an ok manifest rests on its own run; the buyer gets what was indexed; manifests tell; what is accepted is whole | two runs, two versions, every script or fewer |
| `bounded_capture` | whole results, nothing left behind, truthful verdicts, return | one descendant, in or out of the group, holding any pipes; limit 1, so 2 bytes overflow it |

`CHECK_DEADLOCK FALSE` is said where the program really ends: calls that have returned, or
lineages, calls and budgets at the bound. `ArtifactReadiness` has an explicit final stutter
and is checked for deadlock.

Two bounds are more than sizes. In `GovernedScoring` and `PilotStudy` nothing is collected
after a bundle is built or data handed off: later records cannot change an immutable bundle,
so whatever is fitted is fitted as well by a caller that collects first. The same record
handed over twice is one element of a set; the code refuses duplicates.

### The violation
`python/fast_mlsirm/fit.py:214` makes a fit that is not found an error; a NaN from the first
restart is kept instead, because nothing compares less than NaN (PROJECT.json, findings).

### Seen while modelling
Differences between code and text that no run is about, or that a property had to allow for:
- Item bank: suspension is documented as reversible, but at 64 references neither
  reactivation nor retirement is possible (`ExitsOpenBelowLimit` is what holds); an older
  record of a retired item still yields active ones.
- Capture: the one hard deadline does not cover closing a pipe that an escaped descendant
  holds (`CaptureReturns` is what holds).
- Bootstrap: a single converged replicate makes every endpoint constant, and the rule stops
  on it; a comment lets the rule fire from the second batch, it needs a third.
- Screening: the floor per dimension restores dropped items by lowest index and without a
  note, where docstring and comment (`fitstats.py:960`) speak of the least flagged and of a
  note; `infit_outfit` is called without the person weights that the docstring promises.
- Purification: with `max_rounds=0` the flags of the only sweep count as stable, so an anchor
  with flagged items is called trustworthy (`TrustedAnchorsHold` asks for a round).
- Assembly: an empty form is refused although it would meet constraints that ask for nothing
  (`RefusesOnlyTheImpossible` speaks of forms of at least one item).
- Scoring: `minimum_raters_per_response` (`policies.py:29`) is carried and enforced nowhere.
- Essays: the "missing evidence" trigger looks for any reference at all and does not compare it
  with the passages of the request; `build_essay_facets_calibration_report` trusts the caller
  for which design was fitted, which the helper that fits does not need.
- Issues: a reference forgets where its passage stands; passages of perspectives are never
  replayed against texts; two records of one issue with different evidence may be calibrated
  together.
- Judge calibration: an exception whose `evidence` is no mapping ends the evaluation, where
  the docstring (`judge_calibration.py:667`) has provider errors remain outcomes.
- Release: the index does not compare source commits, to which
  `docs/enterprise_sales_readiness.md:41` ties everything; artifacts of an optional script that was
  skipped are still listed if an earlier run left them.

## 4. Fairness

Safety needs none. For termination:
- the threads of `BoundedCapture`, `ThresholdJudge` and `JudgeCalibration` are scheduled by
  the operating system, hence weak fairness of each thread's step; a signalled process dies;
  the deadline comes. Nothing is assumed of the command or its descendants;
- a question to the gateway ends: the gateway has limits of its own, outside these files.
  Fairness of `Ask`, `Return` and `Judge` in `JudgeCalibration` is of the pool as a whole: some
  case gets on as long as one can, which suffices because there are finitely many calls;
- `SequentialDif`: weak fairness of each call's steps, which includes that a native round
  answers or raises; not of new calls, crashes or damage.

`JmleFit` and `BifactorBootstrap` state fairness of their steps, which no property needs.

## 5. Theorems

TLC checks the instances above; TLAPS proves for every value of the constants. A theorem about
a property is about the definition that the run checks. Where induction over numbers or sets is
needed (sums, searches, replays), it is by the least number or a smallest subset for which a
claim fails (`LeastNumber`, `SmallestSubset` of `CountingLemmas`).

**Item bank** (`ItemBankProofs`). The invariants beyond `TypeOK` are not inductive: that an approval was
never used before depends on how the lineage came about. `IInv` is `TypeOK` and `Chained`:
every held lineage begins with an admission, each further record is the successor of the one
before under gates that let it pass (`Linked`), its first three states come in order
(`Shaped`), evidence only grows (`Growing`) and binds identifiers consistently (`Consistent`),
and a declared scope is kept (`Scoped`). `NewLineages` says that a step drops lineages, admits
one or extends one; so only the last record of one lineage has to be considered. Proved:
`TypeCorrectness`, `UseIsEarned`, `ApprovalsAreSingleUse`, `ConcernsAreAnswered`,
`EvidenceAccumulation`, `ScopeIsPermanent`. `ImplementsGovernanceSpec` proves that every step
is a step of `ItemGovernance` or none; freshness of signatures comes from single use, the fixed
scope from `Scoped`. `ExitsStayOpen` proves that the ways out of use stay open below the limit
of references, with one hypothesis: fewer references than the limit do not name every
identifier or artifact there is (`SomethingIsNew`), which holds of strings and digests and of the
instance that TLC checks. Assumed: packets are finite sets of references (`PacketsAssumption`), the limits are
natural numbers (`BoundsAssumption`).

**Scoring** (`ScoringProofs`). `IInv` traces what the caller holds to the builders: a rating comes
with all ratings of its result, which are those of an allowed projection of an allowed result
(`CollectedIsTraced`, `CollectedIsOfService`); a bundle is the designs of what is held
(`BundleIsBuilt`); a fit is an allowed design of one contract (`FitsAreAllowed`); an extraction
replayed (`ExtractionReplays`) and a report was bound (`ReportIsBound`). From it and from what each
builder refuses follow all six properties of the run. The hard one is `FitsLinked`: the design
runs two searches, of respondents with revisions and of revisions with engines; that nothing is
left apart takes that both meet in the revisions (`ConnectedIsLinked`, by the least step of a
search at which a set would be left). Assumed: terminal responses are no categories, criteria
are finitely many, bounds are natural numbers (`ScoringAssumption`), an abstention is terminal (`IssueAssumption`).

**Pilot** (`PilotAndJudgeProofs`). Soundness and grounding hold of every candidate that some report
gets into a pilot (`PilotableIsSound`, `PilotableIsGrounded`): a report that was cut has a blocking
finding, so whatever passes has nothing but advice against it (`OnlyAdvice`). `PilotInv` carries
them, and what each design refuses, to what is handed over: `FittedItemsAreSound`,
`FittedItemsAreGrounded`, `ColumnsAreUnambiguous`. Assumed: the texts of an answer are lists, the packet of
sources is finite (`GenerationAssumption`), categories are numbers.

**Threshold judge** (`PilotAndJudgeProofs`). The verdict is computed from a list of results, the
property is about what the gateway answered to each criterion. `ThresholdInv` relates them in two
steps: results taken so far are the records of the first requests, in order (`InOrder`), and a
settled record has kept what the gateway made of its request (`Kept`). The rest is arithmetic of
requests: the threshold at `t` of a criterion is its request `RequestOf(c, t)`
(`ThresholdsInOrder`), found by counting the requests of a criterion among the first ones.
`ThresholdInvariant`, `ThresholdTyped` and `VerdictCorrect` hold for any number of criteria,
boundaries and threads. Assumed: at least one criterion and boundary
(`RequestsAssumption`), sizes are natural numbers (`GatewayAssumption`).

**Judge calibration** (`PilotAndJudgeProofs`). `CalibrationInv` says that outcomes are of the first
cases, each with what the judge said of it (`OutcomesInOrder`), that calls are open only for
cases in hand, of which there are as many as workers at most, and that a report that was built has
all cases (`AllJudged`). `LimitRespected` then sums the open calls over the cases (`TotalWithin`):
either one worker has a limit's worth of calls, or many workers have one each.
`ReportsFaithful` goes from outcomes to the matrices of the report, question by question.
Assumed: a list of cases is a sequence, calls are at least one (`CalibrationAssumption`).

**Joint fit** (`ConstructionProofs`). `FitInv` adds to both properties that L-BFGS has iterations left and
stands at a usable point, and that there is a best candidate exactly when there is any:
`RestartsEndUsably`, `ReturnedIsBest`, `FitTypes`, for every objective, NaN and infinity
included. Assumed: at least one iteration, restart and level.

**Test construction** (`ConstructionProofs`), one invariant per procedure.
- `BootstrapEndsTruthfully`: results are the seeds' own up to the replicates completed, batches
  are in order (`BatchesAreInOrder`), the rule has seen two checks when it stops.
- `ScreeningFitsWhatItKeeps`: what comes back fills each dimension to its floor, or to what it had
  (`RestoredFills`).
- `AnchorsAreTrusted`: every report of a group is untrustworthy or was tested against the anchor
  it names.
- `SelectionIsComplete`: what is still needed fits into the places left, and as long as an acceptable
  form exists some item is a candidate (`CandidateExists`: one of a label in need, or else one of which
  an acceptable form has more). So the look-ahead of `_content_feasible`, which looks at each label by
  itself, is enough for the greedy selection never to run into a dead end.
- `IndexIsTheRule`: the items answered and the one to ask next form an interval around the median, from
  `rights - turn` to `rights`; so the index arithmetic names the item that Lord's rule does, never
  leaves the pool, and the self-score counts the right answers.

Assumed: the admissible arguments (`ArgumentsAssumption`, `ScreeningAssumption`,
`PurificationAssumption`, `AssemblyAssumption`, `FlexilevelAssumption`).

**Sequential DIF** (`SequentialDifProofs`). `IInv` adds to `TypeOK` and `NeverRefitted`: only
the holder of the lock is under way (`Exclusive`); a call has a job and, after the native round,
an output (`AtHand`); a call starts with no rows (`Fresh`); a round that is not claimed was not
fitted, nor was one whose claimant has yet to dispatch it (`Claimed`); and the manifest is the
job of every call past it and of every fit (`Pinned`). `Claimed` gives `RoundsFittedOnce`,
`Pinned` gives `OneJobPerArchive`; `ControllerTypes` includes that a call never passes the rounds
its request allows. `OneAnswerPerArchive` needs a second invariant, `TrailInv`: the outputs a call
has accepted determine its mask (`OnTrail`), and once a call has returned there is one trail of
outputs, kept in the rounds it claimed, that every later call follows up to where it ends
(`Decided`); a damaged round ends such a call, it cannot divert it. Assumed: the sentinels differ
from real values (`DistinctAssumption`), bounds are natural numbers.

**Bounded capture** (`BoundedCaptureProofs`). What the calling thread has still to run is one of
the `Places`; the invariant says what holds at each (`Reached`): which readers it has seen end,
that processes are signalled only with a reason (`Trouble`), and from which place on no process of the
group that holds a pipe was spared (`Spared`). `Bytes` says where every byte written is,
`ClosedLate` that a pipe is closed only after trouble or success, `Flags` and `Told` that flags and
verdict tell the truth. Proved: `CapturesAreWhole`, `ReturnsCleanly`, `VerdictsAreTrue`,
`CaptureTypes`, for any number of descendants, limit and pipe capacity. Assumed: the leader is
not a descendant, sizes are natural numbers and a pipe holds a byte.

**Release chain** (`ReleaseProofs`). Scripts write files of their own only (`OwnFiles`), and a file
cites others as they were when it was written. `ChainInv` says that every file is well made, torn
ones included (`DiskSound`, part of the types), that the stages of a run are a prefix of its plan
(`PlanFollowed`), that every script that has passed still has its effect (`Evidence`), that stages
and manifest tell what happened (`Told`), and that a released manifest is backed (`Backed`).
`Evidence` is kept because of the order of the plan: no script comes after another whose evidence it
would overwrite (`CanFollow`, `LaterFollows`); a plan in another order breaks this lemma. Proved,
for any set of versions, options, runs, crashes and partial writes: `ChainInvariant`,
`ChainIsTyped`, `EvidenceIsOfThisRun`, `BuyerGetsIt`, `ManifestDoesTell`, `AcceptedIsOfOnePiece`.
Assumed: versions and bounds are natural numbers, options name optional scripts
(`ReleaseAssumption`).

**Artifact readiness** (`ReleaseProofs`), for any installation, any depth and any changes.
`ReadinessInv` is about stamps: what still has the stamp it was looked up, hashed or entered with
has not changed since (`Hashed`, `ReadSoFar`, `Unmoved`), stamps that were noted are from before the
second pass (`Clocked`), and the walk and the entry in hand fit the file system (`WalkFits`,
`FileFits`).
- `ReadyIsApproved`. In the second pass an open directory that changes is noticed when it is left, a
  file when it is confirmed; until then the pass may go astray. So `Covered` is conditional: as
  long as no open directory has changed (`Sure`), the walk is a path of the installation as it was
  when the pass began (`Chained`), and there are sets of files and directories, of that installation,
  that hold everything behind the walk (`CoveredBy`). When the pass ends with the root unchanged
  they are all of it (`EndCovered`, by the least level that is not covered).
- `RefusesOnlyForCause`. If nothing changes, `Covered` holds of both passes; hence the second finds
  what the first has noted (`Again`). What is looked up is there (`Planned`), and every look is at
  a path nobody looked at in this pass (`Counted`), so the count stays below the number of
  entries, which is finite (`FewReachable`), and no inode is met twice unless the installation has
  it twice. With that no comparison of an approved installation within the limits can fail.

Assumed (`FileSystemAssumption`): directories and names are finitely many, the three kinds of
inodes are disjoint, contents are sequences of chunks.

**Model-checked only**: the liveness of the runs (`CaptureReturns`, `JudgeReturns`,
`CalibrationReturns`, `CallsEnd`), since fairness and `ENABLED` are beyond the prover. Every safety
property that TLC finds to hold is a theorem.
The bounds `MaxWritten`, `MaxLineage`, `MaxHeld`, `MaxResults`, `MaxChanges` and their like occur in
the theorems as in the models, as arbitrary numbers.

## 6. Limits

- Fingerprints and digests are collision free.
- `GovernedScoring` leaves out the migration of old requests, which ends in
  `build_scoring_request`, response states, descriptors beyond the engine's name and kind, and
  the estimator. Of the adapters: the essay validation report, whose metrics the caller
  supplies, the HTML, the numbers of the calibration reports, the parser of explicit values
  and candidate interventions.
- `ItemGeneration` leaves out the compiler of blueprints (a caller may hand in any), requests
  made by hand, which bypass the compatibility check, and semantic screening, whose result
  nothing reads. A stem stands for the stimulus and the key with it. `PilotStudy` leaves out estimator
  controls and `item_parameter_evidence.py`; its instance has one category and one unobserved state,
  which no builder tells apart from others.
- `JudgeCalibration` leaves out the builder of multiple-choice cases and strata; results without
  a category count make a report refused, exceptions without evidence end the evaluation.
- The procedures of test construction are calls of their own; each starts from an arbitrary
  argument. Convergence failures of augmented fits are items that are not flagged, as in the
  code. The dichotomous loops of `dif.py` are not modelled.
- `ReleaseChain`: a crash kills the builder with its script; a commit missing before the start
  changes nothing and is left out, and so are retries of calls to GitHub.
- `SequentialDif` leaves out the loss of directory entries when the host goes down, which
  `docs/sequential_dif.md` excludes, and the owner who removes files by hand.
  A native output that holds a NaN cannot be archived and leaves the round unsettled; it is
  a call that ends before it saves.
- `BoundedCapture` leaves out the reuse of a process number, the time limit of each reap and
  systems other than POSIX.
- `ArtifactReadiness` takes a stamp to tell two changes apart, which a coarse clock may not;
  the installation root stays in place, as the module demands of the host; package roots of
  several parts, opened the same way part by part, are not enumerated; the checks of policy
  and startup record come before and are left out.
- `JmleFit` and `BifactorBootstrap` leave out all arithmetic.

### Not modelled
The Rust numeric core, its GPU kernels, the estimators and most of `fitstats.py`,
`polytomous.py`, `scaling.py`, `diagnostics.py`, `exposure.py`, `dif.py` and `equating.py` are
floating-point computations. Their control is loops over arrays and argument checks; what
could be wrong is accuracy, which needs other means. The same files' procedures with
decisions of their own are the ones modelled. Rotation starts, RAG adapters, serving, command
line, loaders, argument-safety wrappers and licence scripts: reasons in PROJECT.json.

## 7. Plan

1. An abstract specification of the archive (a memo of answers that is filled once) and the
   refinement by `SequentialDif`; `TrailInv` is most of what it needs.
2. Rotation starts with workers that panic; the RAG adapters on the shared contracts.
3. The estimators' drivers beyond restarts, where they have decisions of their own.
