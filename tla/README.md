# TLA+ specifications of arcs-verify

This directory holds TLA+ modules that model the verification logic of
arcs-verify, TLC configurations that check them on small instances, and TLAPS
proofs of the main safety properties for every instance. Paths below are
relative to the repository root (`arcs_verify/`, `stranger0/`).

## 1. The system

arcs-verify is a set of offline verifiers. Each reads files, computes findings,
and reports a verdict through a report and an exit status. Around the core
verifier, `stranger0/` adds a receiver that turns verdicts into reliance
decisions with memory (a ledger), and an orchestrator that runs many receivers
concurrently. Nothing in the repository emits production receipts.

| Component | State | Operations | Interacts with | What is hard | Correct when |
|---|---|---|---|---|---|
| `verifier.py` `verify_receipt` | the `VerificationReport` under construction | fourteen blocks, five early returns | called by the CLI, the set and sequence verifiers, the receiver | a verdict and the codes that explain it are computed independently; a finding is set by one block and withdrawn by another; first key entry wins | a pass is authentic and conforming; codes explain failures; the exit status means what the README says |
| `cli.py` `_verify_srs` | exit status | load four inputs, print, exit | `verify_receipt` | exceptions surface as exit 1 | exit 2 iff an input is unusable |
| `receipt_set.py` | `seen_paths`, `seen_ids`, receipts, reports, findings | check the index, each entry, then linkage | `verify_receipt`; used by the receiver | entries dropped for one reason influence later checks | a passing set dropped nothing; linkage independent of order |
| `stranger0/receiver.py` | three record files, reasons, decisions; the ledger in the trust input | unlink stale records, load, verify, write findings, decide, write decision, write facts | both verifiers; the operator folds `ledger_additions` back | kills between files, repeated and conflicting receipts over many runs, a two-pass decision | nothing is relied upon twice; a relied outcome rests on a relied admission; records are of this run |
| `deferred_sequence.py` | thirteen gating conclusions and one informational one | one loop per conclusion | single-receipt profile routine | lists that lost, repeated, reordered or mixed receipts | honest lists pass; delivery faults are caught; outcomes rest on an admission |
| `stranger0/run_stranger0.py` | futures, `_CLI_CACHE`, results, transcript | evaluate a case on a thread, cross-check with the CLI, collect, summarise | launches receivers and the CLI as processes | threads sharing a cache, timeouts in one thread, an exception seen in catalogue order | verdicts independent of the schedule; exit 0 earned; all threads joined |
| `ingest_run_sequence.py` | conclusions, findings, loop flags | read run document, manifest, profile manifest, each receipt, then account for every file occurrence | files on disk | files edited before and removed while it reads; occurrences in two lists or none | a pass is one run, each occurrence answered once |
| `governed_memory_sequence.py` | fourteen conclusions, findings | presence, then linkage, continuity, digests, replay | one bundle file | artifacts of different reads in one bundle, optional artifacts | a pass is of one read |
| `source_work_sequence.py`, `acquisition_grounding.py` | conclusions, axes | digests and references along the capture; the visible-text projection and its spans | the second is called by the first and has a command line of its own | files of two sessions; offsets into a projection that changes the text; open conclusions | a pass axis is recomputed and of one session; grounded text is visible |
| profile routines (`verifier.py` 661-2500) | none | thirteen lists of structural rules | `_profile_errors` | two profiles accepting one receipt; routines that raise | a receipt conforms to one profile |
| `admission_event*.py` | flags, codes, comparison, the identity handed on | envelope, profile, content, supersession, signature, trust | three versions of one profile | version confusion, identity captured before the signature is checked, missing digests | a pass is the issuer's and of its version |
| `exit_o_origin_authentication.py`, `exit_o_origin_cli.py` | three structural and several substantive findings | schema, bindings, times, signature, a loop over four evidence layers, the key's binding | two command lines | a later step that overwrites a failure; two instants and several windows; key, principal and name in different files | a key authenticates its own attester only |
| `c2pa_native.py` | report under construction, validator process | digest, version probe, run, normalise, compare, check | an external validator | hangs and failures, files replaced between digest and run, two instants, two sets of rules about one comparison | the run ends; an honest observation is not accused; digests name the bytes validated |
| `c2pa_srs_observed.py` | six stage outcomes, frozen evidence, observed side | the stages in order, each against the retained bytes | `c2pa_native.recompute` | an untrusted observation, silence on both sides | what completes is borne out by retained bytes |
| external profile, DAGR authority context and v0.2 receipts, SCITT adapter | report | digest bindings, windows | signature helpers, a pinned backend | as above | a pass binds every digest |
| Amnesiac chain verifier | chain, replay | structure, render replay, public proof | canonical hashing | two stages that must agree | replay equals what was recorded |
| `universal.py`, `portable_pack.py` | none; a package | route bytes to a verifier; create, verify | all verifiers | defaults supplied silently | routing never upgrades a verdict |
| reports, constants, release tools, EBC harness | none | projection, scans | | | a projection never turns fail into pass |

`PROJECT.json` lists every component with its status, every hazard with the
line where it bites, and every definition with the lines it translates.

## 2. Modules

| Module | Models | State and actions |
|---|---|---|
| `VerifyReceipt` | `verifier.verify_receipt`, `cli._verify_srs` | `pc` is the block to run; `results`, `principal_binding_digest`, `decision_branch`, `codes` are the report; one action per block, named after it |
| `ReceiptVerdict` | the contract of the exit status, abstractly | one request, one verdict |
| `ReceiptLinkage` | what admission/outcome linkage means, without loops | operators only; the specification `ReceiptSet` is compared with and `Receiver` uses |
| `ReceiptSet` | `receipt_set.verify_receipt_set` and `main` | `step`, `at`, `seen_paths`, `seen_ids`, `receipts`, `reports`, `findings`, flags; one action per check of the index, one per way an entry can go, one per receipt linked |
| `Receiver` | `stranger0/receiver.py` `_run`, over many runs | `disk`, `reasons`, `decisions`, `ledger`; one action per step of `_run`; `Kill`, `StartRun`, `Collect` are the environment |
| `DeferredSequence` | the checks of `deferred_sequence.py` | operators: the codes each conclusion's loop would add to a list |
| `DeferredDelivery` | an emitting operation, a faulty delivery, and `main` | `sent`, `receipts`, conclusions; emission and faults are external |
| `Stranger0Run` | `stranger0/run_stranger0.py` `main`, `evaluate_case`, `cli_crosscheck` | `state` of each case's future and thread, `cache`, `problems`, `collected`, `transcript`; one action per step between two points where threads can interleave |
| `SequenceCommand` | what the command lines of the next three have in common | `faults`, `pc`, `concl`, `exit` |
| `IngestRunSequence` | `ingest_run_sequence.py` | `disk`, entry `i`, `broken` (cleared flags), `concl`, `findings`; one action per document read, two per receipt (`is_file`, then read); `Edit` and `RemoveFile` are the environment |
| `GovernedMemorySequence` | `governed_memory_sequence.py` | `bundle`, `concl`, `codes`; load, presence, sequence |
| `AcquisitionGrounding` | `acquisition_grounding.verify` | operators: projection, spans, conclusions, axes |
| `SourceWorkSequence` | `source_work_sequence.py`, and the command line of `acquisition_grounding.py` | `ev` (the files), `concl`, `axes`; one action per group of conclusions |
| `ExitOOrigin` | the EXIT-O verifier and both its command lines | `structural`, `finding`, `codes`, layer `k`, resolved `key`; one action per block, one per layer |
| `AdmissionEvent` | the three admission-event verifiers | `holds`, `codes`, `comparison`, `captured`; one action per stage, guarded by the version |
| `C2paFinding` | the pure part of `c2pa_native.py` | operators: `canonical_finding`, `compare_sides`, the report checker |
| `C2paNative` | `recompute` and the native command line | `disk`, `now`, `digest`, `version`, `outcome`, `recomputed`, `report`; one action per step between two process or file operations, and one per way the validator ends |
| `C2paSrsObserved` | `c2pa_srs_observed.py` | `kept`, `stages`, `observed`; extends `C2paNative`, whose `recompute` it runs over frozen copies |
| `*Proofs` | proofs: `VerifyReceiptProofs`, `LinkageProofs` (receiver and receipt set), `DeferredProofs`, `Stranger0Proofs`, `SequenceProofs` (ingest runs, governed memory, source work), `ExitOOriginProofs`, `AdmissionEventProofs`, `C2paProofs` | |

Compositions: `Receiver` uses `ReceiptLinkage` for the set verifier's result,
which `ReceiptSet` shows to be what the loops compute. `DeferredDelivery`
composes emission, delivery and `DeferredSequence`. `VerifyReceipt`
instantiates `ReceiptVerdict` with a refinement mapping. `Stranger0Run` uses
the receiver and the CLI only through their exit status and records, and takes
the CLI to be a function of receipt bytes, keyring and profile, as
`cli_crosscheck` does; that one verdict per input exists is what the
`VerifyReceipt` contract states. `SourceWorkSequence` uses the
operators of `AcquisitionGrounding` for its proposal axis and for the second
command line. `C2paSrsObserved` composes the observation pipeline with
`C2paNative`, so that one next-state relation has both callers of `recompute`.
`MCSequences` puts the command lines of governed memory and of source work side
by side, one of them per behaviour; they share no file.

A type invariant (`TypeOK`; `SetTypeOK`, `MemoryTypeOK` and `WorkTypeOK` in the
modules that are extended together) describes the state of every component. It
is proved for all of them; the runs are spent on the other properties. The
receipt set and the three sequence verifiers name their initial predicates and
next-state relations apart (`SetSpec`, `MemorySpec`, `WorkSpec`), so that one
proof module can extend several of them.

### Abstractions

* Ed25519 is symbolic: a signature names its key and its preimage and verifies
  under exactly those. Canonical JSON, SHA-256 and base64url appear by what can
  come of them: equal or different, well formed, malformed, wrong length.
* Times are integers or `None`, which stands for missing and unparseable.
* The rules of a profile routine are one attribute of a receipt (`conforms`),
  plus whether the routine raises on a mistyped member (`mistyped`); which
  profile and version the receipt declares is kept.
* Failure codes are sets (`_dedupe` sorts and removes duplicates), and findings
  keep their code and subject, not their wording. Attribution of linkage
  findings by their text in `receiver.py` was checked by hand: both sides
  format the id with `repr`, so no finding of one id matches another.
* A case of the stranger0 catalogue is its position; the members of a row
  compared one by one after decision and `passed` are one value, `detail`.
* In the newer modules references, digests, keys, ids and instants are numbers,
  0 standing for missing and -1 for ill-formed; a digest is the number of the
  content it names. JSON-Schema validation and rules on members that stand
  alone are one attribute (`conforms`, `defects`).
* An attribute a file does not have, such as the session an artifact is of or
  who holds a key, is there only for the properties to name (`reads`, `core`,
  `session`, `owner`, `lifetime`, `ran`).
* A web page is the sequence of events `HTMLParser` reports of it; white space
  is two characters, a blank and a newline.
* `C2paFinding` keeps the codes of the taxonomy that behave differently and
  treats the entries of a report as a set, so the multiplicities that
  `_findings_mismatch` counts are left out.
* A list of receipts in `DeferredSequence` has integer ids, 0 standing for a
  missing or empty member and -1 for one of another type.

## 3. Runs

Passing runs; each property has a mutant of the code that breaks it.

| Run | Instance | What it shows |
|---|---|---|
| `verify_receipt` | four good invocations (three profiles, one with a resolution failure), every pair of 40 deviations, re-signed or not | `PassIffNoCodes`; `RefinesReceiptVerdict`: the blocks with their early returns implement the one-step contract |
| `receipt_set` | indexes of up to three of 28 entries over three ids, plus unusable indexes | `SetPassSound`, `LinkageAsDefined` |
| `receiver` | submissions of up to three of seven files (admission, reformatted copy, conflicting version, failing version, outcome, unlinked outcome, outcome of an outcome), nine odd files alone or with a good one, five trust inputs, any number of runs | `AtMostOnceReliance`, `StrictDependency`, `LedgeredAdmissionForecloses`, `StrictOrderIndependent`, `RecordsOfThisRun` |
| `deferred` | emissions of up to six receipts, one of them a gap, two faults, at most one an alteration or a stray | `HonestPasses`, `DeliveryFaultsCaught`, `OutcomeRestsOnAdmission` |
| `stranger0` | three cases, two sharing a CLI triple and one differing from it only by profile; one, two or three threads; every single disagreement of a receiver, the CLI or a whole-run check with every single defect of the catalogue; `--only` subsets; timeouts anywhere | `CaseVerdictIndependentOfOthers`, `PassIsEarned`, `NothingRunsAfterExit`, `Terminates` |
| `ingest_run` | runs over up to two files of five kinds; two alterations or removals, removals also between two reads | `HonestRunPasses`; `PassMeansLinked`: exit 0 is one run, entry by entry; `OccurrencesAnswered`: each file occurrence has one answer |
| `sequences` | one invocation of either command line, one alteration. Governed memory: bundles of three reads, two of them by one subject, with every artifact exchanged or not and the optional ones there or not. Source work: two capture sessions that cite one declaration, at most two files exchanged; both command lines | `HonestReadPasses`; `ExchangedReadCaught`: a bundle whose artifacts disagree in n things passes only after n alterations; `HonestSessionPasses`, `SingleLineage`, `PassIsRecomputed`; `GroundedInVisibleText` against a definition of the visible text that does not use the projection |
| `exit_o` | two attesters with overlapping key lifetimes, receipts sealed by either in either name, verified at several instants against either binding; one alteration of any file | `AuthenticatedByOwnKey`, `HonestReceiptAuthenticates`, `FailureIsTerminal` (an action property of the layer loop and of the step after it) |
| `admission` | receipts of every profile version, signer, named key, issuer and time of issue shown to every verifier; one alteration | `PassIsTheIssuers`, `NoDowngrade`, `CapturedIsReplacement`, `ComparisonIndependent` |
| `c2pa` | three assets, two validator versions, two instants, a validator that answers, fails, hangs, reports nothing or prints what is no text, one file replaced at any point, one alteration of the observation or of a report handed to the checker | `CompletedIsCorroborated`, `AgreementGrounded`, `HonestNotAccused`, `DigestNamesRunBytes`, `CheckerAgrees`, `HonestObservationConfirmed`, `Terminates` |

Violation runs, of sentences of the repository that the code does not satisfy
(quoted in `PROJECT.json` under `findings`).

| Run | Sentence | What happens |
|---|---|---|
| `c2pa_accusation` | `compare_sides`: only axes both sides resolved license `possible_substantive_divergence` | a validator that times out gives axes that are `not_evaluated`; against a resolved observed axis that is a mismatch with `possible_substantive_divergence`, and exit 0 |
| `c2pa_drift` | `PINNED_VALIDATOR` and the report schema: a recomputation by another version is never a substantive divergence; module docstring, contract README and schema: what changed because time passed never produces an accusation | the version probe of another version fails and the pinned one is recorded: a status that differs between the versions is accused; an ingredient signer that has become valid since the observation leaves the recomputed axis `byte_deterministic`, and the difference is accused too, without a trusted timestamp on either side; exit 0 |

`DriftAndClockSpared` asks only that one report not accuse an honest
observation for both causes, so its one counterexample shows the two.

### Bounds and why they suffice

* `verify_receipt`: blocks interact pairwise at most (a finding is set in one
  block and gated by another), so two deviations reach every combination of a
  cause and something that could mask it. The theorem is for all inputs.
* `receipt_set`, `receiver`: linkage relates an outcome to one admission, and
  a third receipt is the copy, the conflict or the outcome that depends on the
  second. The number of runs is unbounded: history counts 0, 1 and "more".
* `deferred`: `MaxGaps` = 1, `MaxFaults` = 2, `MaxAlterations` = 1. Two faults
  make moves, exchanges and a loss hidden by a repetition. The alterations
  touch each member with a value that collides with another receipt.
* `stranger0`: three cases are enough for a key shared by two threads while a
  third raises.
* `ingest_run`: `MaxFaults` = 2, so that an edit can be hidden by another edit
  or a removal; two files give a duplicate and the file it duplicates.
* `sequences`, `exit_o`, `admission`: `MaxFaults` = 1 on top of inputs put
  together of the artifacts of two or three honest parties. An exchange is
  already a fault of many members at once; the alteration is what could hide
  it. These instances have 0.2 to 2.5 million states; a second alteration is
  out of reach of TLC in minutes. For EXIT-O, the admission events and
  governed memory the proofs cover any number of alterations of any inputs.
  For `SingleLineage` two alterations can hide an exchange, so one is also the
  bound of the theorem; the inputs there are arbitrary. Three reads, because
  exchanging with a read of the same subject and with one of another are
  different cases.
* `c2pa`: `MaxFaults` = `MaxEdits` = 1, `MaxNow` = 2: two instants are enough
  for a signer to expire, one edit for every gap between two file operations.

### Fairness

`Stranger0Run` assumes `WF(Progress)`, every step of the process but the last:
a started Python process goes on until it returns or raises, and the receiver,
the CLI and the self-check are run with a timeout. The last blocking call is
not: `_python_version` queries the receiver's Python without one, so
`WriteTranscript` has no fairness and `Terminates` promises an ended process or
one that waits for this query alone, in both cases with no thread in the
middle of a case.
`C2paSrsObserved` assumes `WF(Verifier)`: the verifier's own steps, among them
the expiry of the timeouts of 60 and 300 seconds; nothing obliges the
validator to answer, the clock to advance or a file to change. `Receiver` and
the other modules state safety only and assume no fairness. Terminating programs
stop, so those runs do not check for deadlock; `Receiver`, which goes on for ever,
and `c2pa`, whose end is an explicit stuttering step, do.

## 4. Proofs

All theorems are of the form `Spec => []Inv` or a refinement, for every value
of the constants that satisfies the named assumptions, which TLC evaluates on
the instances.

* **`VerifyReceiptProofs`** (`RegistryAssumption`). `IInv` says of each block
  which findings have been recorded, that the others are still false, that a
  recorded one is what the input justifies, and that `codes` is empty iff
  nothing recorded has failed. Needed because `PassIffNoCodes` speaks of the
  end only, where the history of early returns is gone. From it:
  `TypeCorrect`, `CodesExplainVerdict`, and `ImplementsReceiptVerdict`: initial
  states map to initial states and each block to a stutter or to `Decide`.
* **`LinkageProofs`, receiver** (`BatchesAssumption`, `TrustAssumption`). `IInv` gives
  `reasons` and `decisions` as functions of the submission at each point
  (`ReasonsInv`), says that an id has been relied upon iff the ledger has it
  (`LedgerInv`), and which files exist at each point (`DiskInv`).
  `AtMostOnceReliance` then follows from `AdditionsAreNew`: a submission's
  relied ids are not in the ledger and have one relied carrier. Theorems:
  `TypeCorrect`, `ReliedAtMostOnce`, `RecordsAreOfThisRun`,
  `StrictDependencyHolds`, `LedgerForecloses`, and `RelianceNeedsPass`, which
  no run checks: a relied receipt parsed, passed and met no objection.
* **`LinkageProofs`, order of arrival.** `OrderDoesNotMatter`: for every
  permutation of a submission (`Rearranged`) the strict decision on a receipt
  without a copy is the same. The reasons need not be the same sets, so the
  argument is by cases: a receipt that shares its id conflicts in every order;
  the only carrier of its id has reasons in which no position occurs
  (`SoleReplayReasons`, `SoleLinkage`); the exception, an outcome whose
  reference has several carriers, is refused in every order
  (`CrowdedReference`).
* **`LinkageProofs`, receipt set** (`WorkflowsAssumption`: the entries of an
  index are a list; `NoneAssumption`). `SetInv` gives what the two loops have
  behind them in terms of the index alone: `SeenInv` the paths and ids seen,
  `ReceiptsInv` the receipts kept, which are those of `KeptIndexes`, and that
  with the integrity flag still up none was dropped; `LinkInv` the findings as
  those of the receipts linked so far. `PassingSetsAreSound` reads it at the
  end. `LinkageIsAsDefined` also needs that a dictionary of the kept receipts
  and the first-wins rule of `ReceiptLinkage` resolve a reference alike. Also
  `SetTypeCorrect`. Indexes may have any length.
* **`DeferredProofs`** (`StrayAssumption`, `BoundsAssumption`). The heart of
  `OutcomesRestOnAdmissions` is `OutcomeOfPassingList`, a lemma about any list;
  the invariant ties the report to the list. `EmissionsPass` and
  `DeliveryFaultsAreCaught` rest on a second invariant, `DeliveryInv`: what is
  sent has the shape of an emission (`Emission`: ids count up, kinds come in
  one order, references point back), and what is delivered is made of what was
  sent. That a passing list is one stretch of the emission is an induction
  over positions; it is done by a smallest counterexample (`LeastElement`).
  Also `TypeCorrect`.
* **`Stranger0Proofs`** (`RunsAssumption`, `NoneAssumption`). `IInv` says that
  a cache entry, and an answer a thread holds, is the CLI's result for exactly
  the arguments behind its key (`CacheRight`); that a case has a problem iff a
  row it has been through gave it one (`Judged`); and what each phase of the
  main thread implies about the cases (`Phases`). Theorems: `TypeCorrect`,
  `VerdictsIndependent`, `PassEarned`, `ThreadsJoined`.
* **`SequenceProofs`, ingest runs** (`ProducedAssumption`: the files have the members the
  verifier asks for). `LoopInv` says that each entry behind the loop was
  linked to its file, or a flag has been cleared; `CoverageInv` that a cleared
  flag became a false conclusion. Files may disappear between two reads, so
  the invariant speaks of what a removal leaves (`Kept`). Theorems:
  `TypeCorrect`, `PassesAreLinked`, `OccurrencesAreAnswered`.
* **`SequenceProofs`, governed memory** (`FaultsAssumption`; nothing is assumed
  of the bundles). Five things are named by members of more than one artifact:
  the request, the decision, the subject, the scope and the packet digest
  (`Comparisons`). `Disagreements` are those that two members name
  differently, and an alteration of one member touches one of the five at
  most (`OneMember`). `MemoryInv` says that the disagreements mended since the
  bundle was put together are no more than the alterations, and that exit 0
  leaves the five conclusions without a finding, so that none is left
  (`ExchangesAreCaught`). A decision or a packet of another read, or a request
  of another subject, disagrees in two things, and one alteration cannot hide
  it. A request of another read by the same subject disagrees in its link
  alone: there one altered reference is enough, and nothing in the code tells
  such a bundle from an honest one. Also `MemoryTypeCorrect`.
* **`SequenceProofs`, source work** (`FaultsAssumption`,
  `EvidenceAssumption`). `AxesInv` says that each axis of the report is the
  fold of its checks of the files as they are, and that exit 0 is a report
  without FAIL. `PassesAreRecomputed` needs nothing else: it holds of any
  evidence and any number of alterations. `LineageIsSingle`, for at most one
  alteration, goes through `Agreed`, what a report without FAIL says of the
  files, and `AgreementIsOneSession`: each file is tied to the capture receipt
  in two ways without a common member (the manifest by digest and by locator,
  the SRS receipt by digest and by way of the binding, the
  proposal by its own digest and by the anchors of its extractive fields, the
  ingest receipt by two references). The assumption is that two sessions name
  no bytes, locators, references or extractions in common, that a proposal has
  an extractive field, and that altered bytes are bytes nothing names.
  `ExitZeroIsGrounded`, which no run checks, is of the grounding program and of
  any inputs: exit 0 grounds every extractive field in the projection of the
  page. `main` only asks for no FAIL, so the point is that the conclusion about
  anchors is left open only where another one fails. Also `WorkTypeCorrect`.
* **`ExitOOriginProofs`**. `FreshInv`, `SignedInv` and `KeyInv` say when a
  finding can have been made and of what it speaks. The finding about the key
  passes unless the signature's is `fail` or `not_evaluated`, so the invariant
  has to exclude `unavailable` for the signature, which the code never states.
  Theorems: `TypeCorrect`, `OnlyOwnKey`, and `FailuresStay` (an action
  property).
* **`AdmissionEventProofs`** (`InputsAssumption`). `FlagInv` says what a flag
  says of the files, `CaptureInv` what is handed on, `ComparisonInv` that the
  comparison is made once. Theorems: `TypeCorrect`, `PassesAreTheIssuers`,
  `NoReceiptDowngrades`, `CapturedReplaces`, `ComparisonStands`.
* **`C2paProofs`** (`InputsAssumption`, `BoundsAssumption`; nothing is assumed
  of the validator but that it answers with one of the three statuses).
  `FrozenInv` and `BytesInv` follow the bytes from the files to the validator
  for both callers, `FreshInv` says what a recomputed finding is made of,
  `ObservedInv` what the stages behind the current one established; the rest
  are lemmas about `compare_sides` and `check_report` (`AcceptedAccusation`,
  `AssembledReport`). Theorems: `TypeCorrect`, `DigestsNameRunBytes`,
  `StatusZeroIsCorroborated`, `AgreementsAreGrounded`,
  `ComparisonAndCheckerAgree`. `HonestSidesAreSpared` adds `OriginInv`
  (which executable made the entries, of which bytes, at some instant) and one
  hypothesis about the validator, `Reproducible`: an axis that is of the class
  `byte_deterministic` at two instants has the same status at both. That is
  what the taxonomy means by the class; `MCC2pa` assumes it of its instance
  and TLC evaluates it there.

The assumptions on inputs (`InputsAssumption`, `ProducedAssumption`,
`WorkflowsAssumption`) are about shape only, and the environment's alterations keep it: a file may hold any
values, right or wrong. `PassesAreTheIssuers` and `OnlyOwnKey` have the
hypothesis that the keyring, or trust bundle and binding, vouch for nothing
false (`KeyringIsTrue`, `EvidenceIsTrue`), since nobody can do better with a
lie he trusts; the receipt is arbitrary.

Model-checked only:

* liveness (`Terminates`, of two modules), which the prover does not handle;
* `GroundedInVisibleText`: that fields stand in the projection is proved
  (`ExitZeroIsGrounded`); that the projection, computed by folds over a page, is
  its visible text is an induction over data;
* `HonestRunPasses`, `HonestReadPasses`, `HonestSessionPasses`,
  `HonestReceiptAuthenticates`, `HonestObservationConfirmed`: each says that
  particular good inputs pass, so it is about the constants of an instance; a
  general statement would have to assume of the inputs what the checks ask.
  `HonestPasses` is proved, because there the model itself makes the input.

## 5. Observations

* Under the arrival-only policy a decision can depend on the arrival order:
  the set verifier keeps the first carrier of an id, so of two conflicting
  admissions the first decides whether an outcome is linked. The code promises
  order independence for the strict setting only, and that is what is checked.
* A deferred sequence that was rotated passes if no check looks at the seam;
  it may have lost receipts there. `DeliveryFaultsCaught` states exactly what
  is guaranteed: one unbroken stretch before the defer_request, and a prefix
  of the emission from it on. Loss of the end is never visible.
* `response_expiry_honoured` also fails for a reevaluation that stands before
  the expired response; `event_presence` asks for a defer_request only.
* `outcome_links_admitted_terminal` is TRUE for a reference to a refused
  terminal; `refused_has_no_execution_outcome` is the conclusion that fails.
* `run_stranger0.py` exits 1 ("a mismatch", by its docstring) also after a
  timeout, for `--jobs 0` and for an isolation claim on an unknown case. When
  it ends by such an exception, the transcript of an earlier
  run stays in the output directory. The version query of the receiver's Python
  has no timeout; a hang there leaves the run without transcript and status. `--write-package-sums` exits 0 without
  evaluating a case. Two threads that miss the same cache key both run the
  CLI, although the docstring says a triple is run once; verdicts do not change.
* An exception inside `verify_receipt` (a schema file that is no schema, a
  member a profile routine cannot hash) exits 1 without a report, the status
  the README's table gives to a failed finding. The receiver exits 1 when the
  set verifier raises or a member is unhashable; its docstring lists 0 and 2.
* A strict outcome whose own `receipt_id` is empty is outside the chain checks
  and is relied upon without its admission; `StrictDependency` is therefore
  stated for outcomes with an id.
* Deferred sequences: the head of the list is not checked against a
  predecessor; a second defer_request with the same sequence_id passes; only
  the terminal an outcome refers to is looked at, not a refusal before it.
* Ingest runs: a run id missing in both documents passes; emitted entries that
  are no objects are dropped silently; receipts for paths that are no
  occurrence, and two entries for one path, pass; malformed skip lists are
  reported but pass when there are no occurrences. Files that are not UTF-8,
  unhashable exclusions and a number for a skip list raise. Conclusions about
  receipts that could not be read become TRUE.
* Governed memory: exclusions are compared with the bundle's declarations, not
  with the packet's as the docstring says; `_recompute_packet_hash` is never
  called; descriptors are outside the duplicate-id check.
* Acquisition grounding: the vendored schema is not in this repository, so as
  shipped every verification fails closed; an empty value grounds at an empty
  span; a `field_index` list of mixed types raises.
* Source work: `main` loads no extra receipts, so the citation-pack axis
  cannot be reached from the command line; the ingest receipt is pinned to one
  `capture_observation_ref`.
* EXIT-O: key authentication passes while the bytes of its own layer are not
  supplied; with `--require-key-authentication` the exit status is 0 even when
  the schema is not pinned or the receipt does not conform. A verification time
  without an offset, which a caller of the library can pass, fails the
  signature's finding.
* Admission events: the identity handed on as verified is captured even when
  the signature fails (`CapturedIsReplacement` says what still holds of it);
  v0.1 passes a SUPERSEDED act without any binding to a successor. Members
  that look like authority are kept out at the root by the schemas of v0.2 and
  v0.3, of v0.1 only the aggregate ones. `issuers` that is a string or an
  object is searched and resolves nothing; null or a number raises.
* C2PA: a failed version probe, and every unavailable finding, record the
  pinned version; an ingredient axis takes its reproducibility class from the
  recomputed side, so an honest pair can be accused (`c2pa_drift`,
  `c2pa_accusation`); on the native command line the asset is digested before
  the run and the store after it; a trust delta or an anchored time-dependent
  mismatch gives a report that fails its own check. `HonestNotAccused` is what
  is left of the promise: a known version, on the bytes it names, does not
  accuse an honest observation on a byte-deterministic axis. A validator, or
  its version query, that prints what is no UTF-8 raises in `subprocess.run`:
  exit 1 without a report on the native command line, a refusal in the
  pipeline. A retained asset named `hermetic.toml` or `manifest-store.c2pa`
  passes the check of its name and is overwritten in the frozen directory; the
  comparison of digests refuses it afterwards.
  `EffectiveState` gives the code's `match` with the basis
  `both_sides_not_evaluated` a name of its own.
  A native `validation_state` outside the schema's list is recorded as it is,
  and the checker then refuses the verifier's own report for its schema:
  `RefusedOnlyForAccusation` is stated for a validator within the list.

## 6. Not modelled

Cryptography, canonical JSON and JSON Schema evaluation (external libraries,
used through their results); printed text and report layout; the network
tripwire and module self-check of the receiver; `--write-package-sums` and
`--results` of the orchestrator; concurrent receivers on one directory, which
the receiver does not claim to support; the components marked `not_modelled` in `PROJECT.json`,
with the reason of each.

## 7. Plan

What is left, in this order, each with runs, mutants and, where the code has state or a
verdict worth it, theorems:

1. `Profiles`: the thirteen profile routines as rule tables; no receipt
   conforms to two profiles, and which members a routine reads unguarded. It
   replaces `conforms` and `mistyped` of `VerifyReceipt`.
2. `AmnesiacChain`, `PortablePack`, `Universal`, the DAGR authority-context
   verifiers and report projections.
