------------------------------ MODULE Receiver ------------------------------
(***************************************************************************)
(* stranger0/receiver.py: a receiver verifies the receipts of one          *)
(* submission, then records its own reliance decision, in three files of   *)
(* an output directory that earlier runs may have used.  Runs follow one   *)
(* another for ever; the process can be killed at any point; between runs  *)
(* the operator (external) folds the ledger additions of a run that ended  *)
(* with exit 0 into the trust input of the next one.                       *)
(*                                                                         *)
(* A receipt file is abstracted to the members the decision reads and to   *)
(* what the verifiers do with it: `verdict' is verify_receipt under the    *)
(* claimed profile, `set_raises' says that verify_receipt raises under the *)
(* default profile, which verify_receipt_set uses for every receipt.       *)
(***************************************************************************)
EXTENDS ReceiptLinkage

CONSTANTS
  Batches,       \* the submissions considered: sequences of receipt files
  TrustInputs    \* the trust inputs considered, ledger aside

\* A reference that is no string is the value "unhashable", which is no id.
ASSUME BatchesAssumption ==
  \A b \in Batches :
    /\ DOMAIN b \subseteq Nat
    /\ \A i \in DOMAIN b : /\ b[i].rid # "unhashable"
                           /\ b[i].parsed \in BOOLEAN
                           /\ b[i].verdict \in {"pass", "fail", "raise"}

ASSUME TrustAssumption ==
  \A t \in TrustInputs : t.arrival \in BOOLEAN /\ t.strict \in BOOLEAN

VARIABLES
  pc,
  batch,         \* the receipt files of this run
  trust,         \* its trust input, ledger aside
  ledger,        \* relied_receipt_ledger: receipt id -> canonical digest
  reasons,       \* reasons_by_index
  decisions,     \* decisions by index, as recorded
  disk,          \* the three record files
  exit,          \* exit status of the current run, None while it runs
  reliance       \* history: 0, 1 or 2 (more) reliances the operator took on an id

vars == <<pc, batch, trust, ledger, reasons, decisions, disk, exit, reliance>>

Records == {"findings", "decision", "facts"}
\* The status the operator sees of a killed process.
SIGKILL == -9

FileStates == {"absent", "earlier", "torn", "current"}

Ids == (UNION {{b[i].rid : i \in DOMAIN b} : b \in Batches}) \ {None}

----------------------------------------------------------------------------
(* The decision, as operators on the submission.                           *)

\* Item.replay_digest: the canonical digest of the report if there is one,
\* else the digest of the bytes.
ReplayDigest(f) ==
  IF f.verdict # "raise" /\ f.canonical # None THEN f.canonical ELSE f.bytes

Group(b, id) == {j \in DOMAIN b : b[j].rid = id}

\* attribute_chain_findings: the codes of the receipt the linker kept for
\* this id.  Both sides format the id alike, so no finding is unattributed.
ChainCodes(b, i) ==
  UNION {LinkageCodes(b, j) : j \in Group(b, b[i].rid)}

VerifierReasons(f) ==
  CASE f.verdict = "raise" -> {"verifier.no_findings_produced"}
    [] f.verdict = "fail"  -> {"verifier.not_passed"}
    [] OTHER -> {}

\* The policy loop over the items: input, verifier, policy and chain reasons.
BaseReasons(b, t, i) ==
  IF ~b[i].parsed THEN {"input"}
  ELSE VerifierReasons(b[i]) \cup b[i].declined \cup
       (IF b[i].kind = "outcome" /\ b[i].rid # None
          THEN (IF "admission_outcome_linkage_mismatch" \in ChainCodes(b, i)
                  THEN {"chain.admission_outcome_linkage_mismatch"} ELSE {}) \cup
               (IF "admission_receipt_unresolved" \in ChainCodes(b, i) /\ t.arrival
                  THEN {"chain.admission_receipt_unresolved"} ELSE {})
          ELSE {})

\* Mutant: what is in the ledger is relied upon again.
ReplayReasonsNoLedger(b, l, i) ==
  LET id == b[i].rid
      digests == {ReplayDigest(b[j]) : j \in Group(b, id)}
  IN IF id = None THEN {}
     ELSE IF \/ \E d, e \in digests : d # e
             \/ id \in DOMAIN l /\ l[id] \notin digests
       THEN {"replay.receipt_id_conflict"}
     ELSE IF \E j \in Group(b, id) : j < i THEN {"replay.duplicate_in_submission"}
     ELSE {}

\* Replay, duplicate and conflict, from the ledger and the submission.
ReplayReasons(b, l, i) ==
  LET id == b[i].rid
      digests == {ReplayDigest(b[j]) : j \in Group(b, id)}
  IN IF id = None THEN {}
     ELSE IF \/ \E d, e \in digests : d # e
             \/ id \in DOMAIN l /\ l[id] \notin digests
       THEN {"replay.receipt_id_conflict"}
     ELSE IF id \in DOMAIN l THEN {"replay.already_relied_in_ledger"}
     ELSE IF \E j \in Group(b, id) : j < i THEN {"replay.duplicate_in_submission"}
     ELSE {}

\* decide_from
DecideFrom(rs) ==
  IF rs = {} THEN "rely"
  ELSE IF rs \subseteq {"chain.admission_receipt_unresolved"} THEN "insufficient_evidence"
  ELSE "do_not_rely"

\* Mutant: one pass in arrival order, which sees only earlier receipts.
StrictReasonsOnePass(b, provisional, i) ==
  LET group == {j \in Group(b, b[i].ref) : j < i}
      bad(j) == \/ b[j].call # b[i].call
                \/ provisional[j] # "rely"
  IN IF /\ b[i].parsed /\ b[i].kind = "outcome"
        /\ b[i].ref \notin {None, "unhashable"}
        /\ group # {}
        /\ \/ \E j, m \in group : j # m
           \/ \E j \in group : b[j].kind = "admission" /\ bad(j)
     THEN {"chain.admission_not_relied_upon"} ELSE {}

\* Mutant: of several receipts with the referenced id the first one decides.
StrictReasonsFirstOfGroup(b, provisional, i) ==
  LET group == {j \in Group(b, b[i].ref) : \A m \in Group(b, b[i].ref) : j <= m}
      bad(j) == \/ b[j].call # b[i].call
                \/ provisional[j] # "rely"
  IN IF /\ b[i].parsed /\ b[i].kind = "outcome"
        /\ b[i].ref \notin {None, "unhashable"}
        /\ \E j \in group : b[j].kind = "admission" /\ bad(j)
     THEN {"chain.admission_not_relied_upon"} ELSE {}

\* E-A-LINK: the reason an outcome earns from the receipts that carry the id
\* it refers to, given every receipt's provisional decision.  An absent or
\* empty reference, no carrier, and a carrier that is no admission add nothing.
StrictReasons(b, provisional, i) ==
  LET group == Group(b, b[i].ref)
      bad(j) == \/ b[j].call # b[i].call
                \/ provisional[j] # "rely"
  IN IF /\ b[i].parsed /\ b[i].kind = "outcome"
        /\ b[i].ref \notin {None, "unhashable"}
        /\ group # {}
        /\ \/ \E j, m \in group : j # m
           \/ \E j \in group : b[j].kind = "admission" /\ bad(j)
     THEN {"chain.admission_not_relied_upon"} ELSE {}

\* verify_receipt_set runs verify_receipt on each receipt it keeps, and looks
\* each kept outcome's reference up in a dictionary.
SetRaises(b) ==
  \E i \in KeptIndexes(b) :
    b[i].set_raises \/ (b[i].kind = "outcome" /\ b[i].ref = "unhashable")

----------------------------------------------------------------------------
Init ==
  /\ pc = "idle" /\ batch = <<>> /\ trust = None
  /\ ledger = <<>>
  /\ reasons = <<>> /\ decisions = <<>>
  /\ disk = [r \in Records |-> "absent"]
  /\ exit = None
  /\ reliance = [id \in Ids |-> 0]

Step(from, to) == pc = from /\ pc' = to

\* The process ends with a status of its own.
Exit(status) == pc' = "ended" /\ exit' = status

Write(file) == disk' = [disk EXCEPT ![file] = "current"]

\* The operator starts a run on the same output directory.
StartRun ==
  /\ Step("idle", "unlink")
  /\ batch' \in Batches /\ trust' \in TrustInputs
  /\ exit' = None
  /\ disk' = [r \in Records |-> IF disk[r] = "current" THEN "earlier" ELSE disk[r]]
  /\ UNCHANGED <<ledger, reasons, decisions, reliance>>

\* Mutant: the facts file of the earlier run is left behind.
UnlinkStaleTwoFiles ==
  \/ /\ pc = "unlink" /\ disk["findings"] # "absent"
     /\ disk' = [disk EXCEPT !["findings"] = "absent"] /\ UNCHANGED pc
     /\ UNCHANGED <<batch, trust, ledger, reasons, decisions, exit, reliance>>
  \/ /\ disk["findings"] = "absent"
     /\ Step("unlink", "load")
     /\ disk' = [disk EXCEPT !["decision"] = "absent"]
     /\ UNCHANGED <<batch, trust, ledger, reasons, decisions, exit, reliance>>

\* The stale records go one by one, findings first, before anything can fail.
UnlinkStale ==
  /\ pc = "unlink"
  /\ CASE disk["findings"] # "absent" ->
            disk' = [disk EXCEPT !["findings"] = "absent"] /\ UNCHANGED pc
       [] disk["findings"] = "absent" /\ disk["decision"] # "absent" ->
            disk' = [disk EXCEPT !["decision"] = "absent"] /\ UNCHANGED pc
       [] OTHER ->
            disk' = [disk EXCEPT !["facts"] = "absent"] /\ pc' = "load"
  /\ UNCHANGED <<batch, trust, ledger, reasons, decisions, exit, reliance>>

\* load_trust_input, the receipt files, the verifier's modules: any of them
\* unusable is a UsageError, and so is strictness without arrival.
LoadInputs ==
  /\ pc = "load"
  /\ IF \/ ~trust.usable
        \/ trust.strict /\ ~trust.arrival
        \/ \E i \in DOMAIN batch : ~batch[i].readable
       THEN Exit(2)
       ELSE pc' = "verify_set" /\ UNCHANGED exit
  /\ UNCHANGED <<batch, trust, ledger, reasons, decisions, disk, reliance>>

\* verify_receipt per item, its exceptions caught, then verify_receipt_set,
\* whose exceptions are not.
VerifySet ==
  /\ pc = "verify_set"
  /\ IF SetRaises(batch) THEN Exit(1) ELSE pc' = "write_findings" /\ UNCHANGED exit
  /\ UNCHANGED <<batch, trust, ledger, reasons, decisions, disk, reliance>>

WriteFindings ==
  /\ Step("write_findings", "base_reasons")
  /\ Write("findings")
  /\ UNCHANGED <<batch, trust, ledger, reasons, decisions, exit, reliance>>

\* A receipt_version that cannot be hashed raises in the set lookup.
ComputeBaseReasons ==
  /\ pc = "base_reasons"
  /\ IF \E i \in DOMAIN batch : batch[i].parsed /\ "receipt_version" \in batch[i].unhashable
       THEN Exit(1) /\ UNCHANGED reasons
       ELSE /\ pc' = "replay_reasons"
            /\ reasons' = [i \in DOMAIN batch |-> BaseReasons(batch, trust, i)]
            /\ UNCHANGED exit
  /\ UNCHANGED <<batch, trust, ledger, decisions, disk, reliance>>

ComputeReplayReasons ==
  /\ Step("replay_reasons", "strict_reasons")
  /\ reasons' = [i \in DOMAIN batch |-> reasons[i] \cup ReplayReasons(batch, ledger, i)]
  /\ UNCHANGED <<batch, trust, ledger, decisions, disk, exit, reliance>>

\* Mutant: the provisional pass looks at the policy reasons only.
ComputeStrictReasonsBeforeReplay ==
  /\ Step("strict_reasons", "write_decision")
  /\ reasons' =
       LET provisional == [i \in DOMAIN batch |-> DecideFrom(BaseReasons(batch, trust, i))]
       IN [i \in DOMAIN batch |->
             IF trust.strict THEN reasons[i] \cup StrictReasons(batch, provisional, i)
             ELSE reasons[i]]
  /\ UNCHANGED <<batch, trust, ledger, decisions, disk, exit, reliance>>

ComputeStrictReasons ==
  /\ Step("strict_reasons", "write_decision")
  /\ reasons' =
       LET provisional == [i \in DOMAIN batch |-> DecideFrom(reasons[i])]
       IN [i \in DOMAIN batch |->
             IF trust.strict THEN reasons[i] \cup StrictReasons(batch, provisional, i)
             ELSE reasons[i]]
  /\ UNCHANGED <<batch, trust, ledger, decisions, disk, exit, reliance>>

\* The decisions are counted by declared disposition, a dictionary key, and
\* then written.
WriteDecision ==
  /\ pc = "write_decision"
  /\ IF \E i \in DOMAIN batch : "disposition" \in batch[i].unhashable
       THEN Exit(1) /\ UNCHANGED <<decisions, disk>>
       ELSE /\ pc' = "write_facts"
            /\ decisions' = [i \in DOMAIN batch |-> DecideFrom(reasons[i])]
            /\ Write("decision")
            /\ UNCHANGED exit
  /\ UNCHANGED <<batch, trust, ledger, reasons, reliance>>

WriteFacts ==
  /\ pc = "write_facts"
  /\ Write("facts")
  /\ Exit(0)
  /\ UNCHANGED <<batch, trust, ledger, reasons, decisions, reliance>>

\* The process is killed: a record being written may be left torn.
Kill ==
  /\ pc \notin {"idle", "ended"}
  /\ Exit(SIGKILL)
  /\ \/ UNCHANGED disk
     \/ \E w \in { <<"write_findings", "findings">>, <<"write_decision", "decision">>,
                   <<"write_facts", "facts">> } :
          pc = w[1] /\ disk' = [disk EXCEPT ![w[2]] = "torn"]
  /\ UNCHANGED <<batch, trust, ledger, reasons, decisions, reliance>>

\* The receipts relied upon that the record adds to the ledger.
Additions == {i \in DOMAIN batch : decisions[i] = "rely" /\ batch[i].rid # None}

AddedBy(id) == {i \in Additions : batch[i].rid = id}

\* The operator takes the decisions of a run that ended with 0 and folds its
\* ledger additions into the ledger; it takes nothing from any other run.
Collect ==
  /\ Step("ended", "idle")
  /\ IF exit = 0
       THEN /\ ledger' = [id \in DOMAIN ledger \cup {batch[i].rid : i \in Additions} |->
                            IF AddedBy(id) = {} THEN ledger[id]
                            ELSE ReplayDigest(batch[CHOOSE i \in AddedBy(id) : TRUE])]
            /\ reliance' = [id \in Ids |->
                 CASE AddedBy(id) = {} -> reliance[id]
                   [] reliance[id] = 0 /\ \E i \in AddedBy(id) : AddedBy(id) = {i} -> 1
                   [] OTHER -> 2]
       ELSE UNCHANGED <<ledger, reliance>>
  /\ batch' = <<>> /\ trust' = None /\ reasons' = <<>> /\ decisions' = <<>>
  /\ UNCHANGED <<disk, exit>>

Run ==
  \/ UnlinkStale
  \/ LoadInputs
  \/ VerifySet
  \/ WriteFindings
  \/ ComputeBaseReasons
  \/ ComputeReplayReasons
  \/ ComputeStrictReasons
  \/ WriteDecision
  \/ WriteFacts

Next == StartRun \/ Run \/ Kill \/ Collect

Spec == Init /\ [][Next]_vars

----------------------------------------------------------------------------
(* What is checked.                                                        *)

Running ==
  {"unlink", "load", "verify_set", "write_findings", "base_reasons", "replay_reasons",
   "strict_reasons", "write_decision", "write_facts"}

\* The control state, the files, and the shape of what the run computes.
TypeOK ==
  /\ pc \in Running \cup {"idle", "ended"}
  /\ pc \in {"idle"} => batch = <<>>
  /\ pc \notin {"idle"} => batch \in Batches /\ trust \in TrustInputs
  /\ disk \in [Records -> FileStates]
  /\ DOMAIN ledger \subseteq Ids
  /\ reliance \in [Ids -> 0 .. 2]
  /\ pc \in {"replay_reasons", "strict_reasons", "write_decision", "write_facts"} =>
       DOMAIN reasons = DOMAIN batch
  /\ pc = "write_facts" \/ (pc = "ended" /\ exit = 0) => DOMAIN decisions = DOMAIN batch

\* Over any number of submissions, policies, kills and retries on one output
\* directory, no receipt id is relied upon twice (the replay block of _run
\* and the ledger the operator maintains).
AtMostOnceReliance == \A id \in Ids : reliance[id] < 2

\* The decisions of a run that wrote its decision record.
Decided == pc = "write_facts" \/ (pc = "ended" /\ exit = 0)

\* stranger0/README.md: "Under the strict setting an outcome is relied upon
\* only if the admission it references is present, carries the same
\* logical_call_id, is the only receipt in the submission with that receipt
\* id, and was itself relied upon."  Under the arrival-only setting it must
\* at least be present with that logical_call_id.
ReliedOutcomeHasAdmission(i) ==
  LET carriers == {j \in DOMAIN batch : batch[j].rid = batch[i].ref}
  IN /\ trust.arrival =>
          \E j \in carriers : batch[j].kind = "admission" /\ batch[j].call = batch[i].call
     /\ trust.strict =>
          \E j \in carriers : carriers = {j} /\ decisions[j] = "rely"

ReliedOutcome(i) == decisions[i] = "rely" /\ batch[i].kind = "outcome"

\* The README's sentence, for outcomes that have a receipt id.  It takes the
\* linker's finding, the replay pass and the E-A-LINK pass together.
StrictDependency ==
  Decided =>
    \A i \in DOMAIN batch :
      ReliedOutcome(i) /\ batch[i].rid # None => ReliedOutcomeHasAdmission(i)

\* stranger0/README.md: "Once that admission is in the receiver's ledger, a
\* strict receiver cannot rely on that outcome in any later submission."
LedgeredAdmissionForecloses ==
  Decided /\ trust.strict =>
    \A i \in DOMAIN batch :
      ReliedOutcome(i) /\ batch[i].rid # None => batch[i].ref \notin DOMAIN ledger

\* A passing verifier result and an acceptance policy without objection are
\* necessary for `rely', crashes of the verifier included.
RelyRequiresPass ==
  Decided =>
    \A i \in DOMAIN batch : decisions[i] = "rely" =>
      batch[i].parsed /\ batch[i].verdict = "pass" /\ batch[i].declined = {}

\* The decision for position i of another arrival order of this submission.
DecisionIn(b, i) ==
  LET provisional == [j \in DOMAIN b |->
                        BaseReasons(b, trust, j) \cup ReplayReasons(b, ledger, j)]
      decided == [j \in DOMAIN b |-> DecideFrom(provisional[j])]
  IN DecideFrom(provisional[i] \cup StrictReasons(b, decided, i))

\* The arrival orders: the permutations of the positions.
Orders == {p \in [DOMAIN batch -> DOMAIN batch] :
             /\ \A i, j \in DOMAIN batch : p[i] = p[j] => i = j
             /\ \A k \in DOMAIN batch : \E i \in DOMAIN batch : p[i] = k}

\* No other receipt of the submission is a copy of receipt i.
NoCopy(i) ==
  \A j \in DOMAIN batch : j # i =>
    ~(batch[j].rid = batch[i].rid /\ ReplayDigest(batch[j]) = ReplayDigest(batch[i]))

\* Under the strict setting the decision on a receipt does not depend on the
\* order in which the submission arrived (comment of the E-A-LINK block); of
\* identical copies the first is special, whichever copy that is.
StrictOrderIndependent ==
  pc = "write_facts" /\ trust.strict =>
    \A p \in Orders : \A i \in DOMAIN batch :
      NoCopy(p[i]) => DecisionIn([j \in DOMAIN batch |-> batch[p[j]]], i) = decisions[p[i]]

\* "Records left by an earlier run in this directory must never be mistaken
\* for this run's": a run that ended by itself, whatever its status, leaves
\* only records of its own.
NoStaleRecords ==
  pc = "ended" /\ exit # SIGKILL => \A r \in Records : disk[r] \in {"absent", "current"}

\* A decision record of this run stands beside the findings record it cites
\* by digest, and a run that ends with 0 has written all three, also when
\* the process is killed in between.
DecisionRestsOnFindings ==
  pc # "idle" =>
    /\ disk["decision"] = "current" => disk["findings"] = "current"
    /\ pc = "ended" /\ exit = 0 => \A r \in Records : disk[r] = "current"
    /\ pc = "ended" /\ exit = 2 => \A r \in Records : disk[r] = "absent"

\* The records in the output directory are of this run and complete one
\* another, whatever earlier runs and kills left there.
RecordsOfThisRun == NoStaleRecords /\ DecisionRestsOnFindings

=============================================================================
