--------------------------- MODULE LinkageProofs ---------------------------
(***************************************************************************)
(* Theorems about the two programs that link outcomes to admissions:       *)
(* Receiver, for every set of submissions and trust inputs, any number of  *)
(* runs, and kills at any point; and ReceiptSet, for every workflow index. *)
(*                                                                         *)
(* The inductive invariant of Receiver: what the reasons hold at each      *)
(* point of a run (ReasonsInv), that a run past its loading step has a     *)
(* consistent policy (PolicyInv), that the history agrees with the ledger  *)
(* (LedgerInv), and which of the three records are on disk (DiskInv).      *)
(* The decision properties then follow from what an empty set of final     *)
(* reasons says of a receipt (ReliedHasNoReason, ReliedOutcomeIsLinked).   *)
(*                                                                         *)
(* The inductive invariant of ReceiptSet (SetInv) is in the second half:   *)
(* what its two loops have seen, kept and found, in terms of the index     *)
(* alone.                                                                  *)
(***************************************************************************)
EXTENDS Receiver, ReceiptSet, TLAPS

\* The reasons before and after the E-A-LINK pass.
Provisional(i) == BaseReasons(batch, trust, i) \cup ReplayReasons(batch, ledger, i)
ProvisionalDecisions == [i \in DOMAIN batch |-> DecideFrom(Provisional(i))]
Final(i) ==
  IF trust.strict
    THEN Provisional(i) \cup StrictReasons(batch, ProvisionalDecisions, i)
    ELSE Provisional(i)

ReasonsInv ==
  /\ pc = "replay_reasons" => reasons = [i \in DOMAIN batch |-> BaseReasons(batch, trust, i)]
  /\ pc = "strict_reasons" => reasons = [i \in DOMAIN batch |-> Provisional(i)]
  /\ pc = "write_decision" => reasons = [i \in DOMAIN batch |-> Final(i)]
  /\ pc = "write_facts" => DOMAIN reasons = DOMAIN batch
  /\ Decided => decisions = [i \in DOMAIN batch |-> DecideFrom(Final(i))]

AfterLoad ==
  {"verify_set", "write_findings", "base_reasons", "replay_reasons", "strict_reasons",
   "write_decision", "write_facts"}

\* Past the loading step strictness comes with arrival.
PolicyInv == pc \in AfterLoad \/ Decided => (trust.strict => trust.arrival)

\* An id was relied upon, and then once, exactly when the ledger has it.
LedgerInv ==
  \A id \in Ids : reliance[id] = IF id \in DOMAIN ledger THEN 1 ELSE 0

\* The records appear in the order findings, decision, facts, in a directory
\* the run has emptied; only a kill leaves a torn or an earlier one.
DiskInv ==
  /\ disk \in [Records -> FileStates]
  /\ pc = "unlink" => \A r \in Records : disk[r] # "current"
  /\ pc \in {"load", "verify_set", "write_findings"} => \A r \in Records : disk[r] = "absent"
  /\ pc \in {"base_reasons", "replay_reasons", "strict_reasons", "write_decision"} =>
       disk["findings"] = "current" /\ disk["decision"] = "absent" /\ disk["facts"] = "absent"
  /\ pc = "write_facts" =>
       disk["findings"] = "current" /\ disk["decision"] = "current" /\ disk["facts"] = "absent"
  /\ pc = "ended" =>
       /\ disk["decision"] = "current" => disk["findings"] = "current"
       /\ exit # SIGKILL => \A r \in Records : disk[r] \in {"absent", "current"}
       /\ exit = 0 => \A r \in Records : disk[r] = "current"
       /\ exit = 2 => \A r \in Records : disk[r] = "absent"

Typed ==
  /\ pc \in Running \cup {"idle", "ended"}
  /\ pc = "idle" => batch = <<>>
  /\ pc # "idle" => batch \in Batches /\ trust \in TrustInputs
  /\ DOMAIN ledger \subseteq Ids
  /\ reliance \in [Ids -> 0 .. 2]

IInv == Typed /\ ReasonsInv /\ PolicyInv /\ LedgerInv /\ DiskInv

----------------------------------------------------------------------------
(* The decision.                                                           *)

\* A receipt the replay block has nothing against is not in the ledger and
\* is the first of the submission with its id.
LEMMA NoReplayReason ==
  ASSUME NEW b, NEW l, NEW i \in DOMAIN b, b[i].rid # None,
         ReplayReasons(b, l, i) = {}
  PROVE  /\ b[i].rid \notin DOMAIN l
         /\ \A j \in DOMAIN b : b[j].rid = b[i].rid => ~(j < i)
  BY DEF ReplayReasons, Group

\* decide_from says `rely' exactly when there is no reason against.
LEMMA RelyMeansNoReason ==
  ASSUME NEW rs PROVE DecideFrom(rs) = "rely" <=> rs = {}
  BY DEF DecideFrom

\* The ledger additions of a decided run are new ids, each added once.
LEMMA AdditionsAreNew ==
  ASSUME IInv, Decided, NEW id, AddedBy(id) # {}
  PROVE  /\ id \in Ids /\ id \notin DOMAIN ledger
         /\ \E i \in AddedBy(id) : AddedBy(id) = {i}
<1>1. batch \in Batches /\ DOMAIN batch \subseteq Nat
  BY BatchesAssumption DEF IInv, Typed, Decided
<1>2. \A i \in AddedBy(id) : /\ i \in DOMAIN batch /\ batch[i].rid = id /\ id # None
                             /\ decisions[i] = "rely"
  BY DEF AddedBy, Additions
<1>3. \A i \in AddedBy(id) : ReplayReasons(batch, ledger, i) = {}
  <2> SUFFICES ASSUME NEW i \in AddedBy(id) PROVE ReplayReasons(batch, ledger, i) = {}
    OBVIOUS
  <2>1. decisions[i] = DecideFrom(Final(i))
    BY <1>2 DEF IInv, ReasonsInv
  <2>2. Final(i) = {}
    BY <1>2, <2>1, RelyMeansNoReason
  <2> QED
    BY <2>2 DEF Final, Provisional
<1>4. id \in Ids
  BY <1>1, <1>2 DEF Ids
<1>5. id \notin DOMAIN ledger
  BY <1>2, <1>3, NoReplayReason
<1>6. \A i, j \in AddedBy(id) : i = j
  BY <1>1, <1>2, <1>3, NoReplayReason
<1> QED
  BY <1>4, <1>5, <1>6

----------------------------------------------------------------------------
(* Invariance.                                                             *)

\* The initial states satisfy the invariant.
LEMMA InitIInv == Init => IInv
  BY DEF Init, IInv, Typed, ReasonsInv, PolicyInv, LedgerInv, DiskInv, Records, FileStates,
     Running, Decided, AfterLoad

\* A step of the run keeps the order in which the records appear.
LEMMA RunDiskInv == IInv /\ Run => DiskInv'
<1> SUFFICES ASSUME DiskInv, Run PROVE DiskInv'
  BY DEF IInv
<1> USE DEF DiskInv, Records, FileStates
<1>1. CASE UnlinkStale
  BY <1>1 DEF UnlinkStale
<1>2. CASE LoadInputs
  BY <1>2 DEF LoadInputs, Exit, SIGKILL
<1>3. CASE VerifySet
  BY <1>3 DEF VerifySet, Exit, SIGKILL
<1>4. CASE WriteFindings
  BY <1>4 DEF WriteFindings, Step, Write
<1>5. CASE ComputeBaseReasons
  BY <1>5 DEF ComputeBaseReasons, Exit, SIGKILL
<1>6. CASE ComputeReplayReasons
  BY <1>6 DEF ComputeReplayReasons, Step
<1>7. CASE ComputeStrictReasons
  BY <1>7 DEF ComputeStrictReasons, Step
<1>8. CASE WriteDecision
  BY <1>8 DEF WriteDecision, Write, Exit, SIGKILL
<1>9. CASE WriteFacts
  BY <1>9 DEF WriteFacts, Write, Exit, SIGKILL
<1> QED
  BY <1>1, <1>2, <1>3, <1>4, <1>5, <1>6, <1>7, <1>8, <1>9 DEF Run

\* So do starting, killing and collecting a run.
LEMMA OperatorDiskInv == IInv /\ (StartRun \/ Kill \/ Collect) => DiskInv'
<1> SUFFICES ASSUME IInv, StartRun \/ Kill \/ Collect PROVE DiskInv'
  OBVIOUS
<1> USE DEF DiskInv, Records, FileStates
<1>1. CASE StartRun
  BY <1>1 DEF IInv, StartRun, Step
<1>2. CASE Kill
  <2>1. pc \in Running /\ pc' = "ended" /\ exit' = SIGKILL /\ SIGKILL \notin {0, 2}
    BY <1>2 DEF IInv, Typed, Kill, Exit, SIGKILL
  <2>2. CASE UNCHANGED disk
    BY <2>1, <2>2 DEF IInv, Running
  <2>3. CASE \E w \in { <<"write_findings", "findings">>, <<"write_decision", "decision">>,
                        <<"write_facts", "facts">> } :
               pc = w[1] /\ disk' = [disk EXCEPT ![w[2]] = "torn"]
    BY <2>1, <2>3 DEF IInv
  <2> QED
    BY <1>2, <2>2, <2>3 DEF Kill
<1>3. CASE Collect
  BY <1>3 DEF IInv, Collect, Step
<1> QED
  BY <1>1, <1>2, <1>3

\* A step of the process that leaves ledger, history, submission and policy
\* alone keeps everything but what it says of reasons and decisions.
LEMMA RunIInv == IInv /\ Run => IInv'
<1> SUFFICES ASSUME IInv, Run PROVE IInv'
  OBVIOUS
<1>1. UNCHANGED <<batch, trust, ledger, reliance>>
  BY DEF Run, UnlinkStale, LoadInputs, VerifySet, WriteFindings, ComputeBaseReasons,
     ComputeReplayReasons, ComputeStrictReasons, WriteDecision, WriteFacts
<1>2. Typed'
  BY <1>1 DEF IInv, Typed, Running, Run, UnlinkStale, LoadInputs, VerifySet, WriteFindings,
     ComputeBaseReasons, ComputeReplayReasons, ComputeStrictReasons, WriteDecision,
     WriteFacts, Step, Exit
<1>3. LedgerInv'
  BY <1>1 DEF IInv, LedgerInv, Ids
<1>4. PolicyInv'
  BY <1>1 DEF IInv, PolicyInv, Typed, Running, AfterLoad, Decided, Run, UnlinkStale,
     LoadInputs, VerifySet, WriteFindings, ComputeBaseReasons, ComputeReplayReasons,
     ComputeStrictReasons, WriteDecision, WriteFacts, Step, Exit
<1>5. \A i : Final(i)' = Final(i) /\ Provisional(i)' = Provisional(i)
  BY <1>1 DEF Final, Provisional, ProvisionalDecisions
<1>6. ReasonsInv'
  <2>1. CASE UnlinkStale \/ LoadInputs \/ VerifySet \/ WriteFindings
    BY <2>1 DEF ReasonsInv, Decided, UnlinkStale, LoadInputs, VerifySet, WriteFindings, Step, Exit
  <2>2. CASE ComputeBaseReasons
    BY <2>2, <1>1 DEF ReasonsInv, Decided, ComputeBaseReasons, Exit
  <2>3. CASE ComputeReplayReasons
    <3>1. reasons' = [i \in DOMAIN batch |-> Provisional(i)]
      BY <2>3 DEF ComputeReplayReasons, Step, IInv, ReasonsInv, Provisional
    <3>2. pc' = "strict_reasons"
      BY <2>3 DEF ComputeReplayReasons, Step
    <3> QED
      BY <1>1, <1>5, <3>1, <3>2 DEF ReasonsInv, Decided
  <2>4. CASE ComputeStrictReasons
    <3>1. reasons = [i \in DOMAIN batch |-> Provisional(i)]
      BY <2>4 DEF ComputeStrictReasons, Step, IInv, ReasonsInv
    <3>2. ProvisionalDecisions = [i \in DOMAIN batch |-> DecideFrom(reasons[i])]
      BY <3>1 DEF ProvisionalDecisions
    <3>3. reasons' = [i \in DOMAIN batch |-> Final(i)]
      BY <2>4, <3>1, <3>2 DEF ComputeStrictReasons, Final
    <3>4. pc' = "write_decision"
      BY <2>4 DEF ComputeStrictReasons, Step
    <3> QED
      BY <1>1, <1>5, <3>3, <3>4 DEF ReasonsInv, Decided
  <2>5. CASE WriteDecision
    <3>1. reasons = [i \in DOMAIN batch |-> Final(i)]
      BY <2>5 DEF WriteDecision, IInv, ReasonsInv
    <3>2. CASE pc' = "ended" /\ exit' = 1
      BY <3>2 DEF ReasonsInv, Decided
    <3>3. CASE pc' = "write_facts" /\ decisions' = [i \in DOMAIN batch |-> DecideFrom(reasons[i])]
      <4>1. decisions' = [i \in DOMAIN batch |-> DecideFrom(Final(i))]
        BY <3>1, <3>3
      <4>2. DOMAIN reasons' = DOMAIN batch'
        BY <1>1, <2>5, <3>1 DEF WriteDecision
      <4> QED
        BY <1>1, <1>5, <3>3, <4>1, <4>2 DEF ReasonsInv, Decided
    <3> QED
      BY <2>5, <3>2, <3>3 DEF WriteDecision, Exit
  <2>6. CASE WriteFacts
    BY <2>6, <1>1, <1>5 DEF WriteFacts, Exit, IInv, ReasonsInv, Decided
  <2> QED
    BY <2>1, <2>2, <2>3, <2>4, <2>5, <2>6 DEF Run
<1> QED
  BY <1>2, <1>3, <1>4, <1>6, RunDiskInv DEF IInv

\* Folding the additions into the ledger preserves the invariant.
LEMMA CollectIInv == IInv /\ Collect => IInv'
<1> SUFFICES ASSUME IInv, Collect PROVE IInv'
  OBVIOUS
<1>1. pc = "ended" /\ pc' = "idle"
  BY DEF Collect, Step
<1>2. ReasonsInv' /\ PolicyInv'
  BY <1>1 DEF ReasonsInv, PolicyInv, Decided, AfterLoad
<1>3. CASE exit # 0
  BY <1>1, <1>2, <1>3, OperatorDiskInv DEF Collect, IInv, Typed, LedgerInv, Ids, Running
<1>4. CASE exit = 0
  <2>1. Decided
    BY <1>1, <1>4 DEF Decided
  <2>2. \A id : AddedBy(id) # {} =>
          /\ id \in Ids /\ id \notin DOMAIN ledger
          /\ \E i \in AddedBy(id) : AddedBy(id) = {i}
    BY <2>1, AdditionsAreNew
  <2>3. DOMAIN ledger' = DOMAIN ledger \cup {batch[i].rid : i \in Additions}
    BY <1>4 DEF Collect
  <2>4. \A id : id \in {batch[i].rid : i \in Additions} <=> AddedBy(id) # {}
    BY DEF AddedBy
  <2>5. DOMAIN ledger' \subseteq Ids
    BY <2>2, <2>3, <2>4 DEF IInv, Typed
  <2>6. reliance' = [id \in Ids |->
          CASE AddedBy(id) = {} -> reliance[id]
            [] reliance[id] = 0 /\ \E i \in AddedBy(id) : AddedBy(id) = {i} -> 1
            [] OTHER -> 2]
    BY <1>4 DEF Collect
  <2>7. \A id \in Ids : reliance'[id] = IF id \in DOMAIN ledger' THEN 1 ELSE 0
    <3> SUFFICES ASSUME NEW id \in Ids
                 PROVE  reliance'[id] = IF id \in DOMAIN ledger' THEN 1 ELSE 0
      OBVIOUS
    <3>1. reliance[id] = IF id \in DOMAIN ledger THEN 1 ELSE 0
      BY DEF IInv, LedgerInv
    <3>2. CASE AddedBy(id) = {}
      BY <2>3, <2>4, <2>6, <3>1, <3>2
    <3>3. CASE AddedBy(id) # {}
      BY <2>2, <2>3, <2>4, <2>6, <3>1, <3>3
    <3> QED
      BY <3>2, <3>3
  <2>8. reliance' \in [Ids -> 0 .. 2]
    BY <2>6, <2>7
  <2> QED
    BY <1>1, <1>2, <2>5, <2>7, <2>8, OperatorDiskInv DEF IInv, Typed, LedgerInv, Ids, Running, Collect
<1> QED
  BY <1>3, <1>4

\* Every step preserves the invariant.
LEMMA NextIInv == IInv /\ [Next]_vars => IInv'
<1> SUFFICES ASSUME IInv, [Next]_vars PROVE IInv'
  OBVIOUS
<1>1. CASE StartRun
  BY <1>1, OperatorDiskInv DEF StartRun, Step, IInv, Typed, ReasonsInv, PolicyInv, LedgerInv,
     Decided, AfterLoad, Running, Ids
<1>2. CASE Kill
  <2>1. /\ pc # "idle" /\ pc' = "ended" /\ exit' = SIGKILL
        /\ UNCHANGED <<batch, trust, ledger, reliance>>
    BY <1>2 DEF Kill, Exit
  <2>2. ~Decided'
    BY <2>1 DEF Decided, SIGKILL
  <2>3. ReasonsInv' /\ PolicyInv'
    BY <2>1, <2>2 DEF ReasonsInv, PolicyInv, AfterLoad
  <2> QED
    BY <1>2, <2>1, <2>3, OperatorDiskInv DEF IInv, Typed, LedgerInv
<1>3. CASE UNCHANGED vars
  <2>1. Typed' /\ PolicyInv' /\ LedgerInv'
    BY <1>3 DEF vars, IInv, Typed, PolicyInv, LedgerInv, Decided
  <2>2. DiskInv'
    BY <1>3 DEF vars, IInv, DiskInv
  <2>3. ReasonsInv'
    BY <1>3 DEF vars, IInv, ReasonsInv, Decided, Final, Provisional, ProvisionalDecisions
  <2> QED
    BY <2>1, <2>2, <2>3 DEF IInv
<1> QED
  BY <1>1, <1>2, <1>3, RunIInv, CollectIInv DEF Next

\* Every reachable state satisfies the invariant.
LEMMA InductiveInvariant == Spec => []IInv
  BY InitIInv, NextIInv, PTL DEF Spec

\* The control state, the files and the shape of what a run computes.
THEOREM TypeCorrect == Spec => []TypeOK
<1>1. IInv => TypeOK
  <2> SUFFICES ASSUME IInv PROVE TypeOK
    OBVIOUS
  <2>1. pc \in {"replay_reasons", "strict_reasons", "write_decision", "write_facts"} =>
          DOMAIN reasons = DOMAIN batch
    BY DEF IInv, ReasonsInv
  <2>2. Decided => DOMAIN decisions = DOMAIN batch
    BY DEF IInv, ReasonsInv
  <2> QED
    BY <2>1, <2>2 DEF IInv, Typed, DiskInv, Decided, TypeOK
<1> QED
  BY <1>1, InductiveInvariant, PTL

\* No receipt id is ever relied upon twice, over any number of submissions,
\* policies and kills.
THEOREM ReliedAtMostOnce == Spec => []AtMostOnceReliance
<1>1. IInv => AtMostOnceReliance
  BY DEF IInv, LedgerInv, AtMostOnceReliance
<1> QED
  BY <1>1, InductiveInvariant, PTL
\* A run that ends by itself leaves no record of an earlier run, and its
\* decision record never stands without the findings record it cites, kills
\* between any two writes included.
THEOREM RecordsAreOfThisRun == Spec => []RecordsOfThisRun
<1>1. IInv => RecordsOfThisRun
  BY DEF IInv, Typed, Running, DiskInv, Records, RecordsOfThisRun, NoStaleRecords, DecisionRestsOnFindings
<1> QED
  BY <1>1, InductiveInvariant, PTL

----------------------------------------------------------------------------
(* What a decided run's `rely' says of a receipt.                          *)

\* No pass has a reason against a receipt that is relied upon.
LEMMA ReliedHasNoReason ==
  ASSUME IInv, Decided, NEW i \in DOMAIN batch, decisions[i] = "rely"
  PROVE  /\ BaseReasons(batch, trust, i) = {}
         /\ ReplayReasons(batch, ledger, i) = {}
         /\ trust.strict => StrictReasons(batch, ProvisionalDecisions, i) = {}
<1>1. decisions[i] = DecideFrom(Final(i))
  BY DEF IInv, ReasonsInv
<1>2. Final(i) = {}
  BY <1>1, RelyMeansNoReason
<1> QED
  BY <1>2 DEF Final, Provisional

\* The submission and the policy of a decided run.
LEMMA DecidedTyped ==
  ASSUME IInv, Decided
  PROVE  /\ batch \in Batches /\ trust \in TrustInputs
         /\ trust.strict => trust.arrival
         /\ trust.arrival \in BOOLEAN /\ trust.strict \in BOOLEAN
  BY TrustAssumption DEF IInv, Typed, PolicyInv, Decided

\* Under the arrival setting the linker found the admission of a relied
\* outcome: the outcome is the first carrier of its id, or the replay pass
\* would object, so the linker kept it and its finding is this outcome's.
LEMMA ReliedOutcomeIsLinked ==
  ASSUME IInv, Decided, trust.arrival,
         NEW i \in DOMAIN batch, ReliedOutcome(i), batch[i].rid # None
  PROVE  \E j \in DOMAIN batch : /\ batch[j].rid = batch[i].ref /\ batch[j].rid # None
                                 /\ batch[j].kind = "admission"
                                 /\ batch[j].call = batch[i].call
<1>1. /\ BaseReasons(batch, trust, i) = {} /\ ReplayReasons(batch, ledger, i) = {}
      /\ batch[i].kind = "outcome"
  BY ReliedHasNoReason DEF ReliedOutcome
<1>2. i \in KeptIndexes(batch)
  BY <1>1, NoReplayReason DEF KeptIndexes
<1>3. /\ "admission_outcome_linkage_mismatch" \notin ChainCodes(batch, i)
      /\ "admission_receipt_unresolved" \notin ChainCodes(batch, i)
  BY <1>1 DEF BaseReasons
<1>4. LinkageCodes(batch, i) \subseteq ChainCodes(batch, i)
  BY DEF ChainCodes, Group
<1>5. /\ "admission_outcome_linkage_mismatch" \notin LinkageCodes(batch, i)
      /\ "admission_receipt_unresolved" \notin LinkageCodes(batch, i)
  BY <1>3, <1>4
<1>6. /\ ReferencedAdmissions(batch, i) # {}
      /\ \A j \in ReferencedAdmissions(batch, i) : batch[j].call = batch[i].call
  BY <1>1, <1>2, <1>5 DEF LinkageCodes
<1> QED
  BY <1>6 DEF ReferencedAdmissions, KeptIndexes

\* Under the strict setting its admission is moreover the only carrier of
\* the id, and had no reason against it.
LEMMA StrictReliedOutcome ==
  ASSUME IInv, Decided, trust.strict,
         NEW i \in DOMAIN batch, ReliedOutcome(i), batch[i].rid # None,
         NEW j \in DOMAIN batch, batch[j].rid = batch[i].ref, batch[j].rid # None,
         batch[j].kind = "admission"
  PROVE  /\ Group(batch, batch[i].ref) = {j}
         /\ Provisional(j) = {}
<1>1. /\ BaseReasons(batch, trust, i) = {} /\ batch[i].kind = "outcome"
      /\ StrictReasons(batch, ProvisionalDecisions, i) = {}
  BY ReliedHasNoReason DEF ReliedOutcome
<1>2. batch[i].parsed
  BY <1>1 DEF BaseReasons
<1>3. batch[i].ref \notin {None, "unhashable"}
  BY DecidedTyped, BatchesAssumption
<1>4. j \in Group(batch, batch[i].ref)
  BY DEF Group
<1>5. \A k, m \in Group(batch, batch[i].ref) : k = m
  BY <1>1, <1>2, <1>3, <1>4 DEF StrictReasons
<1>6. ProvisionalDecisions[j] = "rely"
  BY <1>1, <1>2, <1>3, <1>4 DEF StrictReasons
<1>7. Provisional(j) = {}
  BY <1>6, RelyMeansNoReason DEF ProvisionalDecisions
<1> QED
  BY <1>4, <1>5, <1>7

\* A relied outcome's admission is in the submission with its call id, and
\* under the strict setting it is the only carrier of its id and is itself
\* relied upon: the linker, the replay pass and the E-A-LINK pass of _run
\* together, for every submission and policy.
THEOREM StrictDependencyHolds == Spec => []StrictDependency
<1>1. ASSUME IInv PROVE StrictDependency
  <2> SUFFICES ASSUME Decided, NEW i \in DOMAIN batch, ReliedOutcome(i), batch[i].rid # None
               PROVE  ReliedOutcomeHasAdmission(i)
    BY DEF StrictDependency
  <2>1. ASSUME trust.arrival
        PROVE  \E j \in {k \in DOMAIN batch : batch[k].rid = batch[i].ref} :
                 batch[j].kind = "admission" /\ batch[j].call = batch[i].call
    BY <1>1, <2>1, ReliedOutcomeIsLinked
  <2>2. ASSUME trust.strict
        PROVE  \E j \in {k \in DOMAIN batch : batch[k].rid = batch[i].ref} :
                 /\ {k \in DOMAIN batch : batch[k].rid = batch[i].ref} = {j}
                 /\ decisions[j] = "rely"
    <3>1. trust.arrival
      BY <1>1, <2>2, DecidedTyped
    <3>2. PICK j \in DOMAIN batch : /\ batch[j].rid = batch[i].ref /\ batch[j].rid # None
                                    /\ batch[j].kind = "admission"
      BY <1>1, <3>1, ReliedOutcomeIsLinked
    <3>3. Group(batch, batch[i].ref) = {j} /\ Provisional(j) = {}
      BY <1>1, <2>2, <3>2, StrictReliedOutcome
    <3>4. StrictReasons(batch, ProvisionalDecisions, j) = {}
      BY <3>2 DEF StrictReasons
    <3>5. Final(j) = {}
      BY <3>3, <3>4 DEF Final
    <3>6. decisions[j] = "rely"
      BY <1>1, <3>5, RelyMeansNoReason DEF IInv, ReasonsInv
    <3> QED
      BY <3>2, <3>3, <3>6 DEF Group
  <2> QED
    BY <2>1, <2>2 DEF ReliedOutcomeHasAdmission
<1> QED
  BY <1>1, InductiveInvariant, PTL

\* Once an admission is in the ledger, no strict run relies on an outcome
\* that refers to it.
THEOREM LedgerForecloses == Spec => []LedgeredAdmissionForecloses
<1>1. ASSUME IInv PROVE LedgeredAdmissionForecloses
  <2> SUFFICES ASSUME Decided, trust.strict, NEW i \in DOMAIN batch, ReliedOutcome(i),
                      batch[i].rid # None
               PROVE  batch[i].ref \notin DOMAIN ledger
    BY DEF LedgeredAdmissionForecloses
  <2>1. trust.arrival
    BY <1>1, DecidedTyped
  <2>2. PICK j \in DOMAIN batch : /\ batch[j].rid = batch[i].ref /\ batch[j].rid # None
                                  /\ batch[j].kind = "admission"
    BY <1>1, <2>1, ReliedOutcomeIsLinked
  <2>3. Provisional(j) = {}
    BY <1>1, <2>2, StrictReliedOutcome
  <2>4. ReplayReasons(batch, ledger, j) = {}
    BY <2>3 DEF Provisional
  <2> QED
    BY <2>2, <2>4, NoReplayReason
<1> QED
  BY <1>1, InductiveInvariant, PTL

\* No receipt is relied upon that the verifier failed, or crashed on, or
\* that the receiver's policy declined.
THEOREM RelianceNeedsPass == Spec => []RelyRequiresPass
<1>1. ASSUME IInv PROVE RelyRequiresPass
  <2> SUFFICES ASSUME Decided, NEW i \in DOMAIN batch, decisions[i] = "rely"
               PROVE  batch[i].parsed /\ batch[i].verdict = "pass" /\ batch[i].declined = {}
    BY DEF RelyRequiresPass
  <2>1. BaseReasons(batch, trust, i) = {}
    BY <1>1, ReliedHasNoReason
  <2>2. batch[i].parsed /\ VerifierReasons(batch[i]) = {} /\ batch[i].declined = {}
    BY <2>1 DEF BaseReasons
  <2>3. batch[i].verdict \in {"pass", "fail", "raise"}
    BY <1>1, DecidedTyped, BatchesAssumption
  <2> QED
    BY <2>2, <2>3 DEF VerifierReasons
<1> QED
  BY <1>1, InductiveInvariant, PTL
----------------------------------------------------------------------------
(* The order of arrival.  A receipt that shares its id with another one    *)
(* that is no copy of it conflicts with it in every order; one that is the *)
(* only carrier of its id gets reasons in which no position occurs, unless *)
(* it is an outcome whose admission's id has several carriers, and that    *)
(* outcome the E-A-LINK pass refuses in every order.                       *)

\* The provisional reasons and decisions of a submission, and the decision
\* the E-A-LINK pass makes of them.
ReasonsIn(b, i) == BaseReasons(b, trust, i) \cup ReplayReasons(b, ledger, i)
ProvisionalIn(b) == [j \in DOMAIN b |-> DecideFrom(ReasonsIn(b, j))]

\* c is b in another order.
Rearranged(b, c, p) ==
  /\ DOMAIN b \subseteq Nat /\ DOMAIN c = DOMAIN b
  /\ p \in [DOMAIN b -> DOMAIN b]
  /\ \A i, j \in DOMAIN b : p[i] = p[j] => i = j
  /\ \A k \in DOMAIN b : \E i \in DOMAIN b : p[i] = k
  /\ \A j \in DOMAIN b : c[j] = b[p[j]]

Sole(b, i) == \A j \in DOMAIN b : b[j].rid = b[i].rid => j = i

\* The carriers of an id are the same receipts in both orders, at the
\* positions the rearrangement gives them.
LEMMA RearrangedGroup ==
  ASSUME NEW b, NEW c, NEW p, Rearranged(b, c, p), NEW id
  PROVE  /\ \A j \in Group(c, id) : p[j] \in Group(b, id) /\ c[j] = b[p[j]]
         /\ \A k \in Group(b, id) : \E j \in Group(c, id) : p[j] = k
  BY DEF Rearranged, Group

\* Being the only carrier of an id is independent of the order.
LEMMA RearrangedSole ==
  ASSUME NEW b, NEW c, NEW p, Rearranged(b, c, p), NEW i \in DOMAIN b
  PROVE  Sole(c, i) <=> Sole(b, p[i])
<1>1. ASSUME Sole(c, i) PROVE Sole(b, p[i])
  <2> SUFFICES ASSUME NEW k \in DOMAIN b, b[k].rid = b[p[i]].rid PROVE k = p[i]
    BY DEF Sole
  <2>1. PICK j \in DOMAIN b : p[j] = k
    BY DEF Rearranged
  <2>2. c[j].rid = c[i].rid /\ j \in DOMAIN c
    BY <2>1 DEF Rearranged
  <2> QED
    BY <1>1, <2>1, <2>2 DEF Sole
<1>2. ASSUME Sole(b, p[i]) PROVE Sole(c, i)
  <2> SUFFICES ASSUME NEW j \in DOMAIN b, c[j].rid = c[i].rid PROVE j = i
    BY DEF Sole, Rearranged
  <2>1. p[j] \in DOMAIN b /\ b[p[j]].rid = b[p[i]].rid
    BY DEF Rearranged
  <2> QED
    BY <1>2, <2>1 DEF Sole, Rearranged
<1> QED
  BY <1>1, <1>2

LedgerReasons(f, l) ==
  IF f.rid = None \/ f.rid \notin DOMAIN l THEN {}
  ELSE IF l[f.rid] # ReplayDigest(f) THEN {"replay.receipt_id_conflict"}
  ELSE {"replay.already_relied_in_ledger"}

\* The replay block compares the only carrier of an id with the ledger alone.
LEMMA SoleReplayReasons ==
  ASSUME NEW b, DOMAIN b \subseteq Nat, NEW l, NEW i \in DOMAIN b, b[i].rid = None \/ Sole(b, i)
  PROVE  ReplayReasons(b, l, i) = LedgerReasons(b[i], l)
<1>1. CASE b[i].rid = None
  BY <1>1 DEF ReplayReasons, LedgerReasons
<1>2. CASE b[i].rid # None /\ Sole(b, i)
  <2>1. Group(b, b[i].rid) = {i}
    BY <1>2 DEF Sole, Group
  <2>2. ~(i < i)
    OBVIOUS
  <2> QED
    BY <1>2, <2>1, <2>2 DEF ReplayReasons, LedgerReasons
<1> QED
  BY <1>1, <1>2

\* So its replay reasons are the same in every order.
LEMMA RearrangedReplayReasons ==
  ASSUME NEW b, NEW c, NEW p, Rearranged(b, c, p), NEW l, NEW i \in DOMAIN b,
         b[p[i]].rid = None \/ Sole(b, p[i])
  PROVE  ReplayReasons(c, l, i) = ReplayReasons(b, l, p[i])
<1>1. c[i] = b[p[i]] /\ p[i] \in DOMAIN b /\ DOMAIN b \subseteq Nat /\ DOMAIN c = DOMAIN b
  BY DEF Rearranged
<1>2. c[i].rid = None \/ Sole(c, i)
  BY <1>1, RearrangedSole
<1>3. ReplayReasons(b, l, p[i]) = LedgerReasons(b[p[i]], l)
  BY <1>1, SoleReplayReasons
<1>4. ReplayReasons(c, l, i) = LedgerReasons(c[i], l)
  BY <1>1, <1>2, SoleReplayReasons
<1> QED
  BY <1>1, <1>3, <1>4

\* Two different carriers of an id that are no copies of one another conflict.
LEMMA ConflictReason ==
  ASSUME NEW b, NEW l, NEW i \in DOMAIN b, b[i].rid # None,
         NEW j \in DOMAIN b, b[j].rid = b[i].rid, ReplayDigest(b[j]) # ReplayDigest(b[i])
  PROVE  ReplayReasons(b, l, i) = {"replay.receipt_id_conflict"}
<1>1. i \in Group(b, b[i].rid) /\ j \in Group(b, b[i].rid)
  BY DEF Group
<1> QED
  BY <1>1 DEF ReplayReasons

\* The linker's codes of an outcome that is the only carrier of its id, when
\* at most one receipt carries the id it refers to.
LEMMA SoleLinkage ==
  ASSUME NEW b, DOMAIN b \subseteq Nat, NEW i \in DOMAIN b, Sole(b, i), b[i].rid # None,
         b[i].kind = "outcome",
         b[i].ref # None => \A j, m \in Group(b, b[i].ref) : j = m
  PROVE  /\ "admission_receipt_unresolved" \in ChainCodes(b, i) <=>
              ~\E j \in Group(b, b[i].ref) : b[i].ref # None /\ b[j].kind = "admission"
         /\ "admission_outcome_linkage_mismatch" \in ChainCodes(b, i) <=>
              \E j \in Group(b, b[i].ref) :
                b[i].ref # None /\ b[j].kind = "admission" /\ b[j].call # b[i].call
<1>1. Group(b, b[i].rid) = {i}
  BY DEF Sole, Group
<1>2. ChainCodes(b, i) = LinkageCodes(b, i)
  BY <1>1 DEF ChainCodes
<1>3. i \in KeptIndexes(b)
  BY DEF KeptIndexes, Sole
<1>4. ReferencedAdmissions(b, i) =
        {j \in Group(b, b[i].ref) : b[i].ref # None /\ b[j].kind = "admission"}
  <2>1. ASSUME NEW j \in Group(b, b[i].ref), b[i].ref # None PROVE j \in KeptIndexes(b)
    BY <2>1 DEF KeptIndexes, Group
  <2> QED
    BY <2>1 DEF ReferencedAdmissions, KeptIndexes, Group
<1>5. LinkageCodes(b, i) =
        IF ReferencedAdmissions(b, i) = {} THEN {"admission_receipt_unresolved"}
        ELSE IF \E j \in ReferencedAdmissions(b, i) : b[j].call # b[i].call
          THEN {"admission_outcome_linkage_mismatch"} ELSE {}
  BY <1>3 DEF LinkageCodes
<1>6. "admission_receipt_unresolved" # "admission_outcome_linkage_mismatch"
  OBVIOUS
<1> QED
  BY <1>2, <1>4, <1>5, <1>6

\* Its codes are the same in every order.
LEMMA RearrangedLinkage ==
  ASSUME NEW b, NEW c, NEW p, Rearranged(b, c, p), NEW i \in DOMAIN b,
         Sole(b, p[i]), b[p[i]].rid # None, b[p[i]].kind = "outcome",
         b[p[i]].ref # None => \A j, m \in Group(b, b[p[i]].ref) : j = m
  PROVE  \A code \in {"admission_receipt_unresolved", "admission_outcome_linkage_mismatch"} :
           code \in ChainCodes(c, i) <=> code \in ChainCodes(b, p[i])
<1>1. c[i] = b[p[i]] /\ p[i] \in DOMAIN b /\ DOMAIN b \subseteq Nat /\ DOMAIN c = DOMAIN b
  BY DEF Rearranged
<1>2. Sole(c, i)
  BY RearrangedSole
<1> DEFINE ref == b[p[i]].ref
<1>3. /\ \A j \in Group(c, ref) : p[j] \in Group(b, ref) /\ c[j] = b[p[j]]
      /\ \A k \in Group(b, ref) : \E j \in Group(c, ref) : p[j] = k
  BY RearrangedGroup
<1>4. c[i].ref # None => \A j, m \in Group(c, c[i].ref) : j = m
  BY <1>1, <1>3 DEF Rearranged, Group
<1>5. /\ "admission_receipt_unresolved" \in ChainCodes(b, p[i]) <=>
           ~\E j \in Group(b, ref) : ref # None /\ b[j].kind = "admission"
      /\ "admission_outcome_linkage_mismatch" \in ChainCodes(b, p[i]) <=>
           \E j \in Group(b, ref) : ref # None /\ b[j].kind = "admission" /\ b[j].call # b[p[i]].call
  BY <1>1, SoleLinkage
<1>6. /\ "admission_receipt_unresolved" \in ChainCodes(c, i) <=>
           ~\E j \in Group(c, c[i].ref) : c[i].ref # None /\ c[j].kind = "admission"
      /\ "admission_outcome_linkage_mismatch" \in ChainCodes(c, i) <=>
           \E j \in Group(c, c[i].ref) :
             c[i].ref # None /\ c[j].kind = "admission" /\ c[j].call # c[i].call
  BY <1>1, <1>2, <1>4, SoleLinkage
<1>7. c[i].ref = ref /\ c[i].call = b[p[i]].call
  BY <1>1
<1> HIDE DEF ref
<1> QED
  BY <1>3, <1>5, <1>6, <1>7

\* The provisional reasons of the only carrier of an id, or of a receipt
\* without an id, are the same in every order, if it is no outcome or refers
\* to nothing or to an id with one carrier at most.
LEMMA RearrangedReasons ==
  ASSUME NEW b, NEW c, NEW p, Rearranged(b, c, p), NEW i \in DOMAIN b,
         b[p[i]].rid = None \/ Sole(b, p[i]),
         \/ b[p[i]].kind # "outcome" \/ ~b[p[i]].parsed
         \/ b[p[i]].ref # None => \A j, m \in Group(b, b[p[i]].ref) : j = m
  PROVE  ReasonsIn(c, i) = ReasonsIn(b, p[i])
<1>1. c[i] = b[p[i]]
  BY DEF Rearranged
<1>2. ReplayReasons(c, ledger, i) = ReplayReasons(b, ledger, p[i])
  BY RearrangedReplayReasons
<1>3. BaseReasons(c, trust, i) = BaseReasons(b, trust, p[i])
  <2>1. CASE ~b[p[i]].parsed \/ b[p[i]].kind # "outcome" \/ b[p[i]].rid = None
    BY <1>1, <2>1 DEF BaseReasons
  <2>2. CASE b[p[i]].parsed /\ b[p[i]].kind = "outcome" /\ b[p[i]].rid # None
    <3>1. \A code \in {"admission_receipt_unresolved", "admission_outcome_linkage_mismatch"} :
            code \in ChainCodes(c, i) <=> code \in ChainCodes(b, p[i])
      BY <2>2, RearrangedLinkage
    <3> QED
      BY <1>1, <2>2, <3>1 DEF BaseReasons
  <2> QED
    BY <2>1, <2>2
<1> QED
  BY <1>2, <1>3 DEF ReasonsIn

\* A reason other than an admission that did not arrive refuses.
LEMMA RefusingReason ==
  ASSUME NEW rs, NEW r \in rs, r # "chain.admission_receipt_unresolved"
  PROVE  DecideFrom(rs) = "do_not_rely"
  BY DEF DecideFrom

\* The decision of the E-A-LINK pass, with DecisionIn's abbreviations gone.
LEMMA DecisionOfReasons ==
  ASSUME NEW b, NEW i \in DOMAIN b
  PROVE  DecisionIn(b, i) =
           DecideFrom(ReasonsIn(b, i) \cup StrictReasons(b, ProvisionalIn(b), i))
<1> DEFINE prov == [j \in DOMAIN b |-> BaseReasons(b, trust, j) \cup ReplayReasons(b, ledger, j)]
           decided == [j \in DOMAIN b |-> DecideFrom(prov[j])]
<1>1. prov[i] = ReasonsIn(b, i)
  BY DEF ReasonsIn
<1>2. decided = ProvisionalIn(b)
  BY DEF ProvisionalIn, ReasonsIn
<1>3. DecisionIn(b, i) = DecideFrom(prov[i] \cup StrictReasons(b, decided, i))
  BY DEF DecisionIn
<1> HIDE DEF prov, decided
<1> QED
  BY <1>1, <1>2, <1>3

\* The E-A-LINK pass refuses an outcome whose reference has several carriers.
LEMMA CrowdedReference ==
  ASSUME NEW b, NEW d, NEW i \in DOMAIN b, b[i].parsed, b[i].kind = "outcome",
         b[i].ref \notin {None, "unhashable"},
         NEW j \in Group(b, b[i].ref), NEW m \in Group(b, b[i].ref), j # m
  PROVE  StrictReasons(b, d, i) = {"chain.admission_not_relied_upon"}
  BY DEF StrictReasons

\* Where the reference has one carrier at most, the pass sees the same
\* admission with the same provisional decision in every order.
LEMMA RearrangedStrictReasons ==
  ASSUME NEW b, NEW c, NEW p, Rearranged(b, c, p), NEW i \in DOMAIN b,
         b[p[i]].ref # None => \A j, m \in Group(b, b[p[i]].ref) : j = m
  PROVE  StrictReasons(c, ProvisionalIn(c), i) = StrictReasons(b, ProvisionalIn(b), p[i])
<1> DEFINE f == b[p[i]]
<1>1. c[i] = f /\ p[i] \in DOMAIN b /\ DOMAIN c = DOMAIN b
  BY DEF Rearranged
<1>2. CASE ~f.parsed \/ f.kind # "outcome" \/ f.ref \in {None, "unhashable"}
  BY <1>1, <1>2 DEF StrictReasons
<1>3. CASE f.parsed /\ f.kind = "outcome" /\ f.ref \notin {None, "unhashable"}
  <2>1. /\ \A j \in Group(c, f.ref) : p[j] \in Group(b, f.ref) /\ c[j] = b[p[j]]
        /\ \A k \in Group(b, f.ref) : \E j \in Group(c, f.ref) : p[j] = k
    BY RearrangedGroup
  <2>2. /\ \A j, m \in Group(b, f.ref) : j = m
        /\ \A j, m \in Group(c, f.ref) : j = m
    <3>1. \A j, m \in Group(b, f.ref) : j = m
      BY <1>3
    <3>2. \A j, m \in Group(c, f.ref) : p[j] = p[m] /\ j \in DOMAIN b /\ m \in DOMAIN b
      BY <1>1, <2>1, <3>1 DEF Group
    <3> QED
      BY <3>1, <3>2 DEF Rearranged
  <2>3. ASSUME NEW j \in Group(c, f.ref), c[j].kind = "admission"
        PROVE  ProvisionalIn(c)[j] = ProvisionalIn(b)[p[j]]
    <3>1. j \in DOMAIN b /\ p[j] \in DOMAIN b /\ b[p[j]].kind # "outcome" /\ b[p[j]].rid = f.ref
      BY <2>1, <2>3 DEF Rearranged, Group
    <3>2. Sole(b, p[j])
      BY <2>1, <2>2, <3>1 DEF Sole, Group
    <3>3. ReasonsIn(c, j) = ReasonsIn(b, p[j])
      BY <3>1, <3>2, RearrangedReasons
    <3> QED
      BY <1>1, <3>1, <3>3 DEF ProvisionalIn
  <2> DEFINE bad(l, d, k, g) == l[k].call # g.call \/ d[k] # "rely"
  <2>4. (\E j \in Group(c, f.ref) : c[j].kind = "admission" /\ bad(c, ProvisionalIn(c), j, f)) <=>
        (\E k \in Group(b, f.ref) : b[k].kind = "admission" /\ bad(b, ProvisionalIn(b), k, f))
    BY <2>1, <2>3
  <2>5. StrictReasons(c, ProvisionalIn(c), i) =
          IF \E j \in Group(c, f.ref) : c[j].kind = "admission" /\ bad(c, ProvisionalIn(c), j, f)
            THEN {"chain.admission_not_relied_upon"} ELSE {}
    BY <1>1, <1>3, <2>2 DEF StrictReasons
  <2>6. StrictReasons(b, ProvisionalIn(b), p[i]) =
          IF \E k \in Group(b, f.ref) : b[k].kind = "admission" /\ bad(b, ProvisionalIn(b), k, f)
            THEN {"chain.admission_not_relied_upon"} ELSE {}
    BY <1>3, <2>2 DEF StrictReasons
  <2> QED
    BY <2>4, <2>5, <2>6
<1> QED
  BY <1>2, <1>3

\* The decision on a receipt without a copy is the same in every order.
LEMMA RearrangedDecision ==
  ASSUME NEW b, NEW c, NEW p, Rearranged(b, c, p), NEW i \in DOMAIN b,
         \A j \in DOMAIN b : b[j].rid # "unhashable",
         \A j \in DOMAIN b : j # p[i] =>
           ~(b[j].rid = b[p[i]].rid /\ ReplayDigest(b[j]) = ReplayDigest(b[p[i]]))
  PROVE  DecisionIn(c, i) = DecisionIn(b, p[i])
<1> DEFINE f == b[p[i]]
<1>1. c[i] = f /\ p[i] \in DOMAIN b /\ i \in DOMAIN c /\ DOMAIN c = DOMAIN b
  BY DEF Rearranged
<1>2. /\ DecisionIn(c, i) = DecideFrom(ReasonsIn(c, i) \cup StrictReasons(c, ProvisionalIn(c), i))
      /\ DecisionIn(b, p[i]) =
           DecideFrom(ReasonsIn(b, p[i]) \cup StrictReasons(b, ProvisionalIn(b), p[i]))
  BY <1>1, DecisionOfReasons
<1>3. CASE f.rid # None /\ ~Sole(b, p[i])
  <2>1. PICK k \in DOMAIN b : b[k].rid = f.rid /\ k # p[i]
    BY <1>3 DEF Sole
  <2>2. ReplayDigest(b[k]) # ReplayDigest(f)
    BY <2>1
  <2>3. PICK j \in DOMAIN b : p[j] = k
    BY DEF Rearranged
  <2>4. c[j] = b[k] /\ j \in DOMAIN c
    BY <1>1, <2>3 DEF Rearranged
  <2>5. ReplayReasons(b, ledger, p[i]) = {"replay.receipt_id_conflict"}
    BY <1>1, <1>3, <2>1, <2>2, ConflictReason
  <2>6. ReplayReasons(c, ledger, i) = {"replay.receipt_id_conflict"}
    BY <1>1, <1>3, <2>1, <2>2, <2>4, ConflictReason
  <2>7. "replay.receipt_id_conflict" # "chain.admission_receipt_unresolved"
    OBVIOUS
  <2> QED
    BY <1>2, <2>5, <2>6, <2>7, RefusingReason DEF ReasonsIn
<1>4. CASE /\ f.rid = None \/ Sole(b, p[i])
           /\ f.ref # None => \A j, m \in Group(b, f.ref) : j = m
  <2>1. ReasonsIn(c, i) = ReasonsIn(b, p[i])
    BY <1>4, RearrangedReasons
  <2>2. StrictReasons(c, ProvisionalIn(c), i) = StrictReasons(b, ProvisionalIn(b), p[i])
    BY <1>4, RearrangedStrictReasons
  <2> QED
    BY <1>2, <2>1, <2>2
<1>5. CASE /\ f.rid = None \/ Sole(b, p[i])
           /\ f.ref # None /\ \E j, m \in Group(b, f.ref) : j # m
  <2>1. PICK k, n \in Group(b, f.ref) : k # n
    BY <1>5
  <2>2. f.ref # "unhashable"
    BY <2>1 DEF Group
  <2>3. PICK j, m \in Group(c, f.ref) : j # m
    BY <2>1, RearrangedGroup
  <2>4. CASE f.parsed /\ f.kind = "outcome"
    <3>1. StrictReasons(b, ProvisionalIn(b), p[i]) = {"chain.admission_not_relied_upon"}
      BY <1>1, <1>5, <2>1, <2>2, <2>4, CrowdedReference
    <3>2. StrictReasons(c, ProvisionalIn(c), i) = {"chain.admission_not_relied_upon"}
      BY <1>1, <1>5, <2>2, <2>3, <2>4, CrowdedReference
    <3>3. "chain.admission_not_relied_upon" # "chain.admission_receipt_unresolved"
      OBVIOUS
    <3> QED
      BY <1>2, <3>1, <3>2, <3>3, RefusingReason
  <2>5. CASE ~f.parsed \/ f.kind # "outcome"
    <3>1. ReasonsIn(c, i) = ReasonsIn(b, p[i])
      BY <1>5, <2>5, RearrangedReasons
    <3>2. StrictReasons(c, ProvisionalIn(c), i) = StrictReasons(b, ProvisionalIn(b), p[i])
      BY <1>1, <2>5 DEF StrictReasons
    <3> QED
      BY <1>2, <3>1, <3>2
  <2> QED
    BY <2>4, <2>5
<1> QED
  BY <1>3, <1>4, <1>5

\* Under the strict setting the decision on a receipt of which the
\* submission has no copy does not depend on the order of arrival, for
\* submissions of any size and every permutation of them.
THEOREM OrderDoesNotMatter == Spec => []StrictOrderIndependent
<1>1. ASSUME IInv PROVE StrictOrderIndependent
  <2> SUFFICES ASSUME pc = "write_facts", trust.strict, NEW p \in Orders, NEW i \in DOMAIN batch,
                      NoCopy(p[i])
               PROVE  DecisionIn([j \in DOMAIN batch |-> batch[p[j]]], i) = decisions[p[i]]
    BY DEF StrictOrderIndependent
  <2> DEFINE c == [j \in DOMAIN batch |-> batch[p[j]]]
  <2>1. /\ Decided /\ batch \in Batches /\ DOMAIN batch \subseteq Nat
        /\ \A j \in DOMAIN batch : batch[j].rid # "unhashable"
    BY <1>1, BatchesAssumption DEF IInv, Typed, Decided
  <2>2. Rearranged(batch, c, p)
    BY <2>1 DEF Rearranged, Orders
  <2>3. p[i] \in DOMAIN batch
    BY DEF Orders
  <2>4. \A j \in DOMAIN batch : j # p[i] =>
          ~(batch[j].rid = batch[p[i]].rid /\ ReplayDigest(batch[j]) = ReplayDigest(batch[p[i]]))
    BY DEF NoCopy
  <2>5. DecisionIn(batch, p[i]) = decisions[p[i]]
    <3>1. decisions[p[i]] = DecideFrom(Final(p[i]))
      BY <1>1, <2>1, <2>3 DEF IInv, ReasonsInv
    <3>2. Final(p[i]) = ReasonsIn(batch, p[i]) \cup StrictReasons(batch, ProvisionalIn(batch), p[i])
      BY DEF Final, Provisional, ProvisionalDecisions, ReasonsIn, ProvisionalIn
    <3> QED
      BY <2>3, <3>1, <3>2, DecisionOfReasons
  <2> HIDE DEF c
  <2>6. DecisionIn(c, i) = DecisionIn(batch, p[i])
    BY <2>1, <2>2, <2>4, RearrangedDecision
  <2> QED
    BY <2>5, <2>6 DEF c
<1> QED
  BY <1>1, InductiveInvariant, PTL

----------------------------------------------------------------------------
(* ReceiptSet: the inductive invariant of verify_receipt_set.              *)

\* How many entries the first loop has behind it, plus one.
Past == IF step = "entries" THEN at ELSE Len(workflow.entries) + 1

IndexOk ==
  workflow.readable /\ workflow.schema = "supported" /\ workflow.shape_valid /\ workflow.trust_intact

Kept(i) == i \in KeptIndexes(Found)

\* Where the linkage loop has started, and where the entry loop has.
Linking == step = "linkage" \/ (step = "returned" /\ IndexOk)
Reading == step = "entries" \/ Linking

Fresh ==
  /\ at = 1 /\ receipts = <<>> /\ reports = <<>> /\ seen_paths = {} /\ seen_ids = {}
  /\ findings = {} /\ manifest_integrity = TRUE

StageInv ==
  /\ workflow \in Workflows
  /\ step \in {"load", "schema", "shape", "trust", "entries", "linkage", "returned", "raised"}
  /\ step \in {"schema", "shape", "trust", "entries", "linkage"} => workflow.readable
  /\ step \in {"shape", "trust", "entries", "linkage"} => workflow.schema = "supported"
  /\ step \in {"trust", "entries", "linkage"} => workflow.shape_valid
  /\ step \in {"entries", "linkage"} => workflow.trust_intact
  /\ step \in {"load", "schema", "shape", "trust"} => Fresh
  /\ step \in {"load", "schema", "shape", "trust", "entries"} => receipt_linkage_valid = TRUE
  /\ step \in {"load", "schema", "shape", "trust", "entries", "linkage"} => status = None
  /\ status = 0 => step = "returned" /\ IndexOk /\ Passed

\* What the entry loop has seen.
SeenInv ==
  LET es == workflow.entries IN
  /\ at \in Nat \ {0} /\ (step = "entries" => at <= Len(es) + 1)
  /\ seen_paths = {es[i].path : i \in {j \in 1 .. Past - 1 : es[j].object /\ es[j].safe}}
  /\ seen_ids = {ReceiptAt(i).rid : i \in {j \in 1 .. Past - 1 : j \in DOMAIN Found}} \ {None}
  /\ step = "entries" => \A f \in findings : f[1] \notin LinkageErrors

\* What it has kept.
ReceiptsInv ==
  /\ Len(receipts) \in Nat /\ DOMAIN receipts = 1 .. Len(receipts) /\ Len(receipts) <= Past - 1
  /\ DOMAIN reports = DOMAIN receipts /\ Len(reports) = Len(receipts)
  /\ Len(receipts) = 0 => reports = <<>>
  /\ \A n \in DOMAIN receipts :
       /\ reports[n] = (receipts[n].verdict = "pass")
       /\ \E i \in 1 .. Past - 1 : Kept(i) /\ receipts[n] = ReceiptAt(i)
  /\ \A i \in 1 .. Past - 1 : Kept(i) => \E n \in DOMAIN receipts : receipts[n] = ReceiptAt(i)
  /\ \A m, n \in DOMAIN receipts : receipts[m].rid = receipts[n].rid => m = n
  /\ manifest_integrity =>
       /\ Len(receipts) = Past - 1
       /\ \A i \in 1 .. Past - 1 : Kept(i) /\ receipts[i] = ReceiptAt(i)

\* What the linkage loop has found.
LinkInv ==
  /\ at <= Len(receipts) + 1
  /\ DOMAIN by_id = {receipts[n].rid : n \in DOMAIN receipts}
  /\ \A n \in DOMAIN receipts : by_id[receipts[n].rid] = receipts[n]
  /\ receipt_linkage_valid =>
       \A n \in 1 .. at - 1 : receipts[n].kind = "outcome" => LinkCode(receipts[n]) = None
  /\ {f \in findings : f[1] \in LinkageErrors} =
       {<<LinkCode(receipts[n]), receipts[n].rid>> :
          n \in {m \in 1 .. at - 1 : receipts[m].kind = "outcome" /\ LinkCode(receipts[m]) # None}}

SetInv ==
  /\ SetTypeOK
  /\ StageInv
  /\ Reading => SeenInv /\ ReceiptsInv
  /\ Linking => LinkInv
  /\ step = "returned" /\ IndexOk => at = Len(receipts) + 1

----------------------------------------------------------------------------

\* The domain of the sound receipts.
LEMMA FoundDomain ==
  /\ DOMAIN Found = {i \in DOMAIN workflow.entries : Sound(i)}
  /\ \A i \in DOMAIN Found : Found[i] = ReceiptAt(i)
  BY DEF Found

\* What it is to be kept.
LEMMA KeptMeans ==
  ASSUME NEW i
  PROVE  Kept(i) <=> /\ i \in DOMAIN Found /\ ReceiptAt(i).rid # None
                     /\ \A j \in DOMAIN Found : j < i => ReceiptAt(j).rid # ReceiptAt(i).rid
  BY FoundDomain DEF Kept, KeptIndexes

\* The tests of the loop body, by sets, are the definition of what is kept.
LEMMA EntryErrorMeans ==
  ASSUME StageInv, SeenInv, step = "entries", at <= Len(workflow.entries)
  PROVE  /\ EntryError(workflow.entries[at]) \in EntryErrors \cup {None}
         /\ EntryError(workflow.entries[at]) = None <=> Kept(at)
<1> DEFINE es == workflow.entries
           e == es[at]
<1>1. /\ Len(es) \in Nat /\ DOMAIN es = 1 .. Len(es) /\ at \in DOMAIN es /\ Past = at
      /\ 1 .. Past - 1 = {j \in DOMAIN es : j < at} /\ at \in Nat
  BY WorkflowsAssumption DEF StageInv, SeenInv, Past
<1>2. EntryError(e) \in EntryErrors \cup {None}
  BY DEF EntryError, EntryErrors
<1>3. e.path \notin seen_paths <=> \A j \in DOMAIN es : j < at /\ es[j].object /\ es[j].safe => es[j].path # e.path
  BY <1>1 DEF SeenInv
<1>4. Sound(at) <=> e.object /\ e.safe /\ e.file = "object" /\ e.path \notin seen_paths
  BY <1>3 DEF Sound
<1>5. e.receipt.rid # None =>
        (e.receipt.rid \notin seen_ids <=> \A j \in DOMAIN Found : j < at => ReceiptAt(j).rid # e.receipt.rid)
  BY <1>1, FoundDomain DEF SeenInv
<1>6. Kept(at) <=> Sound(at) /\ e.receipt.rid # None /\ e.receipt.rid \notin seen_ids
  BY <1>1, <1>5, KeptMeans, FoundDomain DEF ReceiptAt
<1>7. EntryError(e) = None <=> e.object /\ e.safe /\ e.path \notin seen_paths /\ e.file = "object"
                                 /\ e.receipt.rid # None /\ e.receipt.rid \notin seen_ids
  BY NoneAssumption DEF EntryError, EntryErrors
<1> QED
  BY <1>2, <1>4, <1>6, <1>7

\* The index is never written, so what is defined of it alone stays.
LEMMA IndexStays ==
  ASSUME UNCHANGED workflow
  PROVE  /\ Found' = Found /\ (IndexOk' <=> IndexOk)
         /\ \A i : (Kept(i)' <=> Kept(i)) /\ ReceiptAt(i)' = ReceiptAt(i)
<1>1. \A i : Sound(i)' <=> Sound(i)
  BY DEF Sound
<1>2. \A i : ReceiptAt(i)' = ReceiptAt(i)
  BY DEF ReceiptAt
<1>3. Found' = Found
  BY <1>1, <1>2 DEF Found
<1>4. \A i : Kept(i)' <=> Kept(i)
  BY <1>3 DEF Kept, KeptIndexes
<1> QED
  BY <1>2, <1>3, <1>4 DEF IndexOk

\* At the start.
LEMMA SetInitInv == SetInit => SetInv
<1> SUFFICES ASSUME SetInit PROVE SetInv
  OBVIOUS
<1>1. workflow \in Workflows /\ Len(workflow.entries) \in Nat
  BY WorkflowsAssumption DEF SetInit
<1>2. SetTypeOK
  BY <1>1 DEF SetInit, SetTypeOK
<1>3. StageInv
  BY <1>1, NoneAssumption DEF SetInit, StageInv, Fresh
<1> QED
  BY <1>2, <1>3 DEF SetInit, SetInv, Reading, Linking

\* An exception ends the process with a status that is not 0.
LEMMA RaiseInv ==
  ASSUME SetInv, Raise
  PROVE  SetInv'
<1>1. SetTypeOK'
  BY DEF SetInv, SetTypeOK, Raise, loop, flags
<1>2. StageInv'
  BY DEF SetInv, StageInv, Raise
<1> QED
  BY <1>1, <1>2 DEF SetInv, Reading, Linking, Raise

\* With nothing read yet the invariant of the entry loop holds.
LEMMA FreshReading ==
  ASSUME StageInv', Fresh', step' = "entries"
  PROVE  SeenInv' /\ ReceiptsInv'
<1>1. Len(workflow'.entries) \in Nat /\ Past' = 1 /\ 1 .. Past' - 1 = {}
  BY WorkflowsAssumption DEF StageInv, Fresh, Past
<1>2. SeenInv'
  BY <1>1 DEF SeenInv, Fresh
<1>3. ReceiptsInv'
  BY <1>1 DEF ReceiptsInv, Fresh
<1> QED
  BY <1>2, <1>3

\* The checks on the index before its entries are read.
LEMMA CheckIndexInv ==
  ASSUME SetInv, LoadWorkflow \/ (CheckWorkflowSchema /\ ~Raise) \/ CheckShape \/ CheckTrustBundle
  PROVE  SetInv'
<1> USE DEF LoadWorkflow, CheckWorkflowSchema, CheckShape, CheckTrustBundle
<1>1. \/ CheckIndex("load", "schema", workflow.readable, "workflow_unreadable")
      \/ CheckIndex("schema", "shape", workflow.schema = "supported", "unsupported_workflow_schema")
      \/ CheckIndex("shape", "trust", workflow.shape_valid, "workflow_shape_invalid")
      \/ CheckIndex("trust", "entries", workflow.trust_intact, "trust_bundle_integrity_failed")
  BY Zenon
<1>2. Fresh /\ UNCHANGED <<workflow, at, receipt_linkage_valid, loop>> /\ step \in {"load", "schema", "shape", "trust"}
  BY <1>1 DEF SetInv, StageInv, CheckIndex
<1>3. CASE step' = "returned"
  <2>1. status' = 1 /\ ~IndexOk' /\ manifest_integrity' = FALSE
    BY <1>3, IndexStays DEF CheckIndex, SetInv, StageInv, IndexOk
  <2>2. SetTypeOK'
    BY <1>2, <1>3, <2>1 DEF SetInv, SetTypeOK, loop
  <2>3. StageInv'
    BY <1>2, <1>3, <2>1 DEF SetInv, StageInv
  <2> QED
    BY <1>3, <2>1, <2>2, <2>3 DEF SetInv, Reading, Linking
<1>4. CASE step' # "returned"
  <2>1. UNCHANGED <<manifest_integrity, findings, status>> /\ step' \in {"schema", "shape", "trust", "entries"}
    BY <1>4 DEF CheckIndex
  <2>2. SetTypeOK'
    BY <1>2, <2>1 DEF SetInv, SetTypeOK, loop
  <2>3. Fresh'
    BY <1>2, <2>1 DEF Fresh, loop
  <2>4. StageInv'
    BY <1>2, <2>1, <2>3 DEF SetInv, StageInv, CheckIndex
  <2> QED
    BY <2>1, <2>2, <2>3, <2>4, FreshReading DEF SetInv, Reading, Linking
<1> QED
  BY <1>3, <1>4

\* One entry further, the entries behind the loop are the earlier ones and
\* the one just looked at.
LEMMA NextEntry ==
  ASSUME SetInv, step = "entries", at <= Len(workflow.entries),
         UNCHANGED <<step, workflow>>, at' = at + 1
  PROVE  /\ at \in Nat \ {0} /\ Past = at /\ Past' = at + 1
         /\ Len(workflow.entries) \in Nat /\ at' <= Len(workflow.entries) + 1
         /\ 1 .. Past' - 1 = (1 .. Past - 1) \cup {at} /\ at \notin 1 .. Past - 1
<1>1. at \in Nat \ {0} /\ Past = at /\ Past' = at + 1 /\ Len(workflow.entries) \in Nat
  BY WorkflowsAssumption DEF SetInv, StageInv, Reading, SeenInv, Past
<1> QED
  BY <1>1

\* An entry that is skipped.
LEMMA SkipEntryInv ==
  ASSUME SetInv, SkipEntry
  PROVE  SetInv'
<1> DEFINE es == workflow.entries
           e == es[at]
<1>1. /\ step = "entries" /\ at <= Len(es) /\ UNCHANGED <<step, workflow>> /\ at' = at + 1
      /\ EntryError(e) # None /\ manifest_integrity' = FALSE
      /\ findings' = findings \cup {<<EntryError(e), at>>}
      /\ seen_paths' = IF e.object /\ e.safe THEN seen_paths \cup {e.path} ELSE seen_paths
      /\ UNCHANGED <<receipt_linkage_valid, receipts, reports, seen_ids, by_id, status>>
  BY DEF SkipEntry
<1>2. SeenInv /\ ReceiptsInv /\ StageInv
  BY <1>1 DEF SetInv, Reading
<1>3. EntryError(e) \in EntryErrors /\ ~Kept(at)
  BY <1>1, <1>2, EntryErrorMeans
<1>4. /\ at \in Nat \ {0} /\ Past = at /\ Past' = at + 1
      /\ Len(es) \in Nat /\ at' <= Len(es) + 1
      /\ 1 .. Past' - 1 = (1 .. Past - 1) \cup {at} /\ at \notin 1 .. Past - 1
  BY <1>1, NextEntry
<1>5. Found' = Found /\ \A i : (Kept(i)' <=> Kept(i)) /\ ReceiptAt(i)' = ReceiptAt(i)
  BY <1>1, IndexStays
<1>6. SetTypeOK'
  <2>1. manifest_integrity' \in BOOLEAN
    BY <1>1, Zenon
  <2>2. at' \in 1 .. Len(es) + 1
    BY <1>1, <1>4
  <2> QED
    BY <1>1, <2>1, <2>2 DEF SetInv, SetTypeOK
<1>7. StageInv'
  BY <1>1, <1>2 DEF StageInv
<1>8. SeenInv'
  <2>1. seen_paths' = {es[i].path : i \in {j \in 1 .. Past' - 1 : es[j].object /\ es[j].safe}}
    BY <1>1, <1>2, <1>4 DEF SeenInv
  <2>2. at \in DOMAIN Found => ReceiptAt(at).rid \in seen_ids \cup {None}
    <3>1. SUFFICES ASSUME at \in DOMAIN Found, ReceiptAt(at).rid # None
                   PROVE  ReceiptAt(at).rid \in seen_ids
      OBVIOUS
    <3>2. PICK j \in DOMAIN Found : j < at /\ ReceiptAt(j).rid = ReceiptAt(at).rid
      BY <1>3, <3>1, KeptMeans
    <3>3. j \in 1 .. Past - 1
      BY <1>2, <1>4, <3>2, FoundDomain, WorkflowsAssumption DEF StageInv
    <3> QED
      BY <1>2, <3>1, <3>2, <3>3 DEF SeenInv
  <2>3. seen_ids' = {ReceiptAt(i).rid : i \in {j \in 1 .. Past' - 1 : j \in DOMAIN Found}} \ {None}
    BY <1>1, <1>2, <1>4, <2>2 DEF SeenInv
  <2>4. \A f \in findings' : f[1] \notin LinkageErrors
    BY <1>1, <1>2, <1>3 DEF SeenInv, EntryErrors, LinkageErrors
  <2> QED
    BY <1>1, <1>4, <1>5, <2>1, <2>3, <2>4 DEF SeenInv
<1>9. ReceiptsInv'
  <2>1. Len(receipts) <= Past' - 1 /\ ~manifest_integrity'
    BY <1>1, <1>2, <1>4 DEF ReceiptsInv
  <2>2. \A n \in DOMAIN receipts : \E i \in 1 .. Past' - 1 : Kept(i) /\ receipts[n] = ReceiptAt(i)
    BY <1>2, <1>4 DEF ReceiptsInv
  <2>3. \A i \in 1 .. Past' - 1 : Kept(i) => \E n \in DOMAIN receipts : receipts[n] = ReceiptAt(i)
    BY <1>2, <1>3, <1>4 DEF ReceiptsInv
  <2> QED
    BY <1>1, <1>2, <1>5, <2>1, <2>2, <2>3 DEF ReceiptsInv
<1> QED
  BY <1>1, <1>6, <1>7, <1>8, <1>9 DEF SetInv, Linking

\* An entry that is kept.
LEMMA VerifyEntryInv ==
  ASSUME SetInv, VerifyEntry, ~Raise
  PROVE  SetInv'
<1> DEFINE es == workflow.entries
           e == es[at]
<1>1. /\ step = "entries" /\ at <= Len(es) /\ UNCHANGED <<step, workflow>> /\ at' = at + 1
      /\ EntryError(e) = None
      /\ seen_paths' = seen_paths \cup {e.path} /\ seen_ids' = seen_ids \cup {e.receipt.rid}
      /\ reports' = Append(reports, e.receipt.verdict = "pass") /\ receipts' = Append(receipts, e.receipt)
      /\ UNCHANGED <<manifest_integrity, receipt_linkage_valid, by_id, findings, status>>
  BY DEF VerifyEntry, flags
<1>2. SeenInv /\ ReceiptsInv /\ StageInv
  BY <1>1 DEF SetInv, Reading
<1>3. Kept(at) /\ e.receipt = ReceiptAt(at)
  BY <1>1, <1>2, EntryErrorMeans DEF ReceiptAt
<1>4. /\ at \in Nat \ {0} /\ Past = at /\ Past' = at + 1
      /\ Len(es) \in Nat /\ at' <= Len(es) + 1
      /\ 1 .. Past' - 1 = (1 .. Past - 1) \cup {at} /\ at \notin 1 .. Past - 1
  BY <1>1, NextEntry
<1>5. Found' = Found /\ \A i : (Kept(i)' <=> Kept(i)) /\ ReceiptAt(i)' = ReceiptAt(i)
  BY <1>1, IndexStays
<1>6. /\ at \in DOMAIN Found /\ Sound(at) /\ e.receipt.rid # None
      /\ \A j \in DOMAIN Found : j < at => ReceiptAt(j).rid # e.receipt.rid
  BY <1>3, KeptMeans, FoundDomain
<1> DEFINE n == Len(receipts) + 1
<1>7. /\ Len(receipts') = n /\ DOMAIN receipts' = (DOMAIN receipts) \cup {n} /\ n \notin DOMAIN receipts
      /\ \A m \in DOMAIN receipts : receipts'[m] = receipts[m]
      /\ receipts'[n] = e.receipt /\ n \in Nat
  BY <1>1, <1>2 DEF ReceiptsInv
<1>8. /\ Len(reports') = n /\ DOMAIN reports' = DOMAIN receipts'
      /\ \A m \in DOMAIN receipts : reports'[m] = reports[m]
      /\ reports'[n] = (e.receipt.verdict = "pass")
  BY <1>1, <1>2, <1>7 DEF ReceiptsInv
<1>9. SetTypeOK'
  BY <1>1, <1>4, <1>7, <1>8 DEF SetInv, SetTypeOK
<1>10. StageInv'
  BY <1>1, <1>2 DEF StageInv
<1>11. SeenInv'
  <2>1. seen_paths' = {es[i].path : i \in {j \in 1 .. Past' - 1 : es[j].object /\ es[j].safe}}
    BY <1>1, <1>2, <1>4, <1>6 DEF SeenInv, Sound
  <2>2. seen_ids' = {ReceiptAt(i).rid : i \in {j \in 1 .. Past' - 1 : j \in DOMAIN Found}} \ {None}
    BY <1>1, <1>2, <1>3, <1>4, <1>6 DEF SeenInv
  <2>3. \A f \in findings' : f[1] \notin LinkageErrors
    BY <1>1, <1>2 DEF SeenInv
  <2>4. UNCHANGED workflow /\ at' \in Nat \ {0} /\ at' <= Len(es) + 1
    BY <1>1, <1>4
  <2> QED
    BY <1>5, <2>1, <2>2, <2>3, <2>4 DEF SeenInv
<1>12. ReceiptsInv'
  <2>1. Len(receipts') \in Nat /\ DOMAIN receipts' = 1 .. Len(receipts') /\ Len(receipts') <= Past' - 1
    BY <1>2, <1>4, <1>7 DEF ReceiptsInv
  <2>2. \A m \in DOMAIN receipts' :
          /\ reports'[m] = (receipts'[m].verdict = "pass")
          /\ \E i \in 1 .. Past' - 1 : Kept(i) /\ receipts'[m] = ReceiptAt(i)
    <3>1. \A m \in DOMAIN receipts :
            /\ reports[m] = (receipts[m].verdict = "pass")
            /\ \E i \in 1 .. Past - 1 : Kept(i) /\ receipts[m] = ReceiptAt(i)
      BY <1>2 DEF ReceiptsInv
    <3>2. SUFFICES ASSUME NEW m \in DOMAIN receipts'
                   PROVE  /\ reports'[m] = (receipts'[m].verdict = "pass")
                          /\ \E i \in 1 .. Past' - 1 : Kept(i) /\ receipts'[m] = ReceiptAt(i)
      OBVIOUS
    <3>3. CASE m = n
      BY <1>3, <1>4, <1>7, <1>8, <3>3
    <3>4. CASE m \in DOMAIN receipts
      BY <1>4, <1>7, <1>8, <3>1, <3>4
    <3> QED
      BY <1>7, <3>2, <3>3, <3>4
  <2>3. \A i \in 1 .. Past' - 1 : Kept(i) => \E m \in DOMAIN receipts' : receipts'[m] = ReceiptAt(i)
    <3>1. SUFFICES ASSUME NEW i \in 1 .. Past' - 1, Kept(i)
                   PROVE  \E m \in DOMAIN receipts' : receipts'[m] = ReceiptAt(i)
      OBVIOUS
    <3>2. CASE i = at
      BY <1>3, <1>7, <3>2
    <3>3. CASE i \in 1 .. Past - 1
      <4>1. PICK m \in DOMAIN receipts : receipts[m] = ReceiptAt(i)
        BY <1>2, <3>1, <3>3 DEF ReceiptsInv
      <4> QED
        BY <1>7, <4>1
    <3> QED
      BY <1>4, <3>2, <3>3
  <2>4. \A m \in DOMAIN receipts : receipts[m].rid # e.receipt.rid
    <3>1. SUFFICES ASSUME NEW m \in DOMAIN receipts PROVE receipts[m].rid # e.receipt.rid
      OBVIOUS
    <3>2. PICK i \in 1 .. Past - 1 : Kept(i) /\ receipts[m] = ReceiptAt(i)
      BY <1>2 DEF ReceiptsInv
    <3> QED
      BY <1>4, <1>6, <3>2, KeptMeans
  <2>5. \A m, l \in DOMAIN receipts' : receipts'[m].rid = receipts'[l].rid => m = l
    BY <1>2, <1>7, <2>4 DEF ReceiptsInv
  <2>6. manifest_integrity' =>
          /\ Len(receipts') = Past' - 1
          /\ \A i \in 1 .. Past' - 1 : Kept(i) /\ receipts'[i] = ReceiptAt(i)
    <3>1. SUFFICES ASSUME manifest_integrity'
                   PROVE  /\ Len(receipts') = Past' - 1
                          /\ \A i \in 1 .. Past' - 1 : Kept(i) /\ receipts'[i] = ReceiptAt(i)
      OBVIOUS
    <3>2. manifest_integrity
      BY <1>1, <3>1
    <3>3. /\ Len(receipts) = Past - 1 /\ DOMAIN receipts = 1 .. Past - 1
          /\ \A i \in 1 .. Past - 1 : Kept(i) /\ receipts[i] = ReceiptAt(i)
      BY <1>2, <3>2 DEF ReceiptsInv
    <3>4. n = at
      BY <1>4, <3>3
    <3> QED
      BY <1>3, <1>4, <1>7, <3>3, <3>4
  <2>7. Len(receipts') # 0 /\ Len(reports') = Len(receipts') /\ DOMAIN reports' = DOMAIN receipts'
    BY <1>2, <1>7, <1>8 DEF ReceiptsInv
  <2> HIDE DEF n, e, es
  <2> QED
    BY <1>5, <2>1, <2>2, <2>3, <2>5, <2>6, <2>7 DEF ReceiptsInv
<1> QED
  BY <1>1, <1>9, <1>10, <1>11, <1>12 DEF SetInv, Linking

\* Outside the entry loop nothing that SeenInv and ReceiptsInv speak of
\* changes but step and position.
LEMMA ReadingStays ==
  ASSUME SetInv, SeenInv, ReceiptsInv, Past' = Past, at' \in Nat \ {0}, step' # "entries",
         UNCHANGED <<workflow, manifest_integrity, receipts, reports, seen_paths, seen_ids>>
  PROVE  SeenInv' /\ ReceiptsInv'
<1>1. Found' = Found /\ \A i : (Kept(i)' <=> Kept(i)) /\ ReceiptAt(i)' = ReceiptAt(i)
  BY IndexStays
<1>2. SeenInv'
  BY <1>1 DEF SeenInv
<1>3. ReceiptsInv'
  BY <1>1 DEF ReceiptsInv
<1> QED
  BY <1>2, <1>3

\* The dictionary is built.
LEMMA IndexReceiptsInv ==
  ASSUME SetInv, IndexReceipts
  PROVE  SetInv'
<1>1. /\ step = "entries" /\ at > Len(workflow.entries) /\ step' = "linkage" /\ at' = 1
      /\ UNCHANGED <<workflow, flags, receipts, reports, seen_paths, seen_ids, findings, status>>
  BY DEF IndexReceipts
<1>2. SeenInv /\ ReceiptsInv /\ StageInv /\ Len(workflow.entries) \in Nat
  BY <1>1, WorkflowsAssumption DEF SetInv, Reading, StageInv
<1>3. Past' = Past
  BY <1>1, <1>2 DEF SeenInv, Past
<1>4. SeenInv' /\ ReceiptsInv'
  BY <1>1, <1>2, <1>3, ReadingStays DEF flags
<1>5. LinkInv'
  <2>1. DOMAIN by_id' = {receipts[n].rid : n \in DOMAIN receipts}
    BY DEF IndexReceipts
  <2>2. ASSUME NEW n \in DOMAIN receipts
        PROVE  by_id'[receipts[n].rid] = receipts[n]
    <3> DEFINE i == CHOOSE m \in DOMAIN receipts : receipts[m].rid = receipts[n].rid
    <3>1. i \in DOMAIN receipts /\ receipts[i].rid = receipts[n].rid
      OBVIOUS
    <3>2. i = n
      BY <1>2, <3>1 DEF ReceiptsInv
    <3>3. by_id'[receipts[n].rid] = receipts[i]
      BY DEF IndexReceipts
    <3> QED
      BY <3>2, <3>3
  <2>3. 1 .. at' - 1 = {} /\ at' <= Len(receipts) + 1
    BY <1>1, <1>2 DEF ReceiptsInv
  <2>4. {f \in findings : f[1] \in LinkageErrors} = {}
    BY <1>1, <1>2 DEF SeenInv
  <2> QED
    BY <1>1, <2>1, <2>2, <2>3, <2>4 DEF LinkInv
<1>6. SetTypeOK'
  BY <1>1, <1>2 DEF SetInv, SetTypeOK, flags
<1>7. StageInv'
  BY <1>1, <1>2 DEF StageInv
<1> QED
  BY <1>1, <1>4, <1>5, <1>6, <1>7 DEF SetInv, Linking

\* The values of LinkCode.
LEMMA LinkCodeValues ==
  ASSUME NEW r
  PROVE  LinkCode(r) \in LinkageErrors \cup {None}
  BY DEF LinkCode, LinkageErrors

\* One receipt is looked at by the linkage loop.
LEMMA LinkReceiptInv ==
  ASSUME SetInv, LinkReceipt, ~Raise
  PROVE  SetInv'
<1> DEFINE r == receipts[at]
           Coded(m) == receipts[m].kind = "outcome" /\ LinkCode(receipts[m]) # None
           Report(m) == <<LinkCode(receipts[m]), receipts[m].rid>>
<1>1. /\ step = "linkage" /\ at <= Len(receipts) /\ at' = at + 1
      /\ UNCHANGED <<step, workflow, manifest_integrity, loop, status>>
      /\ \/ ~Coded(at) /\ UNCHANGED <<receipt_linkage_valid, findings>>
         \/ /\ Coded(at) /\ receipt_linkage_valid' = FALSE
            /\ findings' = findings \cup {Report(at)}
  BY DEF LinkReceipt, flags
<1>2. SeenInv /\ ReceiptsInv /\ StageInv /\ LinkInv /\ Len(workflow.entries) \in Nat
  BY <1>1, WorkflowsAssumption DEF SetInv, Reading, Linking, StageInv
<1>3. Past' = Past /\ at \in Nat \ {0} /\ at' \in Nat \ {0} /\ Len(receipts) \in Nat
      /\ Len(receipts) <= Len(workflow.entries)
  BY <1>1, <1>2 DEF SeenInv, ReceiptsInv, Past
<1>4. SeenInv' /\ ReceiptsInv'
  BY <1>1, <1>2, <1>3, ReadingStays DEF loop
<1>5. 1 .. at' - 1 = (1 .. at - 1) \cup {at} /\ at' <= Len(receipts) + 1
  BY <1>1, <1>3
<1>6. \A x : LinkCode(x)' = LinkCode(x)
  BY <1>1 DEF LinkCode, loop
<1>7. LinkInv'
  <2>1. receipt_linkage_valid' => \A n \in 1 .. at' - 1 : ~Coded(n)
    <3>1. CASE ~Coded(at) /\ UNCHANGED <<receipt_linkage_valid, findings>>
      BY <1>2, <1>5, <3>1 DEF LinkInv
    <3>2. CASE receipt_linkage_valid' = FALSE
      BY <3>2
    <3> QED
      BY <1>1, <3>1, <3>2
  <2>2. {f \in findings : f[1] \in LinkageErrors} = {Report(n) : n \in {m \in 1 .. at - 1 : Coded(m)}}
    BY <1>2 DEF LinkInv
  <2>3. {f \in findings' : f[1] \in LinkageErrors} = {Report(n) : n \in {m \in 1 .. at' - 1 : Coded(m)}}
    <3>1. CASE ~Coded(at) /\ UNCHANGED <<receipt_linkage_valid, findings>>
      <4>1. {m \in 1 .. at' - 1 : Coded(m)} = {m \in 1 .. at - 1 : Coded(m)}
        BY <1>5, <3>1
      <4> QED
        BY <2>2, <3>1, <4>1
    <3>2. CASE Coded(at) /\ findings' = findings \cup {Report(at)}
      <4>1. {m \in 1 .. at' - 1 : Coded(m)} = {m \in 1 .. at - 1 : Coded(m)} \cup {at}
        BY <1>5, <3>2
      <4>2. Report(at)[1] \in LinkageErrors
        BY <3>2, LinkCodeValues
      <4>3. {f \in findings' : f[1] \in LinkageErrors} =
              {f \in findings : f[1] \in LinkageErrors} \cup {Report(at)}
        BY <3>2, <4>2
      <4> HIDE DEF Coded, Report
      <4> QED
        BY <2>2, <4>1, <4>3
    <3> QED
      BY <1>1, <3>1, <3>2
  <2>4. UNCHANGED <<receipts, by_id>>
    BY <1>1 DEF loop
  <2> QED
    BY <1>2, <1>5, <1>6, <2>1, <2>3, <2>4 DEF LinkInv
<1>8. SetTypeOK'
  <2>1. at' \in 1 .. Len(workflow.entries) + 1
    BY <1>2, <1>3, <1>5
  <2>2. receipt_linkage_valid' \in BOOLEAN
    BY <1>1, Zenon DEF SetInv, SetTypeOK
  <2> QED
    BY <1>1, <2>1, <2>2 DEF SetInv, SetTypeOK, loop
<1>9. StageInv'
  BY <1>1, <1>2, NoneAssumption DEF StageInv
<1> QED
  BY <1>1, <1>4, <1>7, <1>8, <1>9 DEF SetInv

\* The report is returned.
LEMMA ReturnReportInv ==
  ASSUME SetInv, ReturnReport
  PROVE  SetInv'
<1>1. /\ step = "linkage" /\ at > Len(receipts) /\ step' = "returned"
      /\ status' = (IF Passed THEN 0 ELSE 1)
      /\ UNCHANGED <<workflow, at, flags, loop, findings>>
  BY DEF ReturnReport
<1>2. SeenInv /\ ReceiptsInv /\ StageInv /\ LinkInv /\ IndexOk
  BY <1>1 DEF SetInv, Reading, Linking, StageInv, IndexOk
<1>3. Past' = Past /\ at \in Nat \ {0} /\ at = Len(receipts) + 1
  BY <1>1, <1>2 DEF SeenInv, ReceiptsInv, LinkInv, Past
<1>4. SeenInv' /\ ReceiptsInv'
  BY <1>1, <1>2, <1>3, ReadingStays DEF flags, loop
<1>5. \A x : LinkCode(x)' = LinkCode(x)
  BY <1>1 DEF LinkCode, loop
<1>6. LinkInv'
  BY <1>1, <1>2, <1>5 DEF LinkInv, loop, flags
<1>7. SetTypeOK'
  BY <1>1 DEF SetInv, SetTypeOK, loop, flags
<1>8. StageInv'
  <2>1. IndexOk' /\ (Passed' <=> Passed)
    BY <1>1, <1>2 DEF IndexOk, Passed, loop, flags
  <2> QED
    BY <1>1, <1>2, <2>1 DEF StageInv
<1> QED
  BY <1>1, <1>3, <1>4, <1>6, <1>7, <1>8 DEF SetInv, loop

\* Every step preserves the invariant.
LEMMA SetNextInv == SetInv /\ [SetNext]_set_vars => SetInv'
<1> SUFFICES ASSUME SetInv, [SetNext]_set_vars PROVE SetInv'
  OBVIOUS
<1>1. CASE Raise
  BY <1>1, RaiseInv
<1>2. CASE SetNext /\ ~Raise
  BY <1>2, CheckIndexInv, SkipEntryInv, VerifyEntryInv, IndexReceiptsInv, LinkReceiptInv, ReturnReportInv
     DEF SetNext
<1>3. CASE UNCHANGED set_vars
  <2>1. UNCHANGED <<step, workflow, at, manifest_integrity, receipt_linkage_valid, receipts, reports,
                    seen_paths, seen_ids, by_id, findings, status>>
    BY <1>3 DEF set_vars, flags, loop
  <2>2. Found' = Found /\ (IndexOk' <=> IndexOk)
        /\ \A i : (Kept(i)' <=> Kept(i)) /\ ReceiptAt(i)' = ReceiptAt(i)
    BY <2>1, IndexStays
  <2>3. SetTypeOK' /\ (Passed' <=> Passed) /\ (Fresh' <=> Fresh) /\ Past' = Past
    BY <2>1 DEF SetInv, SetTypeOK, Passed, Fresh, Past
  <2>4. StageInv'
    BY <2>1, <2>2, <2>3 DEF SetInv, StageInv
  <2>5. (SeenInv' <=> SeenInv) /\ (ReceiptsInv' <=> ReceiptsInv)
    BY <2>1, <2>2, <2>3 DEF SeenInv, ReceiptsInv
  <2>6. \A x : LinkCode(x)' = LinkCode(x)
    BY <2>1 DEF LinkCode
  <2>7. LinkInv' <=> LinkInv
    BY <2>1, <2>6 DEF LinkInv
  <2> QED
    BY <2>1, <2>2, <2>3, <2>4, <2>5, <2>7 DEF SetInv, Reading, Linking
<1> QED
  BY <1>1, <1>2, <1>3

\* SetInv is an invariant of verify_receipt_set.
LEMMA SetInvariant == SetSpec => []SetInv
  BY SetInitInv, SetNextInv, PTL DEF SetSpec

\* The report has one entry per receipt kept, its loops stay inside the
\* index, and every id kept is among seen_ids.
THEOREM SetTypeCorrect == SetSpec => []SetTypeOK
  BY SetInvariant, PTL DEF SetInv

\* In a report that was returned on a good index, the receipts are the kept
\* ones of the whole index and the linkage loop has seen them all.
LEMMA AtTheEnd ==
  ASSUME SetInv, step = "returned", IndexOk
  PROVE  /\ ReceiptsInv /\ LinkInv /\ 1 .. at - 1 = DOMAIN receipts
         /\ Len(workflow.entries) \in Nat /\ DOMAIN workflow.entries = 1 .. Len(workflow.entries)
         /\ 1 .. Past - 1 = DOMAIN workflow.entries /\ Past - 1 = Len(workflow.entries)
<1>1. ReceiptsInv /\ LinkInv /\ at = Len(receipts) + 1 /\ workflow \in Workflows
  BY DEF SetInv, Reading, Linking, StageInv
<1>2. Len(workflow.entries) \in Nat /\ DOMAIN workflow.entries = 1 .. Len(workflow.entries)
  BY <1>1, WorkflowsAssumption
<1>3. Past = Len(workflow.entries) + 1
  BY DEF Past
<1> QED
  BY <1>1, <1>2, <1>3 DEF ReceiptsInv

\* For indexes of any length: exit 0 means that every entry was sound, none
\* was dropped, every receipt passed, ids are unique and every outcome has
\* its admission in the set.
THEOREM PassingSetsAreSound == SetSpec => []SetPassSound
<1>1. SetInv => SetPassSound
  <2> SUFFICES ASSUME SetInv, status = 0
               PROVE  LET es == workflow.entries IN
                      /\ Len(es) > 0 /\ Len(reports) = Len(es)
                      /\ \A i \in DOMAIN es : Sound(i) /\ ReceiptAt(i).verdict = "pass"
                      /\ \A i, j \in DOMAIN es : ReceiptAt(i).rid = ReceiptAt(j).rid => i = j
                      /\ \A i \in DOMAIN es : ReceiptAt(i).kind = "outcome" =>
                           \E j \in DOMAIN es : /\ ReceiptAt(j).rid = ReceiptAt(i).ref
                                                /\ ReceiptAt(j).kind = "admission"
                                                /\ ReceiptAt(j).call = ReceiptAt(i).call
    BY DEF SetPassSound
  <2> DEFINE es == workflow.entries
  <2>1. step = "returned" /\ IndexOk /\ Passed
    BY DEF SetInv, StageInv
  <2>2. /\ ReceiptsInv /\ LinkInv /\ 1 .. at - 1 = DOMAIN receipts
        /\ Len(es) \in Nat /\ DOMAIN es = 1 .. Len(es)
        /\ 1 .. Past - 1 = DOMAIN es /\ Past - 1 = Len(es)
    BY <2>1, AtTheEnd
  <2>3. /\ Len(receipts) = Len(es) /\ DOMAIN receipts = DOMAIN es
        /\ \A i \in DOMAIN es : Kept(i) /\ receipts[i] = ReceiptAt(i)
    BY <2>1, <2>2 DEF ReceiptsInv, Passed
  <2>4. Len(es) > 0 /\ Len(reports) = Len(es)
    BY <2>1, <2>2, <2>3 DEF ReceiptsInv, Passed
  <2>5. \A i \in DOMAIN es : Sound(i)
    BY <2>3, KeptMeans, FoundDomain
  <2>6. \A i \in DOMAIN es : ReceiptAt(i).verdict = "pass"
    BY <2>1, <2>2, <2>3 DEF ReceiptsInv, Passed
  <2>7. \A i, j \in DOMAIN es : ReceiptAt(i).rid = ReceiptAt(j).rid => i = j
    <3>1. \A i, j \in DOMAIN receipts : receipts[i].rid = receipts[j].rid => i = j
      BY <2>2 DEF ReceiptsInv
    <3> QED
      BY <2>3, <3>1
  <2>8. ASSUME NEW i \in DOMAIN es, ReceiptAt(i).kind = "outcome"
        PROVE  \E j \in DOMAIN es : /\ ReceiptAt(j).rid = ReceiptAt(i).ref
                                    /\ ReceiptAt(j).kind = "admission"
                                    /\ ReceiptAt(j).call = ReceiptAt(i).call
    <3>1. LinkCode(receipts[i]) = None
      BY <2>1, <2>2, <2>3, <2>8 DEF LinkInv, Passed
    <3>2. /\ receipts[i].ref \in DOMAIN by_id /\ by_id[receipts[i].ref].kind = "admission"
          /\ by_id[receipts[i].ref].call = receipts[i].call
      BY <3>1, NoneAssumption DEF LinkCode, LinkageErrors
    <3>3. PICK j \in DOMAIN receipts : receipts[j].rid = receipts[i].ref
      BY <2>2, <3>2 DEF LinkInv
    <3>4. by_id[receipts[i].ref] = receipts[j]
      BY <2>2, <3>3 DEF LinkInv
    <3> QED
      BY <2>3, <3>2, <3>3, <3>4
  <2> QED
    BY <2>4, <2>5, <2>6, <2>7, <2>8
<1> QED
  BY <1>1, SetInvariant, PTL

\* At the end a receipt's code against the dictionary is the one that
\* ReceiptLinkage defines on the sound receipts of the index.
LEMMA CodeAsDefined ==
  ASSUME SetInv, step = "returned", IndexOk,
         NEW i \in DOMAIN Found, Kept(i), ReceiptAt(i).kind = "outcome"
  PROVE  LinkageCodes(Found, i) = {LinkCode(ReceiptAt(i))} \ {None}
<1> DEFINE r == ReceiptAt(i)
           refs == ReferencedAdmissions(Found, i)
<1>1. /\ ReceiptsInv /\ LinkInv /\ 1 .. Past - 1 = DOMAIN workflow.entries
      /\ DOMAIN Found \subseteq DOMAIN workflow.entries /\ Found[i] = r
  BY AtTheEnd, FoundDomain
<1>2. ASSUME NEW j \in KeptIndexes(Found)
      PROVE  /\ Found[j] = ReceiptAt(j) /\ ReceiptAt(j).rid \in DOMAIN by_id
             /\ by_id[ReceiptAt(j).rid] = ReceiptAt(j)
  <2>1. j \in DOMAIN Found /\ Kept(j) /\ j \in 1 .. Past - 1
    BY <1>1, <1>2 DEF Kept, KeptIndexes
  <2>2. PICK n \in DOMAIN receipts : receipts[n] = ReceiptAt(j)
    BY <1>1, <2>1 DEF ReceiptsInv
  <2> QED
    BY <1>1, <2>1, <2>2, FoundDomain DEF LinkInv
<1>3. r.ref \in DOMAIN by_id => \E j \in KeptIndexes(Found) : Found[j].rid = r.ref
  <2>1. SUFFICES ASSUME r.ref \in DOMAIN by_id
                 PROVE  \E j \in KeptIndexes(Found) : Found[j].rid = r.ref
    OBVIOUS
  <2>2. PICK n \in DOMAIN receipts : receipts[n].rid = r.ref
    BY <1>1, <2>1 DEF LinkInv
  <2>3. PICK j \in 1 .. Past - 1 : Kept(j) /\ receipts[n] = ReceiptAt(j)
    BY <1>1 DEF ReceiptsInv
  <2> QED
    BY <1>2, <2>2, <2>3 DEF Kept
<1>4. refs = {j \in KeptIndexes(Found) : ReceiptAt(j).rid = r.ref /\ ReceiptAt(j).kind = "admission"}
  BY <1>1, <1>2 DEF ReferencedAdmissions
<1>5. LinkageCodes(Found, i) =
        IF refs = {} THEN {"admission_receipt_unresolved"}
        ELSE IF \E j \in refs : Found[j].call # r.call THEN {"admission_outcome_linkage_mismatch"} ELSE {}
  BY <1>1 DEF LinkageCodes, Kept
<1>6. CASE r.ref \notin DOMAIN by_id
  <2>1. refs = {}
    BY <1>2, <1>4, <1>6
  <2>2. LinkCode(r) = "admission_receipt_unresolved"
    BY <1>6 DEF LinkCode
  <2> QED
    BY <1>5, <2>1, <2>2, NoneAssumption DEF LinkageErrors
<1>7. CASE r.ref \in DOMAIN by_id
  <2>1. PICK j \in KeptIndexes(Found) : Found[j].rid = r.ref
    BY <1>3, <1>7
  <2>2. Found[j] = ReceiptAt(j) /\ by_id[r.ref] = ReceiptAt(j)
    BY <1>2, <2>1
  <2>3. \A l \in KeptIndexes(Found) : ReceiptAt(l).rid = r.ref => ReceiptAt(l) = ReceiptAt(j)
    BY <1>2, <2>1, <2>2
  <2>4. CASE ReceiptAt(j).kind # "admission"
    <3>1. refs = {}
      BY <1>4, <2>3, <2>4
    <3>2. LinkCode(r) = "admission_receipt_unresolved"
      BY <1>7, <2>2, <2>4 DEF LinkCode
    <3> QED
      BY <1>5, <3>1, <3>2, NoneAssumption DEF LinkageErrors
  <2>5. CASE ReceiptAt(j).kind = "admission"
    <3>1. j \in refs /\ \A l \in refs : Found[l].call = ReceiptAt(j).call
      BY <1>2, <1>4, <2>1, <2>2, <2>3, <2>5
    <3>2. LinkCode(r) = IF ReceiptAt(j).call # r.call THEN "admission_outcome_linkage_mismatch" ELSE None
      BY <1>7, <2>2, <2>5 DEF LinkCode
    <3>3. (\E l \in refs : Found[l].call # r.call) <=> ReceiptAt(j).call # r.call
      BY <3>1
    <3>4. None # "admission_outcome_linkage_mismatch" /\ refs # {}
      BY <3>1, NoneAssumption DEF LinkageErrors
    <3>5. CASE ReceiptAt(j).call = r.call
      <4>1. LinkCode(r) = None /\ LinkageCodes(Found, i) = {}
        BY <1>5, <3>2, <3>3, <3>4, <3>5
      <4> QED
        BY <4>1
    <3>6. CASE ReceiptAt(j).call # r.call
      <4>1. /\ LinkCode(r) = "admission_outcome_linkage_mismatch"
            /\ LinkageCodes(Found, i) = {"admission_outcome_linkage_mismatch"}
        BY <1>5, <3>2, <3>3, <3>4, <3>6
      <4> QED
        BY <3>4, <4>1
    <3> QED
      BY <3>5, <3>6
  <2> QED
    BY <2>4, <2>5
<1> QED
  BY <1>6, <1>7

\* For indexes of any length and order: the linkage findings of the loops
\* and the dictionary are those of the definition.
THEOREM LinkageIsAsDefined == SetSpec => []LinkageAsDefined
<1>1. SetInv => LinkageAsDefined
  <2> SUFFICES ASSUME SetInv, step = "returned", IndexOk
               PROVE  {f \in findings : f[1] \in LinkageErrors} = LinkageFindings
    BY DEF LinkageAsDefined, IndexOk
  <2>1. /\ ReceiptsInv /\ LinkInv /\ 1 .. at - 1 = DOMAIN receipts
        /\ 1 .. Past - 1 = DOMAIN workflow.entries
    BY AtTheEnd
  <2>2. {f \in findings : f[1] \in LinkageErrors} =
          {<<LinkCode(receipts[n]), receipts[n].rid>> :
             n \in {m \in DOMAIN receipts : receipts[m].kind = "outcome" /\ LinkCode(receipts[m]) # None}}
    BY <2>1 DEF LinkInv
  <2>3. ASSUME NEW n \in DOMAIN receipts, receipts[n].kind = "outcome", LinkCode(receipts[n]) # None
        PROVE  <<LinkCode(receipts[n]), receipts[n].rid>> \in LinkageFindings
    <3>1. PICK i \in 1 .. Past - 1 : Kept(i) /\ receipts[n] = ReceiptAt(i)
      BY <2>1 DEF ReceiptsInv
    <3>2. i \in DOMAIN Found /\ Found[i] = ReceiptAt(i)
      BY <3>1, KeptMeans, FoundDomain
    <3>3. LinkCode(ReceiptAt(i)) \in LinkageCodes(Found, i)
      BY <2>3, <3>1, <3>2, CodeAsDefined
    <3> QED
      BY <3>1, <3>2, <3>3 DEF LinkageFindings
  <2>4. ASSUME NEW i \in DOMAIN Found, NEW c \in LinkageCodes(Found, i)
        PROVE  \E n \in DOMAIN receipts :
                 /\ receipts[n].kind = "outcome" /\ LinkCode(receipts[n]) # None
                 /\ <<c, Found[i].rid>> = <<LinkCode(receipts[n]), receipts[n].rid>>
    <3>1. Kept(i) /\ Found[i] = ReceiptAt(i) /\ ReceiptAt(i).kind = "outcome" /\ i \in 1 .. Past - 1
      BY <2>1, <2>4, FoundDomain DEF LinkageCodes, Kept
    <3>2. c = LinkCode(ReceiptAt(i)) /\ c # None
      BY <2>4, <3>1, CodeAsDefined
    <3>3. PICK n \in DOMAIN receipts : receipts[n] = ReceiptAt(i)
      BY <2>1, <3>1 DEF ReceiptsInv
    <3> QED
      BY <3>1, <3>2, <3>3
  <2>5. LinkageFindings \subseteq {f \in findings : f[1] \in LinkageErrors}
    <3>1. SUFFICES ASSUME NEW i \in DOMAIN Found, NEW c \in LinkageCodes(Found, i)
                   PROVE  <<c, Found[i].rid>> \in {f \in findings : f[1] \in LinkageErrors}
      BY DEF LinkageFindings
    <3> QED
      BY <2>2, <2>4, <3>1
  <2>6. {f \in findings : f[1] \in LinkageErrors} \subseteq LinkageFindings
    BY <2>2, <2>3
  <2> QED
    BY <2>5, <2>6
<1> QED
  BY <1>1, SetInvariant, PTL

=============================================================================
