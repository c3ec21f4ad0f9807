--------------------------- MODULE SequenceProofs ---------------------------
(***************************************************************************)
(* Proofs about the verifiers of sequences of artifacts.                   *)
(*                                                                         *)
(* IngestRunSequence: whatever disks a run leaves behind, however they are *)
(* edited before and whichever files go while they are read, a pass ties   *)
(* run document, manifest and receipts into one run.                       *)
(*                                                                         *)
(* GovernedMemorySequence and SourceWorkSequence: over the artifacts of    *)
(* any reads and capture sessions, with at most one member altered, exit 0 *)
(* means that all artifacts are of one read or one session; and an axis of *)
(* the source-work report that says PASS was recomputed from bytes.  Exit  *)
(* 0 of the grounding program grounds all extractive fields.               *)
(***************************************************************************)
EXTENDS IngestRunSequence, GovernedMemorySequence, SourceWorkSequence, FiniteSetTheorems, TLAPS

----------------------------------------------------------------------------
(* IngestRunSequence.                                                      *)

\* What a removal leaves: everything but the file being there.
Kept(d, e) ==
  /\ e.run_doc.run_id = d.run_doc.run_id /\ e.run_doc.occurrences = d.run_doc.occurrences
  /\ e.manifest.run_id = d.manifest.run_id /\ e.manifest.skip = d.manifest.skip
  /\ Entries(e.manifest) = Entries(d.manifest)
  /\ DOMAIN e.receipts = DOMAIN d.receipts
  /\ \A id \in DOMAIN d.receipts : \A n \in ReceiptMembers : e.receipts[id][n] = d.receipts[id][n]

\* Entry k and its receipt file are about the same, in the run document's run.
Linked(d, k) ==
  LET e == Entries(d.manifest)[k]
      r == d.receipts[e.receipt_id]
  IN /\ e.receipt_id # 0 /\ r.receipt_id = e.receipt_id
     /\ r.relative_path = e.rel_path /\ r.subject_ref = e.subject_ref
     /\ r.publication_artifact_id = e.subject_ref /\ r.corpus_manifest_ref = d.run_doc.run_id

Before == {"edit", "main", "run_doc", "manifest", "profile"}

StageInv ==
  /\ IsDisk(disk)
  /\ pc \in Before => i = 1 /\ broken = {}
  /\ pc = "edit" => \A n \in Conclusions : concl[n] = "not_evaluated"
  /\ pc = "parse" => i <= Len(Entries(disk.manifest)) /\ entry.receipt_id # 0

RunIdInv == concl["run_id_linkage"] = "true" => disk.run_doc.run_id = disk.manifest.run_id

\* An entry the loop is past was linked, or a flag has been cleared.
LoopInv == broken = {} => \A k \in 1 .. i - 1 : Linked(disk, k)

\* After the loop a flag that was cleared is a conclusion that is false.
CoverageInv ==
  pc = "coverage" \/ exit = 0 =>
    /\ i > Len(Entries(disk.manifest))
    /\ Entries(disk.manifest) # <<>> /\ broken # {} => \E n \in PerReceipt : concl[n] = "false"

AnsweredInv ==
  exit = 0 => \/ disk.run_doc.occurrences = <<>>
              \/ \A n \in Coverage : CoverageHolds(disk.run_doc, disk.manifest)[n]

IInv == TypeOK /\ StageInv /\ RunIdInv /\ LoopInv /\ CoverageInv /\ AnsweredInv

----------------------------------------------------------------------------
(* What the environment does to the files.                                 *)

\* The file of a document goes, its members stay.
LEMMA DocumentRemoved ==
  ASSUME NEW d, IsDisk(d), NEW f \in {"run_doc", "manifest", "profile"}
  PROVE  LET e == [d EXCEPT ![f].form = "absent"] IN IsDisk(e) /\ Kept(d, e)
<1> DEFINE e == [d EXCEPT ![f].form = "absent"]
<1>1. /\ DOMAIN e = DOMAIN d /\ e.receipts = d.receipts
      /\ DOMAIN e.run_doc = DOMAIN d.run_doc /\ DOMAIN e.manifest = DOMAIN d.manifest
  BY DEF IsDisk
<1>2. e.run_doc.run_id = d.run_doc.run_id /\ e.run_doc.occurrences = d.run_doc.occurrences
  BY DEF IsDisk
<1>3. /\ e.manifest.run_id = d.manifest.run_id /\ e.manifest.skip = d.manifest.skip
      /\ e.manifest.emitted_is_list = d.manifest.emitted_is_list /\ e.manifest.emitted = d.manifest.emitted
  BY DEF IsDisk
<1> HIDE DEF e
<1>4. Entries(e.manifest) = Entries(d.manifest)
  BY <1>3 DEF Entries
<1>5. IsDisk(e)
  BY <1>1, <1>4 DEF IsDisk
<1>6. Kept(d, e)
  BY <1>1, <1>2, <1>3, <1>4 DEF Kept
<1> QED BY <1>5, <1>6 DEF e

\* The same of the file of a receipt.
LEMMA ReceiptRemoved ==
  ASSUME NEW d, IsDisk(d), NEW id \in DOMAIN d.receipts
  PROVE  LET e == [d EXCEPT !.receipts[id].form = "absent"] IN IsDisk(e) /\ Kept(d, e)
<1> DEFINE e == [d EXCEPT !.receipts[id].form = "absent"]
<1>1. /\ DOMAIN e = DOMAIN d /\ e.run_doc = d.run_doc /\ e.manifest = d.manifest
      /\ e.receipts = [d.receipts EXCEPT ![id].form = "absent"]
  BY DEF IsDisk
<1>2. DOMAIN e.receipts = DOMAIN d.receipts
  BY <1>1
<1>3. \A x \in DOMAIN d.receipts : DOMAIN e.receipts[x] = DOMAIN d.receipts[x]
  BY <1>1
<1>4. \A x \in DOMAIN d.receipts : \A n \in ReceiptMembers : e.receipts[x][n] = d.receipts[x][n]
  BY <1>1 DEF IsDisk, ReceiptMembers
<1> HIDE DEF e
<1>5. IsDisk(e)
  BY <1>1, <1>2, <1>3 DEF IsDisk
<1>6. Kept(d, e)
  BY <1>1, <1>2, <1>4 DEF Kept
<1> QED BY <1>5, <1>6 DEF e

\* So whichever file goes, all that was or will be compared is kept.
LEMMA RemoveKeeps ==
  ASSUME IsDisk(disk), RemoveFile
  PROVE  IsDisk(disk') /\ Kept(disk, disk')
<1>1. CASE \E f \in {"run_doc", "manifest", "profile"} : disk' = [disk EXCEPT ![f].form = "absent"]
  BY <1>1, DocumentRemoved
<1>2. CASE \E id \in DOMAIN disk.receipts : disk' = [disk EXCEPT !.receipts[id].form = "absent"]
  BY <1>2, ReceiptRemoved
<1> QED BY <1>1, <1>2 DEF RemoveFile

\* A linked entry stays linked.
LEMMA LinkedKept ==
  ASSUME NEW d, NEW e, IsDisk(d), Kept(d, e), NEW k \in DOMAIN Entries(d.manifest), Linked(d, k)
  PROVE  Linked(e, k)
<1>1. Entries(d.manifest)[k].receipt_id \in DOMAIN d.receipts
  BY DEF IsDisk, Linked
<1> QED BY <1>1 DEF Kept, Linked, ReceiptMembers

----------------------------------------------------------------------------
(* The conclusions.                                                        *)

\* A conclusion drawn is true exactly when its check holds; others stay.
LEMMA ConcludeMeans ==
  ASSUME NEW holds, TypeOK
  PROVE  /\ Conclude(holds) \in [Conclusions -> {"true", "false", "not_evaluated"}]
         /\ \A n \in Conclusions :
              IF n \in DOMAIN holds THEN /\ Conclude(holds)[n] \in {"true", "false"}
                                         /\ Conclude(holds)[n] = "true" <=> holds[n]
              ELSE Conclude(holds)[n] = concl[n]
BY DEF Conclude, TypeOK

\* The steps of the verifier leave the files alone.
LEMMA VerifyKeepsDisk == ASSUME Verify PROVE UNCHANGED <<disk, faults>>
BY DEF Verify, CheckPaths, ReadRunDoc, ReadManifest, ReadProfile, ResolveReceipt, ReadReceipt,
       ConcludeReceipts, CheckCoverage, StopEarly, Raise, SkipEntry

\* What one pass through the loop's body does to the flags.
LEMMA ReceiptRead ==
  ASSUME ReadReceipt, pc' = "receipt"
  PROVE  /\ i' = i + 1 /\ broken' \subseteq broken \cup PerReceipt /\ broken \subseteq broken'
         /\ UNCHANGED <<disk, faults, concl, exit>>
         /\ broken' = {} =>
              \A n \in Binding : BindingHolds(entry, disk.receipts[entry.receipt_id], disk.run_doc.run_id)[n]
<1> DEFINE r == disk.receipts[entry.receipt_id]
           holds == BindingHolds(entry, r, disk.run_doc.run_id)
<1>1. CASE SkipEntry("receipt_parse", "RECEIPT_PARSE_ERROR")
  BY <1>1 DEF SkipEntry, PerReceipt
<1>2. CASE /\ broken' = broken \cup {n \in Binding : ~holds[n]}
           /\ i' = i + 1 /\ UNCHANGED <<disk, faults, concl, exit>>
  BY <1>2 DEF PerReceipt
<1>3. ~Raise
  BY DEF Raise
<1> QED BY <1>1, <1>2, <1>3 DEF ReadReceipt

\* The eight checks of a receipt are the link.
LEMMA BindingLinks ==
  ASSUME IsDisk(disk), i \in 1 .. Len(Entries(disk.manifest)), entry.receipt_id # 0,
         \A n \in Binding : BindingHolds(entry, disk.receipts[entry.receipt_id], disk.run_doc.run_id)[n]
  PROVE  Linked(disk, i)
<1> DEFINE r == disk.receipts[entry.receipt_id]
<1>1. /\ r.receipt_id = entry.receipt_id /\ r.subject_ref = entry.subject_ref
      /\ r.subject_ref = r.publication_artifact_id /\ r.relative_path = entry.rel_path
      /\ r.corpus_manifest_ref = disk.run_doc.run_id
  BY DEF Binding, BindingHolds
<1> QED BY <1>1 DEF Linked, entry

----------------------------------------------------------------------------
(* The steps.                                                              *)

\* Every step keeps the types; the loop stays within the entries.
LEMMA TypeStep == TypeOK /\ StageInv /\ [Next]_vars => TypeOK'
<1> SUFFICES ASSUME TypeOK, StageInv, [Next]_vars PROVE TypeOK'
  OBVIOUS
<1> USE FaultsAssumption
<1>1. IsDisk(disk)
  BY DEF StageInv
<1>2. CASE Edit
  <2>1. i = 1 /\ IsDisk(disk')
    BY <1>2 DEF Edit, StageInv, Before
  <2>2. i \in 1 .. Len(Entries(disk'.manifest)) + 1
    BY <2>1 DEF IsDisk
  <2> QED BY <1>2, <2>2 DEF Edit, report, TypeOK, Ended, Passed
<1>3. CASE Submit BY <1>3 DEF Submit, report, TypeOK, Ended
<1>4. CASE RemoveFile
  <2>1. Entries(disk'.manifest) = Entries(disk.manifest)
    BY <1>1, <1>4, RemoveKeeps DEF Kept
  <2> QED BY <1>4, <2>1 DEF RemoveFile, report, TypeOK, Ended
<1>5. CASE CheckPaths BY <1>5 DEF CheckPaths, End, TypeOK, Ended
<1>6. CASE ReadRunDoc
  <2>1. CASE StopEarly("INGEST_RUN_SCHEMA_MISMATCH")
    BY <2>1 DEF StopEarly, End, TypeOK, Ended
  <2>2. CASE Raise BY <2>2 DEF Raise, TypeOK, Ended
  <2>3. CASE /\ concl' = Conclude(RunDocHolds(disk.run_doc)) /\ pc' = "manifest"
             /\ UNCHANGED <<disk, faults, i, broken, exit>>
    BY <1>6, <2>3, ConcludeMeans DEF ReadRunDoc, TypeOK, Ended
  <2> QED BY <1>6, <2>1, <2>2, <2>3 DEF ReadRunDoc
<1>7. CASE ReadManifest
  <2>1. CASE StopEarly("RECEIPT_SET_MANIFEST_SCHEMA_MISMATCH")
    BY <2>1 DEF StopEarly, End, TypeOK, Ended
  <2>2. CASE Raise BY <2>2 DEF Raise, TypeOK, Ended
  <2>3. CASE /\ concl' = Conclude(ManifestHolds(disk.run_doc, disk.manifest)) /\ pc' = "profile"
             /\ UNCHANGED <<disk, faults, i, broken, exit>>
    BY <1>7, <2>3, ConcludeMeans DEF ReadManifest, TypeOK, Ended
  <2> QED BY <1>7, <2>1, <2>2, <2>3 DEF ReadManifest
<1>8. CASE ReadProfile
  BY <1>8, ConcludeMeans DEF ReadProfile, TypeOK, Ended
<1>9. CASE ResolveReceipt
  <2>1. CASE SkipEntry("receipt_file_present", "RECEIPT_FILE_MISSING")
    <3>1. i' \in 1 .. Len(Entries(disk.manifest)) + 1
      BY <1>1, <1>9, <2>1 DEF ResolveReceipt, SkipEntry, IsDisk, TypeOK
    <3>2. broken' \subseteq PerReceipt
      BY <2>1 DEF SkipEntry, PerReceipt, TypeOK
    <3> QED BY <1>9, <2>1, <3>1, <3>2 DEF ResolveReceipt, SkipEntry, TypeOK, Ended
  <2>2. CASE pc' = "parse" /\ UNCHANGED <<disk, faults, report>>
    BY <1>9, <2>2 DEF ResolveReceipt, report, TypeOK, Ended
  <2> QED BY <1>9, <2>1, <2>2 DEF ResolveReceipt
<1>10. CASE ReadReceipt
  <2>1. CASE Raise BY <2>1 DEF Raise, TypeOK, Ended
  <2>2. CASE pc' = "receipt"
    BY <1>1, <1>10, <2>2, ReceiptRead DEF ReadReceipt, StageInv, IsDisk, TypeOK, Ended
  <2> QED BY <1>10, <2>1, <2>2 DEF ReadReceipt, SkipEntry
<1>11. CASE ConcludeReceipts
  BY <1>11, ConcludeMeans DEF ConcludeReceipts, TypeOK, Ended
<1>12. CASE CheckCoverage
  <2>1. CASE Raise BY <2>1 DEF Raise, TypeOK, Ended
  <2>2. CASE ~Raise
    <3>1. /\ concl' \in [Conclusions -> {"true", "false", "not_evaluated"}]
          /\ pc' = "done" /\ exit' = IF Passed(concl') THEN 0 ELSE 1
          /\ UNCHANGED <<disk, faults, i, broken>>
      BY <1>12, <2>2, ConcludeMeans DEF CheckCoverage, End, TypeOK
    <3> QED BY <3>1 DEF TypeOK, Ended
  <2> QED BY <2>1, <2>2
<1>13. CASE UNCHANGED vars BY <1>13 DEF vars, TypeOK, Ended
<1> QED BY <1>2, <1>3, <1>4, <1>5, <1>6, <1>7, <1>8, <1>9, <1>10, <1>11, <1>12, <1>13 DEF Next, Verify

\* Every step keeps what is said of the stages.
LEMMA StageStep == TypeOK /\ StageInv /\ [Next]_vars => StageInv'
<1> SUFFICES ASSUME TypeOK, StageInv, [Next]_vars PROVE StageInv'
  OBVIOUS
<1>1. CASE Edit \/ Submit
  BY <1>1 DEF Edit, Submit, report, StageInv, Before
<1>2. CASE RemoveFile
  <2>1. IsDisk(disk') /\ Kept(disk, disk')
    BY <1>2, RemoveKeeps DEF StageInv
  <2>2. UNCHANGED <<pc, i, broken, concl>> /\ pc # "edit"
    BY <1>2 DEF RemoveFile, report
  <2>3. entry' = entry /\ Len(Entries(disk'.manifest)) = Len(Entries(disk.manifest))
    BY <2>1, <2>2 DEF Kept, entry
  <2> QED BY <2>1, <2>2, <2>3 DEF StageInv
<1>3. CASE CheckPaths
  BY <1>3 DEF CheckPaths, End, StageInv, Before
<1>4. CASE ReadRunDoc
  <2>1. UNCHANGED <<disk, i, broken>> /\ pc' \in {"done", "raised", "manifest"}
    BY <1>4 DEF ReadRunDoc, StopEarly, Raise, End
  <2> QED BY <1>4, <2>1 DEF ReadRunDoc, StageInv, Before
<1>5. CASE ReadManifest
  <2>1. UNCHANGED <<disk, i, broken>> /\ pc' \in {"done", "raised", "profile"}
    BY <1>5 DEF ReadManifest, StopEarly, Raise, End
  <2> QED BY <1>5, <2>1 DEF ReadManifest, StageInv, Before
<1>6. CASE ReadProfile
  BY <1>6 DEF ReadProfile, StageInv, Before
<1>7. CASE ResolveReceipt
  <2>1. CASE pc' = "parse"
    BY <1>7, <2>1 DEF ResolveReceipt, SkipEntry, report, StageInv, Before, entry
  <2>2. CASE pc' = "receipt"
    BY <1>7, <2>2, VerifyKeepsDisk DEF Verify, StageInv, Before
  <2> QED BY <1>7, <2>1, <2>2 DEF ResolveReceipt, SkipEntry
<1>8. CASE ReadReceipt \/ ConcludeReceipts \/ CheckCoverage
  <2>1. UNCHANGED disk
    BY <1>8, VerifyKeepsDisk DEF Verify
  <2>2. pc' \in {"receipt", "raised", "coverage", "done"}
    BY <1>8 DEF ReadReceipt, ConcludeReceipts, CheckCoverage, SkipEntry, Raise, End
  <2> QED BY <2>1, <2>2 DEF StageInv, Before
<1>9. CASE UNCHANGED vars BY <1>9 DEF vars, StageInv, entry
<1> QED BY <1>1, <1>2, <1>3, <1>4, <1>5, <1>6, <1>7, <1>8, <1>9 DEF Next, Verify

\* Only ReadManifest makes the run ids agree, and no file changes after.
LEMMA RunIdStep == TypeOK /\ StageInv /\ RunIdInv /\ [Next]_vars => RunIdInv'
<1> SUFFICES ASSUME TypeOK, StageInv, RunIdInv, [Next]_vars PROVE RunIdInv'
  OBVIOUS
<1> DEFINE rl == "run_id_linkage"
<1>1. rl \in Conclusions /\ rl \notin PerReceipt \cup Coverage
  BY DEF Conclusions, Core, PerReceipt, Binding, Coverage
<1>2. CASE Edit
  BY <1>1, <1>2 DEF Edit, report, StageInv, RunIdInv
<1>3. CASE RemoveFile
  BY <1>3, RemoveKeeps DEF RemoveFile, report, StageInv, Kept, RunIdInv
<1>4. CASE Verify
  <2>1. UNCHANGED disk
    BY <1>4, VerifyKeepsDisk
  <2>2. CASE ReadManifest
    <3>1. CASE concl' = Conclude(ManifestHolds(disk.run_doc, disk.manifest))
      <4>1. concl'[rl] = "true" => disk.run_doc.run_id = disk.manifest.run_id
        BY <1>1, <3>1, ConcludeMeans DEF ManifestHolds
      <4> QED BY <2>1, <4>1 DEF RunIdInv
    <3>2. CASE concl'[rl] \in {concl[rl], "false"}
      BY <2>1, <3>2 DEF RunIdInv
    <3> QED BY <1>1, <2>2, <3>1, <3>2 DEF ReadManifest, StopEarly, Raise
  <2>3. CASE ~ReadManifest
    <3>1. concl'[rl] \in {concl[rl], "false"}
      <4>1. CASE CheckPaths \/ ResolveReceipt \/ ReadReceipt
        BY <4>1 DEF CheckPaths, ResolveReceipt, ReadReceipt, SkipEntry, report, Raise
      <4>2. CASE ReadRunDoc
        <5>1. Conclude(RunDocHolds(disk.run_doc))[rl] = concl[rl]
          BY <1>1, ConcludeMeans DEF RunDocHolds
        <5> QED BY <1>1, <4>2, <5>1 DEF ReadRunDoc, StopEarly, Raise
      <4>3. CASE ReadProfile
        <5>1. Conclude(ProfileHolds(disk.manifest, disk.profile))[rl] = concl[rl]
          BY <1>1, ConcludeMeans DEF ProfileHolds
        <5> QED BY <4>3, <5>1 DEF ReadProfile
      <4>4. CASE ConcludeReceipts
        <5>1. Conclude([n \in PerReceipt |-> n \notin broken])[rl] = concl[rl]
          BY <1>1, ConcludeMeans
        <5> QED BY <4>4, <5>1 DEF ConcludeReceipts
      <4>5. CASE CheckCoverage
        <5>1. Conclude(CoverageHolds(disk.run_doc, disk.manifest))[rl] = concl[rl]
          BY <1>1, ConcludeMeans DEF CoverageHolds
        <5> QED BY <4>5, <5>1 DEF CheckCoverage, Raise
      <4> QED BY <1>4, <2>3, <4>1, <4>2, <4>3, <4>4, <4>5 DEF Verify
    <3> QED BY <2>1, <3>1 DEF RunIdInv
  <2> QED BY <2>2, <2>3
<1>5. CASE Submit \/ UNCHANGED vars
  BY <1>5 DEF Submit, report, vars, RunIdInv
<1> QED BY <1>2, <1>3, <1>4, <1>5 DEF Next

\* An entry goes by linked, or a flag is cleared and stays cleared.
LEMMA LoopStep == TypeOK /\ StageInv /\ LoopInv /\ [Next]_vars => LoopInv'
<1> SUFFICES ASSUME TypeOK, StageInv, LoopInv, [Next]_vars, broken' = {}
             PROVE  \A k \in 1 .. i' - 1 : Linked(disk', k)
  BY DEF LoopInv
<1>0. /\ IsDisk(disk) /\ i \in 1 .. Len(Entries(disk.manifest)) + 1
      /\ DOMAIN Entries(disk.manifest) = 1 .. Len(Entries(disk.manifest))
      /\ Len(Entries(disk.manifest)) \in Nat
  BY DEF TypeOK, StageInv, IsDisk
<1>1. CASE Edit \/ Submit \/ CheckPaths \/ ReadRunDoc \/ ReadManifest \/ ReadProfile
  <2>1. i' = 1
    BY <1>1 DEF Edit, Submit, CheckPaths, ReadRunDoc, ReadManifest, ReadProfile, StopEarly, Raise, report,
                StageInv, Before
  <2> QED BY <2>1
<1>2. CASE RemoveFile
  <2>1. Kept(disk, disk') /\ UNCHANGED <<i, broken>>
    BY <1>0, <1>2, RemoveKeeps DEF RemoveFile, report
  <2>2. \A k \in 1 .. i - 1 : Linked(disk, k) /\ k \in DOMAIN Entries(disk.manifest)
    BY <1>0, <2>1 DEF LoopInv
  <2>3. \A k \in 1 .. i - 1 : Linked(disk', k)
    BY <1>0, <2>1, <2>2, LinkedKept
  <2> QED BY <2>1, <2>3
<1>3. CASE ResolveReceipt
  <2>1. UNCHANGED <<disk, i, broken>>
    BY <1>3 DEF ResolveReceipt, SkipEntry, report
  <2> QED BY <2>1 DEF LoopInv, Linked
<1>4. CASE ReadReceipt
  <2>1. CASE Raise
    BY <2>1 DEF Raise, LoopInv, Linked
  <2>2. CASE pc' = "receipt"
    <3>1. i' = i + 1 /\ broken = {} /\ UNCHANGED disk
      BY <1>4, <2>2, ReceiptRead
    <3>2. i \in 1 .. Len(Entries(disk.manifest)) /\ entry.receipt_id # 0
      BY <1>0, <1>4 DEF ReadReceipt, StageInv
    <3>3. Linked(disk, i)
      BY <1>0, <1>4, <2>2, <3>2, ReceiptRead, BindingLinks
    <3>4. \A k \in 1 .. i - 1 : Linked(disk, k)
      BY <3>1 DEF LoopInv
    <3>5. \A k \in 1 .. i' - 1 : Linked(disk, k)
      BY <1>0, <3>1, <3>3, <3>4
    <3> QED BY <3>1, <3>5 DEF Linked
  <2> QED BY <1>4, <2>1, <2>2 DEF ReadReceipt, SkipEntry
<1>5. CASE ConcludeReceipts \/ CheckCoverage \/ UNCHANGED vars
  <2>1. UNCHANGED <<disk, i, broken>>
    BY <1>5 DEF ConcludeReceipts, CheckCoverage, Raise, vars
  <2> QED BY <2>1 DEF LoopInv, Linked
<1> QED BY <1>1, <1>2, <1>3, <1>4, <1>5 DEF Next, Verify

\* The conclusions of the receipts are drawn when the loop is through, and
\* those of the coverage leave them as they are.
LEMMA CoverageStep == TypeOK /\ StageInv /\ CoverageInv /\ [Next]_vars => CoverageInv'
<1> SUFFICES ASSUME TypeOK, StageInv, CoverageInv, [Next]_vars, pc' = "coverage" \/ exit' = 0
             PROVE  /\ i' > Len(Entries(disk'.manifest))
                    /\ Entries(disk'.manifest) # <<>> /\ broken' # {} =>
                         \E n \in PerReceipt : concl'[n] = "false"
  BY DEF CoverageInv
<1>1. CASE RemoveFile
  <2>1. Entries(disk'.manifest) = Entries(disk.manifest) /\ UNCHANGED report /\ pc' = pc
    BY <1>1, RemoveKeeps DEF RemoveFile, StageInv, Kept
  <2> QED BY <2>1 DEF report, CoverageInv
<1>2. CASE ConcludeReceipts
  <2>1. i > Len(Entries(disk.manifest)) /\ UNCHANGED <<disk, i, broken>>
    BY <1>2 DEF ConcludeReceipts
  <2>2. ASSUME Entries(disk.manifest) # <<>>, NEW n \in broken
        PROVE  n \in PerReceipt /\ concl'[n] = "false"
    <3>1. n \in PerReceipt /\ n \in Conclusions
      BY <2>2 DEF TypeOK, Conclusions
    <3> DEFINE holds == [m \in PerReceipt |-> m \notin broken]
    <3>2. concl' = Conclude(holds)
      BY <1>2, <2>2 DEF ConcludeReceipts
    <3>3. n \in DOMAIN holds /\ ~holds[n]
      BY <2>2, <3>1
    <3> HIDE DEF holds
    <3>4. concl'[n] \in {"true", "false"} /\ concl'[n] # "true"
      BY <3>1, <3>2, <3>3, ConcludeMeans
    <3> QED BY <3>1, <3>4
  <2> QED BY <2>1, <2>2
<1>3. CASE CheckCoverage
  <2>1. pc = "coverage" /\ UNCHANGED <<disk, i, broken>>
    BY <1>3 DEF CheckCoverage, Raise
  <2>2. \A n \in PerReceipt : concl'[n] = concl[n]
    <3>1. \A n \in PerReceipt :
            n \in Conclusions /\ n \notin DOMAIN CoverageHolds(disk.run_doc, disk.manifest)
      BY DEF PerReceipt, Binding, Conclusions, CoverageHolds
    <3>2. \A n \in PerReceipt : Conclude(CoverageHolds(disk.run_doc, disk.manifest))[n] = concl[n]
      BY <3>1, ConcludeMeans
    <3> QED BY <1>3, <3>2 DEF CheckCoverage, Raise
  <2> QED BY <2>1, <2>2 DEF CoverageInv
<1>4. CASE UNCHANGED vars
  BY <1>4 DEF vars, CoverageInv
<1>5. CASE Edit \/ Submit \/ CheckPaths \/ ResolveReceipt
  <2>1. pc \notin {"done", "raised"} /\ pc' # "coverage" /\ exit' \in {exit, 2}
    BY <1>5 DEF Edit, Submit, CheckPaths, ResolveReceipt, SkipEntry, End, report
  <2> QED BY <2>1 DEF TypeOK, Ended
<1>6. CASE ReadRunDoc \/ ReadManifest \/ ReadProfile \/ ReadReceipt
  <2>1. pc \notin {"done", "raised"} /\ pc' # "coverage" /\ exit' \in {exit, 1}
    BY <1>6 DEF ReadRunDoc, ReadManifest, ReadProfile, ReadReceipt, StopEarly, Raise, SkipEntry, End
  <2> QED BY <2>1 DEF TypeOK, Ended
<1> QED BY <1>1, <1>2, <1>3, <1>4, <1>5, <1>6 DEF Next, Verify

\* Exit 0 is CheckCoverage's, when none of its conclusions is false.
LEMMA AnsweredStep == TypeOK /\ AnsweredInv /\ [Next]_vars => AnsweredInv'
<1> SUFFICES ASSUME TypeOK, AnsweredInv, [Next]_vars, exit' = 0
             PROVE  \/ disk'.run_doc.occurrences = <<>>
                    \/ \A n \in Coverage : CoverageHolds(disk'.run_doc, disk'.manifest)[n]
  BY DEF AnsweredInv
<1>1. CASE UNCHANGED vars
  BY <1>1 DEF vars, AnsweredInv
<1>2. CASE CheckCoverage
  <2>1. UNCHANGED disk /\ Passed(concl')
    BY <1>2 DEF CheckCoverage, Raise, End
  <2>2. CASE disk.run_doc.occurrences # <<>>
    <3> DEFINE holds == CoverageHolds(disk.run_doc, disk.manifest)
    <3>1. concl' = Conclude(holds)
      BY <1>2, <2>2 DEF CheckCoverage, Raise
    <3>2. \A n \in Coverage : n \in Conclusions /\ n \in DOMAIN holds
      BY DEF Coverage, Conclusions, CoverageHolds
    <3>3. \A n \in Coverage : concl'[n] # "false"
      BY <2>1 DEF Passed
    <3> HIDE DEF holds
    <3>4. \A n \in Coverage : holds[n]
      BY <3>1, <3>2, <3>3, ConcludeMeans
    <3> QED BY <2>1, <3>4 DEF holds
  <2> QED BY <2>1, <2>2
<1>3. CASE Next /\ ~CheckCoverage
  <2>1. pc \notin {"done", "raised"} /\ exit' \in {exit, 1, 2}
    BY <1>3 DEF Next, Verify, Edit, Submit, RemoveFile, CheckPaths, ReadRunDoc, ReadManifest, ReadProfile,
                ResolveReceipt, ReadReceipt, ConcludeReceipts, StopEarly, Raise, SkipEntry, End, report
  <2> QED BY <2>1 DEF TypeOK, Ended
<1> QED BY <1>1, <1>2, <1>3

\* IInv is an invariant.
LEMMA InvariantIInv == Spec => []IInv
<1>1. Init => IInv
  <2> SUFFICES ASSUME Init PROVE IInv
    OBVIOUS
  <2>1. IsDisk(disk) /\ Len(Entries(disk.manifest)) \in Nat
    BY ProducedAssumption DEF Init, IsDisk
  <2>2. concl["run_id_linkage"] = "not_evaluated"
    BY DEF Init, Conclusions, Core
  <2>3. TypeOK
    BY <2>1, FaultsAssumption DEF Init, TypeOK, Ended
  <2> QED BY <2>1, <2>2, <2>3
          DEF Init, IInv, StageInv, Before, RunIdInv, LoopInv, CoverageInv, AnsweredInv
<1>2. IInv /\ [Next]_vars => IInv'
  BY TypeStep, StageStep, RunIdStep, LoopStep, CoverageStep, AnsweredStep DEF IInv
<1> QED BY <1>1, <1>2, PTL DEF Spec

----------------------------------------------------------------------------
(* The theorems.                                                           *)

\* Every reachable state is well-typed, and exit 0 has conclusions that pass.
THEOREM TypeCorrect == Spec => []TypeOK
BY InvariantIInv, PTL DEF IInv

\* With exit 0 every entry of the manifest is linked to its receipt.
LEMMA PassLinks ==
  ASSUME IInv, exit = 0
  PROVE  \A k \in DOMAIN Entries(disk.manifest) : Linked(disk, k)
<1>1. \A n \in PerReceipt : concl[n] # "false"
  BY DEF IInv, TypeOK, Passed
<1>2. ASSUME NEW k \in DOMAIN Entries(disk.manifest) PROVE Linked(disk, k)
  <2>1. DOMAIN Entries(disk.manifest) = 1 .. Len(Entries(disk.manifest)) /\ Len(Entries(disk.manifest)) \in Nat
    BY DEF IInv, StageInv, IsDisk
  <2>2. Entries(disk.manifest) # <<>>
    BY <1>2, <2>1
  <2>3. broken = {} /\ i > Len(Entries(disk.manifest)) /\ i \in Nat
    BY <1>1, <2>1, <2>2 DEF IInv, CoverageInv, TypeOK
  <2>4. k \in 1 .. i - 1
    BY <1>2, <2>1, <2>3
  <2> QED BY <2>3, <2>4 DEF IInv, LoopInv
<1> QED BY <1>2

\* A pass is one run: run document, manifest, and every entry's own receipt.
THEOREM PassesAreLinked == Spec => []PassMeansLinked
<1>1. IInv => PassMeansLinked
  <2> SUFFICES ASSUME IInv, exit = 0 PROVE PassMeansLinked
    BY DEF PassMeansLinked
  <2>1. disk.run_doc.run_id = disk.manifest.run_id
    BY DEF IInv, RunIdInv, TypeOK, Passed, Core
  <2>2. \A k \in DOMAIN Entries(disk.manifest) : Linked(disk, k)
    BY PassLinks
  <2> QED BY <2>1, <2>2 DEF PassMeansLinked, Linked
<1> QED BY <1>1, InvariantIInv, PTL

\* The one category of an occurrence is either a skip list or emission.
LEMMA OneCategory ==
  ASSUME NEW m, NEW rel, SkipListsOk(m), Cardinality(Categories(m, rel)) = 1
  PROVE  LET skipped == {key \in SkipKeys : rel \in m.skip[key].paths}
         IN IF rel \in EmittedPaths(m) THEN skipped = {} ELSE Cardinality(skipped) = 1
<1> DEFINE skipped == {key \in SkipKeys : rel \in m.skip[key].paths}
<1>1. \A key \in SkipKeys : SkipSet(m, key) = m.skip[key].paths
  BY DEF SkipListsOk, SkipSet
<1>2. Categories(m, rel) = skipped \cup (IF rel \in EmittedPaths(m) THEN {"emitted"} ELSE {})
  BY <1>1 DEF Categories
<1>3. CASE rel \notin EmittedPaths(m)
  BY <1>2, <1>3
<1>4. CASE rel \in EmittedPaths(m)
  <2>1. "emitted" \notin skipped
    BY DEF SkipKeys
  <2>2. IsFiniteSet(skipped)
    <3>1. IsFiniteSet(SkipKeys)
      <4>1. IsFiniteSet({"skipped_duplicate"})
        BY FS_Singleton
      <4>2. IsFiniteSet({"skipped_duplicate"} \cup {"skipped_no_parser"})
        BY <4>1, FS_AddElement
      <4>3. IsFiniteSet(({"skipped_duplicate"} \cup {"skipped_no_parser"}) \cup {"profile_not_applicable"})
        BY <4>2, FS_AddElement
      <4>4. SkipKeys = ({"skipped_duplicate"} \cup {"skipped_no_parser"}) \cup {"profile_not_applicable"}
        BY DEF SkipKeys
      <4> QED BY <4>3, <4>4
    <3> QED BY <3>1, FS_Subset
  <2>3. Cardinality(skipped \cup {"emitted"}) = Cardinality(skipped) + 1
    BY <2>1, <2>2, FS_AddElement
  <2>4. Cardinality(skipped) \in Nat
    BY <2>2, FS_CardinalityType
  <2>5. Cardinality(skipped) = 0
    BY <1>2, <1>4, <2>3, <2>4
  <2> QED BY <1>4, <2>2, <2>5, FS_EmptySet
<1> QED BY <1>3, <1>4

\* A pass answers every occurrence once.
THEOREM OccurrencesAreAnswered == Spec => []OccurrencesAnswered
<1>1. IInv => OccurrencesAnswered
  <2> SUFFICES ASSUME IInv, exit = 0, NEW o \in Occurrences(disk.run_doc)
               PROVE  LET m == disk.manifest
                          about == {k \in DOMAIN Entries(m) :
                                      disk.receipts[Entries(m)[k].receipt_id].relative_path = o.rel_path}
                          skipped == {key \in SkipKeys : o.rel_path \in m.skip[key].paths}
                      IN \/ about = {} /\ Cardinality(skipped) = 1
                         \/ about # {} /\ skipped = {} /\ ~o.duplicate /\ o.parser
    BY DEF OccurrencesAnswered
  <2> DEFINE m == disk.manifest
             about == {k \in DOMAIN Entries(m) :
                         disk.receipts[Entries(m)[k].receipt_id].relative_path = o.rel_path}
             skipped == {key \in SkipKeys : o.rel_path \in m.skip[key].paths}
  <2>1. disk.run_doc.occurrences # <<>>
    BY DEF Occurrences
  <2>2. \A n \in Coverage : CoverageHolds(disk.run_doc, m)[n]
    BY <2>1 DEF IInv, AnsweredInv
  <2>3. SkipListsOk(m) /\ o.rel_path # 0 /\ Cardinality(Categories(m, o.rel_path)) = 1
    BY <2>2 DEF Coverage, CoverageHolds
  <2>4. "emitted" \in Categories(m, o.rel_path) => ~o.duplicate /\ o.parser
    BY <2>2, <2>3 DEF Coverage, CoverageHolds, Named
  <2>5. \A k \in DOMAIN Entries(m) :
          disk.receipts[Entries(m)[k].receipt_id].relative_path = Entries(m)[k].rel_path
    BY PassLinks DEF Linked
  <2>6. about # {} <=> o.rel_path \in EmittedPaths(m)
    BY <2>3, <2>5 DEF EmittedPaths
  <2>7. o.rel_path \in EmittedPaths(m) => "emitted" \in Categories(m, o.rel_path)
    BY DEF Categories
  <2> HIDE DEF about
  <2> QED BY <2>3, <2>4, <2>6, <2>7, OneCategory DEF about
<1> QED BY <1>1, InvariantIInv, PTL

----------------------------------------------------------------------------
(* GovernedMemorySequence.                                                 *)

Continuity ==
  {"request_decision_linkage", "decision_packet_linkage", "subject_continuity", "scope_continuity"}

Compared == Continuity \cup {"packet_digest_match"}

\* What the alterations so far have brought into agreement.
Mended == Disagreements(issued) \ Disagreements(bundle)

\* An alteration mends one disagreement at the most, and exit 0 means that
\* none is left.
MemoryInv ==
  /\ MemoryTypeOK
  /\ Cardinality(Mended) <= faults
  /\ exit = 0 => \A c \in Compared : MemoryCodes(bundle, c) = {}

\* A conclusion that does not fail the report has no findings.
LEMMA PassedHasNoCodes ==
  ASSUME NEW b, NEW c \in Compared, SequenceConclusion(b, c) # "false",
         c \in Continuity => SequenceConclusion(b, c) = "true"
  PROVE  MemoryCodes(b, c) = {}
<1>1. CASE c \in Continuity
  <2>1. c # "stale_authorization_declared" /\ ~Unevaluated(b, c)
    BY <1>1 DEF Continuity, Unevaluated
  <2> QED  BY <1>1, <2>1 DEF SequenceConclusion
<1>2. CASE c = "packet_digest_match"
  <2>1. CASE Unevaluated(b, c)
    <3>1. ~b.decision.has_packet_hash
      BY <1>2, <2>1 DEF Unevaluated
    <3>2. MemoryCodes(b, c) = DigestCodes(b)
      BY <1>2 DEF MemoryCodes
    <3> QED  BY <3>1, <3>2 DEF DigestCodes
  <2>2. CASE ~Unevaluated(b, c)
    BY <1>2, <2>2 DEF SequenceConclusion
  <2> QED  BY <2>1, <2>2
<1> QED  BY <1>1, <1>2 DEF Compared

\* One step keeps the types, and exit -1 is that of a program that runs.
LEMMA MemoryTypeStep == MemoryTypeOK /\ [MemoryNext]_memory_vars => MemoryTypeOK'
<1> SUFFICES ASSUME MemoryTypeOK, [MemoryNext]_memory_vars PROVE MemoryTypeOK'
  OBVIOUS
<1> USE FaultsAssumption
<1>0. /\ pc \in {"edit", "main", "presence", "sequence", "done", "raised"}
      /\ concl \in [MemoryConclusions -> {"true", "false", "not_evaluated"}]
      /\ faults \in 0 .. MaxFaults
      /\ exit \in -1 .. 2 /\ (exit = -1 <=> pc \notin {"done", "raised"})
  BY DEF MemoryTypeOK
<1>1. CASE AlterBundle
  BY <1>0, <1>1 DEF AlterBundle, MemoryTypeOK
<1>2. CASE SubmitBundle
  BY <1>0, <1>2 DEF SubmitBundle, MemoryTypeOK
<1>3. CASE LoadBundle
  <2>1. /\ pc = "main" /\ concl' = concl /\ faults' = faults
        /\ \/ pc' = "presence" /\ exit' = exit
           \/ pc' = "done" /\ exit' = 2
           \/ pc' = "raised" /\ exit' = 1
    BY <1>3 DEF LoadBundle
  <2> QED  BY <1>0, <2>1 DEF MemoryTypeOK
<1>4. CASE CheckPresence
  <2>1. \A c \in MemoryConclusions :
          (IF c \in Presence THEN (IF MemoryCodes(bundle, c) = {} THEN "true" ELSE "false")
           ELSE IF CorePresent(bundle) THEN concl[c] ELSE "false") \in {"true", "false", "not_evaluated"}
    BY <1>0
  <2>2. concl' \in [MemoryConclusions -> {"true", "false", "not_evaluated"}]
    BY <2>1, <1>4 DEF CheckPresence
  <2>3. /\ pc = "presence" /\ faults' = faults
        /\ \/ pc' = "sequence" /\ exit' = exit
           \/ pc' = "done" /\ exit' = 1
    BY <1>4 DEF CheckPresence
  <2> QED  BY <1>0, <2>2, <2>3 DEF MemoryTypeOK
<1>5. CASE CheckSequence
  <2>1. \A c \in MemoryConclusions :
          (IF c \in Presence THEN concl[c] ELSE SequenceConclusion(bundle, c))
             \in {"true", "false", "not_evaluated"}
    BY <1>0 DEF SequenceConclusion
  <2>2. concl' \in [MemoryConclusions -> {"true", "false", "not_evaluated"}]
    BY <2>1, <1>0, <1>5 DEF CheckSequence
  <2>3. /\ pc = "sequence" /\ faults' = faults
        /\ \/ pc' = "raised" /\ exit' = 1
           \/ pc' = "done" /\ exit' \in {0, 1}
    BY <1>5 DEF CheckSequence
  <2> QED  BY <1>0, <2>2, <2>3 DEF MemoryTypeOK
<1>6. CASE UNCHANGED memory_vars
  BY <1>0, <1>6 DEF memory_vars, MemoryTypeOK
<1> QED  BY <1>1, <1>2, <1>3, <1>4, <1>5, <1>6 DEF MemoryNext

\* There are five comparisons.
LEMMA FewComparisons ==
  ASSUME NEW S, S \subseteq Comparisons PROVE IsFiniteSet(S) /\ Cardinality(S) \in Nat
<1>1. IsFiniteSet({})  BY FS_EmptySet
<1>2. IsFiniteSet({} \cup {"request"})  BY <1>1, FS_AddElement
<1>3. IsFiniteSet({} \cup {"request"} \cup {"decision"})  BY <1>2, FS_AddElement
<1>4. IsFiniteSet({} \cup {"request"} \cup {"decision"} \cup {"subject"})  BY <1>3, FS_AddElement
<1>5. IsFiniteSet({} \cup {"request"} \cup {"decision"} \cup {"subject"} \cup {"scope"})
  BY <1>4, FS_AddElement
<1>6. IsFiniteSet({} \cup {"request"} \cup {"decision"} \cup {"subject"} \cup {"scope"} \cup {"digest"})
  BY <1>5, FS_AddElement
<1>7. Comparisons = {} \cup {"request"} \cup {"decision"} \cup {"subject"} \cup {"scope"} \cup {"digest"}
  BY DEF Comparisons
<1>8. IsFiniteSet(S)
  BY <1>6, <1>7, FS_Subset
<1> QED  BY <1>8, FS_CardinalityType

\* Comparisons whose members stay as they are disagree as before, so an
\* alteration mends one at the most.
LEMMA OneAlterationMendsOne ==
  ASSUME NEW b, NEW c, OneMember(b, c)
  PROVE  \E k : Disagreements(b) \ Disagreements(c) \subseteq {k}
<1>1. ASSUME NEW k \in Disagreements(b) \ Disagreements(c) PROVE k \in Comparisons /\ NamedAs(c, k) # NamedAs(b, k)
  <2>1. k \in Disagreements(b) /\ k \notin Disagreements(c)
    BY <1>1
  <2>2. k \in Comparisons
    BY <2>1 DEF Disagreements
  <2>3. SUFFICES ASSUME NamedAs(c, k) = NamedAs(b, k) PROVE FALSE
    BY <2>2
  <2> QED  BY <2>1, <2>2, <2>3 DEF Disagreements
<1>2. ASSUME NEW k \in Disagreements(b) \ Disagreements(c), NEW l \in Disagreements(b) \ Disagreements(c)
      PROVE  k = l
  BY <1>1, <1>2 DEF OneMember
<1> QED  BY <1>2

\* Every step keeps the invariant.
LEMMA MemoryStep == MemoryInv /\ [MemoryNext]_memory_vars => MemoryInv'
<1> SUFFICES ASSUME MemoryInv, [MemoryNext]_memory_vars PROVE MemoryInv'
  OBVIOUS
<1> USE FaultsAssumption
<1>0. /\ faults \in 0 .. MaxFaults /\ (exit = -1 <=> pc \notin {"done", "raised"})
      /\ Cardinality(Mended) <= faults
      /\ exit = 0 => \A c \in Compared : MemoryCodes(bundle, c) = {}
  BY DEF MemoryInv, MemoryTypeOK
<1>t. MemoryTypeOK'
  BY MemoryTypeStep DEF MemoryInv
<1>1. CASE AlterBundle
  <2>1. /\ exit' = -1 /\ faults' = faults + 1 /\ issued' = issued
        /\ OneMember(bundle, bundle')
    BY <1>0, <1>1 DEF AlterBundle
  <2>2. PICK k : Disagreements(bundle) \ Disagreements(bundle') \subseteq {k}
    BY <2>1, OneAlterationMendsOne
  <2>3. Mended' = Disagreements(issued) \ Disagreements(bundle')
    BY <2>1 DEF Mended
  <2>4. Mended' \subseteq Mended \cup {k}
    BY <2>2, <2>3 DEF Mended
  <2>5. IsFiniteSet(Mended) /\ Cardinality(Mended) \in Nat
    <3>1. Mended \subseteq Comparisons
      BY DEF Mended, Disagreements
    <3> QED  BY <3>1, FewComparisons
  <2>6. IsFiniteSet(Mended \cup {k}) /\ Cardinality(Mended \cup {k}) <= Cardinality(Mended) + 1
    BY <2>5, FS_AddElement
  <2>7. IsFiniteSet(Mended') /\ Cardinality(Mended') <= Cardinality(Mended \cup {k})
    BY <2>4, <2>6, FS_Subset
  <2>8. Cardinality(Mended') \in Nat /\ Cardinality(Mended \cup {k}) \in Nat
    BY <2>6, <2>7, FS_CardinalityType
  <2>9. Cardinality(Mended') <= faults'
    BY <2>1, <2>5, <2>6, <2>7, <2>8, <1>0
  <2> QED  BY <1>t, <2>1, <2>9 DEF MemoryInv
<1>2. ASSUME UNCHANGED <<issued, bundle, faults>> PROVE Cardinality(Mended') <= faults'
  <2>1. Mended' = Mended
    BY <1>2 DEF Mended
  <2> QED  BY <1>0, <1>2, <2>1
<1>3. CASE SubmitBundle \/ LoadBundle \/ CheckPresence
  <2>1. UNCHANGED <<issued, bundle, faults>> /\ exit' # 0
    BY <1>0, <1>3 DEF SubmitBundle, LoadBundle, CheckPresence
  <2> QED  BY <1>t, <1>2, <2>1 DEF MemoryInv
<1>4. CASE CheckSequence
  <2>1. UNCHANGED <<issued, bundle, faults>>
    BY <1>4 DEF CheckSequence
  <2>2. ASSUME exit' = 0, NEW c \in Compared PROVE MemoryCodes(bundle', c) = {}
    <3>1. /\ MemoryPassed(concl')
          /\ concl' = [n \in MemoryConclusions |-> IF n \in Presence THEN concl[n]
                                                   ELSE SequenceConclusion(bundle, n)]
      BY <1>4, <2>2 DEF CheckSequence
    <3>2. /\ c \in MemoryConclusions /\ c \notin Presence
          /\ c \in Structural \/ c \in Optional
          /\ c \in Continuity => c \in Structural
      BY DEF Compared, Continuity, Structural, Optional, MemoryConclusions, Presence
    <3>3. concl'[c] = SequenceConclusion(bundle, c)
      BY <3>1, <3>2
    <3>4. /\ SequenceConclusion(bundle, c) # "false"
          /\ c \in Continuity => SequenceConclusion(bundle, c) = "true"
      BY <3>1, <3>2, <3>3 DEF MemoryPassed
    <3>5. MemoryCodes(bundle, c) = {}
      BY <3>4, PassedHasNoCodes
    <3> QED  BY <3>5, <2>1
  <2> QED  BY <1>t, <1>2, <2>1, <2>2 DEF MemoryInv
<1>5. CASE UNCHANGED memory_vars
  <2>1. UNCHANGED <<issued, bundle, faults, exit>>
    BY <1>5 DEF memory_vars
  <2> QED  BY <1>0, <1>t, <1>2, <2>1 DEF MemoryInv
<1> QED  BY <1>1, <1>3, <1>4, <1>5 DEF MemoryNext

\* However many alterations there are, they mend one disagreement each at
\* the most (verify_governed_memory_sequence).
LEMMA MemoryInvariant == MemorySpec => []MemoryInv
<1>1. MemoryInit => MemoryInv
  <2> SUFFICES ASSUME MemoryInit PROVE MemoryInv
    OBVIOUS
  <2>1. Mended = {}
    BY DEF MemoryInit, Mended
  <2>2. Cardinality(Mended) = 0
    BY <2>1, FS_EmptySet
  <2> QED  BY <2>2, FaultsAssumption DEF MemoryInit, MemoryInv, MemoryTypeOK
<1>2. MemoryInv /\ [MemoryNext]_memory_vars => MemoryInv'
  BY MemoryStep
<1> QED  BY <1>1, <1>2, PTL DEF MemorySpec

\* However many alterations, and whatever the bundle holds, the verifier of
\* governed reads keeps its report and its exit status in their types, and
\* has an exit status exactly when it has ended.
THEOREM MemoryTypeCorrect == MemorySpec => []MemoryTypeOK
<1>1. MemoryInit => MemoryTypeOK
  BY FaultsAssumption DEF MemoryInit, MemoryTypeOK
<1> QED  BY <1>1, MemoryTypeStep, PTL DEF MemorySpec

\* Three members are finitely many.
LEMMA FiniteTriple == ASSUME NEW x, NEW y, NEW z PROVE IsFiniteSet({x, y, z})
<1>1. IsFiniteSet({})  BY FS_EmptySet
<1>2. IsFiniteSet({} \cup {x})  BY <1>1, FS_AddElement
<1>3. IsFiniteSet(({} \cup {x}) \cup {y})  BY <1>2, FS_AddElement
<1>4. IsFiniteSet((({} \cup {x}) \cup {y}) \cup {z})  BY <1>3, FS_AddElement
<1>5. {x, y, z} = ((({} \cup {x}) \cup {y}) \cup {z})
  OBVIOUS
<1> QED  BY <1>4, <1>5

\* At most one declared reference: references that are text are the same.
LEMMA OneDeclared ==
  ASSUME NEW refs, IsFiniteSet(refs), ~(Cardinality(Declared(refs)) > 1)
  PROVE  \A u, v \in refs : IsText(u) /\ IsText(v) => u = v
<1>2. IsFiniteSet(Declared(refs))
  <2>1. Declared(refs) \subseteq refs
    BY DEF Declared
  <2> QED  BY <2>1, FS_Subset
<1>3. SUFFICES ASSUME NEW u \in Declared(refs), NEW v \in Declared(refs), u # v PROVE FALSE
  BY DEF Declared
<1>4. Cardinality({u, v}) <= Cardinality(Declared(refs))
  <2>1. {u, v} \subseteq Declared(refs)
    BY <1>3
  <2> QED  BY <1>2, <2>1, FS_Subset
<1>5. Cardinality({u, v}) = 2
  <2>1. IsFiniteSet({u}) /\ Cardinality({u}) = 1  BY FS_Singleton
  <2>2. v \notin {u}  BY <1>3
  <2>3. Cardinality({u} \cup {v}) = 2  BY <2>1, <2>2, FS_AddElement
  <2>4. {u, v} = {u} \cup {v}  OBVIOUS
  <2> QED  BY <2>3, <2>4
<1>6. Cardinality(Declared(refs)) \in Nat
  BY <1>2, FS_CardinalityType
<1> QED  BY <1>4, <1>5, <1>6

\* The verifier's comparisons find every disagreement.
LEMMA AgreementMeans ==
  ASSUME NEW b, \A c \in Compared : MemoryCodes(b, c) = {}
  PROVE  Disagreements(b) = {}
<1>1. /\ RequestLinkCodes(b) = {} /\ PacketLinkCodes(b) = {} /\ SubjectCodes(b) = {}
      /\ ScopeCodes(b) = {} /\ DigestCodes(b) = {}
  <2>1. RequestLinkCodes(b) = MemoryCodes(b, "request_decision_linkage")
    BY DEF MemoryCodes
  <2>2. PacketLinkCodes(b) = MemoryCodes(b, "decision_packet_linkage")
    BY DEF MemoryCodes
  <2>3. SubjectCodes(b) = MemoryCodes(b, "subject_continuity")
    BY DEF MemoryCodes
  <2>4. ScopeCodes(b) = MemoryCodes(b, "scope_continuity")
    BY DEF MemoryCodes
  <2>5. DigestCodes(b) = MemoryCodes(b, "packet_digest_match")
    BY DEF MemoryCodes
  <2> QED  BY <2>1, <2>2, <2>3, <2>4, <2>5 DEF Compared, Continuity
<1>2. "request" \notin Disagreements(b)
  <2>1. RequestRef(b) = b.request.request_id
    BY <1>1 DEF RequestLinkCodes
  <2>2. NamedAs(b, "request") = <<b.request.request_id, RequestRef(b)>>
    BY DEF NamedAs
  <2> QED  BY <2>1, <2>2 DEF Disagreements
<1>3. "decision" \notin Disagreements(b)
  <2>1. DecisionRef(b) = b.decision.decision_id
    BY <1>1 DEF PacketLinkCodes
  <2>2. NamedAs(b, "decision") = <<b.decision.decision_id, DecisionRef(b)>>
    BY DEF NamedAs
  <2> QED  BY <2>1, <2>2 DEF Disagreements
<1>4. "subject" \notin Disagreements(b)
  <2> DEFINE refs == {b.request.subject_ref, b.decision.subject_ref, b.packet.subject_ref}
  <2>1. ~(Cardinality(Declared(refs)) > 1)
    BY <1>1 DEF SubjectCodes
  <2>2. \A u, v \in refs : IsText(u) /\ IsText(v) => u = v
    <3>1. IsFiniteSet(refs)
      BY FiniteTriple
    <3> HIDE DEF refs
    <3> QED  BY <2>1, <3>1, OneDeclared
  <2>3. NamedAs(b, "subject") = <<b.request.subject_ref, b.decision.subject_ref, b.packet.subject_ref>>
    BY DEF NamedAs
  <2> QED  BY <2>2, <2>3 DEF Disagreements
<1>5. "scope" \notin Disagreements(b)
  <2> DEFINE refs == {b.request.scope_ref, b.decision.scope_ref, b.packet.scope_ref}
  <2>1. ~(Cardinality(Declared(refs)) > 1)
    BY <1>1 DEF ScopeCodes
  <2>2. \A u, v \in refs : IsText(u) /\ IsText(v) => u = v
    <3>1. IsFiniteSet(refs)
      BY FiniteTriple
    <3> HIDE DEF refs
    <3> QED  BY <2>1, <3>1, OneDeclared
  <2>3. NamedAs(b, "scope") = <<b.request.scope_ref, b.decision.scope_ref, b.packet.scope_ref>>
    BY DEF NamedAs
  <2> QED  BY <2>2, <2>3 DEF Disagreements
<1>6. "digest" \notin Disagreements(b)
  <2>1. NamedAs(b, "digest") =
          <<b.packet.packet_hash, IF b.decision.has_packet_hash THEN b.decision.packet_hash ELSE 0>>
    BY DEF NamedAs
  <2>2. CASE b.decision.has_packet_hash
    <3>1. b.decision.packet_hash = b.packet.packet_hash
      BY <1>1, <2>2 DEF DigestCodes
    <3> QED  BY <2>1, <2>2, <3>1 DEF Disagreements
  <2>3. CASE ~b.decision.has_packet_hash
    <3>1. NamedAs(b, "digest") = <<b.packet.packet_hash, 0>>
      BY <2>1, <2>3
    <3> QED  BY <3>1 DEF Disagreements, IsText
  <2> QED  BY <2>2, <2>3
<1> QED  BY <1>2, <1>3, <1>4, <1>5, <1>6 DEF Disagreements, Comparisons

\* verify_governed_memory_sequence over any bundle and any number of altered
\* members: exit 0 means that the artifacts, as they were put together,
\* disagreed in no more things than members were altered.  A decision of
\* another read, which breaks both links, takes two.
THEOREM ExchangesAreCaught == MemorySpec => []ExchangedReadCaught
<1>1. MemoryInv => ExchangedReadCaught
  <2> SUFFICES ASSUME MemoryInv, exit = 0 PROVE Cardinality(Disagreements(issued)) <= faults
    BY DEF ExchangedReadCaught
  <2>1. Disagreements(bundle) = {}
    BY AgreementMeans DEF MemoryInv
  <2>2. Mended = Disagreements(issued)
    BY <2>1 DEF Mended
  <2> QED  BY <2>2 DEF MemoryInv
<1> QED  BY <1>1, MemoryInvariant, PTL

----------------------------------------------------------------------------
(* SourceWorkSequence.                                                     *)

\* The axis that folds the conclusions of its checks.
AxisOf(e, holds) == Fold(ConcludeFrom(e, holds), DOMAIN ConcludeFrom(e, holds))

Unread == {"edit", "grounding", "load", "integrity"}

\* The sequence verifier runs, or has reported.
Reported(stages) == pc \in stages \/ (pc = "done" /\ Sequence)

CaptureInv ==
  Reported({"declaration", "proposal", "ingest", "citation"}) =>
    /\ {"artifact_integrity", "capture_linkage"} \subseteq DOMAIN axes
    /\ axes["artifact_integrity"] = AxisOf(ev, ArtifactHolds(ev))
    /\ axes["capture_linkage"] = AxisOf(ev, CaptureHolds(ev))

DeclarationInv ==
  Reported({"proposal", "ingest", "citation"}) =>
    /\ "declaration_binding_linkage" \in DOMAIN axes
    /\ axes["declaration_binding_linkage"] = AxisOf(ev, DeclarationHolds(ev))

ProposalInv ==
  Reported({"ingest", "citation"}) =>
    /\ "proposal_grounding" \in DOMAIN axes
    /\ \/ ev.proposal.form = "omitted" /\ axes["proposal_grounding"] # "PASS"
       \/ ev.proposal.form = "object" /\ axes["proposal_grounding"] = AxisOf(ev, ProposalHolds(ev))

IngestInv ==
  Reported({"citation"}) =>
    /\ "ingest_linkage" \in DOMAIN axes
    /\ \/ axes["ingest_linkage"] = "FAIL"
       \/ ev.ingest.form = "omitted" /\ axes["ingest_linkage"] = "NOT_EVALUATED"
       \/ axes["ingest_linkage"] = AxisOf(ev, IngestHolds(ev))

\* The axes are the folds of the checks of the files as they are now; exit 0
\* is that of a report without FAIL.
AxesInv ==
  /\ pc \in Unread => DOMAIN axes = {}
  /\ pc = "raised" => exit # 0
  /\ CaptureInv /\ DeclarationInv /\ ProposalInv /\ IngestInv
  /\ exit = 0 /\ Sequence => \A a \in AxisNames : axes[a] # "FAIL"

\* A fold is one of three values, of conclusions that are one of three.
LEMMA AxisValue ==
  ASSUME NEW e, NEW holds
  PROVE  /\ AxisOf(e, holds) \in {"PASS", "FAIL", "PARTIAL"}
         /\ DOMAIN ConcludeFrom(e, holds) = DOMAIN holds
         /\ \A n \in DOMAIN holds : ConcludeFrom(e, holds)[n] \in {"PASS", "FAIL", "NOT_EVALUATED"}
  BY DEF AxisOf, Fold, ConcludeFrom

\* An axis that passes has no check that fails or is left open.
LEMMA PassHolds ==
  ASSUME NEW e, NEW holds, AxisOf(e, holds) = "PASS", NEW n \in DOMAIN holds
  PROVE  holds[n] /\ ~Unsupplied(e, n)
<1> DEFINE c == ConcludeFrom(e, holds)
<1>1. DOMAIN c = DOMAIN holds
  BY DEF ConcludeFrom
<1>2. c[n] # "FAIL" /\ c[n] # "NOT_EVALUATED"
  <2> HIDE DEF c
  <2>1. Fold(c, DOMAIN c) = "PASS"
    BY DEF AxisOf, c
  <2> QED BY <1>1, <2>1 DEF Fold
<1>3. c[n] = IF Unsupplied(e, n) THEN "NOT_EVALUATED" ELSE IF holds[n] THEN "PASS" ELSE "FAIL"
  BY DEF ConcludeFrom
<1> HIDE DEF c
<1> QED  BY <1>2, <1>3

\* In one that does not fail, the checks that are not left open hold.
LEMMA NotFailHolds ==
  ASSUME NEW e, NEW holds, AxisOf(e, holds) # "FAIL", NEW n \in DOMAIN holds, ~Unsupplied(e, n)
  PROVE  holds[n]
<1> DEFINE c == ConcludeFrom(e, holds)
<1>1. DOMAIN c = DOMAIN holds
  BY DEF ConcludeFrom
<1>2. c[n] # "FAIL"
  <2> HIDE DEF c
  <2>1. Fold(c, DOMAIN c) # "FAIL"
    BY DEF AxisOf, c
  <2> QED BY <1>1, <2>1 DEF Fold
<1>3. c[n] = IF Unsupplied(e, n) THEN "NOT_EVALUATED" ELSE IF holds[n] THEN "PASS" ELSE "FAIL"
  BY DEF ConcludeFrom
<1> HIDE DEF c
<1> QED  BY <1>2, <1>3

\* What adding an axis, or conclusions, does to the types.
LEMMA AddAxisTyped ==
  ASSUME NEW a, NEW value \in Values, AddAxis(a, value), \A x \in DOMAIN axes : axes[x] \in Values
  PROVE  \A x \in DOMAIN axes' : axes'[x] \in Values
  BY DEF AddAxis

LEMMA WithConclusionsTyped ==
  ASSUME NEW new, \A n \in DOMAIN new : new[n] \in Values \ {"PARTIAL"}, concl' = WithConclusions(new),
         \A n \in DOMAIN concl : concl[n] \in Values \ {"PARTIAL"}
  PROVE  \A n \in DOMAIN concl' : concl'[n] \in Values \ {"PARTIAL"}
  BY DEF WithConclusions

\* An axis that is added leaves the others.
LEMMA AddAxisKeeps ==
  ASSUME NEW a, NEW value, AddAxis(a, value)
  PROVE  /\ DOMAIN axes' = DOMAIN axes \cup {a} /\ axes'[a] = value
         /\ \A x \in DOMAIN axes : x # a => axes'[x] = axes[x]
  BY DEF AddAxis

\* One step keeps the types.
LEMMA WorkTypeStep == WorkTypeOK /\ [WorkNext]_work_vars => WorkTypeOK'
<1> SUFFICES ASSUME WorkTypeOK, [WorkNext]_work_vars PROVE WorkTypeOK'
  OBVIOUS
<1> USE FaultsAssumption
<1> DEFINE ConclOK == \A n \in DOMAIN concl : concl[n] \in Values \ {"PARTIAL"}
<1> DEFINE AxesOK == \A a \in DOMAIN axes : axes[a] \in Values
<1> DEFINE Rest == /\ pc \in {"edit", "grounding", "load", "integrity", "declaration", "proposal", "ingest",
                              "citation", "done", "raised"}
                   /\ faults \in 0 .. MaxFaults /\ exit \in -1 .. 2
                   /\ (exit = -1 <=> pc \notin {"done", "raised"})
<1>0. ConclOK /\ AxesOK /\ Rest
  BY DEF WorkTypeOK
<1>d. ConclOK' /\ AxesOK' /\ Rest' => WorkTypeOK'
  BY DEF WorkTypeOK
<1>r. CASE WorkRaises
  BY <1>0, <1>r DEF WorkRaises, WorkTypeOK
<1>k. ASSUME NEW e, NEW holds PROVE /\ AxisOf(e, holds) \in Values
                                     /\ \A n \in DOMAIN ConcludeFrom(e, holds) :
                                          ConcludeFrom(e, holds)[n] \in Values \ {"PARTIAL"}
  BY AxisValue DEF Values
<1>1. CASE AlterEvidence
  BY <1>0, <1>1 DEF AlterEvidence, WorkTypeOK
<1>2. CASE SubmitEvidence
  BY <1>0, <1>2 DEF SubmitEvidence, WorkTypeOK
<1>3. CASE VerifyGrounding
  <2>1. \/ (End(2) /\ UNCHANGED <<ev, faults, concl, axes>>)
        \/ WorkRaises
        \/ /\ axes' = GroundingAxes(ev.proposal, ev.proposal_source, ev.schema)
           /\ concl' = GroundingConcl(ev.proposal, ev.proposal_source, ev.schema)
           /\ End(IF \E a \in DOMAIN axes' : axes'[a] = "FAIL" THEN 1 ELSE 0)
           /\ UNCHANGED <<ev, faults>>
    BY <1>3 DEF VerifyGrounding
  <2>2. CASE End(2) /\ UNCHANGED <<ev, faults, concl, axes>>
    BY <1>0, <2>2 DEF End, WorkTypeOK
  <2>3. CASE /\ axes' = GroundingAxes(ev.proposal, ev.proposal_source, ev.schema)
             /\ concl' = GroundingConcl(ev.proposal, ev.proposal_source, ev.schema)
             /\ End(IF \E a \in DOMAIN axes' : axes'[a] = "FAIL" THEN 1 ELSE 0)
             /\ UNCHANGED <<ev, faults>>
    <3>1. ConclOK'
      BY <2>3 DEF GroundingConcl, Values
    <3>2. \A cs, names : Fold(cs, names) \in Values
      BY DEF Fold, Values
    <3>3. AxesOK'
      BY <2>3, <3>2 DEF GroundingAxes
    <3>4. Rest'
      BY <1>0, <2>3 DEF End
    <3> QED BY <1>d, <3>1, <3>3, <3>4
  <2> QED BY <1>r, <2>1, <2>2, <2>3
<1>4. CASE LoadSequence
  <2>1. /\ End(2) \/ (pc' = "integrity" /\ exit' = exit)
        /\ pc = "load" /\ UNCHANGED <<faults, concl, axes>>
    BY <1>4 DEF LoadSequence
  <2> QED BY <1>0, <2>1 DEF End, WorkTypeOK
<1>5. CASE CheckCapture
  <2> DEFINE a == ConcludeFrom(ev, ArtifactHolds(ev))
  <2> DEFINE c == ConcludeFrom(ev, CaptureHolds(ev))
  <2>1. /\ concl' = [n \in DOMAIN a \cup DOMAIN c |-> IF n \in DOMAIN a THEN a[n] ELSE c[n]]
        /\ axes' = [x \in {"artifact_integrity", "capture_linkage"} |->
                      IF x = "artifact_integrity" THEN Fold(a, DOMAIN a) ELSE Fold(c, DOMAIN c)]
        /\ pc = "integrity" /\ pc' = "declaration" /\ UNCHANGED <<faults, exit>>
    BY <1>5 DEF CheckCapture
  <2>2. /\ Fold(a, DOMAIN a) \in Values /\ Fold(c, DOMAIN c) \in Values
        /\ \A n \in DOMAIN a : a[n] \in Values \ {"PARTIAL"}
        /\ \A n \in DOMAIN c : c[n] \in Values \ {"PARTIAL"}
    BY <1>k DEF AxisOf
  <2> HIDE DEF a, c
  <2>3. ConclOK'
    BY <2>1, <2>2
  <2>4. AxesOK'
    BY <2>1, <2>2
  <2>5. Rest'
    BY <1>0, <2>1
  <2> QED BY <1>d, <2>3, <2>4, <2>5
<1>6. ASSUME NEW holds, NEW name, concl' = WithConclusions(ConcludeFrom(ev, holds)),
             AddAxis(name, AxisOf(ev, holds))
      PROVE  ConclOK' /\ AxesOK'
  <2>1. AddAxis(name, AxisOf(ev, holds)) /\ AxisOf(ev, holds) \in Values
    BY <1>6, <1>k DEF AxisOf
  <2>2. AxesOK'
    BY <1>0, <2>1, AddAxisTyped
  <2>3. ConclOK'
    BY <1>0, <1>6, <1>k, WithConclusionsTyped
  <2> QED BY <2>2, <2>3
<1>7. CASE CheckDeclaration /\ ~WorkRaises
  <2>1. /\ concl' = WithConclusions(ConcludeFrom(ev, DeclarationHolds(ev)))
        /\ AddAxis("declaration_binding_linkage", AxisOf(ev, DeclarationHolds(ev)))
        /\ pc = "declaration" /\ pc' = "proposal" /\ UNCHANGED <<faults, exit>>
    BY <1>7 DEF CheckDeclaration, AxisOf
  <2>2. ConclOK' /\ AxesOK'
    BY <1>6, <2>1
  <2>3. Rest'
    BY <1>0, <2>1
  <2> QED BY <1>d, <2>2, <2>3
<1>8. CASE CheckNoProposal
  <2> DEFINE answer == IF ev.manifest.summary = "zero" THEN "NOT_EVALUATED" ELSE "FAIL"
  <2>1. /\ concl' = WithConclusions([proposal_grounding_absence_consistent |-> answer])
        /\ AddAxis("proposal_grounding", answer)
        /\ pc = "proposal" /\ pc' = "ingest" /\ UNCHANGED <<faults, exit>>
    BY <1>8 DEF CheckNoProposal
  <2>2. answer \in Values \ {"PARTIAL"}
    BY DEF Values
  <2> HIDE DEF answer
  <2>3. ConclOK'
    <3>1. \A n \in DOMAIN [proposal_grounding_absence_consistent |-> answer] :
            [proposal_grounding_absence_consistent |-> answer][n] \in Values \ {"PARTIAL"}
      BY <2>2
    <3> QED BY <1>0, <2>1, <3>1, WithConclusionsTyped
  <2>4. AxesOK'
    BY <1>0, <2>1, <2>2, AddAxisTyped
  <2>5. Rest'
    BY <1>0, <2>1
  <2> QED BY <1>d, <2>3, <2>4, <2>5
<1>9. CASE CheckProposal /\ ~WorkRaises
  <2>1. /\ concl' = WithConclusions(ConcludeFrom(ev, ProposalHolds(ev)))
        /\ AddAxis("proposal_grounding", AxisOf(ev, ProposalHolds(ev)))
        /\ pc = "proposal" /\ pc' = "ingest" /\ UNCHANGED <<faults, exit>>
    BY <1>9 DEF CheckProposal, AxisOf
  <2>2. ConclOK' /\ AxesOK'
    BY <1>6, <2>1
  <2>3. Rest'
    BY <1>0, <2>1
  <2> QED BY <1>d, <2>2, <2>3
<1>10. CASE CheckIngest
  <2>1. /\ pc = "ingest" /\ pc' = "citation" /\ UNCHANGED <<faults, exit>>
        /\ \/ AddAxis("ingest_linkage", "FAIL") /\ concl' = concl
           \/ AddAxis("ingest_linkage", "NOT_EVALUATED") /\ concl' = concl
           \/ /\ concl' = WithConclusions(ConcludeFrom(ev, IngestHolds(ev)))
              /\ AddAxis("ingest_linkage", AxisOf(ev, IngestHolds(ev)))
    BY <1>10 DEF CheckIngest, AxisOf
  <2>2. ConclOK' /\ AxesOK'
    <3>1. "FAIL" \in Values /\ "NOT_EVALUATED" \in Values
      BY DEF Values
    <3>2. CASE concl' = concl /\ \E v \in Values : AddAxis("ingest_linkage", v)
      <4>1. ConclOK' BY <1>0, <3>2
      <4>2. AxesOK' BY <1>0, <3>2, AddAxisTyped
      <4> QED BY <4>1, <4>2
    <3>3. CASE /\ concl' = WithConclusions(ConcludeFrom(ev, IngestHolds(ev)))
               /\ AddAxis("ingest_linkage", AxisOf(ev, IngestHolds(ev)))
      BY <1>6, <3>3
    <3> QED BY <2>1, <3>1, <3>2, <3>3
  <2>3. Rest'
    BY <1>0, <2>1
  <2> QED BY <1>d, <2>2, <2>3
<1>11. CASE CheckCitation
  <2>1. /\ AddAxis("citation_pack_linkage", IF ev.citation_pack THEN "PARTIAL" ELSE "NOT_EVALUATED")
        /\ \E s \in {0, 1} : End(s)
        /\ UNCHANGED <<faults, concl>>
    BY <1>11 DEF CheckCitation
  <2>2. (IF ev.citation_pack THEN "PARTIAL" ELSE "NOT_EVALUATED") \in Values
    BY DEF Values
  <2>3. AxesOK'
    BY <1>0, <2>1, <2>2, AddAxisTyped
  <2>4. Rest' /\ ConclOK'
    BY <1>0, <2>1 DEF End
  <2> QED BY <1>d, <2>3, <2>4
<1>12. CASE UNCHANGED work_vars
  BY <1>0, <1>12 DEF work_vars, WorkTypeOK
<1>13. CheckProposalRaises => WorkRaises
  BY DEF CheckProposalRaises
<1> QED  BY <1>r, <1>1, <1>2, <1>3, <1>4, <1>5, <1>7, <1>8, <1>9, <1>10, <1>11, <1>12, <1>13 DEF WorkNext

\* However many alterations, and whatever the files hold, the axes and
\* conclusions of the two programs are values of the report, no conclusion is
\* PARTIAL, and there is an exit status exactly when a program has ended.
THEOREM WorkTypeCorrect == WorkSpec => []WorkTypeOK
<1>1. WorkInit => WorkTypeOK
  BY FaultsAssumption DEF WorkInit, WorkTypeOK
<1> QED  BY <1>1, WorkTypeStep, PTL DEF WorkSpec

\* One step keeps the axes what they say of the files.
LEMMA AxesStep == WorkTypeOK /\ AxesInv /\ [WorkNext]_work_vars => AxesInv'
<1> SUFFICES ASSUME WorkTypeOK, AxesInv, [WorkNext]_work_vars PROVE AxesInv'
  OBVIOUS
<1>0. /\ pc \in Unread => DOMAIN axes = {}
      /\ pc = "raised" => exit # 0
      /\ exit = -1 <=> pc \notin {"done", "raised"}
      /\ CaptureInv /\ DeclarationInv /\ ProposalInv /\ IngestInv
      /\ exit = 0 /\ Sequence => \A a \in AxisNames : axes[a] # "FAIL"
  BY DEF AxesInv, WorkTypeOK
\* Steps after which there is no report of the sequence verifier.
<1>1. ASSUME pc' = "raised", exit' # 0 PROVE AxesInv'
  BY <1>1 DEF AxesInv, CaptureInv, DeclarationInv, ProposalInv, IngestInv, Reported, Unread
<1>2. ASSUME pc' \in Unread \cup {"done"}, DOMAIN axes' = {} PROVE AxesInv'
  <2>1. ~Sequence'
    BY <1>2 DEF Sequence
  <2>2. pc' \notin {"raised", "declaration", "proposal", "ingest", "citation"}
    BY <1>2 DEF Unread
  <2> QED BY <1>2, <2>1, <2>2 DEF AxesInv, CaptureInv, DeclarationInv, ProposalInv, IngestInv, Reported
<1>r. CASE WorkRaises
  BY <1>1, <1>r DEF WorkRaises
<1>3. CASE AlterEvidence \/ SubmitEvidence
  <2>1. pc \in Unread /\ pc' \in Unread /\ axes' = axes
    BY <1>3 DEF AlterEvidence, SubmitEvidence, Unread
  <2> QED BY <1>0, <1>2, <2>1
<1>4. CASE VerifyGrounding
  <2>1. CASE End(2) /\ axes' = axes
    BY <1>0, <1>2, <1>4, <2>1 DEF VerifyGrounding, Unread, End
  <2>2. CASE axes' = GroundingAxes(ev.proposal, ev.proposal_source, ev.schema) /\ pc' = "done"
    <3>1. ~Sequence'
      BY <2>2 DEF GroundingAxes, Sequence
    <3> QED BY <2>2, <3>1 DEF AxesInv, CaptureInv, DeclarationInv, ProposalInv, IngestInv, Reported, Unread
  <2>3. \/ End(2) /\ axes' = axes
        \/ WorkRaises
        \/ axes' = GroundingAxes(ev.proposal, ev.proposal_source, ev.schema) /\ pc' = "done"
    BY <1>4 DEF VerifyGrounding, End
  <2> QED BY <1>r, <2>1, <2>2, <2>3
<1>5. CASE LoadSequence
  <2>1. pc \in Unread /\ pc' \in {"integrity", "done"} /\ axes' = axes
    BY <1>5 DEF LoadSequence, End, Unread
  <2> QED BY <1>0, <1>2, <2>1 DEF Unread
<1>6. CASE CheckCapture
  <2>1. /\ pc' = "declaration" /\ ev' = ev /\ exit' = -1
        /\ axes' = [x \in {"artifact_integrity", "capture_linkage"} |->
                      IF x = "artifact_integrity" THEN AxisOf(ev, ArtifactHolds(ev))
                      ELSE AxisOf(ev, CaptureHolds(ev))]
    BY <1>0, <1>6 DEF CheckCapture, AxisOf
  <2>2. CaptureInv'
    <3>1. /\ DOMAIN axes' = {"artifact_integrity", "capture_linkage"}
          /\ axes'["artifact_integrity"] = AxisOf(ev, ArtifactHolds(ev))
          /\ axes'["capture_linkage"] = AxisOf(ev, CaptureHolds(ev))
      BY <2>1
    <3> QED BY <2>1, <3>1 DEF CaptureInv
  <2> QED BY <2>1, <2>2 DEF AxesInv, DeclarationInv, ProposalInv, IngestInv, Reported, Unread
\* Steps that add an axis keep what is known of the others.
<1>7. ASSUME NEW a \in {"declaration_binding_linkage", "proposal_grounding", "ingest_linkage",
                        "citation_pack_linkage"},
             NEW value, AddAxis(a, value), ev' = ev,
             pc \in {"declaration", "proposal", "ingest", "citation"}
      PROVE  /\ a \in DOMAIN axes' /\ axes'[a] = value
             /\ \A x \in DOMAIN axes : x \in DOMAIN axes' /\ (x # a => axes'[x] = axes[x])
             /\ CaptureInv'
  <2>1. /\ DOMAIN axes' = DOMAIN axes \cup {a} /\ axes'[a] = value
        /\ \A x \in DOMAIN axes : x # a => axes'[x] = axes[x]
    BY <1>7, AddAxisKeeps
  <2>2. /\ "artifact_integrity" \in DOMAIN axes /\ "capture_linkage" \in DOMAIN axes
        /\ axes["artifact_integrity"] = AxisOf(ev, ArtifactHolds(ev))
        /\ axes["capture_linkage"] = AxisOf(ev, CaptureHolds(ev))
    BY <1>0, <1>7 DEF CaptureInv, Reported
  <2>3. CaptureInv'
    BY <1>7, <2>1, <2>2 DEF CaptureInv
  <2> QED BY <2>1, <2>3
<1>8. CASE CheckDeclaration /\ ~WorkRaises
  <2>1. /\ pc = "declaration" /\ pc' = "proposal" /\ ev' = ev /\ exit' = -1
        /\ AddAxis("declaration_binding_linkage", AxisOf(ev, DeclarationHolds(ev)))
    BY <1>0, <1>8 DEF CheckDeclaration, AxisOf
  <2>2. /\ "declaration_binding_linkage" \in DOMAIN axes' /\ CaptureInv'
        /\ axes'["declaration_binding_linkage"] = AxisOf(ev, DeclarationHolds(ev))
    BY <1>7, <2>1
  <2>3. DeclarationInv'
    BY <2>1, <2>2 DEF DeclarationInv
  <2> QED BY <2>1, <2>2, <2>3 DEF AxesInv, ProposalInv, IngestInv, Reported, Unread
<1>9. CASE CheckNoProposal \/ (CheckProposal /\ ~WorkRaises)
  <2>1. PICK value : /\ AddAxis("proposal_grounding", value)
                     /\ \/ ev.proposal.form = "omitted" /\ value # "PASS"
                        \/ ev.proposal.form = "object" /\ value = AxisOf(ev, ProposalHolds(ev))
    <3>1. CASE CheckNoProposal
      <4> DEFINE answer == IF ev.manifest.summary = "zero" THEN "NOT_EVALUATED" ELSE "FAIL"
      <4>1. AddAxis("proposal_grounding", answer) /\ ev.proposal.form = "omitted"
        BY <3>1 DEF CheckNoProposal
      <4>2. answer # "PASS"
        OBVIOUS
      <4> QED BY <4>1, <4>2
    <3>2. CASE CheckProposal /\ ~WorkRaises
      BY <3>2 DEF CheckProposal, AxisOf
    <3> QED BY <1>9, <3>1, <3>2
  <2>2. pc = "proposal" /\ pc' = "ingest" /\ ev' = ev /\ exit' = -1
    BY <1>0, <1>9 DEF CheckNoProposal, CheckProposal
  <2>3. /\ "proposal_grounding" \in DOMAIN axes' /\ axes'["proposal_grounding"] = value /\ CaptureInv'
        /\ \A x \in DOMAIN axes : x \in DOMAIN axes' /\ (x # "proposal_grounding" => axes'[x] = axes[x])
    BY <1>7, <2>1, <2>2
  <2>4. DeclarationInv'
    BY <1>0, <2>2, <2>3 DEF DeclarationInv, Reported
  <2>5. ProposalInv'
    BY <2>1, <2>2, <2>3 DEF ProposalInv
  <2> QED BY <2>2, <2>3, <2>4, <2>5 DEF AxesInv, IngestInv, Reported, Unread
<1>10. CASE CheckIngest
  <2>1. PICK value : /\ AddAxis("ingest_linkage", value)
                     /\ \/ value = "FAIL"
                        \/ ev.ingest.form = "omitted" /\ value = "NOT_EVALUATED"
                        \/ value = AxisOf(ev, IngestHolds(ev))
    BY <1>10 DEF CheckIngest, AxisOf
  <2>2. pc = "ingest" /\ pc' = "citation" /\ ev' = ev /\ exit' = -1
    BY <1>0, <1>10 DEF CheckIngest
  <2>3. /\ "ingest_linkage" \in DOMAIN axes' /\ axes'["ingest_linkage"] = value /\ CaptureInv'
        /\ \A x \in DOMAIN axes : x \in DOMAIN axes' /\ (x # "ingest_linkage" => axes'[x] = axes[x])
    BY <1>7, <2>1, <2>2
  <2>4. DeclarationInv' /\ ProposalInv'
    BY <1>0, <2>2, <2>3 DEF DeclarationInv, ProposalInv, Reported
  <2>5. IngestInv'
    BY <2>1, <2>2, <2>3 DEF IngestInv
  <2> QED BY <2>2, <2>3, <2>4, <2>5 DEF AxesInv, Reported, Unread
<1>11. CASE CheckCitation
  <2>1. /\ AddAxis("citation_pack_linkage", IF ev.citation_pack THEN "PARTIAL" ELSE "NOT_EVALUATED")
        /\ pc = "citation" /\ pc' = "done" /\ ev' = ev
        /\ exit' = IF \E a \in AxisNames : axes'[a] = "FAIL" THEN 1 ELSE 0
    BY <1>11 DEF CheckCitation, End
  <2>2. /\ CaptureInv'
        /\ \A x \in DOMAIN axes : x \in DOMAIN axes' /\ (x # "citation_pack_linkage" => axes'[x] = axes[x])
    BY <1>7, <2>1
  <2>3. DeclarationInv' /\ ProposalInv' /\ IngestInv'
    BY <1>0, <2>1, <2>2 DEF DeclarationInv, ProposalInv, IngestInv, Reported
  <2>4. exit' = 0 => \A a \in AxisNames : axes'[a] # "FAIL"
    BY <2>1
  <2> QED BY <2>1, <2>2, <2>3, <2>4 DEF AxesInv, Unread
<1>12. CASE UNCHANGED work_vars
  BY <1>0, <1>12 DEF work_vars, AxesInv, CaptureInv, DeclarationInv, ProposalInv, IngestInv, Reported, Sequence
<1>13. CheckProposalRaises => WorkRaises
  BY DEF CheckProposalRaises
<1> QED  BY <1>r, <1>3, <1>4, <1>5, <1>6, <1>8, <1>9, <1>10, <1>11, <1>12, <1>13 DEF WorkNext

\* verify: every axis of the report is the fold of its checks of the files.
LEMMA AxesInvariant == WorkSpec => [](WorkTypeOK /\ AxesInv)
<1>1. WorkInit => WorkTypeOK /\ AxesInv
  <2> SUFFICES ASSUME WorkInit PROVE WorkTypeOK /\ AxesInv
    OBVIOUS
  <2>1. WorkTypeOK
    BY FaultsAssumption DEF WorkInit, WorkTypeOK
  <2>2. AxesInv
    BY DEF WorkInit, AxesInv, CaptureInv, DeclarationInv, ProposalInv, IngestInv, Reported, Unread
  <2> QED BY <2>1, <2>2
<1>2. WorkTypeOK /\ AxesInv /\ [WorkNext]_work_vars => (WorkTypeOK /\ AxesInv)'
  BY WorkTypeStep, AxesStep
<1> QED  BY <1>1, <1>2, PTL DEF WorkSpec

\* A proposal that is grounded names the bytes it was checked against, and
\* so do the anchors of its extractive fields.
LEMMA GroundedNames ==
  ASSUME NEW e, ProposalHolds(e)["proposal_grounding_recomputes"]
  PROVE  /\ e.proposal.artifact_digest = e.proposal_source
         /\ AnchorDigests(e) \subseteq {e.proposal.artifact_digest}
<1> DEFINE v == e.proposal
<1> DEFINE c == GroundingConcl(v, e.proposal_source, e.schema)
<1>1. \A a \in DOMAIN GroundingAxes(v, e.proposal_source, e.schema) :
        GroundingAxes(v, e.proposal_source, e.schema)[a] = "PASS"
  BY DEF ProposalHolds
<1>2. Fold(c, ArtifactConclusions) = "PASS" /\ Fold(c, GroundingConclusions) = "PASS"
  BY <1>1 DEF GroundingAxes
<1>3. /\ DOMAIN c = ArtifactConclusions \cup GroundingConclusions \cup PostureConclusions
      /\ \A n \in DOMAIN c : c[n] = IF GroundingUnevaluated(v, e.schema, n) THEN "NOT_EVALUATED"
                                    ELSE IF GroundingHolds(v, e.proposal_source, e.schema, n) THEN "PASS" ELSE "FAIL"
  BY DEF GroundingConcl
<1> HIDE DEF c
<1>4. \A n \in ArtifactConclusions \cup GroundingConclusions : c[n] # "FAIL" /\ c[n] # "NOT_EVALUATED"
  BY <1>2, <1>3 DEF Fold
<1>5. \A n \in ArtifactConclusions \cup GroundingConclusions :
        GroundingHolds(v, e.proposal_source, e.schema, n)
  BY <1>3, <1>4
<1>6. v.artifact_digest = e.proposal_source
  <2>1. GroundingHolds(v, e.proposal_source, e.schema, "artifact_digest_recomputes")
    BY <1>5 DEF ArtifactConclusions
  <2> QED BY <2>1 DEF GroundingHolds
<1>7. AnchorCodes(v, e.proposal_source) \subseteq {"abstractive_carries_anchor"}
  <2>1. GroundingHolds(v, e.proposal_source, e.schema, "extractive_anchors_recompute")
    BY <1>5 DEF GroundingConclusions
  <2> QED BY <2>1 DEF GroundingHolds
<1>8. ASSUME NEW k \in DOMAIN v.grounding, v.grounding[k].kind = "extractive", v.grounding[k].anchor.form = "object"
      PROVE  v.grounding[k].anchor.artifact_digest = v.artifact_digest
  <2> DEFINE text == project_html_visible_text(e.proposal_source)
  <2>1. EntryCodes(v, v.grounding[k], text) \subseteq {"abstractive_carries_anchor"}
    BY <1>7, <1>8 DEF AnchorCodes
  <2> HIDE DEF text
  <2>2. v.grounding[k].anchor.artifact_digest # v.artifact_digest =>
          "anchor_artifact_digest_mismatch" \in EntryCodes(v, v.grounding[k], text)
    BY <1>8 DEF EntryCodes
  <2> QED BY <2>1, <2>2
<1> QED  BY <1>6, <1>8 DEF AnchorDigests

\* Exit status apart, an axis of verify that says PASS was recomputed from
\* bytes in evidence: the captured object that all artifacts name, the
\* declaration the binding cites, the page of the proposal and the ingest's
\* extraction.  For every evidence and any number of alterations.
THEOREM PassesAreRecomputed == WorkSpec => []PassIsRecomputed
<1>1. WorkTypeOK /\ AxesInv => PassIsRecomputed
  <2> SUFFICES ASSUME WorkTypeOK, AxesInv, pc = "done", Sequence
               PROVE  /\ axes["capture_linkage"] = "PASS" =>
                           {ev.capture.exact, ev.manifest.address, ev.receipt.captured_ref} = {ev.captured_source}
                      /\ axes["artifact_integrity"] = "PASS" => ev.declaration = ev.binding.declaring_ref
                      /\ axes["proposal_grounding"] = "PASS" =>
                           /\ ev.proposal_source = ev.capture.exact
                           /\ ev.proposal_source = ev.proposal.artifact_digest
                      /\ axes["ingest_linkage"] = "PASS" => ev.extraction = ev.ingest.extraction_ref
    BY DEF PassIsRecomputed
  <2>0. /\ axes["artifact_integrity"] = AxisOf(ev, ArtifactHolds(ev))
        /\ axes["capture_linkage"] = AxisOf(ev, CaptureHolds(ev))
        /\ axes["proposal_grounding"] = "PASS" => axes["proposal_grounding"] = AxisOf(ev, ProposalHolds(ev))
        /\ axes["ingest_linkage"] = "PASS" => axes["ingest_linkage"] = AxisOf(ev, IngestHolds(ev))
    BY DEF AxesInv, CaptureInv, ProposalInv, IngestInv, Reported
  <2>1. ASSUME axes["capture_linkage"] = "PASS"
        PROVE  {ev.capture.exact, ev.manifest.address, ev.receipt.captured_ref} = {ev.captured_source}
    <3>1. /\ "captured_object_digest_agreement" \in DOMAIN CaptureHolds(ev)
          /\ "raw_captured_bytes_recompute" \in DOMAIN CaptureHolds(ev)
      BY DEF CaptureHolds
    <3>2. /\ CaptureHolds(ev)["captured_object_digest_agreement"]
          /\ CaptureHolds(ev)["raw_captured_bytes_recompute"]
      BY <2>0, <2>1, <3>1, PassHolds
    <3> QED BY <3>2 DEF CaptureHolds
  <2>2. ASSUME axes["artifact_integrity"] = "PASS"
        PROVE  ev.declaration = ev.binding.declaring_ref
    <3>1. "governed_declaration_digest_recomputes" \in DOMAIN ArtifactHolds(ev)
      BY DEF ArtifactHolds
    <3>2. ArtifactHolds(ev)["governed_declaration_digest_recomputes"]
      BY <2>0, <2>2, <3>1, PassHolds
    <3> QED BY <3>2 DEF ArtifactHolds
  <2>3. ASSUME axes["proposal_grounding"] = "PASS"
        PROVE  ev.proposal_source = ev.capture.exact /\ ev.proposal_source = ev.proposal.artifact_digest
    <3>1. /\ "proposal_lineage_same_source" \in DOMAIN ProposalHolds(ev)
          /\ "proposal_grounding_recomputes" \in DOMAIN ProposalHolds(ev)
      BY DEF ProposalHolds
    <3>2. /\ ProposalHolds(ev)["proposal_lineage_same_source"]
          /\ ProposalHolds(ev)["proposal_grounding_recomputes"]
      BY <2>0, <2>3, <3>1, PassHolds
    <3>3. ev.proposal.artifact_digest = ev.capture.exact
      BY <3>2 DEF ProposalHolds
    <3> QED BY <3>2, <3>3, GroundedNames
  <2>4. ASSUME axes["ingest_linkage"] = "PASS"
        PROVE  ev.extraction = ev.ingest.extraction_ref
    <3>1. "source_ingest_extraction_recomputes" \in DOMAIN IngestHolds(ev)
      BY DEF IngestHolds
    <3>2. IngestHolds(ev)["source_ingest_extraction_recomputes"]
      BY <2>0, <2>4, <3>1, PassHolds
    <3> QED BY <3>2 DEF IngestHolds
  <2> QED BY <2>1, <2>2, <2>3, <2>4
<1> QED  BY <1>1, AxesInvariant, PTL

\* What a report without FAIL says of the files.
Agreed(e) ==
  /\ e.capture.exact # 0 /\ e.capture.exact = e.manifest.address /\ e.capture.exact = e.receipt.captured_ref
  /\ e.binding.locator # 0 /\ e.binding.locator = e.capture.locator /\ e.binding.locator = e.manifest.locator
  /\ R1a(e.binding) # 0 /\ R1a(e.binding) = e.receipt.reference_id
  /\ e.captured_source # 0 => e.captured_source = e.capture.exact
  /\ e.proposal.form # "omitted" =>
       /\ e.proposal.form = "object" /\ e.proposal.artifact_digest = e.capture.exact
       /\ e.proposal_source # 0 => /\ e.proposal_source = e.capture.exact
                                   /\ AnchorDigests(e) \subseteq {e.capture.exact}
  /\ e.ingest.form # "omitted" =>
       /\ e.ingest.subject_ref = e.capture.exact /\ e.ingest.source_artifact_id = e.capture.exact
       /\ e.extraction # 0 /\ e.extraction = e.ingest.extraction_ref
       /\ e.extraction = e.ingest.derivation.output_hash

\* Where the files come from, with at most one alteration.
OriginInv ==
  /\ faults = 0 => ev \in Evidence
  /\ faults = 1 => \E e \in Evidence : ev \in AlteredEvidence(e)

\* The files are altered before the programs start.
LEMMA OriginStep == MaxFaults <= 1 /\ WorkTypeOK /\ OriginInv /\ [WorkNext]_work_vars => OriginInv'
<1> SUFFICES ASSUME MaxFaults <= 1, WorkTypeOK, OriginInv, [WorkNext]_work_vars PROVE OriginInv'
  OBVIOUS
<1>1. CASE AlterEvidence
  <2>1. faults = 0 /\ faults' = 1 /\ ev' \in AlteredEvidence(ev)
    BY <1>1, FaultsAssumption DEF AlterEvidence, WorkTypeOK
  <2> QED BY <2>1 DEF OriginInv
<1>2. CASE UNCHANGED <<ev, faults>>
  BY <1>2 DEF OriginInv
<1>3. SubmitEvidence \/ LoadSequence \/ CheckCapture \/ CheckNoProposal \/ CheckIngest \/ CheckCitation
        => UNCHANGED <<ev, faults>>
  BY DEF SubmitEvidence, LoadSequence, CheckCapture, CheckNoProposal, CheckIngest, CheckCitation
<1>4. VerifyGrounding \/ CheckDeclaration \/ CheckProposal \/ CheckProposalRaises => UNCHANGED <<ev, faults>>
  BY DEF VerifyGrounding, CheckDeclaration, CheckProposal, CheckProposalRaises, WorkRaises
<1>5. UNCHANGED work_vars => UNCHANGED <<ev, faults>>
  BY DEF work_vars
<1> QED  BY <1>1, <1>2, <1>3, <1>4, <1>5 DEF WorkNext

\* Exit 0 of the sequence verifier: the files agree.
LEMMA ExitZeroAgrees == AxesInv /\ pc = "done" /\ exit = 0 /\ Sequence => Agreed(ev)
<1> SUFFICES ASSUME AxesInv, pc = "done", exit = 0, Sequence PROVE Agreed(ev)
  OBVIOUS
<1>0. \A a \in AxisNames : axes[a] # "FAIL"
  BY DEF AxesInv
<1>1. /\ AxisOf(ev, CaptureHolds(ev)) # "FAIL" /\ AxisOf(ev, DeclarationHolds(ev)) # "FAIL"
      /\ ev.proposal.form # "omitted" => ev.proposal.form = "object" /\ AxisOf(ev, ProposalHolds(ev)) # "FAIL"
      /\ ev.ingest.form # "omitted" => AxisOf(ev, IngestHolds(ev)) # "FAIL"
  BY <1>0 DEF AxesInv, CaptureInv, DeclarationInv, ProposalInv, IngestInv, Reported, AxisNames
<1>2. /\ ev.capture.exact > 0 /\ ev.capture.exact = ev.manifest.address
      /\ ev.capture.exact = ev.receipt.captured_ref
  <2>1. CaptureHolds(ev)["captured_object_digest_agreement"]
    <3>1. "captured_object_digest_agreement" \in DOMAIN CaptureHolds(ev)
      BY DEF CaptureHolds
    <3> QED BY <1>1, <3>1, NotFailHolds DEF Unsupplied
  <2> QED BY <2>1 DEF CaptureHolds, IsRef
<1>3. ev.captured_source # 0 => ev.captured_source = ev.capture.exact
  <2> HAVE ev.captured_source # 0
  <2>1. "raw_captured_bytes_recompute" \in DOMAIN CaptureHolds(ev)
    BY DEF CaptureHolds
  <2>2. CaptureHolds(ev)["raw_captured_bytes_recompute"]
    BY <1>1, <2>1, NotFailHolds DEF Unsupplied
  <2> QED BY <2>2 DEF CaptureHolds
<1>4. /\ ev.binding.locator > 0 /\ ev.binding.locator = ev.capture.locator
      /\ ev.binding.locator = ev.manifest.locator
  <2>1. "locator_agreement" \in DOMAIN DeclarationHolds(ev)
    BY DEF DeclarationHolds
  <2>2. DeclarationHolds(ev)["locator_agreement"]
    BY <1>1, <2>1, NotFailHolds DEF Unsupplied
  <2> QED BY <2>2 DEF DeclarationHolds
<1>5. R1a(ev.binding) # 0 /\ R1a(ev.binding) = ev.receipt.reference_id
  <2>1. "r1a_reference_recomputes" \in DOMAIN DeclarationHolds(ev)
    BY DEF DeclarationHolds
  <2>2. DeclarationHolds(ev)["r1a_reference_recomputes"]
    BY <1>1, <2>1, NotFailHolds DEF Unsupplied
  <2> QED BY <2>2 DEF DeclarationHolds
<1>6. ASSUME ev.proposal.form # "omitted"
      PROVE  /\ ev.proposal.form = "object" /\ ev.proposal.artifact_digest = ev.capture.exact
             /\ ev.proposal_source # 0 => /\ ev.proposal_source = ev.capture.exact
                                          /\ AnchorDigests(ev) \subseteq {ev.capture.exact}
  <2>1. /\ "proposal_lineage_same_source" \in DOMAIN ProposalHolds(ev)
        /\ "proposal_grounding_recomputes" \in DOMAIN ProposalHolds(ev)
    BY DEF ProposalHolds
  <2>2. ProposalHolds(ev)["proposal_lineage_same_source"]
    BY <1>1, <1>6, <2>1, NotFailHolds DEF Unsupplied
  <2>3. ev.proposal.artifact_digest = ev.capture.exact
    BY <2>2 DEF ProposalHolds
  <2>4. ev.proposal_source # 0 => ProposalHolds(ev)["proposal_grounding_recomputes"]
    BY <1>1, <1>6, <2>1, NotFailHolds DEF Unsupplied
  <2> QED BY <1>1, <1>6, <2>3, <2>4, GroundedNames
<1>7. ASSUME ev.ingest.form # "omitted"
      PROVE  /\ ev.ingest.subject_ref = ev.capture.exact /\ ev.ingest.source_artifact_id = ev.capture.exact
             /\ ev.extraction # 0 /\ ev.extraction = ev.ingest.extraction_ref
             /\ ev.extraction = ev.ingest.derivation.output_hash
  <2>1. /\ "source_ingest_identity_binds_capture" \in DOMAIN IngestHolds(ev)
        /\ "source_ingest_extraction_recomputes" \in DOMAIN IngestHolds(ev)
    BY DEF IngestHolds
  <2>2. /\ IngestHolds(ev)["source_ingest_identity_binds_capture"]
        /\ IngestHolds(ev)["source_ingest_extraction_recomputes"]
    BY <1>1, <1>7, <2>1, NotFailHolds DEF Unsupplied
  <2> QED BY <2>2 DEF IngestHolds
<1> QED  BY <1>2, <1>3, <1>4, <1>5, <1>6, <1>7 DEF Agreed

\* Files that agree, at most one member away from true evidence, are of one
\* session: whatever ties a file to the capture receipt does so in two ways
\* that have no member in common.
LEMMA AgreementIsOneSession ==
  ASSUME NEW e, NEW c, TrueEvidence(e), OneMemberAltered(e, c), Agreed(c),
         ~(c.proposal.form = "object" /\ c.proposal_source = 0),
         NEW f \in InEvidence(c)
  PROVE  c.session[f] = c.session["capture"]
<1> DEFINE s == c.session
<1>1. PICK m \in DOMAIN Members(e) : \A n \in DOMAIN Members(e) \ {m} : Members(c)[n] = Members(e)[n]
  BY DEF OneMemberAltered
<1>2. /\ m # "exact" => c.capture.exact = e.capture.exact
      /\ m # "address" => c.manifest.address = e.manifest.address
      /\ m # "captured_ref" => c.receipt.captured_ref = e.receipt.captured_ref
      /\ m # "artifact_digest" => c.proposal.artifact_digest = e.proposal.artifact_digest
      /\ m # "subject_ref" => c.ingest.subject_ref = e.ingest.subject_ref
      /\ m # "source_artifact_id" => c.ingest.source_artifact_id = e.ingest.source_artifact_id
      /\ m # "anchors" => AnchorDigests(c) = AnchorDigests(e)
  BY <1>1 DEF Members
<1>3. /\ m # "capture_locator" => c.capture.locator = e.capture.locator
      /\ m # "manifest_locator" => c.manifest.locator = e.manifest.locator
      /\ m # "binding_locator" => c.binding.locator = e.binding.locator
      /\ m # "reference" => R1a(c.binding) = R1a(e.binding)
      /\ m # "reference_id" => c.receipt.reference_id = e.receipt.reference_id
      /\ m # "extraction_ref" => c.ingest.extraction_ref = e.ingest.extraction_ref
      /\ m # "output_hash" => c.ingest.derivation.output_hash = e.ingest.derivation.output_hash
  BY <1>1 DEF Members
<1>4. \A named \in {CapturesNamed(e), LocatorsNamed(e), ReferencesNamed(e), ExtractionsNamed(e)} :
        \A x, y \in named : x[2] = y[2] /\ x[2] # 0 => s[x[1]] = s[y[1]]
  BY DEF TrueEvidence, OneMemberAltered
<1>j. ASSUME NEW named \in {CapturesNamed(e), LocatorsNamed(e), ReferencesNamed(e), ExtractionsNamed(e)},
             NEW g, NEW h, NEW v, <<g, v>> \in named, <<h, v>> \in named, v # 0
      PROVE  s[g] = s[h]
  <2>1. <<g, v>>[2] = v /\ <<h, v>>[2] = v /\ <<g, v>>[1] = g /\ <<h, v>>[1] = h
    OBVIOUS
  <2> QED BY <1>4, <1>j, <2>1
<1>a. /\ c.capture.exact # 0 /\ c.capture.exact = c.manifest.address /\ c.capture.exact = c.receipt.captured_ref
      /\ c.binding.locator # 0 /\ c.binding.locator = c.capture.locator /\ c.binding.locator = c.manifest.locator
      /\ R1a(c.binding) # 0 /\ R1a(c.binding) = c.receipt.reference_id
  BY DEF Agreed
<1> HIDE DEF s
\* The links, by what the files of the true evidence name.
<1>5. /\ e.capture.exact = e.manifest.address /\ e.capture.exact # 0 => s["capture"] = s["manifest"]
      /\ e.capture.exact = e.receipt.captured_ref /\ e.capture.exact # 0 => s["capture"] = s["receipt"]
  BY <1>j DEF CapturesNamed
<1>6. /\ e.binding.locator = e.capture.locator /\ e.binding.locator # 0 => s["capture"] = s["binding"]
      /\ e.capture.locator = e.manifest.locator /\ e.capture.locator # 0 => s["capture"] = s["manifest"]
  BY <1>j DEF LocatorsNamed
<1>7. R1a(e.binding) = e.receipt.reference_id /\ R1a(e.binding) # 0 => s["receipt"] = s["binding"]
  BY <1>j DEF ReferencesNamed
<1>8. s["manifest"] = s["capture"]
  <2>1. CASE m \in {"exact", "address"}
    BY <1>3, <1>6, <1>a, <2>1
  <2>2. CASE m \notin {"exact", "address"}
    BY <1>2, <1>5, <1>a, <2>2
  <2> QED BY <2>1, <2>2
<1>9. s["receipt"] = s["capture"] /\ s["binding"] = s["capture"]
  <2>1. CASE m \in {"exact", "captured_ref"}
    <3>1. s["capture"] = s["binding"]
      BY <1>3, <1>6, <1>a, <2>1
    <3>2. s["receipt"] = s["binding"]
      BY <1>3, <1>7, <1>a, <2>1
    <3> QED BY <3>1, <3>2
  <2>2. CASE m \in {"binding_locator", "capture_locator"}
    <3>1. s["capture"] = s["receipt"]
      BY <1>2, <1>5, <1>a, <2>2
    <3>2. s["receipt"] = s["binding"]
      BY <1>3, <1>7, <1>a, <2>2
    <3> QED BY <3>1, <3>2
  <2>3. CASE m \notin {"exact", "captured_ref", "binding_locator", "capture_locator"}
    <3>1. s["capture"] = s["receipt"]
      BY <1>2, <1>5, <1>a, <2>3
    <3>2. s["capture"] = s["binding"]
      BY <1>3, <1>6, <1>a, <2>3
    <3> QED BY <3>1, <3>2
  <2> QED BY <2>1, <2>2, <2>3
\* Capture receipt and manifest name the captured bytes, one of them still as
\* it did.
<1>10. PICK k \in {"capture", "manifest"} : <<k, c.capture.exact>> \in CapturesNamed(e)
                                            /\ (m \notin {"exact", "address"} => k = "capture")
  <2>1. CASE m = "exact"
    BY <1>2, <1>a, <2>1 DEF CapturesNamed
  <2>2. CASE m # "exact"
    BY <1>2, <2>2 DEF CapturesNamed
  <2> QED BY <2>1, <2>2
<1>11. ASSUME NEW g, <<g, c.capture.exact>> \in CapturesNamed(e) PROVE s[g] = s["capture"]
  <2>1. s[g] = s[k]
    BY <1>j, <1>10, <1>11, <1>a
  <2> QED BY <2>1, <1>8, <1>10
<1>12. c.capture.exact \in NamedIn(CapturesNamed(e))
  <2>1. <<k, c.capture.exact>>[2] = c.capture.exact
    OBVIOUS
  <2> QED BY <1>10, <1>a, <2>1 DEF NamedIn
<1>13. CASE f = "captured_source"
  <2>1. c.captured_source # 0
    BY <1>13 DEF InEvidence
  <2>2. c.captured_source = c.capture.exact
    BY <2>1 DEF Agreed
  <2>3. c.captured_source = e.captured_source
    BY <2>2, <1>12 DEF OneMemberAltered
  <2>4. <<"captured_source", c.capture.exact>> \in CapturesNamed(e)
    BY <2>2, <2>3 DEF CapturesNamed
  <2> QED BY <1>11, <1>13, <2>4 DEF s
<1>14. CASE f = "proposal_source"
  <2>1. c.proposal_source # 0 /\ c.proposal.form # "omitted"
    BY <1>14 DEF InEvidence
  <2>2. c.proposal_source = c.capture.exact
    BY <2>1 DEF Agreed
  <2>3. c.proposal_source = e.proposal_source
    BY <2>2, <1>12 DEF OneMemberAltered
  <2>4. <<"proposal_source", c.capture.exact>> \in CapturesNamed(e)
    BY <2>2, <2>3 DEF CapturesNamed
  <2> QED BY <1>11, <1>14, <2>4 DEF s
<1>15. CASE f = "proposal"
  <2>1. c.proposal.form # "omitted"
    BY <1>15 DEF InEvidence
  <2>2. /\ c.proposal.form = "object" /\ c.proposal_source # 0
        /\ c.proposal.artifact_digest = c.capture.exact /\ AnchorDigests(c) \subseteq {c.capture.exact}
    BY <2>1 DEF Agreed
  <2>3. AnchorDigests(e) # {}
    BY <2>2 DEF TrueEvidence, OneMemberAltered
  <2>4. <<"proposal", c.capture.exact>> \in CapturesNamed(e)
    <3>1. CASE m = "artifact_digest"
      <4>1. c.capture.exact \in AnchorDigests(e)
        BY <1>2, <2>2, <2>3, <3>1
      <4> QED BY <4>1 DEF CapturesNamed
    <3>2. CASE m # "artifact_digest"
      BY <1>2, <2>2, <3>2 DEF CapturesNamed
    <3> QED BY <3>1, <3>2
  <2> QED BY <1>11, <1>15, <2>4 DEF s
<1>16. c.ingest.form # "omitted" => s["ingest"] = s["capture"]
  <2> HAVE c.ingest.form # "omitted"
  <2>1. c.ingest.subject_ref = c.capture.exact /\ c.ingest.source_artifact_id = c.capture.exact
    BY DEF Agreed
  <2>2. <<"ingest", c.capture.exact>> \in CapturesNamed(e)
    <3>1. CASE m = "subject_ref"
      BY <1>2, <2>1, <3>1 DEF CapturesNamed
    <3>2. CASE m # "subject_ref"
      BY <1>2, <2>1, <3>2 DEF CapturesNamed
    <3> QED BY <3>1, <3>2
  <2> QED BY <1>11, <2>2
<1>17. CASE f = "ingest"
  <2>1. c.ingest.form # "omitted"
    BY <1>17 DEF InEvidence
  <2> QED BY <1>16, <1>17, <2>1 DEF s
<1>18. CASE f = "extraction"
  <2>1. c.ingest.form # "omitted"
    BY <1>18 DEF InEvidence
  <2>2. /\ c.extraction # 0 /\ c.extraction = c.ingest.extraction_ref
        /\ c.extraction = c.ingest.derivation.output_hash
    BY <2>1 DEF Agreed
  <2>3. <<"ingest", c.extraction>> \in ExtractionsNamed(e)
    <3>1. CASE m = "extraction_ref"
      BY <1>3, <2>2, <3>1 DEF ExtractionsNamed
    <3>2. CASE m # "extraction_ref"
      BY <1>3, <2>2, <3>2 DEF ExtractionsNamed
    <3> QED BY <3>1, <3>2
  <2>4. c.extraction \in NamedIn(ExtractionsNamed(e))
    <3>1. <<"ingest", c.extraction>>[2] = c.extraction
      OBVIOUS
    <3> QED BY <2>2, <2>3, <3>1 DEF NamedIn
  <2>5. c.extraction = e.extraction
    BY <2>4 DEF OneMemberAltered
  <2>6. <<"extraction", c.extraction>> \in ExtractionsNamed(e)
    BY <2>5 DEF ExtractionsNamed
  <2>7. s["extraction"] = s["ingest"]
    BY <1>j, <2>2, <2>3, <2>6
  <2> QED BY <1>16, <1>18, <2>1, <2>7 DEF s
<1>19. f \in {"binding", "manifest", "capture", "receipt", "proposal", "proposal_source", "ingest", "extraction",
              "captured_source"}
  BY DEF InEvidence
<1> QED  BY <1>8, <1>9, <1>13, <1>14, <1>15, <1>17, <1>18, <1>19 DEF s

\* verify and main of source_work_sequence.py over the files of any capture
\* sessions that have nothing they name in common, with at most one member
\* altered: exit 0 means that all files in evidence are of one session.
THEOREM LineageIsSingle == ASSUME MaxFaults <= 1 PROVE WorkSpec => []SingleLineage
<1>1. WorkInit => OriginInv
  BY DEF WorkInit, OriginInv
<1>2. WorkTypeOK /\ OriginInv /\ [WorkNext]_work_vars => OriginInv'
  BY OriginStep
<1>3. WorkTypeOK /\ AxesInv /\ OriginInv => SingleLineage
  <2> SUFFICES ASSUME WorkTypeOK, AxesInv, OriginInv, exit = 0, Sequence,
                      ~(ev.proposal.form = "object" /\ ev.proposal_source = 0)
               PROVE  Cardinality(Sessions(ev)) = 1
    BY DEF SingleLineage
  <2>1. pc = "done"
    BY DEF WorkTypeOK, AxesInv
  <2>2. Agreed(ev)
    BY <2>1, ExitZeroAgrees
  <2>3. PICK e \in Evidence : OneMemberAltered(e, ev)
    <3>1. faults = 0 \/ faults = 1
      BY FaultsAssumption DEF WorkTypeOK
    <3>2. CASE faults = 0
      <4>1. "exact" \in DOMAIN Members(ev)
        BY DEF Members
      <4>2. OneMemberAltered(ev, ev)
        BY <4>1 DEF OneMemberAltered
      <4> QED BY <3>2, <4>2 DEF OriginInv
    <3>3. CASE faults = 1
      BY <3>3, EvidenceAssumption DEF OriginInv
    <3> QED BY <3>1, <3>2, <3>3
  <2>4. TrueEvidence(e)
    BY EvidenceAssumption
  <2>5. \A f \in InEvidence(ev) : ev.session[f] = ev.session["capture"]
    BY <2>2, <2>3, <2>4, AgreementIsOneSession
  <2>6. "capture" \in InEvidence(ev)
    BY DEF InEvidence
  <2>7. Sessions(ev) = {ev.session["capture"]}
    BY <2>5, <2>6 DEF Sessions
  <2> QED BY <2>7, FS_Singleton
<1> QED  BY <1>1, <1>2, <1>3, AxesInvariant, PTL DEF WorkSpec

----------------------------------------------------------------------------
(* The grounding program of SourceWorkSequence.                            *)

\* Of a proposal that main of acquisition_grounding.py ends with 0 for: each
\* extractive field is, up to white space, the span of the projection its
\* anchor gives, and anchor and proposal name the page supplied.
GroundedInProjection ==
  pc = "done" /\ exit = 0 /\ "grounding_integrity" \in DOMAIN axes =>
    \A k \in DOMAIN ev.proposal.grounding :
      LET g == ev.proposal.grounding[k]
          text == project_html_visible_text(ev.proposal_source)
      IN g.kind = "extractive" =>
           /\ g.anchor.artifact_digest = ev.proposal_source
           /\ ev.proposal.artifact_digest = ev.proposal_source
           /\ SpanInRange(g.anchor, text)
           /\ SpanMatches(g.anchor, ev.proposal.fields[g.field_index + 1], text)

\* Only that program reports an axis grounding_integrity, as it ends.
GroundInv ==
  "grounding_integrity" \in DOMAIN axes =>
    /\ pc = "done" /\ axes = GroundingAxes(ev.proposal, ev.proposal_source, ev.schema)
    /\ exit = 0 => \A a \in DOMAIN axes : axes[a] # "FAIL"

\* One step keeps it.
LEMMA GroundStep == GroundInv /\ [WorkNext]_work_vars => GroundInv'
<1> SUFFICES ASSUME GroundInv, [WorkNext]_work_vars PROVE GroundInv'
  OBVIOUS
<1>0. pc # "done" => "grounding_integrity" \notin DOMAIN axes
  BY DEF GroundInv
<1>1. ASSUME pc # "done", axes' = axes PROVE GroundInv'
  BY <1>0, <1>1 DEF GroundInv
<1>2. ASSUME pc # "done", NEW a, NEW value, a # "grounding_integrity", AddAxis(a, value) PROVE GroundInv'
  <2>1. DOMAIN axes' = DOMAIN axes \cup {a}
    BY <1>2, AddAxisKeeps
  <2> QED BY <1>0, <1>2, <2>1 DEF GroundInv
<1>3. CASE AlterEvidence \/ SubmitEvidence \/ LoadSequence \/ CheckProposalRaises
  BY <1>1, <1>3 DEF AlterEvidence, SubmitEvidence, LoadSequence, CheckProposalRaises, WorkRaises
<1>4. CASE VerifyGrounding
  <2>1. CASE axes' = axes
    BY <1>1, <1>4, <2>1 DEF VerifyGrounding
  <2>2. CASE axes' # axes
    <3>1. /\ axes' = GroundingAxes(ev.proposal, ev.proposal_source, ev.schema) /\ ev' = ev
          /\ End(IF \E a \in DOMAIN axes' : axes'[a] = "FAIL" THEN 1 ELSE 0)
      BY <1>4, <2>2 DEF VerifyGrounding, WorkRaises
    <3>2. pc' = "done" /\ (exit' = 0 => \A a \in DOMAIN axes' : axes'[a] # "FAIL")
      BY <3>1 DEF End
    <3> QED BY <3>1, <3>2 DEF GroundInv
  <2> QED BY <2>1, <2>2
<1>5. CASE CheckCapture
  <2>1. DOMAIN axes' = {"artifact_integrity", "capture_linkage"}
    BY <1>5 DEF CheckCapture
  <2> QED BY <2>1 DEF GroundInv
<1>6. CASE CheckDeclaration \/ CheckProposal
  <2>1. pc # "done"
    BY <1>6 DEF CheckDeclaration, CheckProposal
  <2>2. \/ axes' = axes
        \/ \E value : AddAxis("declaration_binding_linkage", value)
        \/ \E value : AddAxis("proposal_grounding", value)
    BY <1>6 DEF CheckDeclaration, CheckProposal, WorkRaises
  <2> QED BY <1>1, <1>2, <2>1, <2>2
<1>7. CASE CheckNoProposal \/ CheckIngest \/ CheckCitation
  <2>1. pc # "done"
    BY <1>7 DEF CheckNoProposal, CheckIngest, CheckCitation
  <2>2. \/ \E value : AddAxis("proposal_grounding", value)
        \/ \E value : AddAxis("ingest_linkage", value)
        \/ \E value : AddAxis("citation_pack_linkage", value)
    BY <1>7 DEF CheckNoProposal, CheckIngest, CheckCitation
  <2> QED BY <1>2, <2>1, <2>2
<1>8. CASE UNCHANGED work_vars
  BY <1>8 DEF work_vars, GroundInv
<1> QED  BY <1>3, <1>4, <1>5, <1>6, <1>7, <1>8 DEF WorkNext

\* No finding fails, so the fields are bound and no conclusion about anchors
\* is left open; and an entry without findings has a span that matches.
LEMMA NoFailGrounds ==
  ASSUME NEW v, NEW page, NEW schema,
         \A a \in DOMAIN GroundingAxes(v, page, schema) : GroundingAxes(v, page, schema)[a] # "FAIL",
         NEW k \in DOMAIN v.grounding, v.grounding[k].kind = "extractive"
  PROVE  LET g == v.grounding[k]
             text == project_html_visible_text(page)
         IN /\ g.anchor.artifact_digest = page /\ v.artifact_digest = page
            /\ SpanInRange(g.anchor, text) /\ SpanMatches(g.anchor, v.fields[g.field_index + 1], text)
<1> DEFINE c == GroundingConcl(v, page, schema)
<1> DEFINE g == v.grounding[k]
<1> DEFINE text == project_html_visible_text(page)
<1>1. Fold(c, ArtifactConclusions) # "FAIL" /\ Fold(c, GroundingConclusions) # "FAIL"
  BY DEF GroundingAxes
<1>2. /\ DOMAIN c = ArtifactConclusions \cup GroundingConclusions \cup PostureConclusions
      /\ \A n \in DOMAIN c : c[n] = IF GroundingUnevaluated(v, schema, n) THEN "NOT_EVALUATED"
                                    ELSE IF GroundingHolds(v, page, schema, n) THEN "PASS" ELSE "FAIL"
  BY DEF GroundingConcl
<1> HIDE DEF c
<1>3. \A n \in ArtifactConclusions \cup GroundingConclusions : c[n] # "FAIL"
  BY <1>1, <1>2 DEF Fold
<1>4. \A n \in ArtifactConclusions \cup GroundingConclusions :
        ~GroundingUnevaluated(v, schema, n) => GroundingHolds(v, page, schema, n)
  BY <1>2, <1>3
<1>5. v.artifact_digest = page
  <2>1. ~GroundingUnevaluated(v, schema, "artifact_digest_recomputes")
    BY DEF GroundingUnevaluated
  <2>2. GroundingHolds(v, page, schema, "artifact_digest_recomputes")
    BY <1>4, <2>1 DEF ArtifactConclusions
  <2> QED BY <2>2 DEF GroundingHolds
<1>6. BindingOk(v)
  <2>1. ~GroundingUnevaluated(v, schema, "field_grounding_binding")
    BY DEF GroundingUnevaluated
  <2>2. GroundingHolds(v, page, schema, "field_grounding_binding")
    BY <1>4, <2>1 DEF GroundingConclusions
  <2> QED BY <2>2 DEF GroundingHolds
<1>7. AnchorCodes(v, page) \subseteq {"abstractive_carries_anchor"}
  <2>1. ~GroundingUnevaluated(v, schema, "extractive_anchors_recompute")
    BY <1>6 DEF GroundingUnevaluated
  <2>2. GroundingHolds(v, page, schema, "extractive_anchors_recompute")
    BY <1>4, <2>1 DEF GroundingConclusions
  <2> QED BY <2>2 DEF GroundingHolds
<1>8. EntryCodes(v, g, text) \subseteq {"abstractive_carries_anchor"}
  BY <1>7 DEF AnchorCodes
<1> HIDE DEF text
<1>9. g.anchor.form = "object"
  <2>1. g.anchor.form # "object" => "extractive_anchor_missing" \in EntryCodes(v, g, text)
    BY DEF EntryCodes
  <2> QED BY <1>8, <2>1
<1>10. g.anchor.artifact_digest = v.artifact_digest
  <2>1. g.anchor.artifact_digest # v.artifact_digest =>
          "anchor_artifact_digest_mismatch" \in EntryCodes(v, g, text)
    BY <1>9 DEF EntryCodes
  <2> QED BY <1>8, <2>1
<1>11. SpanInRange(g.anchor, text)
  <2>1. ~SpanInRange(g.anchor, text) => "anchor_span_out_of_range" \in EntryCodes(v, g, text)
    BY <1>9 DEF EntryCodes
  <2> QED BY <1>8, <2>1
<1>12. SpanMatches(g.anchor, v.fields[g.field_index + 1], text)
  <2>1. ~SpanMatches(g.anchor, v.fields[g.field_index + 1], text) =>
          "anchor_span_text_mismatch" \in EntryCodes(v, g, text)
    BY <1>9, <1>11 DEF EntryCodes
  <2> QED BY <1>8, <2>1
<1> QED  BY <1>5, <1>10, <1>11, <1>12 DEF text

\* acquisition_grounding.py as a program: exit 0 grounds every extractive
\* field in the projection of the page that was supplied, although main asks
\* only that no axis is FAIL and an axis may be PARTIAL.  For any proposal,
\* page and number of alterations.
THEOREM ExitZeroIsGrounded == WorkSpec => []GroundedInProjection
<1>1. WorkInit => GroundInv
  BY DEF WorkInit, GroundInv
<1>2. GroundInv => GroundedInProjection
  <2> SUFFICES ASSUME GroundInv, exit = 0, "grounding_integrity" \in DOMAIN axes,
                      NEW k \in DOMAIN ev.proposal.grounding, ev.proposal.grounding[k].kind = "extractive"
               PROVE  LET g == ev.proposal.grounding[k]
                          text == project_html_visible_text(ev.proposal_source)
                      IN /\ g.anchor.artifact_digest = ev.proposal_source
                         /\ ev.proposal.artifact_digest = ev.proposal_source
                         /\ SpanInRange(g.anchor, text)
                         /\ SpanMatches(g.anchor, ev.proposal.fields[g.field_index + 1], text)
    BY DEF GroundedInProjection
  <2>1. \A a \in DOMAIN GroundingAxes(ev.proposal, ev.proposal_source, ev.schema) :
          GroundingAxes(ev.proposal, ev.proposal_source, ev.schema)[a] # "FAIL"
    BY DEF GroundInv
  <2> QED BY <2>1, NoFailGrounds
<1> QED  BY <1>1, <1>2, GroundStep, PTL DEF WorkSpec
=============================================================================
