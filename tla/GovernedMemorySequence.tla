----------------------- MODULE GovernedMemorySequence -----------------------
(***************************************************************************)
(* arcs_verify/governed_memory_sequence.py: what                           *)
(* verify_governed_memory_sequence finds of a bundle of a read request,    *)
(* the decision on it, the context packet that answers it, and optional    *)
(* source descriptors, exclusion declarations and replay evidence.         *)
(*                                                                         *)
(* Members are numbers: 0 is missing, null or empty, -1 a true value that  *)
(* is no string, anything else a string.  `raw' says that a forbidden key  *)
(* occurs at some depth of an artifact (_all_keys, _check_raw_content).    *)
(* reads is not in the file: it names the reads its artifacts are of.      *)
(***************************************************************************)
EXTENDS SequenceCommand, FiniteSets

CONSTANTS
  Bundles,             \* the bundles put together of the artifacts of reads (external)
  AlteredBundles(_)    \* the bundles one alteration away from a bundle (external)

VARIABLES
  issued,              \* history: the bundle as it was put together
  bundle,              \* the bundle file
  codes                \* the report's finding codes

memory_vars == <<issued, bundle, faults, pc, concl, codes, exit>>

Structural ==
  {"request_present", "decision_present", "packet_present", "request_decision_linkage",
   "decision_packet_linkage", "subject_continuity", "scope_continuity", "replay_evidence_clean",
   "raw_content_posture_valid", "reopening_refs_valid"}

\* Evaluated only when the bundle has what they compare.
Optional == {"source_descriptor_refs_present", "exclusion_declarations_present", "packet_digest_match"}

MemoryConclusions == Structural \cup Optional \cup {"stale_authorization_declared"}

Presence == {"request_present", "decision_present", "packet_present"}

\* Mutant: a conclusion that is not evaluated fails the report.
PassedOnlyTrue(cs) == \A c \in Structural \cup Optional : cs[c] = "true"

\* The property `passed' of the report.
MemoryPassed(cs) == (\A c \in Structural : cs[c] = "true") /\ (\A c \in Optional : cs[c] # "false")

IsText(x) == x > 0

\* Python's `a or b'.
Or(a, b) == IF a # 0 THEN a ELSE b

----------------------------------------------------------------------------
(* One operator per conclusion: the codes of its findings.                 *)

\* The first thing missing, in the order the code asks.
RequestCodes(b) ==
  CASE ~b.request.object -> {"memory_read_request_absent"}
    [] b.request.object /\ ~IsText(b.request.request_id) -> {"request_missing_request_id"}
    [] b.request.object /\ IsText(b.request.request_id) /\ ~IsText(b.request.subject_ref) ->
         {"request_missing_subject_ref"}
    [] OTHER -> {}

DecisionCodes(b) ==
  CASE ~b.decision.object -> {"authorization_decision_absent"}
    [] b.decision.object /\ ~IsText(b.decision.decision_id) -> {"decision_missing_decision_id"}
    [] b.decision.object /\ IsText(b.decision.decision_id) /\ ~IsText(b.decision.disposition) ->
         {"decision_missing_disposition"}
    [] OTHER -> {}

PacketCodes(b) ==
  CASE ~b.packet.object -> {"context_packet_absent"}
    [] b.packet.object /\ ~IsText(b.packet.packet_id) -> {"packet_missing_packet_id"}
    [] b.packet.object /\ IsText(b.packet.packet_id) /\ ~IsText(b.packet.packet_hash) ->
         {"packet_missing_packet_hash"}
    [] OTHER -> {}

\* Any of them missing ends the verification.
CorePresent(b) == RequestCodes(b) \cup DecisionCodes(b) \cup PacketCodes(b) = {}

ReplayId(b) == IF b.replay.object THEN Or(b.replay.replay_id, b.replay.artifact_id) ELSE 0

CoreIds(b) == <<b.request.request_id, b.decision.decision_id, b.packet.packet_id>>

\* _check_replay over the three ids and the replay evidence's, as a string.
DuplicateCodes(b) ==
  IF \/ \E j, k \in 1 .. 3 : j < k /\ CoreIds(b)[j] = CoreIds(b)[k]
     \/ \E j \in 1 .. 3 : CoreIds(b)[j] = ReplayId(b)
    THEN {"duplicate_artifact_id"} ELSE {}

\* The request a decision names, and the decision a packet names.
RequestRef(b) == Or(b.decision.request_ref, b.decision.request_id_ref)

DecisionRef(b) == Or(b.packet.decision_ref, b.packet.authorization_decision_ref)

RequestLinkCodes(b) ==
  LET ref == RequestRef(b)
  IN IF ~IsText(ref) THEN {"decision_missing_request_ref"}
     ELSE IF ref # b.request.request_id THEN {"decision_request_ref_mismatch"} ELSE {}

PacketLinkCodes(b) ==
  LET ref == DecisionRef(b)
  IN IF ~IsText(ref) THEN {"packet_missing_decision_ref"}
     ELSE IF ref # b.decision.decision_id THEN {"packet_decision_ref_mismatch"} ELSE {}

Declared(refs) == {r \in refs : IsText(r)}

\* Mutant: the request's subject is left out of the comparison.
SubjectCodesUnrequested(b) ==
  LET subjects == Declared({b.decision.subject_ref, b.packet.subject_ref})
  IN IF Cardinality(subjects) > 1 THEN {"subject_ref_discontinuity"} ELSE {}

SubjectCodes(b) ==
  LET subjects == Declared({b.request.subject_ref, b.decision.subject_ref, b.packet.subject_ref})
  IN IF Cardinality(subjects) > 1 THEN {"subject_ref_discontinuity"}
     ELSE IF subjects = {} THEN {"subject_ref_absent"} ELSE {}

ScopeCodes(b) ==
  IF Cardinality(Declared({b.request.scope_ref, b.decision.scope_ref, b.packet.scope_ref})) > 1
    THEN {"scope_ref_discontinuity"} ELSE {}

\* source_refs of the packet and of its evidence manifest.
PacketSources(b) == Declared(b.packet.source_refs \cup b.packet.evidence_manifest.source_refs)

DescriptorCodes(b) ==
  CASE b.descriptors.form = "other" -> {"source_descriptors_malformed"}
    [] b.descriptors.form = "list" /\ ~(PacketSources(b) \subseteq b.descriptors.refs) ->
         {"source_descriptor_refs_unresolved"}
    [] OTHER -> {}

\* The bundle's declarations must cover the request's.
ExclusionCodes(b) ==
  CASE b.exclusions.form = "other" -> {"exclusion_declarations_malformed"}
    [] b.exclusions.form = "list" /\ ~(b.request.excluded \subseteq b.exclusions.classes) ->
         {"exclusion_declarations_incomplete"}
    [] OTHER -> {}

\* decision.packet_hash: "null" is not there, otherwise a number as above.
DigestCodes(b) ==
  CASE b.decision.has_packet_hash /\ ~IsText(b.decision.packet_hash) ->
         {"decision_packet_hash_malformed"}
    [] /\ b.decision.has_packet_hash /\ IsText(b.decision.packet_hash)
       /\ b.decision.packet_hash # b.packet.packet_hash -> {"packet_digest_mismatch"}
    [] OTHER -> {}

RawCodes(b) ==
  IF \/ b.request.raw \/ b.decision.raw \/ b.packet.raw
     \/ (b.descriptors.form = "list" /\ b.descriptors.raw)
     \/ (b.replay.object /\ b.replay.raw)
    THEN {"raw_content_posture_violation"} ELSE {}

KnownIds(b) ==
  {CoreIds(b)[k] : k \in 1 .. 3} \cup Declared({ReplayId(b)})

ReopeningCodes(b) ==
  IF Declared({b.packet.reopening_ref} \cup b.packet.reopening_refs) \subseteq KnownIds(b)
    THEN {} ELSE {"reopening_ref_unresolved"}

----------------------------------------------------------------------------
(* What the artifacts say of each other, apart from how the code compares  *)
(* it: the members that should name one thing.                             *)

Comparisons == {"request", "decision", "subject", "scope", "digest"}

NamedAs(b, k) ==
  CASE k = "request" -> <<b.request.request_id, RequestRef(b)>>
    [] k = "decision" -> <<b.decision.decision_id, DecisionRef(b)>>
    [] k = "subject" -> <<b.request.subject_ref, b.decision.subject_ref, b.packet.subject_ref>>
    [] k = "scope" -> <<b.request.scope_ref, b.decision.scope_ref, b.packet.scope_ref>>
    [] k = "digest" ->
         <<b.packet.packet_hash, IF b.decision.has_packet_hash THEN b.decision.packet_hash ELSE 0>>

\* The things that two members name differently.
Disagreements(b) ==
  {k \in Comparisons : \E m, n \in DOMAIN NamedAs(b, k) :
     IsText(NamedAs(b, k)[m]) /\ IsText(NamedAs(b, k)[n]) /\ NamedAs(b, k)[m] # NamedAs(b, k)[n]}

\* An alteration of one member touches one of the comparisons at most.
OneMember(b, c) ==
  \A k, l \in Comparisons : k # l => NamedAs(c, k) = NamedAs(b, k) \/ NamedAs(c, l) = NamedAs(b, l)

----------------------------------------------------------------------------
MemoryCodes(b, c) ==
  CASE c = "request_present" -> RequestCodes(b)
    [] c = "decision_present" -> DecisionCodes(b)
    [] c = "packet_present" -> PacketCodes(b)
    [] c = "replay_evidence_clean" -> DuplicateCodes(b)
    [] c = "request_decision_linkage" -> RequestLinkCodes(b)
    [] c = "decision_packet_linkage" -> PacketLinkCodes(b)
    [] c = "subject_continuity" -> SubjectCodes(b)
    [] c = "scope_continuity" -> ScopeCodes(b)
    [] c = "source_descriptor_refs_present" -> DescriptorCodes(b)
    [] c = "exclusion_declarations_present" -> ExclusionCodes(b)
    [] c = "packet_digest_match" -> DigestCodes(b)
    [] c = "raw_content_posture_valid" -> RawCodes(b)
    [] c = "reopening_refs_valid" -> ReopeningCodes(b)
    [] OTHER -> {}

\* The conclusions an absent optional input leaves alone.
Unevaluated(b, c) ==
  \/ c = "source_descriptor_refs_present" /\ b.descriptors.form = "absent"
  \/ c = "exclusion_declarations_present" /\ b.exclusions.form = "absent" /\ b.request.excluded # {}
  \/ c = "packet_digest_match" /\ ~b.decision.has_packet_hash

MemoryInit ==
  /\ bundle \in Bundles /\ issued = bundle /\ faults = 0 /\ pc = "edit" /\ exit = -1
  /\ concl = [c \in MemoryConclusions |-> "not_evaluated"] /\ codes = {}

AlterBundle ==
  /\ pc = "edit" /\ faults < MaxFaults /\ faults' = faults + 1
  /\ bundle' \in {b \in AlteredBundles(bundle) : OneMember(bundle, b)}
  /\ UNCHANGED <<issued, pc, concl, codes, exit>>

SubmitBundle == pc = "edit" /\ pc' = "main" /\ UNCHANGED <<issued, bundle, faults, concl, codes, exit>>

\* main catches an unreadable file and malformed JSON; UnicodeDecodeError is
\* neither.
LoadBundle ==
  /\ pc = "main"
  /\ \/ bundle.form = "object" /\ pc' = "presence" /\ UNCHANGED exit
     \/ bundle.form \in {"absent", "malformed", "not_object"} /\ pc' = "done" /\ exit' = 2
     \/ bundle.form = "not_utf8" /\ pc' = "raised" /\ exit' = 1
  /\ UNCHANGED <<issued, bundle, faults, concl, codes>>

CheckPresence ==
  /\ pc = "presence"
  /\ codes' = UNION {MemoryCodes(bundle, c) : c \in Presence}
  /\ concl' = [c \in MemoryConclusions |->
                 IF c \in Presence THEN (IF MemoryCodes(bundle, c) = {} THEN "true" ELSE "false")
                 ELSE IF CorePresent(bundle) THEN concl[c] ELSE "false"]
  /\ IF CorePresent(bundle) THEN pc' = "sequence" /\ UNCHANGED exit ELSE pc' = "done" /\ exit' = 1
  /\ UNCHANGED <<issued, bundle, faults>>

\* The conclusions drawn when the three core artifacts are there.
SequenceConclusion(b, c) ==
  IF c = "stale_authorization_declared" THEN (IF IsText(b.decision.not_after) THEN "true" ELSE "false")
  ELSE IF Unevaluated(b, c) THEN "not_evaluated"
  ELSE IF MemoryCodes(b, c) = {} THEN "true" ELSE "false"

\* evidence_manifest.get raises on a true value that is no object.
CheckSequence ==
  /\ pc = "sequence"
  /\ IF bundle.packet.evidence_manifest.not_an_object
       THEN pc' = "raised" /\ exit' = 1 /\ UNCHANGED <<concl, codes>>
       ELSE /\ concl' = [c \in MemoryConclusions |-> IF c \in Presence THEN concl[c]
                                               ELSE SequenceConclusion(bundle, c)]
            /\ codes' = UNION {MemoryCodes(bundle, c) : c \in MemoryConclusions}
            /\ pc' = "done" /\ exit' = IF MemoryPassed(concl') THEN 0 ELSE 1
  /\ UNCHANGED <<issued, bundle, faults>>

MemoryNext == AlterBundle \/ SubmitBundle \/ LoadBundle \/ CheckPresence \/ CheckSequence

MemorySpec == MemoryInit /\ [][MemoryNext]_memory_vars

----------------------------------------------------------------------------
(* What is checked.                                                        *)

MemoryTypeOK ==
  /\ pc \in {"edit", "main", "presence", "sequence", "done", "raised"}
  /\ concl \in [MemoryConclusions -> {"true", "false", "not_evaluated"}]
  /\ faults \in 0 .. MaxFaults
  /\ exit \in -1 .. 2 /\ (exit = -1 <=> pc \notin {"done", "raised"})

\* The artifacts of one governed read pass untouched, with or without the
\* optional ones.
HonestReadPasses ==
  faults = 0 /\ pc = "done" /\ Cardinality(bundle.reads) = 1 => exit = 0

\* Nothing in the file says which read an artifact is of.  A bundle put
\* together of artifacts that disagree in n things passes only after n
\* alterations at the least.  A decision of another read breaks both links,
\* a packet of another read its link and the recorded digest, a request of
\* another subject its link and the continuity of the subject: one altered
\* member cannot hide any of them.  A request of another read by the same
\* subject breaks its link alone, and one altered reference hides it.
ExchangedReadCaught ==
  exit = 0 /\ issued.form = "object" => Cardinality(Disagreements(issued)) <= faults

=============================================================================
