------------------------- MODULE SourceWorkSequence -------------------------
(***************************************************************************)
(* arcs_verify/source_work_sequence.py: the declaration, binding, session  *)
(* manifest, capture receipt and SRS receipt of one captured source, with  *)
(* an optional grounded proposal, ingest receipt and captured bytes; and   *)
(* the command line of acquisition_grounding.py, which looks at the        *)
(* proposal alone.                                                         *)
(*                                                                         *)
(* Contents and digests are numbers as in AcquisitionGrounding; so are     *)
(* inventory keys, locators and ids, 0 being a missing one.  `claims' are  *)
(* the artifacts that carry the profile id of a source_ingest receipt,     *)
(* `pins' the members compared with constants of the module.               *)
(***************************************************************************)
EXTENDS SequenceCommand, AcquisitionGrounding, FiniteSets

CONSTANTS
  Evidence,            \* the evidence put together of capture sessions (external)
  AlteredEvidence(_)   \* the evidence one alteration away (external)

VARIABLES
  ev,                  \* the files
  axes                 \* the axes of the report

work_vars == <<ev, faults, pc, concl, axes, exit>>

----------------------------------------------------------------------------
(* verify: what each conclusion asks.                                      *)

\* derive_source_reference_id; 0 when its inputs are unusable.
R1a(b) == IF IsRef(b.declaring_ref) /\ b.key > 0 THEN 100 * b.declaring_ref + b.key ELSE 0

\* The first artifact of the manifest with the role captured_bytes, as a set.
RawArtifact(m) ==
  LET raw == {k \in DOMAIN m.artifacts : m.artifacts[k].object /\ m.artifacts[k].raw_role}
  IN IF m.artifacts_is_list THEN {m.artifacts[k].sha256 : k \in {j \in raw : \A l \in raw : j <= l}}
     ELSE {}

ArtifactHolds(e) ==
  [governed_declaration_digest_recomputes |->
     IsRef(e.binding.declaring_ref) /\ e.declaration = e.binding.declaring_ref,
   manifest_artifact_refs_wellformed |->
     /\ e.manifest.artifacts_is_list /\ IsRef(e.manifest.address)
     /\ \A k \in DOMAIN e.manifest.artifacts :
          e.manifest.artifacts[k].object /\ IsRef(e.manifest.artifacts[k].sha256)]

CaptureHolds(e) ==
  [acquisition_schema_versions_pinned |-> e.manifest.schema /\ e.capture.schema,
   captured_object_digest_agreement |->
     /\ IsRef(e.capture.exact) /\ e.capture.exact = e.manifest.address
     /\ e.capture.exact = e.receipt.captured_ref /\ RawArtifact(e.manifest) = {e.capture.exact},
   captured_role_is_raw_source |-> RawArtifact(e.manifest) = {e.receipt.captured_ref},
   raw_captured_bytes_recompute |-> e.captured_source = e.capture.exact]

Identity(x) == <<x.declaring_ref, x.key, x.locator>>

DeclarationHolds(e) ==
  [binding_schema_pinned |-> e.binding.schema,
   inventory_key_present |-> e.binding.key > 0,
   manifest_binding_agreement |->
     /\ e.manifest.declaring_ref = e.binding.declaring_ref /\ e.manifest.key = e.binding.key
     /\ Identity(e.manifest.embedded) = Identity(e.binding),
   locator_agreement |->
     /\ e.binding.locator > 0 /\ e.binding.locator = e.capture.locator
     /\ e.binding.locator = e.manifest.locator,
   r1a_reference_recomputes |->
     /\ R1a(e.binding) # 0 /\ R1a(e.binding) # e.manifest.source_id
     /\ \A id \in {e.binding.derived_id, e.receipt.reference_id, e.receipt.subject_ref} :
          id = R1a(e.binding),
   source_capture_binds_declaration |->
     /\ e.receipt.pins /\ e.receipt.declaring_ref = e.binding.declaring_ref
     /\ e.receipt.key = e.binding.key,
   session_is_bound |-> e.manifest.bound_status /\ e.manifest.embedded.form # "empty"]

\* Composed with verify of acquisition_grounding.py.
ProposalHolds(e) ==
  [proposal_lineage_same_source |->
     LET d == e.proposal.artifact_digest
     IN IsRef(d) /\ d = e.capture.exact /\ d = e.receipt.captured_ref,
   proposal_grounding_recomputes |->
     LET report == GroundingAxes(e.proposal, e.proposal_source, e.schema)
     IN \A a \in DOMAIN report : report[a] = "PASS"]

\* Mutant: the ingest receipt is compared with itself only.
IngestHoldsAlone(e) ==
  [source_ingest_identity_binds_capture |->
     /\ e.ingest.pins /\ IsRef(e.ingest.source_artifact_id) /\ e.ingest.derivation.object
     /\ e.ingest.derivation.input_hash = e.ingest.source_artifact_id
     /\ e.ingest.extraction_ref = e.ingest.derivation.output_hash,
   source_ingest_extraction_recomputes |->
     e.extraction # 0 /\ e.extraction = e.ingest.extraction_ref]

IngestHolds(e) ==
  [source_ingest_identity_binds_capture |->
     /\ e.ingest.pins /\ e.ingest.subject_ref = e.capture.exact
     /\ e.ingest.source_artifact_id = e.capture.exact /\ IsRef(e.ingest.source_artifact_id)
     /\ IsRef(e.ingest.pdo_ref) /\ e.ingest.derivation.object
     /\ e.ingest.derivation.input_hash = e.ingest.source_artifact_id
     /\ e.ingest.extraction_ref = e.ingest.derivation.output_hash,
   source_ingest_extraction_recomputes |->
     e.extraction # 0 /\ e.extraction = e.ingest.extraction_ref]

\* Mutant: captured bytes that are not supplied are compared all the same.
UnsuppliedNotRaw(e, n) ==
  \/ n = "governed_declaration_digest_recomputes" /\ e.declaration = 0
  \/ n = "proposal_grounding_recomputes" /\ e.proposal_source = 0

\* NE: bytes that are not in evidence leave their conclusion open.
Unsupplied(e, n) ==
  \/ n = "governed_declaration_digest_recomputes" /\ e.declaration = 0
  \/ n = "raw_captured_bytes_recompute" /\ e.captured_source = 0
  \/ n = "proposal_grounding_recomputes" /\ e.proposal_source = 0

ConcludeFrom(e, holds) ==
  [n \in DOMAIN holds |->
     IF Unsupplied(e, n) THEN "NOT_EVALUATED" ELSE IF holds[n] THEN "PASS" ELSE "FAIL"]

\* Merges the conclusions drawn by one axis into those drawn before.
WithConclusions(new) ==
  [n \in DOMAIN concl \cup DOMAIN new |-> IF n \in DOMAIN new THEN new[n] ELSE concl[n]]

----------------------------------------------------------------------------
(* What is known of the evidence.  e.session says of which capture session *)
(* each file is; it is not in the files.                                   *)

\* The files in evidence (one declaration is common to all sessions).
InEvidence(e) ==
  {"binding", "manifest", "capture", "receipt"}
  \cup (IF e.proposal.form # "omitted" THEN {"proposal"} ELSE {})
  \cup (IF e.proposal.form # "omitted" /\ e.proposal_source # 0 THEN {"proposal_source"} ELSE {})
  \cup (IF e.ingest.form # "omitted" THEN {"ingest", "extraction"} ELSE {})
  \cup (IF e.captured_source # 0 THEN {"captured_source"} ELSE {})

Sessions(e) == {e.session[f] : f \in InEvidence(e)}

AnchorDigests(e) ==
  LET g == e.proposal.grounding
  IN {g[k].anchor.artifact_digest :
        k \in {j \in DOMAIN g : g[j].kind = "extractive" /\ g[j].anchor.form = "object"}}

\* Which file names what: captured bytes, locators, source references and
\* extractions.
CapturesNamed(e) ==
  {<<"capture", e.capture.exact>>, <<"manifest", e.manifest.address>>,
   <<"receipt", e.receipt.captured_ref>>, <<"proposal", e.proposal.artifact_digest>>,
   <<"ingest", e.ingest.subject_ref>>, <<"ingest", e.ingest.source_artifact_id>>,
   <<"captured_source", e.captured_source>>, <<"proposal_source", e.proposal_source>>}
  \cup {<<"proposal", d>> : d \in AnchorDigests(e)}

LocatorsNamed(e) ==
  {<<"capture", e.capture.locator>>, <<"manifest", e.manifest.locator>>, <<"binding", e.binding.locator>>}

ReferencesNamed(e) == {<<"binding", R1a(e.binding)>>, <<"receipt", e.receipt.reference_id>>}

ExtractionsNamed(e) ==
  {<<"extraction", e.extraction>>, <<"ingest", e.ingest.extraction_ref>>,
   <<"ingest", e.ingest.derivation.output_hash>>}

\* Files that name the same thing are of one session, and a proposal has an
\* extractive field.
TrueEvidence(e) ==
  /\ \A named \in {CapturesNamed(e), LocatorsNamed(e), ReferencesNamed(e), ExtractionsNamed(e)} :
       \A x, y \in named : x[2] = y[2] /\ x[2] # 0 => e.session[x[1]] = e.session[y[1]]
  /\ e.proposal.form = "object" => AnchorDigests(e) # {}

\* What an alteration of one member changes at most one of.
Members(e) ==
  [exact |-> e.capture.exact, address |-> e.manifest.address, captured_ref |-> e.receipt.captured_ref,
   artifact_digest |-> e.proposal.artifact_digest, subject_ref |-> e.ingest.subject_ref,
   source_artifact_id |-> e.ingest.source_artifact_id, capture_locator |-> e.capture.locator,
   manifest_locator |-> e.manifest.locator, binding_locator |-> e.binding.locator,
   reference |-> R1a(e.binding), reference_id |-> e.receipt.reference_id,
   extraction_ref |-> e.ingest.extraction_ref, output_hash |-> e.ingest.derivation.output_hash,
   anchors |-> AnchorDigests(e)]

NamedIn(named) == {x[2] : x \in named} \ {0}

\* Altered bytes are bytes that no file names, and no alteration adds a
\* proposal.
OneMemberAltered(e, c) ==
  /\ c.session = e.session /\ (c.proposal.form = "object" => e.proposal.form = "object")
  /\ \/ c.captured_source = e.captured_source
     \/ c.captured_source \notin NamedIn(CapturesNamed(e))
  /\ \/ c.proposal_source = e.proposal_source
     \/ c.proposal_source \notin NamedIn(CapturesNamed(e))
  /\ c.extraction = e.extraction \/ c.extraction \notin NamedIn(ExtractionsNamed(e))
  /\ \E m \in DOMAIN Members(e) : \A n \in DOMAIN Members(e) \ {m} : Members(c)[n] = Members(e)[n]

ASSUME EvidenceAssumption ==
  \A e \in Evidence : TrueEvidence(e) /\ \A c \in AlteredEvidence(e) : OneMemberAltered(e, c)

----------------------------------------------------------------------------
AxisNames ==
  {"artifact_integrity", "capture_linkage", "declaration_binding_linkage", "proposal_grounding",
   "ingest_linkage", "citation_pack_linkage"}

WorkInit ==
  /\ ev \in Evidence /\ faults = 0 /\ pc = "edit" /\ exit = -1
  /\ concl = [n \in {} |-> "PASS"] /\ axes = [a \in {} |-> "PASS"]

AlterEvidence ==
  /\ pc = "edit" /\ faults < MaxFaults /\ faults' = faults + 1 /\ ev' \in AlteredEvidence(ev)
  /\ UNCHANGED <<pc, concl, axes, exit>>

\* One of the two programs is started.
SubmitEvidence ==
  /\ pc = "edit" /\ pc' \in {"grounding", "load"}
  /\ (pc' = "grounding" => ev.proposal.form # "omitted" /\ ev.proposal_source # 0)
  /\ UNCHANGED <<ev, faults, concl, axes, exit>>

WorkRaises == pc' = "raised" /\ exit' = 1 /\ UNCHANGED <<ev, faults, concl, axes>>

\* Files that cannot be read, parsed or are no object.
UnusableForm(form) == form \in {"absent", "malformed"}

\* main of acquisition_grounding.py.
VerifyGrounding ==
  /\ pc = "grounding"
  /\ CASE UnusableForm(ev.proposal.form) \/ ev.proposal_source = -1 ->
            End(2) /\ UNCHANGED <<ev, faults, concl, axes>>
       [] ~UnusableForm(ev.proposal.form) /\ ev.proposal_source # -1 /\ GroundingRaises(ev.proposal) ->
            WorkRaises
       [] OTHER ->
            /\ axes' = GroundingAxes(ev.proposal, ev.proposal_source, ev.schema)
            /\ concl' = GroundingConcl(ev.proposal, ev.proposal_source, ev.schema)
            /\ End(IF \E a \in DOMAIN axes' : axes'[a] = "FAIL" THEN 1 ELSE 0)
            /\ UNCHANGED <<ev, faults>>

\* load_sequence; a declaration that is no file is merely absent.
LoadSequence ==
  /\ pc = "load"
  /\ IF \/ \E x \in {ev.binding, ev.manifest, ev.capture, ev.receipt, ev.proposal, ev.ingest} :
             UnusableForm(x.form)
        \/ -1 \in {ev.proposal_source, ev.extraction, ev.captured_source}
       THEN End(2)
       ELSE pc' = "integrity" /\ UNCHANGED exit
  /\ UNCHANGED <<ev, faults, concl, axes>>

\* Axes 1 and 2.
CheckCapture ==
  /\ pc = "integrity" /\ pc' = "declaration"
  /\ LET artifact == ConcludeFrom(ev, ArtifactHolds(ev))
         capture == ConcludeFrom(ev, CaptureHolds(ev))
     IN /\ concl' = [n \in DOMAIN artifact \cup DOMAIN capture |->
                       IF n \in DOMAIN artifact THEN artifact[n] ELSE capture[n]]
        /\ axes' = [a \in {"artifact_integrity", "capture_linkage"} |->
                      IF a = "artifact_integrity" THEN Fold(artifact, DOMAIN artifact)
                      ELSE Fold(capture, DOMAIN capture)]
  /\ UNCHANGED <<ev, faults, exit>>

AddAxis(a, value) == axes' = [x \in DOMAIN axes \cup {a} |-> IF x = a THEN value ELSE axes[x]]

\* Axis 3.  The embedded binding is read only if the manifest's own members
\* agree; a true value that is no object raises there.
CheckDeclaration ==
  /\ pc = "declaration"
  /\ LET new == ConcludeFrom(ev, DeclarationHolds(ev)) IN
       IF /\ ev.manifest.embedded.form = "other"
          /\ ev.manifest.declaring_ref = ev.binding.declaring_ref /\ ev.manifest.key = ev.binding.key
         THEN WorkRaises
         ELSE /\ concl' = WithConclusions(new)
              /\ AddAxis("declaration_binding_linkage", Fold(new, DOMAIN new))
              /\ pc' = "proposal" /\ UNCHANGED <<ev, faults, exit>>

\* Axis 4 without a proposal: the manifest's summary must count none.
CheckNoProposal ==
  /\ pc = "proposal" /\ ev.proposal.form = "omitted" /\ ev.manifest.summary # "other"
  /\ LET answer == IF ev.manifest.summary = "zero" THEN "NOT_EVALUATED" ELSE "FAIL" IN
       /\ concl' = WithConclusions([proposal_grounding_absence_consistent |-> answer])
       /\ AddAxis("proposal_grounding", answer)
  /\ pc' = "ingest" /\ UNCHANGED <<ev, faults, exit>>

\* Axis 4 with one.
CheckProposal ==
  /\ pc = "proposal" /\ ev.proposal.form = "object" /\ ev.manifest.summary # "other"
  /\ LET new == ConcludeFrom(ev, ProposalHolds(ev)) IN
       IF ev.proposal_source # 0 /\ GroundingRaises(ev.proposal) THEN WorkRaises
       ELSE /\ concl' = WithConclusions(new)
            /\ AddAxis("proposal_grounding", Fold(new, DOMAIN new))
            /\ pc' = "ingest" /\ UNCHANGED <<ev, faults, exit>>

\* grounding_summary is a true value that is no object.
CheckProposalRaises == pc = "proposal" /\ ev.manifest.summary = "other" /\ WorkRaises

\* Axis 5: a source_ingest receipt is checked when it was asked for and is an
\* unexpected claim everywhere else.
CheckIngest ==
  /\ pc = "ingest" /\ pc' = "citation"
  /\ LET new == ConcludeFrom(ev, IngestHolds(ev)) IN
       IF ev.claims # {} THEN AddAxis("ingest_linkage", "FAIL") /\ UNCHANGED concl
       ELSE IF ev.ingest.form = "omitted" THEN AddAxis("ingest_linkage", "NOT_EVALUATED") /\ UNCHANGED concl
       ELSE concl' = WithConclusions(new) /\ AddAxis("ingest_linkage", Fold(new, DOMAIN new))
  /\ UNCHANGED <<ev, faults, exit>>

\* Axis 6, and main's exit status.
CheckCitation ==
  /\ pc = "citation"
  /\ AddAxis("citation_pack_linkage", IF ev.citation_pack THEN "PARTIAL" ELSE "NOT_EVALUATED")
  /\ End(IF \E a \in AxisNames : axes'[a] = "FAIL" THEN 1 ELSE 0)
  /\ UNCHANGED <<ev, faults, concl>>

WorkNext ==
  AlterEvidence \/ SubmitEvidence \/ VerifyGrounding \/ LoadSequence \/ CheckCapture \/ CheckDeclaration
    \/ CheckNoProposal \/ CheckProposal \/ CheckProposalRaises \/ CheckIngest \/ CheckCitation

WorkSpec == WorkInit /\ [][WorkNext]_work_vars

----------------------------------------------------------------------------
(* What is checked.                                                        *)

Values == {"PASS", "FAIL", "PARTIAL", "NOT_EVALUATED"}

WorkTypeOK ==
  /\ pc \in {"edit", "grounding", "load", "integrity", "declaration", "proposal", "ingest",
              "citation", "done", "raised"}
  /\ \A n \in DOMAIN concl : concl[n] \in Values \ {"PARTIAL"}
  /\ \A a \in DOMAIN axes : axes[a] \in Values
  /\ faults \in 0 .. MaxFaults /\ exit \in -1 .. 2 /\ (exit = -1 <=> pc \notin {"done", "raised"})

Sequence == "ingest_linkage" \in DOMAIN axes

\* The files of one capture session pass untouched, with and without its
\* optional artifacts; main returns 0 also where axes are left open.
HonestSessionPasses ==
  pc = "done" /\ faults = 0 /\ ev.schema = "pinned" /\ Cardinality(Sessions(ev)) = 1 => exit = 0

\* The verifier's one question: with exit 0 every artifact in evidence is of
\* the same capture session, even when one member was altered so that an
\* artifact of another session fits.  Only of a proposal whose source was not
\* supplied is nothing but the digest compared.
SingleLineage ==
  exit = 0 /\ Sequence /\ ~(ev.proposal.form = "object" /\ ev.proposal_source = 0) =>
    Cardinality(Sessions(ev)) = 1

\* An axis that says PASS was recomputed from bytes: the captured object is
\* the one all artifacts name, the declaration the one the binding cites, and
\* the proposal's page the captured one.  Nothing that was not supplied is
\* upgraded to PASS.
PassIsRecomputed ==
  pc = "done" /\ Sequence =>
    /\ axes.capture_linkage = "PASS" =>
         {ev.capture.exact, ev.manifest.address, ev.receipt.captured_ref} = {ev.captured_source}
    /\ axes.artifact_integrity = "PASS" => ev.declaration = ev.binding.declaring_ref
    /\ axes.proposal_grounding = "PASS" =>
         /\ ev.proposal_source = ev.capture.exact
         /\ ev.proposal_source = ev.proposal.artifact_digest
    /\ axes.ingest_linkage = "PASS" => ev.extraction = ev.ingest.extraction_ref

----------------------------------------------------------------------------
\* The characters of a page outside script and style elements, by position:
\* event k is hidden when the nearest tag before it is a start tag.
Shown(content) ==
  LET evs == Events(content)
      tags == {k \in DOMAIN evs : evs[k].kind # "text"}
      hidden(k) == \E j \in tags : /\ j < k /\ evs[j].kind = "start"
                                   /\ \A l \in tags : l < k => l <= j
      text(k) == IF evs[k].kind = "text" /\ ~hidden(k) THEN evs[k].text \o <<-1>> ELSE <<>>
  IN FlattenSeq([k \in DOMAIN evs |-> text(k)])

\* Exit 0 means that every extractive field stands in the visible text of the
\* very page that was captured: up to white space its value is a piece of the
\* text outside script and style elements, although anchors count characters
\* of the normalized projection and not of the page.
GroundedInVisibleText ==
  pc = "done" /\ exit = 0 /\ "grounding_integrity" \in DOMAIN axes =>
    \A k \in DOMAIN ev.proposal.grounding :
      LET g == ev.proposal.grounding[k]
          shown == Shown(ev.proposal_source)
      IN g.kind = "extractive" =>
           /\ ev.proposal.artifact_digest = ev.proposal_source
           /\ \E s, e \in 0 .. Len(shown) :
                normalize_whitespace(SubSeq(shown, s + 1, e))
                  = normalize_whitespace(ev.proposal.fields[g.field_index + 1].text)

=============================================================================
