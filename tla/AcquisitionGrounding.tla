------------------------ MODULE AcquisitionGrounding ------------------------
(***************************************************************************)
(* arcs_verify/acquisition_grounding.py: verify(envelope, source_bytes),   *)
(* which recomputes where the fields of a content proposal stand in the    *)
(* visible text of a captured page.                                        *)
(*                                                                         *)
(* Contents of files are numbers, and so are their digests: a positive     *)
(* number is the well-formed reference of that content, -1 a value that is *)
(* no such reference, 0 a missing member.  What HTMLParser reports of a    *)
(* content is a sequence of events: the text between two tags, or the      *)
(* start or end tag of a script or style element.  A character is a        *)
(* number; 0 and -1 are white space, -1 the newline.                       *)
(***************************************************************************)
EXTENDS Integers, Sequences, SequencesExt

CONSTANT Events(_)     \* the parser events of a content (external)

IsRef(d) == d > 0

----------------------------------------------------------------------------
(* The projection acquisition.html-visible-text.v0.1.                      *)

IsSpace(c) == c <= 0

\* " ".join(text.split()): of white space one blank is left where it stands
\* right after a word and another word follows.
normalize_whitespace(s) ==
  LET kept(k) == \/ ~IsSpace(s[k])
                 \/ k > 1 /\ ~IsSpace(s[k - 1]) /\ \E j \in k .. Len(s) : ~IsSpace(s[j])
      ks == SelectSeq([k \in DOMAIN s |-> k], kept)
  IN [n \in DOMAIN ks |-> IF IsSpace(s[ks[n]]) THEN 0 ELSE s[ks[n]]]

\* Mutant: every tag leaves the skipped element.
ParseEventFlat(p, ev) ==
  CASE ev.kind = "start" -> [p EXCEPT !.depth = 0]
    [] ev.kind = "end" -> [p EXCEPT !.depth = 0]
    [] ev.kind = "text" /\ p.depth = 0 -> [p EXCEPT !.nodes = Append(@, ev.text)]
    [] OTHER -> p

\* _VisibleTextParser: handle_starttag, handle_endtag, handle_data.
ParseEvent(p, ev) ==
  CASE ev.kind = "start" -> [p EXCEPT !.depth = @ + 1]
    [] ev.kind = "end" /\ p.depth > 0 -> [p EXCEPT !.depth = @ - 1]
    [] ev.kind = "text" /\ p.depth = 0 -> [p EXCEPT !.nodes = Append(@, ev.text)]
    [] OTHER -> p

NonEmpty(s) == s # <<>>

JoinLines(nodes) ==
  FoldLeft(LAMBDA text, node : IF text = <<>> THEN node ELSE text \o <<-1>> \o node, <<>>, nodes)

project_html_visible_text(content) ==
  LET nodes == FoldLeft(ParseEvent, [depth |-> 0, nodes |-> <<>>], Events(content)).nodes
      normalized == [k \in DOMAIN nodes |-> normalize_whitespace(nodes[k])]
  IN JoinLines(SelectSeq(normalized, NonEmpty))

----------------------------------------------------------------------------
(* verify                                                                  *)

ArtifactConclusions == {"artifact_digest_format", "artifact_digest_recomputes"}

GroundingConclusions ==
  {"schema_digest", "schema_version_pinned", "envelope_schema_valid", "extraction_profile_pinned",
   "field_grounding_binding", "extractive_anchors_recompute", "abstractive_typing",
   "dropped_dispositions_wellformed"}

PostureConclusions == {"lifecycle_is_proposal", "no_authority_fields"}

\* Mutant: what is left open counts as passed.
FoldOpenPasses(concl, names) ==
  IF \E n \in names \cap DOMAIN concl : concl[n] = "FAIL" THEN "FAIL" ELSE "PASS"

\* _fold
Fold(concl, names) ==
  IF \E n \in names \cap DOMAIN concl : concl[n] = "FAIL" THEN "FAIL"
  ELSE IF \E n \in names \cap DOMAIN concl : concl[n] = "NOT_EVALUATED" THEN "PARTIAL" ELSE "PASS"

\* The entries of field_grounding name each field once.  Sorting two indexes
\* of which one is no number raises, so there such an entry is not reached.
BindingOk(v) ==
  /\ v.fields_is_list /\ v.grounding_is_list /\ Len(v.grounding) = Len(v.fields)
  /\ \A k \in DOMAIN v.grounding : v.grounding[k].object
  /\ {v.grounding[k].field_index : k \in DOMAIN v.grounding} = 0 .. Len(v.fields) - 1

GroundingRaises(v) ==
  /\ v.fields_is_list /\ v.grounding_is_list /\ Len(v.grounding) = Len(v.fields)
  /\ Len(v.grounding) > 1 /\ \A k \in DOMAIN v.grounding : v.grounding[k].object
  /\ \E k \in DOMAIN v.grounding : v.grounding[k].field_index = -1

SpanInRange(a, text) == a.integers /\ 0 <= a.start /\ a.start <= a.end /\ a.end <= Len(text)

\* Offsets count from 0.
SpanMatches(a, value, text) ==
  /\ value.string
  /\ normalize_whitespace(SubSeq(text, a.start + 1, a.end)) = normalize_whitespace(value.text)

\* The findings about one entry, in the order of the loop's continues.
EntryCodes(v, g, text) ==
  LET a == g.anchor
  IN CASE g.kind = "other" -> {"grounding_kind_invalid"}
       [] g.kind = "abstractive" -> IF a.form # "absent" THEN {"abstractive_carries_anchor"} ELSE {}
       [] g.kind = "extractive" /\ a.form # "object" -> {"extractive_anchor_missing"}
       [] OTHER ->
            (IF a.artifact_digest # v.artifact_digest THEN {"anchor_artifact_digest_mismatch"} ELSE {})
            \cup (IF ~a.profile THEN {"anchor_extraction_profile_unknown"} ELSE {})
            \cup (IF ~SpanInRange(a, text) THEN {"anchor_span_out_of_range"}
                  ELSE IF ~SpanMatches(a, v.fields[g.field_index + 1], text)
                         THEN {"anchor_span_text_mismatch"} ELSE {})

AnchorCodes(v, content) ==
  UNION {EntryCodes(v, v.grounding[k], project_html_visible_text(content)) : k \in DOMAIN v.grounding}

\* Whether conclusion n holds of envelope v.
GroundingHolds(v, content, schema, n) ==
  CASE n = "schema_digest" -> schema = "pinned"
    [] n = "schema_version_pinned" -> v.schema_version
    [] n = "envelope_schema_valid" -> v.schema_valid
    [] n = "artifact_digest_format" -> IsRef(v.artifact_digest)
    [] n = "artifact_digest_recomputes" -> v.artifact_digest = content
    [] n = "extraction_profile_pinned" -> v.extraction_profile
    [] n = "field_grounding_binding" -> BindingOk(v)
    [] n = "extractive_anchors_recompute" ->
         AnchorCodes(v, content) \subseteq {"abstractive_carries_anchor"}
    [] n = "abstractive_typing" ->
         AnchorCodes(v, content) \cap {"abstractive_carries_anchor", "grounding_kind_invalid"} = {}
    [] n = "dropped_dispositions_wellformed" -> v.dropped \in {"absent", "wellformed"}
    [] n = "lifecycle_is_proposal" -> v.lifecycle
    [] n = "no_authority_fields" -> ~v.authority

\* NE: there is nothing to hold the envelope or its anchors against.
GroundingUnevaluated(v, schema, n) ==
  \/ n = "envelope_schema_valid" /\ schema # "pinned"
  \/ n \in {"extractive_anchors_recompute", "abstractive_typing"} /\ ~BindingOk(v)

GroundingConcl(v, content, schema) ==
  [n \in ArtifactConclusions \cup GroundingConclusions \cup PostureConclusions |->
     IF GroundingUnevaluated(v, schema, n) THEN "NOT_EVALUATED"
     ELSE IF GroundingHolds(v, content, schema, n) THEN "PASS" ELSE "FAIL"]

\* The three axes of the report.
GroundingAxes(v, content, schema) ==
  LET concl == GroundingConcl(v, content, schema)
  IN [artifact_integrity |-> Fold(concl, ArtifactConclusions),
      grounding_integrity |-> Fold(concl, GroundingConclusions),
      proposal_posture |-> Fold(concl, PostureConclusions)]
=============================================================================
