------------------------ MODULE MCSourceWorkSequence ------------------------
(* The files of session 1, each optional one there or not, with at most    *)
(* two of session 2 in their place; both sessions cite declaration 5,      *)
(* under their own inventory keys.                                         *)
EXTENDS SourceWorkSequence

Text(s) == [kind |-> "text", text |-> s]
Tag(k) == [kind |-> k, text |-> <<>>]

\* Page 1 has a script between two texts, page 2 a stray end tag and a style
\* element that is never closed.  9 is a character of a hidden text.
MCEvents(content) ==
  IF content = 1
    THEN <<Text(<<0, 1, -1, 0, 2>>), Tag("start"), Text(<<9>>), Tag("end"), Text(<<0>>), Text(<<3, 0>>)>>
    ELSE <<Tag("end"), Text(<<4, 0, 0, 5>>), Tag("start"), Text(<<9>>)>>

Anchor(p, a, z) ==
  [form |-> "object", artifact_digest |-> p, profile |-> TRUE, integers |-> TRUE, start |-> a, end |-> z]

NoAnchor == [Anchor(0, 0, 0) EXCEPT !.form = "absent"]

Quote == [p \in {1, 2} |-> IF p = 1 THEN <<1, 0, 2>> ELSE <<4, 0, 5>>]

Value(t) == [string |-> TRUE, text |-> t]

MCProposal(p) ==
  [form |-> "object", schema_version |-> TRUE, schema_valid |-> TRUE, artifact_digest |-> p,
   extraction_profile |-> TRUE, fields_is_list |-> TRUE, fields |-> <<Value(Quote[p]), Value(<<7>>)>>,
   grounding_is_list |-> TRUE,
   grounding |-> <<[object |-> TRUE, field_index |-> 1, kind |-> "abstractive", anchor |-> NoAnchor],
                   [object |-> TRUE, field_index |-> 0, kind |-> "extractive", anchor |-> Anchor(p, 0, 3)]>>,
   dropped |-> "wellformed", lifecycle |-> TRUE, authority |-> FALSE]

MCBinding(p) ==
  [form |-> "object", schema |-> TRUE, declaring_ref |-> 5, key |-> p, locator |-> p,
   derived_id |-> 500 + p]

\* The first artifact is a rendered page.
MCManifest(p, proposed) ==
  [form |-> "object", schema |-> TRUE, artifacts_is_list |-> TRUE,
   artifacts |-> <<[object |-> TRUE, raw_role |-> FALSE, sha256 |-> 30 + p],
                   [object |-> TRUE, raw_role |-> TRUE, sha256 |-> p]>>,
   address |-> p, declaring_ref |-> 5, key |-> p, locator |-> p, source_id |-> p, bound_status |-> TRUE,
   embedded |-> [form |-> "object", declaring_ref |-> 5, key |-> p, locator |-> p],
   summary |-> IF proposed THEN "nonzero" ELSE "zero"]

MCCapture(p) == [form |-> "object", schema |-> TRUE, exact |-> p, locator |-> p]

MCSourceCapture(p) ==
  [form |-> "object", pins |-> TRUE, captured_ref |-> p, reference_id |-> 500 + p,
   subject_ref |-> 500 + p, declaring_ref |-> 5, key |-> p]

MCIngest(p) ==
  [form |-> "object", pins |-> TRUE, subject_ref |-> p, source_artifact_id |-> p, pdo_ref |-> 40 + p,
   derivation |-> [object |-> TRUE, input_hash |-> p, output_hash |-> 20 + p], extraction_ref |-> 20 + p]

Parts ==
  {"binding", "manifest", "capture", "receipt", "proposal", "proposal_source", "ingest", "extraction",
   "captured_source"}

\* `there' are the optional parts supplied, `foreign' those of session 2.
Files(there, foreign) ==
  LET s(part) == IF part \in foreign THEN 2 ELSE 1
      proposal == "proposal" \in there
  IN [declaration |-> IF "declaration" \in there THEN 5 ELSE 0,
      binding |-> MCBinding(s("binding")), manifest |-> MCManifest(s("manifest"), proposal),
      capture |-> MCCapture(s("capture")), receipt |-> MCSourceCapture(s("receipt")),
      proposal |-> [MCProposal(s("proposal")) EXCEPT !.form = IF proposal THEN @ ELSE "omitted"],
      proposal_source |-> IF proposal /\ "proposal_source" \in there THEN s("proposal_source") ELSE 0,
      ingest |-> [MCIngest(s("ingest")) EXCEPT !.form = IF "ingest" \in there THEN @ ELSE "omitted"],
      extraction |-> IF "ingest" \in there THEN 20 + s("extraction") ELSE 0,
      captured_source |-> IF "captured_source" \in there THEN s("captured_source") ELSE 0,
      schema |-> "pinned", claims |-> {}, citation_pack |-> FALSE,
      session |-> [part \in Parts |-> s(part)]]

Supplied ==
  {there \in SUBSET {"declaration", "proposal", "proposal_source", "ingest", "captured_source"} :
     "proposal_source" \in there => "proposal" \in there}

Exchanged ==
  {{}} \cup {{p} : p \in Parts}
  \cup {{"capture", "receipt"}, {"binding", "receipt"}, {"binding", "manifest"}, {"proposal", "proposal_source"},
        {"ingest", "extraction"}, {"capture", "captured_source"}}

MCEvidence == {Files(there, foreign) : there \in Supplied, foreign \in Exchanged}

----------------------------------------------------------------------------
Digests == {-1, 0, 1, 2}

AlteredBinding(b) ==
  {[b EXCEPT !.form = "malformed"], [b EXCEPT !.schema = FALSE]}
  \cup {[b EXCEPT !.declaring_ref = x] : x \in {-1, 0, 6}} \cup {[b EXCEPT !.key = x] : x \in 0 .. 2}
  \cup {[b EXCEPT !.locator = x] : x \in 0 .. 2} \cup {[b EXCEPT !.derived_id = x] : x \in {0, 501, 502}}

AlteredManifest(m) ==
  {[m EXCEPT !.form = "absent"], [m EXCEPT !.schema = FALSE], [m EXCEPT !.artifacts_is_list = FALSE],
   [m EXCEPT !.artifacts[1].object = FALSE], [m EXCEPT !.artifacts[1].raw_role = TRUE],
   [m EXCEPT !.artifacts[2].raw_role = FALSE], [m EXCEPT !.bound_status = FALSE],
   [m EXCEPT !.embedded = [form |-> "empty", declaring_ref |-> 0, key |-> 0, locator |-> 0]],
   [m EXCEPT !.embedded.form = "other"], [m EXCEPT !.source_id = 501]}
  \cup {[m EXCEPT !.artifacts[2].sha256 = x] : x \in Digests} \cup {[m EXCEPT !.address = x] : x \in Digests}
  \cup {[m EXCEPT !.key = x] : x \in 0 .. 2} \cup {[m EXCEPT !.locator = x] : x \in 0 .. 2}
  \cup {[m EXCEPT !.embedded.key = x] : x \in 0 .. 2}
  \cup {[m EXCEPT !.summary = x] : x \in {"zero", "nonzero", "other"}}

AlteredCapture(c) ==
  {[c EXCEPT !.schema = FALSE]} \cup {[c EXCEPT !.exact = x] : x \in Digests}
  \cup {[c EXCEPT !.locator = x] : x \in 0 .. 2}

AlteredReceipt(r) ==
  {[r EXCEPT !.pins = FALSE]} \cup {[r EXCEPT !.captured_ref = x] : x \in Digests}
  \cup {[r EXCEPT !.reference_id = x] : x \in {0, 501, 502}}
  \cup {[r EXCEPT !.subject_ref = x] : x \in {0, 501, 502}} \cup {[r EXCEPT !.key = x] : x \in 0 .. 2}

\* Another passage cited: a span and the text it is said to have.
Passages(g) ==
  {[g EXCEPT !.grounding[2].anchor.start = a, !.grounding[2].anchor.end = z, !.fields[1].text = t] :
     a \in -1 .. 5, z \in 0 .. 6, t \in {<<>>, <<9>>, <<0, 2, -1, 3>>, <<1, 0, 2>>, <<5>>, <<1, 2>>}}

AlteredProposal(g) ==
  Passages(g)
  \cup {[g EXCEPT !.form = "malformed"], [g EXCEPT !.schema_version = FALSE],
        [g EXCEPT !.schema_valid = FALSE], [g EXCEPT !.extraction_profile = FALSE],
        [g EXCEPT !.fields_is_list = FALSE], [g EXCEPT !.grounding_is_list = FALSE],
        [g EXCEPT !.grounding = Tail(@)], [g EXCEPT !.grounding = Tail(@), !.fields = <<Value(<<8>>)>>],
        [g EXCEPT !.grounding[1].field_index = 0], [g EXCEPT !.grounding[1].field_index = -1],
        [g EXCEPT !.grounding[1].object = FALSE], [g EXCEPT !.grounding[2].kind = "other"],
        [g EXCEPT !.grounding[1].anchor.form = "object"], [g EXCEPT !.grounding[2].anchor.form = "absent"],
        [g EXCEPT !.grounding[2].anchor.profile = FALSE], [g EXCEPT !.grounding[2].anchor.integers = FALSE],
        [g EXCEPT !.grounding[2].anchor.artifact_digest = 2], [g EXCEPT !.fields[1].string = FALSE],
        [g EXCEPT !.dropped = "malformed"], [g EXCEPT !.lifecycle = FALSE], [g EXCEPT !.authority = TRUE]}
  \cup {[g EXCEPT !.artifact_digest = x] : x \in Digests}

AlteredIngest(n) ==
  {[n EXCEPT !.pins = FALSE], [n EXCEPT !.pdo_ref = 0], [n EXCEPT !.derivation.object = FALSE]}
  \cup {[n EXCEPT !.subject_ref = x] : x \in Digests} \cup {[n EXCEPT !.source_artifact_id = x] : x \in Digests}
  \cup {[n EXCEPT !.extraction_ref = x] : x \in {0, 21, 22}}
  \cup {[n EXCEPT !.derivation.output_hash = x] : x \in {0, 21, 22}}

MCAlteredEvidence(e) ==
  {[e EXCEPT !.binding = x] : x \in AlteredBinding(e.binding)}
  \cup {[e EXCEPT !.manifest = x] : x \in AlteredManifest(e.manifest)}
  \cup {[e EXCEPT !.capture = x] : x \in AlteredCapture(e.capture)}
  \cup {[e EXCEPT !.receipt = x] : x \in AlteredReceipt(e.receipt)}
  \cup (IF e.proposal.form = "omitted" THEN {}
        ELSE {[e EXCEPT !.proposal = x] : x \in AlteredProposal(e.proposal)})
  \cup (IF e.ingest.form = "omitted" THEN {}
        ELSE {[e EXCEPT !.ingest = x] : x \in AlteredIngest(e.ingest)} \cup {[e EXCEPT !.extraction = 0]})
  \cup {[e EXCEPT !.declaration = 6], [e EXCEPT !.schema = "altered"], [e EXCEPT !.schema = "missing"],
        [e EXCEPT !.claims = {"manifest"}], [e EXCEPT !.citation_pack = TRUE]}
  \cup (IF e.captured_source = 0 THEN {} ELSE {[e EXCEPT !.captured_source = -1]})
=============================================================================
