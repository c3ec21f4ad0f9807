---------------------- MODULE MCGovernedMemorySequence ----------------------
(* Three governed reads, 1 and 3 by one subject.  The artifacts of read r  *)
(* have the ids 10 * r + 1 .. 4; its packet hash is 10 * r + 5.            *)
EXTENDS GovernedMemorySequence

Id(r, k) == 10 * r + k

Subject(r) == IF r = 3 THEN 1 ELSE r

MCRequest(r) ==
  [object |-> TRUE, request_id |-> Id(r, 1), subject_ref |-> Subject(r), scope_ref |-> 3, excluded |-> {Subject(r)},
   raw |-> FALSE]

MCDecision(r) ==
  [object |-> TRUE, decision_id |-> Id(r, 2), disposition |-> 1, request_ref |-> Id(r, 1),
   request_id_ref |-> 0, subject_ref |-> Subject(r), scope_ref |-> 0, has_packet_hash |-> TRUE,
   packet_hash |-> Id(r, 5), not_after |-> 0, raw |-> FALSE]

MCPacket(r) ==
  [object |-> TRUE, packet_id |-> Id(r, 3), packet_hash |-> Id(r, 5), decision_ref |-> 0,
   authorization_decision_ref |-> Id(r, 2), subject_ref |-> Subject(r), scope_ref |-> 3,
   source_refs |-> {Subject(r)},
   evidence_manifest |-> [not_an_object |-> FALSE, source_refs |-> {Subject(r) + 2}],
   reopening_ref |-> Id(r, 1), reopening_refs |-> {Id(r, 2)}, raw |-> FALSE]

MCDescriptors(r) == [form |-> "list", refs |-> {r, r + 2}, raw |-> FALSE]

MCExclusions(r) == [form |-> "list", classes |-> {r}]

MCReplay(r) == [object |-> TRUE, replay_id |-> 0, artifact_id |-> Id(r, 4), raw |-> FALSE]

\* Read 0 has no such artifact.
Bundle(q, d, p, s, e, y) ==
  [form |-> "object", request |-> MCRequest(q), decision |-> MCDecision(d), packet |-> MCPacket(p),
   descriptors |-> IF s = 0 THEN [MCDescriptors(1) EXCEPT !.form = "absent"] ELSE MCDescriptors(s),
   exclusions |-> IF e = 0 THEN [MCExclusions(1) EXCEPT !.form = "absent"] ELSE MCExclusions(e),
   replay |-> [MCReplay(IF y = 0 THEN 1 ELSE y) EXCEPT !.object = y # 0],
   reads |-> {q, d, p, s, e, y} \ {0}]

MCBundles ==
  {Bundle(q, d, p, s, e, y) :
     q \in 1 .. 3, d \in 1 .. 3, p \in 1 .. 3, s \in 0 .. 2, e \in 0 .. 2, y \in 0 .. 2}

Refs == {-1, 0, 1, 2, 11, 12, 13, 14, 15, 21, 22, 25, 31, 32, 35}

AlteredRequest(r) ==
  {[r EXCEPT !.object = FALSE], [r EXCEPT !.raw = TRUE], [r EXCEPT !.excluded = {}],
   [r EXCEPT !.scope_ref = 4]}
  \cup {[r EXCEPT !.request_id = x] : x \in Refs} \cup {[r EXCEPT !.subject_ref = x] : x \in Refs}

AlteredDecision(d) ==
  {[d EXCEPT !.object = FALSE], [d EXCEPT !.raw = TRUE], [d EXCEPT !.disposition = 0],
   [d EXCEPT !.scope_ref = 4], [d EXCEPT !.has_packet_hash = FALSE], [d EXCEPT !.not_after = 1]}
  \cup {[d EXCEPT !.decision_id = x] : x \in Refs} \cup {[d EXCEPT !.subject_ref = x] : x \in Refs}
  \cup {[d EXCEPT !.request_ref = x] : x \in Refs} \cup {[d EXCEPT !.packet_hash = x] : x \in Refs}

AlteredPacket(p) ==
  {[p EXCEPT !.object = FALSE], [p EXCEPT !.raw = TRUE], [p EXCEPT !.scope_ref = 4],
   [p EXCEPT !.evidence_manifest.not_an_object = TRUE], [p EXCEPT !.source_refs = {1, 2}]}
  \cup {[p EXCEPT !.packet_id = x] : x \in Refs} \cup {[p EXCEPT !.subject_ref = x] : x \in Refs}
  \cup {[p EXCEPT !.packet_hash = x] : x \in Refs} \cup {[p EXCEPT !.decision_ref = x] : x \in Refs}
  \cup {[p EXCEPT !.reopening_ref = x] : x \in Refs}

MCAlteredBundles(b) ==
  {[b EXCEPT !.form = x] : x \in {"absent", "malformed", "not_object", "not_utf8"}}
  \cup {[b EXCEPT !.request = x] : x \in AlteredRequest(b.request)}
  \cup {[b EXCEPT !.decision = x] : x \in AlteredDecision(b.decision)}
  \cup {[b EXCEPT !.packet = x] : x \in AlteredPacket(b.packet)}
  \cup {[b EXCEPT !.descriptors.form = "other"], [b EXCEPT !.descriptors.raw = TRUE],
        [b EXCEPT !.exclusions.form = "other"], [b EXCEPT !.exclusions.classes = {}],
        [b EXCEPT !.replay.raw = TRUE], [b EXCEPT !.replay.replay_id = 11]}
=============================================================================
