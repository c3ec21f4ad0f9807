------------------------ MODULE MCIngestRunSequence ------------------------
(* Runs over up to two files, each unique, duplicate, unparsable, both, or *)
(* inapplicable, one of two being unique; two faults.                      *)
EXTENDS IngestRunSequence

Kinds == {"unique", "duplicate", "unparsable", "both", "inapplicable"}

Ids == 1 .. 3

SkipList(kinds, ks) == [form |-> "strings", paths |-> {p \in DOMAIN kinds : kinds[p] \in ks}]

\* The receipt of path p: id and subject have p's number.
MCReceipt(p) ==
  [form |-> "object", protocol_binding |-> TRUE, receipt_id |-> p, subject_ref |-> p,
   publication_artifact_id |-> p, relative_path |-> p, corpus_manifest_ref |-> 1, raw |-> FALSE,
   excluded |-> "complete"]

Occurrence(p, kind) ==
  [object |-> TRUE, rel_path |-> p, duplicate |-> kind \in {"duplicate", "both"},
   parser |-> kind \notin {"unparsable", "both"}]

MCEntry(p) == [object |-> TRUE, receipt_id |-> p, subject_ref |-> p, rel_path |-> p]

Disk(kinds) ==
  LET unique(p) == kinds[p] = "unique"
      emitted == SelectSeq([p \in DOMAIN kinds |-> p], unique)
  IN [run_doc |-> [form |-> "object", schema |-> TRUE, boundary |-> TRUE, run_id |-> 1,
                   occurrences |-> [p \in DOMAIN kinds |-> Occurrence(p, kinds[p])]],
      manifest |-> [form |-> "object", schema |-> TRUE, emitted_is_list |-> TRUE, run_id |-> 1,
                    sha256 |-> "production",
                    emitted |-> [k \in DOMAIN emitted |-> MCEntry(emitted[k])],
                    skip |-> [skipped_duplicate |-> SkipList(kinds, {"duplicate", "both"}),
                              skipped_no_parser |-> SkipList(kinds, {"unparsable"}),
                              profile_not_applicable |-> SkipList(kinds, {"inapplicable"})]],
      profile |-> [form |-> "object", bytes |-> "production"],
      receipts_dir |-> TRUE,
      receipts |-> [id \in Ids |-> IF id \in DOMAIN kinds /\ unique(id) THEN MCReceipt(id)
                                   ELSE [MCReceipt(id) EXCEPT !.form = "absent"]]]

MCProduced ==
  {Disk(<<>>)} \cup {Disk(<<a>>) : a \in Kinds}
    \cup {Disk(<<"unique", a>>) : a \in Kinds} \cup {Disk(<<a, "unique">>) : a \in Kinds}

FileForms == {"absent", "unreadable", "malformed", "not_object", "not_utf8"}

EditedRunDoc(d) ==
  {[d EXCEPT !.form = x] : x \in FileForms}
  \cup {[d EXCEPT !.schema = FALSE], [d EXCEPT !.boundary = FALSE], [d EXCEPT !.occurrences = <<>>]}
  \cup {[d EXCEPT !.run_id = x] : x \in {0, 2}}
  \cup UNION {{[d EXCEPT !.occurrences[k].object = FALSE], [d EXCEPT !.occurrences[k].rel_path = 0],
               [d EXCEPT !.occurrences[k].rel_path = 3],
               [d EXCEPT !.occurrences[k].duplicate = ~@], [d EXCEPT !.occurrences[k].parser = ~@]}
              : k \in DOMAIN d.occurrences}

EditedManifest(m) ==
  {[m EXCEPT !.form = x] : x \in FileForms}
  \cup {[m EXCEPT !.schema = FALSE], [m EXCEPT !.emitted_is_list = FALSE], [m EXCEPT !.sha256 = "test"],
        [m EXCEPT !.emitted = <<>>]}
  \cup {[m EXCEPT !.run_id = x] : x \in {0, 2}}
  \cup {[m EXCEPT !.emitted = Append(@, MCEntry(p))] : p \in {1, 2}}
  \cup UNION {{[m EXCEPT !.skip[key].form = x] : x \in {"absent", "mixed", "scalar"}}
              \cup {[m EXCEPT !.skip[key].paths = x] : x \in {{}, {1}, {1, 2}}} : key \in SkipKeys}
  \cup UNION {{[m EXCEPT !.emitted[k].object = FALSE]}
              \cup {[m EXCEPT !.emitted[k].receipt_id = x] : x \in 0 .. 2}
              \cup {[m EXCEPT !.emitted[k].subject_ref = x] : x \in 0 .. 2}
              \cup {[m EXCEPT !.emitted[k].rel_path = x] : x \in 0 .. 2}
              : k \in DOMAIN m.emitted}

EditedReceipt(r) ==
  {[r EXCEPT !.form = x] : x \in FileForms \cup {"object"}}
  \cup {[r EXCEPT !.protocol_binding = FALSE], [r EXCEPT !.raw = TRUE]}
  \cup {[r EXCEPT !.excluded = x] : x \in {"missing", "unhashable"}}
  \cup {[r EXCEPT !.corpus_manifest_ref = x] : x \in {0, 2}}
  \cup {[r EXCEPT !.receipt_id = x] : x \in 0 .. 2}
  \cup {[r EXCEPT !.subject_ref = x] : x \in 0 .. 2}
  \cup {[r EXCEPT !.publication_artifact_id = x] : x \in 0 .. 2}
  \cup {[r EXCEPT !.relative_path = x] : x \in 0 .. 2}

\* One member altered, the files of two receipts exchanged, the bytes of the
\* test-only profile manifest in place of the production ones.
MCEdited(d) ==
  {[d EXCEPT !.run_doc = x] : x \in EditedRunDoc(d.run_doc)}
  \cup {[d EXCEPT !.manifest = x] : x \in EditedManifest(d.manifest)}
  \cup {[d EXCEPT !.profile.form = x] : x \in {"absent", "unreadable"}}
  \cup {[d EXCEPT !.profile.bytes = "test"], [d EXCEPT !.receipts_dir = FALSE],
        [d EXCEPT !.receipts[1] = d.receipts[2], !.receipts[2] = d.receipts[1]]}
  \cup UNION {{[d EXCEPT !.receipts[id] = x] : x \in EditedReceipt(d.receipts[id])} : id \in {1, 2}}
=============================================================================
