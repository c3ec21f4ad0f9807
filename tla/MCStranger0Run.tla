--------------------------- MODULE MCStranger0Run ---------------------------
(* A catalogue of three cases: a control, a negative that shares its       *)
(* receipt and keyring, and a control with two receipts, one of them the   *)
(* shared one under another profile.  Every invocation is one or two       *)
(* deviations away from a run that passes.                                 *)
EXTENDS Stranger0Run, TLC

Report(passed, valid) == [passed |-> passed, signature_valid |-> valid]
Good == Report(TRUE, TRUE)
Bad == Report(FALSE, FALSE)

\* The CLI: receipt m passes under its own profile only.
Cli == [a \in {"m", "n"} \X {"ring"} \X {"mcp", "other"} |->
          IF a[3] = "other" THEN Bad ELSE Good]

RowOf(report, decision, profile) ==
  [report |-> report, decision |-> decision, profile |-> profile,
   detail |-> "as stated", scoped |-> decision = "rely"]
Relied == RowOf(Good, "rely", "mcp")
Declined == RowOf(Good, "do_not_rely", "mcp")
Failed == RowOf(Bad, "do_not_rely", "other")
Unparsed == RowOf(None, "do_not_rely", "mcp")

Expect(r) == [decision |-> r.decision, passed |-> Passed(r), detail |-> r.detail]
Wrote(rows) == [status |-> 0, rows |-> rows, consistent |-> TRUE, clean |-> TRUE, forbidden |-> FALSE]

Entry(role, receipts, trust, rows) ==
  [family |-> "f", role |-> role, receipts |-> receipts, trust |-> trust, keyring |-> "ring",
   expect |-> [i \in DOMAIN rows |-> Expect(rows[i])], controls |-> {}, isolation |-> {}]
Claim(control, bytes, trust) == [control |-> control, same_bytes |-> bytes, same_trust |-> trust]

Control == Entry("control", <<"m">>, "t1", <<Relied>>)
Negative == [Entry("negative", <<"m">>, "t2", <<Declined>>)
               EXCEPT !.controls = {1}, !.isolation = {Claim(1, TRUE, FALSE)}]
Pair == Entry("negative", <<"m", "n">>, "t1", <<Failed, Unparsed>>)

Base ==
  [intact |-> TRUE, jobs |-> 2, only |-> None, families |-> {"f"},
   cases |-> <<Control, Negative, [Pair EXCEPT !.controls = {1}]>>,
   receiver |-> <<Wrote(<<Relied>>), Wrote(<<Declined>>), Wrote(<<Failed, Unparsed>>)>>,
   cli |-> Cli, allowlist |-> TRUE, detectors |-> TRUE]

\* A catalogue with one defect, among them ones that exit 0 must not survive.
Catalogues(r) ==
  { r, [r EXCEPT !.families = {}],
    [r EXCEPT !.cases[2].controls = {}], [r EXCEPT !.cases[2].controls = {3}],
    [r EXCEPT !.cases[2].controls = {9}], [r EXCEPT !.cases[2].isolation = {Claim(1, TRUE, TRUE)}],
    [r EXCEPT !.cases[2].isolation = {Claim(9, TRUE, TRUE)}],
    [r EXCEPT !.cases[1].expect[1].decision = "do_not_rely"],
    [r EXCEPT !.cases[2].trust = "t1"],
    [r EXCEPT !.cases[3].expect = <<Expect(Failed)>>] }

\* A receiver, the CLI or a whole-run check that disagrees.
Disagreements(r) ==
  UNION {{ [r EXCEPT !.receiver[c].status = 2], [r EXCEPT !.receiver[c].consistent = FALSE],
           [r EXCEPT !.receiver[c].clean = FALSE], [r EXCEPT !.receiver[c].forbidden = TRUE],
           [r EXCEPT !.receiver[c].rows[1].report = None],
           [r EXCEPT !.receiver[c].rows[1].report = Report(FALSE, TRUE)],
           [r EXCEPT !.receiver[c].rows[1].decision = IF @ = "rely" THEN "do_not_rely" ELSE "rely"],
           [r EXCEPT !.receiver[c].rows[1].scoped = ~@] } : c \in 1 .. 3}
  \cup { [r EXCEPT !.cli[<<"m", "ring", "mcp">>] = None], [r EXCEPT !.cli[<<"m", "ring", "mcp">>] = Bad],
         [r EXCEPT !.allowlist = FALSE], [r EXCEPT !.detectors = FALSE], [r EXCEPT !.intact = FALSE] }

Invocations(r) ==
  { [r EXCEPT !.jobs = j, !.only = o] :
      j \in {0, 1, 2, 3}, o \in {None, {9}, {1}, {2}, {1, 3}} }

MCRuns == Invocations(Base) \cup UNION {Catalogues(r) : r \in Disagreements(Base) \cup {Base}}
=============================================================================
