----------------------------- MODULE MCReceiver -----------------------------
(* Submissions of up to three receipt files over the ids a (admission),    *)
(* o and p (outcomes), with copies, conflicting versions and bad files.    *)
EXTENDS Receiver

File(rid, kind, ref, call, digest) ==
  [readable |-> TRUE, parsed |-> TRUE, rid |-> rid, kind |-> kind, ref |-> ref,
   call |-> call, canonical |-> digest, bytes |-> digest, verdict |-> "pass",
   set_raises |-> FALSE, declined |-> {}, unhashable |-> {}]

Adm == File("a", "admission", None, "c1", "d1")
Out == File("o", "outcome", "a", "c1", "d2")

Core ==
  { Adm,
    [Adm EXCEPT !.bytes = "d1 reformatted"],
    [Adm EXCEPT !.bytes = "d3", !.canonical = "d3", !.call = "c2"],
    [Adm EXCEPT !.bytes = "d4", !.canonical = "d4", !.verdict = "fail"],
    Out,
    [Out EXCEPT !.bytes = "d5", !.canonical = "d5", !.ref = None],
    File("p", "outcome", "o", "c1", "d6") }

\* Files that end the run early, or that some check skips.
Odd ==
  { [File("a", "admission", None, "c1", "d7") EXCEPT !.readable = FALSE],
    [File(None, "admission", None, "c1", "d8") EXCEPT !.parsed = FALSE, !.verdict = "raise"],
    [File("a", "admission", None, "c1", "d9") EXCEPT !.declined = {"policy.issuer_not_accepted"}],
    [File("a", "admission", None, "c1", "d10") EXCEPT !.verdict = "raise"],
    [File("a", "admission", None, "c1", "d11") EXCEPT !.set_raises = TRUE],
    File("o", "outcome", "unhashable", "c1", "d12"),
    [Out EXCEPT !.unhashable = {"receipt_version"}, !.verdict = "fail", !.canonical = "d13"],
    [Out EXCEPT !.unhashable = {"disposition"}, !.verdict = "fail", !.canonical = "d14"],
    File(None, "outcome", "a", "c1", "d15") }

MCBatches ==
  UNION {[1 .. n -> Core] : n \in 1 .. 3}
  \cup [1 .. 1 -> Odd] \cup {<<f, g>> : f \in Odd, g \in {Adm, Out}}

Trust(usable, arrival, strict) == [usable |-> usable, arrival |-> arrival, strict |-> strict]

MCTrustInputs ==
  {Trust(TRUE, TRUE, TRUE), Trust(TRUE, TRUE, FALSE), Trust(TRUE, FALSE, FALSE),
   Trust(TRUE, FALSE, TRUE), Trust(FALSE, TRUE, TRUE)}
=============================================================================
