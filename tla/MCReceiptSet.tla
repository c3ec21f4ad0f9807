---------------------------- MODULE MCReceiptSet ----------------------------
(* Indexes of up to three entries over two receipt ids.                    *)
EXTENDS ReceiptSet

Receipt(rid, kind, ref, call, verdict) ==
  [rid |-> rid, kind |-> kind, ref |-> ref, call |-> call, verdict |-> verdict]

MCReceipts ==
  { Receipt("a", "admission", None, "c1", "pass"),
    Receipt("a", "admission", None, "c2", "fail"),
    Receipt("a", "outcome", "b", "c1", "pass"),
    Receipt("o", "outcome", "a", "c1", "pass"),
    Receipt("o", "outcome", None, "c1", "pass"),
    Receipt("o", "outcome", "unhashable", "c1", "pass"),
    Receipt("b", "admission", None, "c1", "raise"),
    Receipt(None, "outcome", "a", "c1", "pass") }

Entry(path, receipt) ==
  [object |-> TRUE, safe |-> TRUE, path |-> path, file |-> "object", receipt |-> receipt]

GoodReceipt == Receipt("a", "admission", None, "c1", "pass")

MCEntries ==
  {Entry(p, r) : p \in {"p1", "p2", "p3"}, r \in MCReceipts}
  \cup { [Entry("p1", GoodReceipt) EXCEPT !.object = FALSE],
         [Entry("p1", GoodReceipt) EXCEPT !.safe = FALSE],
         [Entry("p1", GoodReceipt) EXCEPT !.file = "missing"],
         [Entry("p1", GoodReceipt) EXCEPT !.file = "digest_mismatch"] }

Index(entries) ==
  [readable |-> TRUE, schema |-> "supported", shape_valid |-> TRUE,
   trust_intact |-> TRUE, entries |-> entries]

MCWorkflows ==
  {Index(es) : es \in UNION {[1 .. n -> MCEntries] : n \in 0 .. 3}}
  \cup { [Index(<<>>) EXCEPT !.readable = FALSE],
         [Index(<<>>) EXCEPT !.schema = "unsupported"],
         [Index(<<>>) EXCEPT !.schema = "unhashable"],
         [Index(<<>>) EXCEPT !.shape_valid = FALSE],
         [Index(<<Entry("p1", GoodReceipt)>>) EXCEPT !.trust_intact = FALSE] }
=============================================================================
