------------------------- MODULE MCDeferredDelivery -------------------------
(* One emission, up to two faults of which one alters a receipt or adds a  *)
(* stray one.                                                              *)
EXTENDS DeferredDelivery

Other(kind, seq, disp) ==
  [rid |-> 9, kind |-> kind, seq |-> seq, pred |-> 3, defer |-> 1, cond |-> 2, term |-> 0,
   disp |-> disp, status |-> "none", digest |-> TRUE, conform |-> TRUE, mistyped |-> FALSE]

\* A deferral of this and of another sequence, a second terminal admission.
MCStray ==
  {Other("defer_request", 1, "deferred_for_review"), Other("defer_request", 2, "deferred_for_review"),
   Other("terminal_admission", 1, "admitted"), Other("terminal_admission", 1, "refused"),
   [Other("execution_outcome", 1, "none") EXCEPT !.pred = 4, !.term = 4]}

MCAlterations(r) ==
  {[r EXCEPT !.rid = x] : x \in {0, 1, 4}}
  \cup {[r EXCEPT !.seq = x] : x \in {0, 2}}
  \cup {[r EXCEPT !.pred = x] : x \in {0, 1, 9}}
  \cup {[r EXCEPT !.defer = x] : x \in {0, 2}}
  \cup {[r EXCEPT !.cond = x] : x \in {0, 1}}
  \cup {[r EXCEPT !.term = x] : x \in {-1, 0, 2, 5, 9}}
  \cup {[r EXCEPT !.disp = x] : x \in {"admitted", "refused", "deferred_for_review"}}
  \cup {[r EXCEPT !.status = x] : x \in {"expired", "approved", "none"}}
  \cup {[r EXCEPT !.kind = x] : x \in {"other", "receipt_gap"}}
  \cup {[r EXCEPT !.digest = FALSE], [r EXCEPT !.conform = FALSE], [r EXCEPT !.mistyped = TRUE]}
=============================================================================
