--------------------------- MODULE ReceiptVerdict ---------------------------
(***************************************************************************)
(* What one arcs-verify invocation on the signed-SRS path promises its     *)
(* caller through its exit status, with nothing said of how it is          *)
(* computed: one request, one final verdict.                               *)
(***************************************************************************)
CONSTANTS
  Unusable(_),  \* the request has an input file that cannot be used (exit 2)
  MayPass(_),   \* the request may exit 0
  MustPass(_)   \* the request must exit 0

VARIABLES request, verdict

\* Any request may be made.
Init == verdict = "pending"

\* The verdict is given once.  A pass needs a request that may pass, a
\* request that must pass is never failed, and "none" (not a verification
\* verdict) is said of exactly the unusable requests.
Decide ==
  /\ verdict = "pending"
  /\ verdict' \in {"pass", "fail", "none"}
  /\ verdict' = "pass" => MayPass(request)
  /\ MustPass(request) => verdict' = "pass"
  /\ verdict' = "none" <=> Unusable(request)
  /\ UNCHANGED request

Spec == Init /\ [][Decide]_<<request, verdict>>
=============================================================================
