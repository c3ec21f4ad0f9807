---------------------------- MODULE Stranger0Run ----------------------------
(***************************************************************************)
(* stranger0/run_stranger0.py: the orchestrator of the acceptance package. *)
(* A pool of threads evaluates the selected cases.  Each thread launches   *)
(* one receiver process, reads the records it wrote and, receipt by        *)
(* receipt, compares them with the catalogue's expectation and with the    *)
(* arcs-verify CLI, whose results the threads share in _CLI_CACHE.  The    *)
(* main thread collects the results in catalogue order, applies the        *)
(* whole-run checks and writes the transcript.                             *)
(*                                                                         *)
(* `run' is what the program finds and never changes: its arguments, the   *)
(* catalogue, the records each receiver will write, and the CLI as the     *)
(* function of its three arguments that the code takes it to be.  A call   *)
(* of either process may time out instead, at any time.  A case is its     *)
(* position in the catalogue, case ids being unique.                       *)
(***************************************************************************)
EXTENDS Integers, Sequences, FiniteSets

CONSTANTS
  None,          \* no report, no CLI result; as `only', the whole catalogue
  Miss,          \* a key _CLI_CACHE does not have
  Runs           \* the invocations considered

ASSUME NoneAssumption == None \notin {0, 1, 2}

\* The records have one row per receipt.
ASSUME RunsAssumption ==
  \A r \in Runs :
    /\ DOMAIN r.cases \subseteq Nat /\ IsFiniteSet(DOMAIN r.cases)
    /\ r.jobs \in Int
    /\ \A c \in DOMAIN r.cases :
         LET n == Len(r.cases[c].receipts) IN
         n \in Nat /\ DOMAIN r.cases[c].receipts = 1 .. n /\ DOMAIN r.receiver[c].rows = 1 .. n

VARIABLES
  run,           \* the invocation
  pc,            \* of the main thread
  state,         \* of each case's future and of the thread that evaluates it
  row,           \* the next receipt of each case
  answer,        \* the CLI result a thread holds but has not stored
  problems,      \* cases with a problem so far
  cache,         \* _CLI_CACHE
  collected,     \* the cases whose result the main thread has taken
  transcript,    \* stranger0-result.json
  exit           \* exit status, None while running

vars == <<run, pc, state, row, answer, problems, cache, collected, transcript, exit>>

Cases == DOMAIN run.cases
\* The cases --only selects: all without it.
Selected == {c \in Cases : run.only = None \/ c \in run.only}

\* What `run' says of case c: its catalogue entry, its receiver's records.
Case(c) == run.cases[c]
Records(c) == run.receiver[c]
Row(c, i) == Records(c).rows[i]
Rows(c) == DOMAIN Records(c).rows

\* The CLI's arguments: receipt bytes, keyring and profile.
Arguments(c, i) == <<Case(c).receipts[i], Case(c).keyring, Row(c, i).profile>>

\* Mutant: the profile is not part of the cache key.
KeyNoProfile(c, i) == <<Case(c).receipts[i], Case(c).keyring, "any">>

\* The key of _CLI_CACHE.
Key(c, i) == <<Case(c).receipts[i], Case(c).keyring, Row(c, i).profile>>
Keys == UNION {{Key(c, i) : i \in Rows(c)} : c \in Cases}

Passed(r) == IF r.report = None THEN None ELSE r.report.passed

\* The members of a row that differ from the catalogue's expectation; `detail'
\* stands for the failed checks, the failure codes, the reason tokens and the
\* claim.  A reliance must name its claim and what is not relied upon.
Unexpected(c, i) ==
  LET r == Row(c, i) IN
  \/ i \notin DOMAIN Case(c).expect
  \/ r.decision # Case(c).expect[i].decision
  \/ Passed(r) # Case(c).expect[i].passed
  \/ r.detail # Case(c).expect[i].detail
  \/ r.decision = "rely" /\ ~r.scoped

\* The comparisons made once per case: the decision cites its findings, no
\* receipt was dropped, the catalogue has an expectation for each receipt.
Inconsistent(c) == ~Records(c).consistent \/ DOMAIN Case(c).expect # Rows(c)

----------------------------------------------------------------------------

Init ==
  /\ run \in Runs
  /\ pc = "integrity"
  /\ state = [c \in Cases |-> "idle"]
  /\ row = [c \in Cases |-> 1]
  /\ answer = [c \in Cases |-> None]
  /\ problems = {}
  /\ cache = [k \in Keys |-> Miss]
  /\ collected = {}
  /\ transcript \in {"absent", "earlier"}
  /\ exit = None

Exit(status) == pc' = "ended" /\ exit' = status

threadVars == <<state, row, answer, problems, cache>>

\* check_artifacts, check_package_sums, then pool.map submits every case;
\* a pool cannot have less than one worker.
CheckPackage ==
  /\ pc = "integrity"
  /\ \/ ~run.intact /\ Exit(2) /\ UNCHANGED state
     \/ run.intact /\ run.jobs < 1 /\ Exit(1) /\ UNCHANGED state
     \/ /\ run.intact /\ run.jobs >= 1
        /\ pc' = "collect" /\ exit' = exit
        /\ state' = [c \in Cases |-> IF c \in Selected THEN "queued" ELSE "idle"]
  /\ UNCHANGED <<run, row, answer, problems, cache, collected, transcript>>

----------------------------------------------------------------------------
(* evaluate_case(c), on a thread of the pool.                              *)

Evaluating == {c \in Cases : state[c] \in {"receiver", "rows", "cli", "store"}}

\* A free worker takes the oldest future of the queue.
StartCase(c) ==
  /\ state[c] = "queued"
  /\ \A d \in Cases : d < c => state[d] # "queued"
  /\ Cardinality(Evaluating) < run.jobs
  /\ state' = [state EXCEPT ![c] = "receiver"]
  /\ UNCHANGED <<run, pc, row, answer, problems, cache, collected, transcript, exit>>

\* run_receiver returned: a status other than 0 is a problem and ends the
\* case, else the records are read and compared.
ReceiverExits(c) ==
  /\ state[c] = "receiver"
  /\ state' = [state EXCEPT ![c] = IF Records(c).status # 0 THEN "done" ELSE "rows"]
  /\ problems' = IF Records(c).status # 0 \/ Inconsistent(c) THEN problems \cup {c} ELSE problems
  /\ UNCHANGED <<run, pc, row, answer, cache, collected, transcript, exit>>

\* The receipt at hand is finished with the CLI result `result', None being a
\* result too; without a report there is no cross-check.
FinishRow(c, result) ==
  LET i == row[c] IN
  /\ row' = [row EXCEPT ![c] = i + 1]
  /\ problems' = IF \/ Unexpected(c, i)
                    \/ Row(c, i).report # None /\ result # Row(c, i).report
                 THEN problems \cup {c} ELSE problems

\* The loop over the receipts: cli_crosscheck looks the key up under the lock
\* and gives the lock back before it runs the CLI.
CompareRow(c) ==
  /\ state[c] = "rows" /\ row[c] \in Rows(c)
  /\ LET i == row[c] IN
     \/ /\ Row(c, i).report = None \/ cache[Key(c, i)] # Miss
        /\ FinishRow(c, cache[Key(c, i)])
        /\ UNCHANGED state
     \/ /\ Row(c, i).report # None /\ cache[Key(c, i)] = Miss
        /\ state' = [state EXCEPT ![c] = "cli"]
        /\ UNCHANGED <<row, problems>>
  /\ UNCHANGED <<run, pc, answer, cache, collected, transcript, exit>>

\* _cli_run returned; output that is no JSON is None.
CliExits(c) ==
  /\ state[c] = "cli"
  /\ state' = [state EXCEPT ![c] = "store"]
  /\ answer' = [answer EXCEPT ![c] = run.cli[Arguments(c, row[c])]]
  /\ UNCHANGED <<run, pc, row, problems, cache, collected, transcript, exit>>

\* The result is stored under the lock, over one another thread may have
\* stored since, and returned.
StoreAnswer(c) ==
  /\ state[c] = "store"
  /\ cache' = [cache EXCEPT ![Key(c, row[c])] = answer[c]]
  /\ FinishRow(c, answer[c])
  /\ state' = [state EXCEPT ![c] = "rows"]
  /\ answer' = [answer EXCEPT ![c] = None]
  /\ UNCHANGED <<run, pc, collected, transcript, exit>>

ReturnResult(c) ==
  /\ state[c] = "rows" /\ row[c] \notin Rows(c)
  /\ state' = [state EXCEPT ![c] = "done"]
  /\ UNCHANGED <<run, pc, row, answer, problems, cache, collected, transcript, exit>>

\* subprocess.run raises TimeoutExpired after 180 seconds; nothing catches it.
TimeOut(c) ==
  /\ state[c] \in {"receiver", "cli"}
  /\ state' = [state EXCEPT ![c] = "raised"]
  /\ UNCHANGED <<run, pc, row, answer, problems, cache, collected, transcript, exit>>

----------------------------------------------------------------------------
(* The main thread.                                                        *)

\* The case whose result list(pool.map(...)) asks for next.
Awaited(c) ==
  /\ c \in Selected \ collected
  /\ \A d \in Selected \ collected : c <= d

\* Mutant: an exception is waited for as if it were a result to come.
CollectNoRaise ==
  /\ pc = "collect"
  /\ \/ \E c \in Cases : Awaited(c) /\ state[c] = "done" /\ collected' = collected \cup {c} /\ UNCHANGED <<pc, state>>
     \/ Selected \subseteq collected /\ pc' = "summary" /\ UNCHANGED <<collected, state>>
  /\ UNCHANGED <<run, row, answer, problems, cache, transcript, exit>>

\* Results come in catalogue order, so an exception waits for its turn; it
\* then cancels the futures that have not started.
Collect ==
  /\ pc = "collect"
  /\ \/ \E c \in Cases :
          /\ Awaited(c)
          /\ \/ /\ state[c] = "done" /\ collected' = collected \cup {c}
                /\ UNCHANGED <<pc, state>>
             \/ /\ state[c] = "raised" /\ pc' = "abort"
                /\ state' = [d \in Cases |-> IF state[d] = "queued" THEN "cancelled" ELSE state[d]]
                /\ UNCHANGED collected
     \/ /\ Selected \subseteq collected /\ pc' = "summary"
        /\ UNCHANGED <<collected, state>>
  /\ UNCHANGED <<run, row, answer, problems, cache, transcript, exit>>

\* Mutant: the exception leaves without the pool being shut down.
AbortAtOnce ==
  /\ pc = "abort" /\ Exit(1)
  /\ UNCHANGED <<run, threadVars, collected, transcript>>

\* Leaving the with-block waits for the running threads; the exception then
\* ends the process without a transcript.
Abort ==
  /\ pc = "abort" /\ Evaluating = {}
  /\ Exit(1)
  /\ UNCHANGED <<run, threadVars, collected, transcript>>

\* The rows of the results: a receiver that failed contributes none.
ResultRows ==
  UNION {{Row(c, i) : i \in Rows(c)} : c \in {d \in Selected : Records(d).status = 0}}

\* A control must be a case of the catalogue, selected or not, that is
\* expected to be relied upon.
ControlOK(d) ==
  /\ d \in Cases /\ Case(d).role # "negative"
  /\ \A i \in DOMAIN Case(d).expect : Case(d).expect[i].decision = "rely"

\* A claim that a negative shares the receipt bytes or the trust input of a
\* control, or does not.
ClaimOK(c, claim) ==
  /\ claim.same_bytes = (Case(c).receipts = Case(claim.control).receipts)
  /\ claim.same_trust = (Case(c).trust = Case(claim.control).trust)

FamilyOK(f) ==
  LET members == {c \in Selected : Case(c).family = f} IN
  /\ members \cap problems = {}
  /\ \A c \in members :
       Case(c).role = "negative" =>
         /\ Case(c).controls # {}
         /\ \A d \in Case(c).controls : ControlOK(d)
         /\ \A claim \in Case(c).isolation : ClaimOK(c, claim)

\* The claims of a negative without controls are not looked at; a claim on a
\* case that is not in the catalogue raises StopIteration.
SummaryRaises ==
  \E c \in Selected :
    /\ Case(c).family \in run.families
    /\ Case(c).role = "negative" /\ Case(c).controls # {}
    /\ \E claim \in Case(c).isolation : claim.control \notin Cases

\* fals_a: a receiver process loaded producer modules, tried the network or
\* was not isolated, or the receiver's source imports something else.
FalsifiedA ==
  \/ \E c \in Selected : Records(c).status = 0 /\ ~Records(c).clean
  \/ ~run.allowlist
\* fals_b: a receipt relied upon without a pass, a reserved conclusion key in
\* a record, a reliance that does not say what is not relied upon.
FalsifiedB ==
  \/ \E r \in ResultRows : r.decision = "rely" /\ (Passed(r) # TRUE \/ ~r.scoped)
  \/ \E c \in Selected : Records(c).forbidden

\* evidence_sufficient: a clean result must not be vacuous.
EvidenceA == run.detectors /\ \E c \in Selected : Records(c).status = 0
EvidenceB ==
  \E r \in ResultRows : r.report # None /\ r.report.signature_valid /\ r.decision # "rely"

\* Mutant: the families are not part of the verdict.
OkNoFamilies ==
  /\ problems \cap Selected = {}
  /\ ~FalsifiedA /\ ~FalsifiedB /\ EvidenceA /\ (EvidenceB \/ run.only # None)

Ok ==
  /\ problems \cap Selected = {}
  /\ ~FalsifiedA /\ ~FalsifiedB /\ EvidenceA /\ (EvidenceB \/ run.only # None)
  /\ \A f \in run.families : FamilyOK(f)

\* The whole-run checks, among them the receiver's selfcheck, which may time
\* out; then _python_version starts the receiver's interpreter once more.
Summarise ==
  /\ pc = "summary"
  /\ \/ ~SummaryRaises /\ pc' = "version" /\ UNCHANGED exit
     \/ Exit(1)
  /\ UNCHANGED <<run, threadVars, collected, transcript>>

\* The interpreter has printed its version, whatever its status: the
\* transcript is written and main returns.  _python_version sets no timeout,
\* so this is up to the interpreter; nothing that Ok reads changes meanwhile.
WriteTranscript ==
  /\ pc = "version"
  /\ transcript' = (IF Ok THEN "PASS" ELSE "FAIL") /\ Exit(IF Ok THEN 0 ELSE 1)
  /\ UNCHANGED <<run, threadVars, collected>>

Thread(c) ==
  \/ StartCase(c)
  \/ ReceiverExits(c)
  \/ CompareRow(c)
  \/ CliExits(c)
  \/ StoreAnswer(c)
  \/ ReturnResult(c)
  \/ TimeOut(c)

\* What the process does by itself: every call it waits for but the last
\* returns or times out.
Progress == CheckPackage \/ Collect \/ Abort \/ Summarise \/ \E c \in Cases : Thread(c)

Next == Progress \/ WriteTranscript

Spec == Init /\ [][Next]_vars /\ WF_vars(Progress)

----------------------------------------------------------------------------
(* What is checked.                                                        *)

\* The pool never has more busy threads than --jobs, and only the threads of
\* submitted cases change anything.
TypeOK ==
  /\ pc \in {"integrity", "collect", "abort", "summary", "version", "ended"}
  /\ state \in [Cases -> {"idle", "queued", "receiver", "rows", "cli", "store",
                          "done", "raised", "cancelled"}]
  /\ \A c \in Cases : state[c] # "idle" => c \in Selected
  /\ Evaluating # {} => Cardinality(Evaluating) <= run.jobs
  /\ problems \subseteq Selected /\ collected \subseteq Selected
  /\ transcript \in {"absent", "earlier", "PASS", "FAIL"}
  /\ exit \in {None, 0, 1, 2}

\* What a case must come to, whoever else runs: its receiver exits 0 with
\* consistent records, every row as expected, and every report equal to what
\* the CLI says of exactly that receipt, keyring and profile.
MatchesExpectation(c) ==
  /\ Records(c).status = 0
  /\ ~Inconsistent(c)
  /\ \A i \in Rows(c) :
       /\ ~Unexpected(c, i)
       /\ Row(c, i).report # None => run.cli[Arguments(c, i)] = Row(c, i).report

\* The threads share _CLI_CACHE, yet evaluate_case returns case_ok exactly
\* when the case, evaluated alone, matches its expectation.
CaseVerdictIndependentOfOthers ==
  \A c \in Cases : state[c] = "done" => (c \notin problems <=> MatchesExpectation(c))

\* Exit 0 means what the docstring says and is not vacuous: every selected
\* case was collected and matches, at least one was evaluated, and in a run
\* of the whole catalogue the controls of every negative of a listed family
\* were themselves relied upon in this run, receipt by receipt.
PassIsEarned ==
  exit = 0 =>
    /\ Selected # {} /\ collected = Selected
    /\ \A c \in Selected : MatchesExpectation(c)
    /\ run.only = None =>
         \A c \in Cases : Case(c).family \in run.families /\ Case(c).role = "negative" =>
           /\ Case(c).controls # {}
           /\ \A d \in Case(c).controls :
                d \in Cases /\ \A i \in Rows(d) : Row(d, i).decision = "rely" /\ Passed(Row(d, i)) = TRUE
    /\ transcript = "PASS"

\* Once the process has ended no thread is in the middle of a case, so no
\* receiver or CLI process still writes below the output directory.
NothingRunsAfterExit == exit # None => Evaluating = {}

\* Every run ends or waits in its last call, with all cases collected and all
\* threads joined: every other call returns or times out, and an exception of
\* a case reaches the main thread.  Of _python_version, which has no timeout,
\* nothing can be promised.
Terminates == <>(pc \in {"ended", "version"} /\ Evaluating = {})

=============================================================================
