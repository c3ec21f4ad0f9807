--------------------------- MODULE Stranger0Proofs ---------------------------
(***************************************************************************)
(* The orchestrator's safety properties for every catalogue, every number  *)
(* of threads and every behaviour of the receivers.                        *)
(***************************************************************************)
EXTENDS Stranger0Run, FiniteSetTheorems, TLAPS

Main == CheckPackage \/ Collect \/ Abort \/ Summarise \/ WriteTranscript

States == {"idle", "queued", "receiver", "rows", "cli", "store", "done", "raised", "cancelled"}

\* Types, and what each phase of the main thread says about the cases.
Control ==
  /\ run \in Runs
  /\ pc \in {"integrity", "collect", "abort", "summary", "version", "ended"}
  /\ state \in [Cases -> States]
  /\ row \in [Cases -> Nat]
  /\ DOMAIN answer = Cases
  /\ DOMAIN cache = Keys
  /\ problems \subseteq Selected /\ collected \subseteq Selected
  /\ \A c \in Cases : state[c] # "idle" => c \in Selected
  /\ transcript \in {"absent", "earlier", "PASS", "FAIL"}
  /\ exit \in {None, 0, 1, 2}

Phases ==
  /\ exit # None <=> pc = "ended"
  /\ pc = "integrity" => \A c \in Cases : state[c] = "idle"
  /\ pc = "abort" => \A c \in Cases : state[c] # "queued"
  /\ \A c \in collected : state[c] = "done"
  /\ pc \in {"summary", "version"} => collected = Selected
  /\ pc = "ended" => \A c \in Cases : state[c] \in {"idle", "done", "raised", "cancelled"}
  /\ exit = 0 => collected = Selected /\ Ok /\ transcript = "PASS"

\* The cache and the answers in flight are what the CLI says of the triple.
CacheRight ==
  /\ \A c \in Cases : \A i \in Rows(c) :
       cache[Key(c, i)] \in {Miss, run.cli[Arguments(c, i)]}
  /\ \A c \in Cases : state[c] = "store" => answer[c] = run.cli[Arguments(c, row[c])]

RowMatches(c, i) ==
  /\ ~Unexpected(c, i)
  /\ Row(c, i).report # None => run.cli[Arguments(c, i)] = Row(c, i).report

\* A case has a problem exactly if one of the rows it has been through, or
\* the records as a whole, gave it one.
JudgedCase(c) ==
  /\ state[c] \in {"idle", "queued", "receiver", "cancelled"} => row[c] = 1 /\ c \notin problems
  /\ state[c] \in {"rows", "cli", "store"} =>
       /\ Records(c).status = 0
       /\ row[c] \in 1 .. (Len(Case(c).receipts) + 1)
       /\ (c \notin problems <=>
             ~Inconsistent(c) /\ \A i \in Rows(c) : i < row[c] => RowMatches(c, i))
  /\ state[c] \in {"cli", "store"} => row[c] \in Rows(c) /\ Row(c, row[c]).report # None
  /\ state[c] = "done" => (c \notin problems <=> MatchesExpectation(c))

Judged == \A c \in Cases : JudgedCase(c)

PoolBound == Evaluating # {} => Cardinality(Evaluating) <= run.jobs

IInv == Control /\ Phases /\ CacheRight /\ Judged /\ PoolBound

----------------------------------------------------------------------------

\* The facts about one invocation that the proofs use: cases and rows are
\* numbered, and there are finitely many cases.
LEMMA RunFacts ==
  ASSUME Control
  PROVE  /\ Cases \subseteq Nat /\ IsFiniteSet(Cases) /\ run.jobs \in Int
         /\ \A c \in Cases : Len(Case(c).receipts) \in Nat /\ Rows(c) = 1 .. Len(Case(c).receipts)
BY RunsAssumption DEF Control, Cases, Case, Rows, Records

\* The initial states satisfy the invariant.
LEMMA InitIInv == Init => IInv
<1> SUFFICES ASSUME Init PROVE IInv
  OBVIOUS
<1>1. Control
  BY DEF Init, Control, States
<1>2. Phases
  BY NoneAssumption DEF Init, Phases
<1>3. CacheRight
  BY DEF Init, CacheRight, Keys
<1>4. Judged
  BY DEF Init, Judged, JudgedCase
<1>5. PoolBound
  BY DEF Init, PoolBound, Evaluating
<1> QED
  BY <1>1, <1>2, <1>3, <1>4, <1>5 DEF IInv

\* Types and phases of the cases across a step of a thread.
LEMMA ThreadControl ==
  ASSUME IInv, NEW c \in Cases, Thread(c)
  PROVE  Control'
<1> USE DEF IInv, Control, States
<1>a. UNCHANGED run
  BY DEF Thread, StartCase, ReceiverExits, CompareRow, CliExits, StoreAnswer, ReturnResult, TimeOut
<1>b. Cases' = Cases /\ Selected' = Selected /\ Keys' = Keys
  BY <1>a DEF Cases, Selected, Keys, Key, Case, Row, Rows, Records
<1>0. c \in Selected
  BY DEF Thread, StartCase, ReceiverExits, CompareRow, CliExits, StoreAnswer, ReturnResult, TimeOut
<1> USE <1>a, <1>b
<1>1. CASE StartCase(c)
  BY <1>1 DEF StartCase
<1>2. CASE ReceiverExits(c)
  BY <1>0, <1>2 DEF ReceiverExits
<1>3. CASE CompareRow(c)
  BY <1>0, <1>3 DEF CompareRow, FinishRow
<1>4. CASE CliExits(c)
  BY <1>4 DEF CliExits
<1>5. CASE StoreAnswer(c)
  BY <1>0, <1>5 DEF StoreAnswer, FinishRow
<1>6. CASE ReturnResult(c)
  BY <1>6 DEF ReturnResult
<1>7. CASE TimeOut(c)
  BY <1>7 DEF TimeOut
<1> QED
  BY <1>1, <1>2, <1>3, <1>4, <1>5, <1>6, <1>7 DEF Thread

\* What a thread's step leaves alone: the invocation, the main thread's
\* variables, and the state of every other case.
LEMMA ThreadFrame ==
  ASSUME IInv, NEW c \in Cases, Thread(c)
  PROVE  /\ UNCHANGED <<run, pc, collected, transcript, exit>>
         /\ state[c] \in {"queued", "receiver", "rows", "cli", "store"}
         /\ state'[c] \in {"receiver", "rows", "cli", "store", "done", "raised"}
         /\ \A d \in Cases : d # c => /\ state'[d] = state[d] /\ row'[d] = row[d]
                                      /\ answer'[d] = answer[d]
                                      /\ d \in problems' <=> d \in problems
BY DEF IInv, Control, Thread, StartCase, ReceiverExits, CompareRow, CliExits, StoreAnswer,
       ReturnResult, TimeOut, FinishRow

\* What depends on the invocation only does not change.
LEMMA RunFrame ==
  ASSUME UNCHANGED run
  PROVE  /\ Cases' = Cases /\ Selected' = Selected /\ Keys' = Keys
         /\ \A c : Case(c)' = Case(c) /\ Records(c)' = Records(c) /\ Rows(c)' = Rows(c)
         /\ \A c, i : Row(c, i)' = Row(c, i) /\ Key(c, i)' = Key(c, i) /\ Arguments(c, i)' = Arguments(c, i)
         /\ \A c, i : RowMatches(c, i)' <=> RowMatches(c, i)
         /\ \A c : Inconsistent(c)' <=> Inconsistent(c)
         /\ \A c : MatchesExpectation(c)' <=> MatchesExpectation(c)
<1>1. \A c : Case(c)' = Case(c) /\ Records(c)' = Records(c) /\ Rows(c)' = Rows(c)
  BY DEF Case, Records, Rows
<1>2. \A c, i : Row(c, i)' = Row(c, i) /\ Key(c, i)' = Key(c, i) /\ Arguments(c, i)' = Arguments(c, i)
  BY DEF Row, Key, Arguments, Case, Records
<1>3. Cases' = Cases /\ Selected' = Selected /\ Keys' = Keys
  BY <1>1, <1>2 DEF Cases, Selected, Keys
<1>4. \A c, i : Unexpected(c, i)' <=> Unexpected(c, i)
  BY DEF Unexpected, Row, Case, Records, Passed
<1>5. \A c, i : RowMatches(c, i)' <=> RowMatches(c, i)
  BY <1>2, <1>4 DEF RowMatches
<1>6. \A c : Inconsistent(c)' <=> Inconsistent(c)
  BY <1>1 DEF Inconsistent
<1>7. \A c : MatchesExpectation(c)' <=> MatchesExpectation(c)
  BY <1>1, <1>2, <1>4, <1>6 DEF MatchesExpectation
<1> QED
  BY <1>1, <1>2, <1>3, <1>5, <1>6, <1>7

\* A thread's step keeps the phases: once a case is done, or the main thread
\* past collecting, no thread of it is left to act.
LEMMA ThreadPhases ==
  ASSUME IInv, NEW c \in Cases, Thread(c)
  PROVE  Phases'
<1>1. UNCHANGED <<run, pc, collected, transcript, exit>>
  BY ThreadFrame
<1>2. pc \in {"collect", "abort"} /\ c \in Selected \ collected /\ exit = None
  BY ThreadFrame DEF IInv, Control, Phases, Cases, Selected
<1>3. Cases' = Cases
  BY <1>1, RunFrame
<1>4. pc = "abort" => \A d \in Cases : state'[d] # "queued"
  BY ThreadFrame DEF IInv, Phases
<1>5. \A d \in collected : state'[d] = "done"
  BY <1>2, ThreadFrame DEF IInv, Phases, Control, Selected
<1> QED
  BY <1>1, <1>2, <1>3, <1>4, <1>5, NoneAssumption DEF IInv, Phases

\* The cache stays right: what a thread stores is the CLI's result for the
\* very triple it stores it under, whatever others stored in between.
LEMMA ThreadCache ==
  ASSUME IInv, NEW c \in Cases, Thread(c)
  PROVE  CacheRight'
<1>1. UNCHANGED run
  BY ThreadFrame
<1>2. \A d \in Cases : d # c => state'[d] = state[d] /\ row'[d] = row[d] /\ answer'[d] = answer[d]
  BY ThreadFrame
<1>3. \A d \in Cases : \A i \in Rows(d) :
        cache'[Key(d, i)] \in {Miss, run.cli[Arguments(d, i)]}
  <2> SUFFICES ASSUME NEW d \in Cases, NEW i \in Rows(d)
               PROVE  cache'[Key(d, i)] \in {Miss, run.cli[Arguments(d, i)]}
    OBVIOUS
  <2>1. CASE ~StoreAnswer(c)
    <3>1. UNCHANGED cache
      BY <2>1 DEF Thread, StartCase, ReceiverExits, CompareRow, CliExits, ReturnResult, TimeOut
    <3> QED
      BY <3>1 DEF IInv, CacheRight
  <2>2. CASE StoreAnswer(c)
    <3>1. Key(d, i) \in Keys
      BY DEF Keys
    <3>2. cache' = [cache EXCEPT ![Key(c, row[c])] = answer[c]] /\ answer[c] = run.cli[Arguments(c, row[c])]
      BY <2>2 DEF StoreAnswer, IInv, CacheRight
    <3>3. Key(d, i) = Key(c, row[c]) => Arguments(d, i) = Arguments(c, row[c])
      BY DEF Key, Arguments
    <3> QED
      BY <3>1, <3>2, <3>3 DEF IInv, Control, CacheRight
  <2> QED
    BY <2>1, <2>2
<1>4. state'[c] = "store" => answer'[c] = run.cli[Arguments(c, row'[c])]
  BY DEF IInv, Control, CacheRight, Thread, StartCase, ReceiverExits, CompareRow, CliExits,
         StoreAnswer, ReturnResult, TimeOut, Arguments, Row, Case, Records
<1>5. \A d \in Cases : state'[d] = "store" => answer'[d] = run.cli[Arguments(d, row'[d])]
  BY <1>2, <1>4 DEF IInv, CacheRight
<1> QED
  BY <1>1, <1>3, <1>5 DEF CacheRight, Cases, Rows, Key, Arguments, Row, Case, Records

\* Finishing a row with the CLI's result for it extends the judgement by
\* exactly that row.
LEMMA FinishJudges ==
  ASSUME IInv, NEW c \in Cases, NEW result, FinishRow(c, result),
         state[c] \in {"rows", "store"}, row[c] \in Rows(c), state'[c] = "rows", UNCHANGED run,
         Row(c, row[c]).report # None => result = run.cli[Arguments(c, row[c])]
  PROVE  JudgedCase(c)'
<1> DEFINE i == row[c]
<1>1. i \in 1 .. Len(Case(c).receipts) /\ Len(Case(c).receipts) \in Nat /\ Rows(c) = 1 .. Len(Case(c).receipts)
  BY RunFacts DEF IInv
<1>2. row'[c] = i + 1
  BY DEF FinishRow, IInv, Control
<1>3. c \in problems' <=> c \in problems \/ ~RowMatches(c, i)
  BY DEF FinishRow, RowMatches
<1>4. /\ Records(c).status = 0
      /\ c \notin problems <=> ~Inconsistent(c) /\ \A j \in Rows(c) : j < i => RowMatches(c, j)
  BY DEF IInv, Judged, JudgedCase
<1>5. \A j \in Rows(c) : j < i + 1 <=> j < i \/ j = i
  BY <1>1
<1>6. c \notin problems' <=> ~Inconsistent(c) /\ \A j \in Rows(c) : j < row'[c] => RowMatches(c, j)
  <2> HIDE DEF i
  <2> QED BY <1>1, <1>2, <1>3, <1>4, <1>5
<1>7. row'[c] \in 1 .. (Len(Case(c).receipts) + 1)
  BY <1>1, <1>2
<1>8. /\ Case(c)' = Case(c) /\ Records(c)' = Records(c) /\ Rows(c)' = Rows(c)
      /\ Inconsistent(c)' <=> Inconsistent(c)
      /\ \A j : RowMatches(c, j)' <=> RowMatches(c, j)
  BY RunFrame
<1> QED
  <2>1. Records(c)'.status = 0
    BY <1>4, <1>8
  <2>2. row'[c] \in 1 .. (Len(Case(c)'.receipts) + 1)
    BY <1>7, <1>8
  <2>3. c \notin problems' <=> ~Inconsistent(c)' /\ \A j \in Rows(c)' : j < row'[c] => RowMatches(c, j)'
    BY <1>6, <1>8
  <2> QED
    BY <2>1, <2>2, <2>3 DEF JudgedCase

\* A thread's step keeps the judgement of its own case, whatever the other
\* threads have put into the cache.
LEMMA ThreadJudgesItsCase ==
  ASSUME IInv, NEW c \in Cases, Thread(c)
  PROVE  JudgedCase(c)'
<1>1. UNCHANGED run
  BY ThreadFrame
<1>2. /\ Case(c)' = Case(c) /\ Records(c)' = Records(c) /\ Rows(c)' = Rows(c)
      /\ Inconsistent(c)' <=> Inconsistent(c)
      /\ MatchesExpectation(c)' <=> MatchesExpectation(c)
      /\ \A j : Row(c, j)' = Row(c, j)
      /\ \A j : RowMatches(c, j)' <=> RowMatches(c, j)
  BY <1>1, RunFrame
<1>3. JudgedCase(c)
  BY DEF IInv, Judged, JudgedCase
<1>4. Len(Case(c).receipts) \in Nat /\ Rows(c) = 1 .. Len(Case(c).receipts)
  BY RunFacts DEF IInv
<1>5. CASE StartCase(c)
  <2>1. state[c] = "queued" /\ state'[c] = "receiver" /\ UNCHANGED <<row, problems>>
    BY <1>5 DEF StartCase, IInv, Control
  <2> QED
    BY <1>3, <2>1 DEF JudgedCase
<1>6. CASE ReceiverExits(c)
  <2>1. /\ state[c] = "receiver" /\ UNCHANGED row
        /\ state'[c] = IF Records(c).status # 0 THEN "done" ELSE "rows"
        /\ c \in problems' <=> c \in problems \/ Records(c).status # 0 \/ Inconsistent(c)
    BY <1>6 DEF ReceiverExits, IInv, Control
  <2>2. row[c] = 1 /\ c \notin problems /\ row'[c] = 1
    BY <2>1, <1>3 DEF JudgedCase
  <2>3. \A i \in Rows(c) : ~(i < 1)
    BY <1>4
  <2>4. Records(c).status # 0 => ~MatchesExpectation(c)
    BY DEF MatchesExpectation
  <2> QED
    BY <1>2, <1>4, <2>1, <2>2, <2>3, <2>4 DEF JudgedCase
<1>7. CASE CompareRow(c)
  <2>1. state[c] = "rows" /\ row[c] \in Rows(c)
    BY <1>7 DEF CompareRow
  <2>2. CASE Row(c, row[c]).report = None \/ cache[Key(c, row[c])] # Miss
    <3>1. FinishRow(c, cache[Key(c, row[c])]) /\ UNCHANGED state
      BY <1>7, <2>2 DEF CompareRow
    <3>2. Row(c, row[c]).report # None => cache[Key(c, row[c])] = run.cli[Arguments(c, row[c])]
      BY <2>1, <2>2 DEF IInv, CacheRight
    <3> QED
      BY <1>1, <2>1, <3>1, <3>2, FinishJudges
  <2>3. CASE ~(Row(c, row[c]).report = None \/ cache[Key(c, row[c])] # Miss)
    <3>1. state'[c] = "cli" /\ UNCHANGED <<row, problems>>
      BY <1>7, <2>3 DEF CompareRow, IInv, Control
    <3> QED
      BY <1>2, <1>3, <2>1, <2>3, <3>1 DEF JudgedCase
  <2> QED
    BY <2>2, <2>3
<1>8. CASE CliExits(c)
  <2>1. state[c] = "cli" /\ state'[c] = "store" /\ UNCHANGED <<row, problems>>
    BY <1>8 DEF CliExits, IInv, Control
  <2> QED
    BY <1>2, <1>3, <2>1 DEF JudgedCase
<1>9. CASE StoreAnswer(c)
  <2>1. state[c] = "store" /\ state'[c] = "rows" /\ FinishRow(c, answer[c])
    BY <1>9 DEF StoreAnswer, IInv, Control
  <2>2. row[c] \in Rows(c) /\ answer[c] = run.cli[Arguments(c, row[c])]
    BY <2>1 DEF IInv, Judged, JudgedCase, CacheRight
  <2> QED
    BY <1>1, <2>1, <2>2, FinishJudges
<1>10. CASE ReturnResult(c)
  <2>1. state[c] = "rows" /\ row[c] \notin Rows(c) /\ state'[c] = "done" /\ UNCHANGED <<row, problems>>
    BY <1>10 DEF ReturnResult, IInv, Control
  <2>2. row[c] = Len(Case(c).receipts) + 1
    BY <1>3, <1>4, <2>1 DEF JudgedCase
  <2>3. \A i \in Rows(c) : i < row[c]
    BY <1>4, <2>2
  <2>4. c \notin problems <=> MatchesExpectation(c)
    BY <1>3, <2>1, <2>3 DEF JudgedCase, MatchesExpectation, RowMatches
  <2> QED
    BY <1>2, <2>1, <2>4 DEF JudgedCase
<1>11. CASE TimeOut(c)
  <2>1. state'[c] = "raised"
    BY <1>11 DEF TimeOut, IInv, Control
  <2> QED
    BY <2>1 DEF JudgedCase
<1> QED
  BY <1>5, <1>6, <1>7, <1>8, <1>9, <1>10, <1>11 DEF Thread

\* ... and so of every case.
LEMMA ThreadJudged ==
  ASSUME IInv, NEW c \in Cases, Thread(c)
  PROVE  Judged'
<1>1. UNCHANGED run
  BY ThreadFrame
<1> SUFFICES ASSUME NEW d \in Cases PROVE JudgedCase(d)'
  BY <1>1, RunFrame DEF Judged, JudgedCase
<1>2. CASE d = c
  BY <1>2, ThreadJudgesItsCase
<1>3. CASE d # c
  <2>1. JudgedCase(d)
    BY DEF IInv, Judged, JudgedCase
  <2>2. state'[d] = state[d] /\ row'[d] = row[d] /\ (d \in problems' <=> d \in problems)
    BY <1>3, ThreadFrame
  <2>3. /\ Case(d)' = Case(d) /\ Records(d)' = Records(d) /\ Rows(d)' = Rows(d)
        /\ Inconsistent(d)' <=> Inconsistent(d)
        /\ MatchesExpectation(d)' <=> MatchesExpectation(d)
        /\ \A j : Row(d, j)' = Row(d, j)
        /\ \A j : RowMatches(d, j)' <=> RowMatches(d, j)
    BY <1>1, RunFrame
  <2> QED
    BY <2>1, <2>2, <2>3 DEF JudgedCase
<1> QED
  BY <1>2, <1>3

\* A worker takes a case only if fewer than --jobs are busy.
LEMMA ThreadPool ==
  ASSUME IInv, NEW c \in Cases, Thread(c)
  PROVE  PoolBound'
<1>1. UNCHANGED run /\ Cases' = Cases /\ IsFiniteSet(Cases) /\ run.jobs \in Int
  BY ThreadFrame, RunFrame, RunFacts DEF IInv
<1>2. IsFiniteSet(Evaluating) /\ Cardinality(Evaluating) \in Nat
  BY <1>1, FS_Subset, FS_CardinalityType DEF Evaluating
<1>3. CASE StartCase(c)
  <2>1. Evaluating' = Evaluating \cup {c} /\ c \notin Evaluating
    BY <1>1, <1>3 DEF StartCase, Evaluating, IInv, Control
  <2>2. Cardinality(Evaluating \cup {c}) = Cardinality(Evaluating) + 1
    BY <1>2, <2>1, FS_AddElement
  <2>3. Cardinality(Evaluating) < run.jobs
    BY <1>3 DEF StartCase
  <2>4. Cardinality(Evaluating') <= run.jobs
    BY <1>1, <1>2, <2>1, <2>2, <2>3
  <2> QED
    BY <1>1, <2>4 DEF PoolBound
<1>4. CASE ~StartCase(c)
  <2>1. c \in Evaluating
    BY <1>4 DEF Thread, ReceiverExits, CompareRow, CliExits, StoreAnswer, ReturnResult, TimeOut, Evaluating
  <2>2. Evaluating' \subseteq Evaluating
    BY <1>1, <2>1, ThreadFrame DEF Evaluating
  <2>3. Cardinality(Evaluating') <= Cardinality(Evaluating) /\ Cardinality(Evaluating') \in Nat
    BY <1>2, <2>2, FS_Subset, FS_CardinalityType
  <2>4. Cardinality(Evaluating) <= run.jobs
    BY <2>1 DEF IInv, PoolBound
  <2>5. Cardinality(Evaluating') <= run.jobs
    BY <1>1, <1>2, <2>3, <2>4
  <2> QED
    BY <1>1, <2>5 DEF PoolBound
<1> QED
  BY <1>3, <1>4

\* What the main thread leaves alone, and what it can do to a case: submit
\* it or cancel it.
LEMMA MainFrame ==
  ASSUME IInv, Main
  PROVE  /\ UNCHANGED <<run, row, answer, problems, cache>>
         /\ state' \in [Cases -> States]
         /\ \A c \in Cases : \/ state'[c] = state[c]
                             \/ state[c] = "idle" /\ state'[c] = "queued" /\ c \in Selected
                             \/ state[c] = "queued" /\ state'[c] = "cancelled"
BY DEF IInv, Control, Phases, States, Main, CheckPackage, Collect, Abort, Summarise, WriteTranscript, threadVars

\* The verdict depends on the invocation and on the cases with a problem.
LEMMA OkFrame ==
  ASSUME UNCHANGED <<run, problems>>
  PROVE  Ok' <=> Ok
<1>1. /\ Cases' = Cases /\ Selected' = Selected
      /\ \A c : Case(c)' = Case(c) /\ Records(c)' = Records(c) /\ Rows(c)' = Rows(c)
      /\ \A c, i : Row(c, i)' = Row(c, i)
  BY RunFrame
<1>2. FalsifiedA' <=> FalsifiedA
  BY <1>1 DEF FalsifiedA
<1>r. ResultRows' = ResultRows
  BY <1>1 DEF ResultRows
<1>3. FalsifiedB' <=> FalsifiedB
  BY <1>1, <1>r DEF FalsifiedB, Passed
<1>4. (EvidenceA' <=> EvidenceA) /\ (EvidenceB' <=> EvidenceB)
  BY <1>1, <1>r DEF EvidenceA, EvidenceB
<1>5. \A d : ControlOK(d)' <=> ControlOK(d)
  BY <1>1 DEF ControlOK
<1>6. \A c, claim : ClaimOK(c, claim)' <=> ClaimOK(c, claim)
  BY <1>1 DEF ClaimOK
<1>7. \A f : FamilyOK(f)' <=> FamilyOK(f)
  BY <1>1, <1>5, <1>6 DEF FamilyOK
<1> QED
  BY <1>1, <1>2, <1>3, <1>4, <1>7 DEF Ok

\* A step of the main thread preserves the invariant.
LEMMA MainStep == IInv /\ Main => IInv'
<1> SUFFICES ASSUME IInv, Main PROVE IInv'
  OBVIOUS
<1>1. /\ UNCHANGED <<run, row, answer, problems, cache>>
      /\ state' \in [Cases -> States]
      /\ Cases' = Cases /\ Selected' = Selected /\ Keys' = Keys
  BY MainFrame, RunFrame
<1>2. Control'
  <2>1. collected' \subseteq Selected
    BY DEF IInv, Control, Main, CheckPackage, Collect, Abort, Summarise, WriteTranscript, Awaited
  <2>2. \A c \in Cases : state'[c] # "idle" => c \in Selected
    BY MainFrame DEF IInv, Control
  <2>3. /\ pc' \in {"integrity", "collect", "abort", "summary", "version", "ended"}
        /\ transcript' \in {"absent", "earlier", "PASS", "FAIL"}
        /\ exit' \in {None, 0, 1, 2}
    BY DEF IInv, Control, Main, CheckPackage, Collect, Abort, Summarise, WriteTranscript, Exit
  <2> QED
    BY <1>1, <2>1, <2>2, <2>3 DEF IInv, Control
<1>3. Phases'
  <2>1. CASE CheckPackage
    <3>1. collected = {} /\ UNCHANGED collected
      <4>1. \A c \in collected : c \in Cases /\ state[c] = "done" /\ state[c] = "idle"
        BY <2>1 DEF CheckPackage, IInv, Phases, Control, Selected
      <4> QED
        BY <2>1, <4>1 DEF CheckPackage
    <3>2. \/ pc' = "ended" /\ exit' \in {1, 2} /\ UNCHANGED state
          \/ pc' = "collect" /\ exit' = None
      BY <2>1 DEF CheckPackage, Exit, IInv, Phases
    <3>3. \A c \in Cases : state[c] = "idle"
      BY <2>1 DEF CheckPackage, IInv, Phases
    <3> QED
      BY <1>1, <3>1, <3>2, <3>3, NoneAssumption DEF Phases
  <2>2. CASE Collect
    <3>1. exit = None /\ exit' = None
      BY <2>2 DEF Collect, IInv, Phases
    <3>2. pc' \in {"collect", "abort", "summary"}
      BY <2>2 DEF Collect
    <3>3. \A c \in collected' : state'[c] = "done"
      BY <2>2 DEF Collect, IInv, Phases, Control, Awaited, Selected
    <3>4. pc' = "abort" => \A c \in Cases : state'[c] # "queued"
      BY <2>2 DEF Collect
    <3>5. pc' = "summary" => collected' = Selected
      BY <2>2 DEF Collect, IInv, Control
    <3> QED
      BY <1>1, <3>1, <3>2, <3>3, <3>4, <3>5, NoneAssumption DEF Phases
  <2>3. CASE Abort
    <3>1. \A c \in Cases : state[c] \in {"idle", "done", "raised", "cancelled"}
      BY <2>3 DEF Abort, Evaluating, IInv, Phases, Control, States
    <3> QED
      BY <1>1, <2>3, <3>1, NoneAssumption DEF Abort, Exit, threadVars, IInv, Phases
  <2>4. CASE Summarise
    <3>1. \A c \in Cases : state[c] \in {"idle", "done", "raised", "cancelled"}
      BY <2>4 DEF Summarise, IInv, Phases, Control, Selected
    <3>2. /\ UNCHANGED <<state, collected>>
          /\ (pc' = "version" /\ exit' = None) \/ (pc' = "ended" /\ exit' = 1)
      BY <2>4 DEF Summarise, Exit, threadVars, IInv, Phases
    <3>3. collected = Selected
      BY <2>4 DEF Summarise, IInv, Phases
    <3> QED
      BY <1>1, <3>1, <3>2, <3>3, NoneAssumption DEF IInv, Phases
  <2>5. CASE WriteTranscript
    <3>1. \A c \in Cases : state[c] \in {"idle", "done", "raised", "cancelled"}
      BY <2>5 DEF WriteTranscript, IInv, Phases, Control, Selected
    <3>2. /\ UNCHANGED <<state, collected>> /\ pc' = "ended" /\ exit' \in {0, 1}
          /\ exit' = 0 => Ok /\ transcript' = "PASS"
      BY <2>5 DEF WriteTranscript, Exit, threadVars
    <3>3. collected = Selected
      BY <2>5 DEF WriteTranscript, IInv, Phases
    <3> QED
      BY <1>1, OkFrame, <3>1, <3>2, <3>3, NoneAssumption DEF IInv, Phases
  <2> QED
    BY <2>1, <2>2, <2>3, <2>4, <2>5 DEF Main
<1>4. CacheRight'
  BY <1>1, MainFrame, RunFrame DEF IInv, CacheRight
<1>5. Judged'
  <2> SUFFICES ASSUME NEW c \in Cases PROVE JudgedCase(c)'
    BY <1>1 DEF Judged
  <2>1. JudgedCase(c)
    BY DEF IInv, Judged
  <2>2. \/ state'[c] = state[c]
        \/ state[c] = "idle" /\ state'[c] = "queued"
        \/ state[c] = "queued" /\ state'[c] = "cancelled"
    BY MainFrame
  <2>3. /\ Case(c)' = Case(c) /\ Records(c)' = Records(c) /\ Rows(c)' = Rows(c)
        /\ Inconsistent(c)' <=> Inconsistent(c)
        /\ MatchesExpectation(c)' <=> MatchesExpectation(c)
        /\ \A j : Row(c, j)' = Row(c, j)
        /\ \A j : RowMatches(c, j)' <=> RowMatches(c, j)
    BY <1>1, RunFrame
  <2> QED
    BY <1>1, <2>1, <2>2, <2>3 DEF JudgedCase
<1>6. PoolBound'
  <2>1. Evaluating' = Evaluating
    BY <1>1, MainFrame DEF Evaluating
  <2> QED
    BY <1>1, <2>1 DEF IInv, PoolBound
<1> QED
  BY <1>2, <1>3, <1>4, <1>5, <1>6 DEF IInv

----------------------------------------------------------------------------

\* The invariant is inductive: every reachable state satisfies it.
LEMMA Invariance == Spec => []IInv
<1>1. IInv /\ [Next]_vars => IInv'
  <2> SUFFICES ASSUME IInv, [Next]_vars PROVE IInv'
    OBVIOUS
  <2>1. CASE Main
    BY <2>1, MainStep
  <2>2. ASSUME NEW c \in Cases, Thread(c) PROVE IInv'
    BY <2>2, ThreadControl, ThreadPhases, ThreadCache, ThreadJudged, ThreadPool DEF IInv
  <2>3. CASE UNCHANGED vars
    <3>1. UNCHANGED run
      BY <2>3 DEF vars
    <3>2. Control'
      BY <2>3, <3>1, RunFrame DEF vars, IInv, Control
    <3>3. Phases'
      BY <2>3, <3>1, OkFrame, RunFrame DEF vars, IInv, Phases
    <3>4. CacheRight'
      BY <2>3, <3>1, RunFrame DEF vars, IInv, CacheRight
    <3>5. Judged'
      BY <2>3, <3>1, RunFrame DEF vars, IInv, Judged, JudgedCase
    <3>6. PoolBound'
      BY <2>3, <3>1, RunFrame DEF vars, IInv, PoolBound, Evaluating
    <3> QED
      BY <3>2, <3>3, <3>4, <3>5, <3>6 DEF IInv
  <2> QED
    BY <2>1, <2>2, <2>3 DEF Next, Progress, Main
<1> QED
  BY InitIInv, <1>1, PTL DEF Spec

\* Type correctness, and never more busy threads than --jobs.
THEOREM TypeCorrect == Spec => []TypeOK
<1>1. IInv => TypeOK
  BY DEF IInv, Control, PoolBound, TypeOK, States
<1> QED
  BY Invariance, <1>1, PTL

\* The shared cache never changes a verdict: evaluate_case returns case_ok
\* exactly when the case, evaluated alone, matches its expectation, for any
\* interleaving of any number of threads.
THEOREM VerdictsIndependent == Spec => []CaseVerdictIndependentOfOthers
<1>1. IInv => CaseVerdictIndependentOfOthers
  BY DEF IInv, Judged, JudgedCase, CaseVerdictIndependentOfOthers
<1> QED
  BY Invariance, <1>1, PTL

\* Exit 0 is earned: every selected case was evaluated and matches, and in a
\* full run every negative's controls were relied upon in the same run.
THEOREM PassEarned == Spec => []PassIsEarned
<1>1. IInv => PassIsEarned
  <2> SUFFICES ASSUME IInv, exit = 0
               PROVE  /\ Selected # {} /\ collected = Selected
                      /\ \A c \in Selected : MatchesExpectation(c)
                      /\ run.only = None =>
                           \A c \in Cases : Case(c).family \in run.families /\ Case(c).role = "negative" =>
                             /\ Case(c).controls # {}
                             /\ \A d \in Case(c).controls :
                                  d \in Cases /\ \A i \in Rows(d) : Row(d, i).decision = "rely" /\ Passed(Row(d, i)) = TRUE
                      /\ transcript = "PASS"
    BY DEF PassIsEarned
  <2>1. collected = Selected /\ Ok /\ transcript = "PASS"
    BY DEF IInv, Phases
  <2>2. Selected # {}
    BY <2>1 DEF Ok, EvidenceA
  <2>3. \A c \in Selected : MatchesExpectation(c)
    BY <2>1 DEF IInv, Phases, Judged, JudgedCase, Ok, Selected
  <2>4. ASSUME run.only = None, NEW c \in Cases, Case(c).family \in run.families, Case(c).role = "negative"
        PROVE  /\ Case(c).controls # {}
               /\ \A d \in Case(c).controls :
                    d \in Cases /\ \A i \in Rows(d) : Row(d, i).decision = "rely" /\ Passed(Row(d, i)) = TRUE
    <3>1. Selected = Cases
      BY <2>4 DEF Selected
    <3>2. Case(c).controls # {} /\ \A d \in Case(c).controls : ControlOK(d)
      BY <2>1, <2>4, <3>1 DEF Ok, FamilyOK
    <3>3. ASSUME NEW d \in Case(c).controls, NEW i \in Rows(d)
          PROVE  Row(d, i).decision = "rely" /\ Passed(Row(d, i)) = TRUE
      <4>1. d \in Selected /\ MatchesExpectation(d)
        BY <2>3, <3>1, <3>2 DEF ControlOK
      <4>2. i \in DOMAIN Case(d).expect /\ Row(d, i).decision = Case(d).expect[i].decision
        BY <4>1, <3>3 DEF MatchesExpectation, Unexpected
      <4>3. Row(d, i).decision = "rely"
        BY <3>2, <4>2 DEF ControlOK
      <4>4. Records(d).status = 0
        BY <4>1 DEF MatchesExpectation
      <4>5. ~FalsifiedB
        BY <2>1 DEF Ok
      <4>6. Row(d, i) \in ResultRows
        BY <3>3, <4>1, <4>4 DEF ResultRows
      <4>7. Passed(Row(d, i)) = TRUE
        BY <4>3, <4>5, <4>6 DEF FalsifiedB
      <4> QED
        BY <4>3, <4>7
    <3> QED
      BY <3>2, <3>3 DEF ControlOK
  <2> QED
    BY <2>1, <2>2, <2>3, <2>4
<1> QED
  BY Invariance, <1>1, PTL

\* No thread is in the middle of a case once the process has ended.
THEOREM ThreadsJoined == Spec => []NothingRunsAfterExit
<1>1. IInv => NothingRunsAfterExit
  BY DEF IInv, Phases, NothingRunsAfterExit, Evaluating
<1> QED
  BY Invariance, <1>1, PTL
=============================================================================
