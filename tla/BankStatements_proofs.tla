------------------------ MODULE BankStatements_proofs ------------------------
(***************************************************************************)
(* What H2HService promises about statement files and their lines, for any *)
(* files, entries, intents and pages. The argument: a request that is      *)
(* alone uploads a file that has no lines yet, and binds lines that are    *)
(* still unbound; a scan that sees all pending intents on one page has     *)
(* weighed every intent that was pending throughout.                       *)
(***************************************************************************)
EXTENDS BankStatements, FiniteSetTheorems, WellFoundedInduction, TLAPS

-----------------------------------------------------------------------------
(* Types *)

Uploads ==
    {NoUpload} \cup [pc : {"create", "parse", "parsed"}, file : Files, stmt : Statements]

ScanPcs == {"count", "page", "decide"}

Runs ==
    [pc : {"start", "list", "next"} \cup ScanPcs, file : Files, stmt : Statements,
     todo : SUBSET LineIds, line : LineIds \cup {None}, offset : Nat, total : Nat,
     best : {0, 85, 95}, pick : Intents \cup {NoIntent}, tied : Nat, steady : SUBSET Intents]

\* A run has a line while it scans for it, and marks its statement only as
\* being matched.
RunShape(run) ==
    /\ run.pc \in ScanPcs => run.line \in LineIds
    /\ run.stmt.status = "matching"

\* Tables, requests and runs are well formed.
TypeInv ==
    /\ stmts \in [Files -> Statements]
    /\ inserts \in [Files -> 0..MaxInserts]
    /\ lines \in [LineIds -> Intents \cup {NoIntent}]
    /\ uploads \in [Uploaders -> Uploads]
    /\ \A m \in Matchers : matchers[m] # NoRun =>
          matchers[m] \in Runs /\ RunShape(matchers[m])
    /\ matchers = [m \in Matchers |-> matchers[m]]
    /\ opened \subseteq Intents
    /\ pending \subseteq Intents
    /\ faults \in Nat

LEMMA LinesExist ==
    ASSUME NEW f
    PROVE  LinesOf(f) \subseteq LineIds /\ UnmatchedLines(f) \subseteq LineIds
BY DEF LinesOf, UnmatchedLines

\* The largest of some numbers up to n is one of them.
LEMMA LargestIsOne ==
    ASSUME NEW n \in Nat, NEW S \in SUBSET (0..n), S # {}
    PROVE  Max(S) \in S /\ \A y \in S : Max(S) >= y
<1> DEFINE T == {k \in 0..n : n - k \in S}
<1>1. T \subseteq Nat /\ T # {}
  <2>1. PICK x \in S : TRUE
    OBVIOUS
  <2>2. n - x \in 0..n /\ n - (n - x) = x
    BY <2>1
  <2>3. n - x \in T
    BY <2>1, <2>2
  <2>4. T \subseteq Nat
    OBVIOUS
  <2> HIDE DEF T
  <2> QED
    BY <2>3, <2>4
<1> DEFINE R == OpToRel(<, Nat)
<1>2. \A i, j \in Nat : i < j => <<i, j>> \in R
  BY DEF OpToRel
<1>3. \E k \in T : \A i \in T : <<i, k>> \notin R
  <2>1. IsWellFoundedOn(R, Nat)
    BY NatLessThanWellFounded
  <2> HIDE DEF R, T
  <2> QED
    BY <1>1, <2>1, WFMin
<1> HIDE DEF R
<1>4. PICK k \in T : \A i \in T : <<i, k>> \notin R
  BY <1>3
<1>5. n - k \in S /\ \A y \in S : n - k >= y
  <2>1. n - k \in S
    BY <1>4
  <2>2. ASSUME NEW y \in S PROVE n - k >= y
    <3>1. n - y \in T
      <4>1. n - y \in 0..n /\ n - (n - y) = y
        OBVIOUS
      <4> QED
        BY <4>1
    <3>2. ~(n - y < k)
      BY <1>1, <1>2, <1>4, <3>1
    <3> QED
      BY <1>1, <1>4, <3>2
  <2> QED
    BY <2>1, <2>2
<1>6. \E x \in S : \A y \in S : x >= y
  BY <1>5
<1> QED
  BY <1>6 DEF Max

\* A pending intent never fits by its payment.
LEMMA Confidences ==
    ASSUME NEW l, NEW i
    PROVE  Confidence(l, i) \in {0, 85, 95}
BY DEF Confidence, MatchByReference

\* The intent that the run would bind beats all others of the page.
SettledBy(run, page) ==
    Binds(run) => \A i \in page \ {run.pick} : Confidence(run.line, i) < run.best

\* What a page adds to a run.
LEMMA Weighing ==
    ASSUME NEW run \in Runs, NEW page \in SUBSET Intents, IsFiniteSet(page)
    PROVE  /\ Weigh(run, page) \in Runs
           /\ \A x \in {"pc", "file", "stmt", "todo", "line", "offset", "total", "steady"} :
                 Weigh(run, page)[x] = run[x]
           /\ run.best = 0 /\ run.tied = 0 => SettledBy(Weigh(run, page), page)
<1> DEFINE C == {Confidence(run.line, i) : i \in page}
           top == Max({0} \cup C)
           ties == {i \in page : Confidence(run.line, i) = top}
<1>1. C \subseteq {0, 85, 95}
  BY Confidences
<1>2. top \in {0} \cup C
  <2>1. {0} \cup C \in SUBSET (0..95) /\ {0} \cup C # {}
    BY <1>1
  <2> QED
    BY <2>1, LargestIsOne
<1>3. top \in {0, 85, 95}
  BY <1>1, <1>2
<1>4. ties \in SUBSET Intents /\ IsFiniteSet(ties)
  <2>1. ties \in SUBSET page
    OBVIOUS
  <2> QED
    BY <2>1, FS_Subset
<1>5. Cardinality(ties) \in Nat
  BY <1>4, FS_CardinalityType
<1>6. top > run.best => ties # {}
  <2> SUFFICES ASSUME top > run.best PROVE ties # {}
    OBVIOUS
  <2>1. run.best \in {0, 85, 95}
    BY DEF Runs
  <2>2. top # 0
    BY <1>3, <2>1
  <2>3. top \in C
    BY <1>2, <2>2
  <2> QED
    BY <2>3
<1>7. ties # {} => Max(ties) \in Intents
  <2>1. ties \in SUBSET (0..LastIntent)
    BY <1>4, StatementsAssumption DEF Intents
  <2> QED
    BY <1>4, <2>1, StatementsAssumption, LargestIsOne
<1> DEFINE c == Cardinality(ties)
           pick == Max(ties)
           better == [run EXCEPT !.best = top, !.pick = pick, !.tied = c]
           same == [run EXCEPT !.tied = @ + c]
<1>8. \A i \in page \ ties : Confidence(run.line, i) < top
  <2>1. {0} \cup C \in SUBSET (0..95) /\ {0} \cup C # {}
    BY <1>1
  <2>2. \A k \in C : top >= k
    BY <2>1, LargestIsOne
  <2>3. \A i \in page : Confidence(run.line, i) \in C /\ Confidence(run.line, i) \in Nat
    BY Confidences
  <2> HIDE DEF C
  <2> QED
    BY <1>3, <2>2, <2>3
<1>9. ties # {} => Max(ties) \in ties
  <2>1. ties \in SUBSET (0..LastIntent)
    BY <1>4, StatementsAssumption DEF Intents
  <2> QED
    BY <2>1, StatementsAssumption, LargestIsOne
<1>10. ties # {} /\ Cardinality(ties) < 2 => ties = {Max(ties)}
  <2> SUFFICES ASSUME ties # {}, Cardinality(ties) < 2 PROVE ties = {Max(ties)}
    OBVIOUS
  <2>1. Cardinality(ties) # 0
    BY <1>4, FS_EmptySet
  <2>2. Cardinality(ties) = 1
    BY <1>5, <2>1
  <2>3. \E x : ties = {x}
    <3> HIDE DEF ties
    <3> QED
      BY <1>4, <2>2, FS_Singleton
  <2>4. Max(ties) \in ties
    BY <1>9
  <2> HIDE DEF ties
  <2> QED
    BY <2>3, <2>4
<1>11. Weigh(run, page) = CASE top > run.best -> better
                           [] top = run.best /\ top > 0 -> same
                           [] OTHER -> run
  BY DEF Weigh
<1> HIDE DEF C, top, ties, c, pick
<1>12. c \in Nat /\ run.tied + c \in Nat
  BY <1>5 DEF c, Runs
<1>13. /\ top > run.best => better \in Runs
       /\ \A x \in {"pc", "file", "stmt", "todo", "line", "offset", "total", "steady"} :
             better[x] = run[x]
  BY <1>3, <1>6, <1>7, <1>12 DEF Runs, pick
<1>14. /\ same \in Runs
       /\ \A x \in {"pc", "file", "stmt", "todo", "line", "offset", "total", "steady"} :
             same[x] = run[x]
  BY <1>12 DEF Runs
<1>15. better.best = top /\ better.pick = pick /\ better.tied = c /\ better.line = run.line
  BY DEF Runs
<1> HIDE DEF better, same
<1>16. top \in Nat /\ run.best \in Nat
  BY <1>3 DEF Runs
<1>17. run.best = 0 /\ run.tied = 0 => SettledBy(Weigh(run, page), page)
  <2> SUFFICES ASSUME run.best = 0, Binds(Weigh(run, page)),
                      NEW i \in page \ {Weigh(run, page).pick}
               PROVE  Confidence(Weigh(run, page).line, i) < Weigh(run, page).best
    BY DEF SettledBy
  <2>1. CASE top > 0
    <3>1. Weigh(run, page) = better
      BY <1>11, <1>16, <2>1
    <3>2. c < 2
      BY <1>15, <3>1 DEF Binds
    <3>3. ties = {pick}
      BY <1>6, <1>10, <2>1, <3>2 DEF c, pick
    <3>4. i \in page \ ties
      BY <1>15, <3>1, <3>3
    <3> QED
      BY <1>15, <1>8, <3>1, <3>4
  <2>2. CASE ~(top > 0)
    <3>1. Weigh(run, page) = run
      BY <1>11, <1>16, <2>2
    <3> QED
      BY <3>1 DEF Binds, Threshold
  <2> QED
    BY <2>1, <2>2
<1> QED
  BY <1>11, <1>13, <1>14, <1>16, <1>17

-----------------------------------------------------------------------------
(* Every step keeps the types *)

LEMMA PendingIsFinite ==
    ASSUME TypeInv
    PROVE  /\ IsFiniteSet(pending) /\ Cardinality(pending) \in Nat
           /\ \A S \in SUBSET pending : IsFiniteSet(S) /\ Cardinality(S) \in Nat
<1>1. IsFiniteSet(1..LastIntent)
  BY StatementsAssumption, FS_Interval
<1>2. \A S \in SUBSET (1..LastIntent) : IsFiniteSet(S) /\ Cardinality(S) \in Nat
  BY <1>1, FS_Subset, FS_CardinalityType
<1> QED
  BY <1>2 DEF TypeInv, Intents

LEMMA Statuses ==
    ASSUME NEW s \in Statements, NEW status \in StatementStatuses
    PROVE  To(s, status) \in Statements /\ To(s, status).status = status
BY DEF To, Statements

LEMMA NoStatementOK == NoStatement \in Statements /\ NoStatement.status = "absent"
BY StatementsAssumption DEF NoStatement, Statements, StatementStatuses

\* A step of an upload.
LEMMA UploadGoes ==
    ASSUME TypeInv, NEW u \in Uploaders, NEW n \in Uploads, uploads' = [uploads EXCEPT ![u] = n],
           stmts' \in [Files -> Statements], inserts' \in [Files -> 0..MaxInserts],
           UNCHANGED <<lines, matchers, opened, pending>>, faults' \in Nat
    PROVE  TypeInv'
BY DEF TypeInv

\* A step of a run.
LEMMA RunGoes ==
    ASSUME TypeInv, NEW m \in Matchers, NEW n, n = NoRun \/ (n \in Runs /\ RunShape(n)),
           RunTo(m, n), stmts' \in [Files -> Statements],
           lines' \in [LineIds -> Intents \cup {NoIntent}],
           UNCHANGED <<inserts, uploads, opened, pending>>, faults' \in Nat
    PROVE  TypeInv'
<1>1. /\ matchers' = [k \in Matchers |-> matchers'[k]]
      /\ \A k \in Matchers : matchers'[k] = IF k = m THEN n ELSE matchers[k]
  BY DEF TypeInv, RunTo
<1>2. \A k \in Matchers : matchers'[k] # NoRun => matchers'[k] \in Runs /\ RunShape(matchers'[k])
  BY <1>1 DEF TypeInv
<1>3. \A k \in Matchers : RunShape(matchers[k])' <=> RunShape(matchers'[k])
  BY DEF RunShape
<1> QED
  BY <1>1, <1>2, <1>3 DEF TypeInv

LEMMA UploadTypes ==
    ASSUME TypeInv, NEW u \in Uploaders,
           (\E f \in Files : Upload(u, f)) \/ UploadStep(u) \/ AbortUpload(u)
    PROVE  TypeInv'
<1>0. NoUpload \in Uploads
  BY DEF Uploads
<1> PICK s \in Uploads : s = uploads[u]
  BY DEF TypeInv
<1>1. s.pc # "idle" => /\ s.pc \in {"create", "parse", "parsed"} /\ s.file \in Files
                       /\ s.stmt \in Statements
  BY DEF Uploads, NoUpload
<1>2. ASSUME NEW f \in Files, Upload(u, f) PROVE TypeInv'
  <2> PICK old \in Statements : old = stmts[f]
    BY DEF TypeInv
  <2>1. UNCHANGED <<stmts, lines, inserts, matchers, opened, pending, faults>>
    BY <1>2 DEF Upload, uploadOnly
  <2>2. \E pc \in {"create", "parse"}, n \in {To(NoStatement, "parsing"), old} :
            uploads' = [uploads EXCEPT ![u] = [pc |-> pc, file |-> f, stmt |-> n]]
    BY <1>2 DEF Upload, UploadTo
  <2>3. To(NoStatement, "parsing") \in Statements
    BY NoStatementOK, Statuses DEF StatementStatuses
  <2>4. \A pc \in {"create", "parse"}, n \in {To(NoStatement, "parsing"), old} :
            [pc |-> pc, file |-> f, stmt |-> n] \in Uploads
    BY <2>3 DEF Uploads
  <2> QED
    BY <2>1, <2>2, <2>4, UploadGoes DEF TypeInv
<1>3. CASE CreateStatement(u)
  <2>1. s.pc = "create" /\ UNCHANGED <<lines, inserts, matchers, opened, pending, faults>>
    BY <1>3 DEF CreateStatement, uploadOnly
  <2>2. [pc |-> "parse", file |-> s.file, stmt |-> s.stmt] \in Uploads
    BY <1>1, <2>1 DEF Uploads
  <2>3. /\ stmts' \in [Files -> Statements]
        /\ \E n \in Uploads : uploads' = [uploads EXCEPT ![u] = n]
    BY <1>0, <1>1, <1>3, <2>1, <2>2
       DEF CreateStatement, UpdateStatement, UploadTo, EndUpload, TypeInv
  <2> QED
    BY <2>1, <2>3, UploadGoes DEF TypeInv
<1>4. CASE FailParse(u) \/ FinishParse(u)
  <2>1. s.pc # "idle" /\ UNCHANGED <<lines, inserts, matchers, opened, pending, faults>>
    BY <1>4 DEF FailParse, FinishParse, uploadOnly
  <2>2. To(s.stmt, "failed") \in Statements /\ To(s.stmt, "parsed") \in Statements
    BY <1>1, <2>1, Statuses DEF StatementStatuses
  <2>3. stmts' \in [Files -> Statements] /\ uploads' = [uploads EXCEPT ![u] = NoUpload]
    BY <1>1, <1>4, <2>1, <2>2 DEF FailParse, FinishParse, UpdateStatement, EndUpload, TypeInv
  <2> QED
    BY <1>0, <2>1, <2>3, UploadGoes DEF TypeInv
<1>5. CASE InsertLines(u)
  <2>1. s.pc = "parse" /\ UNCHANGED <<stmts, lines, matchers, opened, pending, faults>>
    BY <1>5 DEF InsertLines
  <2>2. [pc |-> "parsed", file |-> s.file, stmt |-> s.stmt] \in Uploads
    BY <1>1, <2>1 DEF Uploads
  <2>3. /\ inserts[s.file] \in 0..MaxInserts /\ inserts[s.file] < MaxInserts
        /\ inserts' = [inserts EXCEPT ![s.file] = inserts[s.file] + 1]
    BY <1>1, <1>5, <2>1 DEF InsertLines, TypeInv
  <2>4. inserts' \in [Files -> 0..MaxInserts]
    BY <1>1, <2>1, <2>3, StatementsAssumption DEF TypeInv
  <2>5. uploads' = [uploads EXCEPT ![u] = [pc |-> "parsed", file |-> s.file, stmt |-> s.stmt]]
    BY <1>5 DEF InsertLines, UploadTo
  <2> QED
    BY <2>1, <2>2, <2>4, <2>5, UploadGoes DEF TypeInv
<1>6. CASE AbortUpload(u)
  BY <1>0, <1>6, UploadGoes DEF AbortUpload, EndUpload, Fault, TypeInv
<1> QED
  BY <1>2, <1>3, <1>4, <1>5, <1>6 DEF UploadStep

LEMMA RunTypes ==
    ASSUME TypeInv, NEW m \in Matchers,
           \/ \E f \in Files : StartMatching(m, f)
           \/ RunStep(m) \/ AbortRun(m) \/ PageError(m) \/ LineError(m)
    PROVE  TypeInv'
<1> DEFINE run == matchers[m]
<1>0. NoRun.pc = "idle"
  BY DEF NoRun
<1>1. run.pc # "idle" => run \in Runs /\ RunShape(run)
  BY <1>0 DEF TypeInv
<1>2. ASSUME NEW f \in Files, StartMatching(m, f) PROVE TypeInv'
  <2> DEFINE n == [NoRun EXCEPT !.pc = "start", !.file = f, !.stmt = To(stmts[f], "matching")]
  <2>1. /\ To(stmts[f], "matching") \in Statements
        /\ To(stmts[f], "matching").status = "matching"
    BY Statuses DEF TypeInv, StatementStatuses
  <2>2. n \in Runs /\ RunShape(n)
    BY <2>1 DEF Runs, RunShape, NoRun, ScanPcs, NoIntent
  <2>3. RunTo(m, n)
    BY <1>2 DEF StartMatching
  <2> HIDE DEF n
  <2> QED
    BY <1>2, <2>2, <2>3, RunGoes DEF StartMatching, matchOnly, worldOnly, TypeInv
<1>3. CASE WriteMatching(m)
  <2>1. run.pc = "start" /\ RunTo(m, [run EXCEPT !.pc = "list"])
    BY <1>3 DEF WriteMatching
  <2>2. [run EXCEPT !.pc = "list"] \in Runs /\ RunShape([run EXCEPT !.pc = "list"])
    BY <1>1, <2>1 DEF Runs, RunShape, ScanPcs
  <2>3. stmts' \in [Files -> Statements]
    BY <1>1, <1>3, <2>1 DEF WriteMatching, UpdateStatement, TypeInv, Runs
  <2> QED
    BY <1>3, <2>1, <2>2, <2>3, RunGoes DEF WriteMatching, matchOnly, worldOnly, TypeInv
<1>4. CASE ListUnmatchedLines(m)
  <2> DEFINE n == [run EXCEPT !.pc = "next", !.todo = UnmatchedLines(run.file)]
  <2>1. run.pc = "list" /\ RunTo(m, n)
    BY <1>4 DEF ListUnmatchedLines
  <2>2. n \in Runs /\ RunShape(n)
    BY <1>1, <2>1, LinesExist DEF Runs, RunShape, ScanPcs
  <2> HIDE DEF n
  <2> QED
    BY <1>4, <2>1, <2>2, RunGoes DEF ListUnmatchedLines, matchOnly, worldOnly, TypeInv
<1>5. CASE TakeLine(m)
  <2>0. run.pc = "next"
    BY <1>5 DEF TakeLine
  <2>1. PICK l \in run.todo :
            RunTo(m, [NoRun EXCEPT !.pc = "count", !.file = run.file, !.stmt = run.stmt,
                        !.todo = run.todo \ {l}, !.line = l, !.steady = pending])
    BY <1>5 DEF TakeLine
  <2> DEFINE n == [NoRun EXCEPT !.pc = "count", !.file = run.file, !.stmt = run.stmt,
                        !.todo = run.todo \ {l}, !.line = l, !.steady = pending]
  <2>2. /\ run.file \in Files /\ run.stmt \in Statements /\ run.todo \subseteq LineIds
        /\ run.stmt.status = "matching"
    BY <1>1, <2>0 DEF Runs, RunShape
  <2>3. n \in Runs /\ RunShape(n)
    BY <2>2 DEF Runs, RunShape, NoRun, ScanPcs, NoIntent, TypeInv
  <2> HIDE DEF n
  <2> QED
    BY <1>5, <2>1, <2>3, RunGoes DEF n, TakeLine, matchOnly, worldOnly, TypeInv
<1>6. CASE CountPending(m)
  <2> DEFINE n == [run EXCEPT !.pc = "page", !.total = Cardinality(pending)]
  <2>1. run.pc = "count" /\ RunTo(m, n)
    BY <1>6 DEF CountPending
  <2>2. n \in Runs /\ RunShape(n)
    BY <1>1, <2>1, PendingIsFinite DEF Runs, RunShape, ScanPcs
  <2> HIDE DEF n
  <2> QED
    BY <1>6, <2>1, <2>2, RunGoes DEF CountPending, matchOnly, worldOnly, TypeInv
<1>7. CASE ReadPage(m)
  <2> DEFINE page == Page(run.offset)
             weighed == Weigh(run, page)
             next == weighed.offset + PageSize
             pc == IF next >= weighed.total THEN "decide" ELSE "count"
             n == [weighed EXCEPT !.offset = next, !.pc = pc]
  <2>1. run.pc = "page" /\ RunTo(m, n)
    BY <1>7 DEF ReadPage
  <2>2. page \in SUBSET Intents /\ IsFiniteSet(page)
    <3>1. page \in SUBSET pending
      BY DEF Page
    <3> QED
      BY <3>1, PendingIsFinite DEF TypeInv
  <2>3. /\ weighed \in Runs
        /\ weighed.line = run.line /\ weighed.stmt = run.stmt /\ weighed.offset = run.offset
    BY <1>1, <2>1, <2>2, Weighing
  <2> HIDE DEF weighed, page
  <2>4. next \in Nat /\ pc \in {"decide", "count"}
    BY <2>3, StatementsAssumption DEF Runs
  <2> HIDE DEF next, pc
  <2>5. n \in Runs /\ RunShape(n)
    BY <1>1, <2>1, <2>3, <2>4 DEF Runs, RunShape, ScanPcs
  <2> HIDE DEF n
  <2> QED
    BY <1>7, <2>1, <2>5, RunGoes DEF ReadPage, matchOnly, worldOnly, TypeInv
<1>8. ASSUME run.pc \in {"decide"}, NEW n,
             n = [run EXCEPT !.pc = "next", !.stmt.matched = Inc(@)]
             \/ n = [run EXCEPT !.pc = "next", !.stmt.unmatched = Inc(@)]
      PROVE  n \in Runs /\ RunShape(n)
  <2>1. run \in Runs /\ run.stmt \in Statements /\ RunShape(run)
    BY <1>1, <1>8 DEF Runs
  <2>2. \A k \in 0..CountCap : Inc(k) \in 0..CountCap
    BY StatementsAssumption DEF Inc
  <2>3. ASSUME NEW s \in Statements, s.status = "matching"
        PROVE  LET w == [run EXCEPT !.pc = "next", !.stmt = s] IN w \in Runs /\ RunShape(w)
    BY <2>1, <2>3 DEF Runs, RunShape, ScanPcs
  <2>4. /\ [run.stmt EXCEPT !.matched = Inc(@)] \in Statements
        /\ [run.stmt EXCEPT !.unmatched = Inc(@)] \in Statements
        /\ [run.stmt EXCEPT !.matched = Inc(@)].status = "matching"
        /\ [run.stmt EXCEPT !.unmatched = Inc(@)].status = "matching"
    BY <2>1, <2>2 DEF Statements, RunShape
  <2>5. \/ n = [run EXCEPT !.pc = "next", !.stmt = [run.stmt EXCEPT !.matched = Inc(@)]]
        \/ n = [run EXCEPT !.pc = "next", !.stmt = [run.stmt EXCEPT !.unmatched = Inc(@)]]
    BY <1>8, <2>1 DEF Runs
  <2> QED
    BY <2>3, <2>4, <2>5
<1>9. CASE Decide(m)
  <2>1. run.pc = "decide"
    BY <1>9 DEF Decide
  <2>2. \E n : /\ RunTo(m, n)
               /\ n = [run EXCEPT !.pc = "next", !.stmt.matched = Inc(@)]
                  \/ n = [run EXCEPT !.pc = "next", !.stmt.unmatched = Inc(@)]
    BY <1>9 DEF Decide, Unmatched
  <2>3. lines' \in [LineIds -> Intents \cup {NoIntent}]
    BY <1>1, <1>9, <2>1 DEF Decide, TypeInv, Runs, RunShape, ScanPcs
  <2> QED
    BY <1>8, <1>9, <2>1, <2>2, <2>3, RunGoes DEF Decide, matchOnly, worldOnly, TypeInv
<1>10. CASE CompleteMatching(m)
  <2>1. run.pc = "next" /\ run \in Runs /\ RunTo(m, NoRun)
    BY <1>1, <1>10 DEF CompleteMatching, EndRun
  <2>2. Outcome(run.stmt) \in StatementStatuses
    BY DEF Outcome, StatementStatuses
  <2>3. stmts' \in [Files -> Statements]
    BY <1>10, <2>1, <2>2, Statuses DEF CompleteMatching, UpdateStatement, TypeInv, Runs
  <2> QED
    BY <1>10, <2>1, <2>3, RunGoes DEF CompleteMatching, matchOnly, worldOnly, TypeInv
<1>11. CASE AbortRun(m)
  BY <1>11, RunGoes DEF AbortRun, EndRun, Fault, TypeInv
<1>12. CASE PageError(m)
  <2> DEFINE n == [run EXCEPT !.pc = "decide", !.steady = {}]
  <2>1. run.pc \in {"count", "page"} /\ RunTo(m, n)
    BY <1>12 DEF PageError
  <2>2. n \in Runs /\ RunShape(n)
    BY <1>1, <2>1 DEF Runs, RunShape, ScanPcs
  <2> HIDE DEF n
  <2> QED
    BY <1>12, <2>1, <2>2, RunGoes DEF PageError, Fault, TypeInv
<1>13. CASE LineError(m)
  <2>1. run.pc = "decide" /\ RunTo(m, [run EXCEPT !.pc = "next", !.stmt.unmatched = Inc(@)])
    BY <1>13 DEF LineError, Unmatched
  <2> QED
    BY <1>8, <1>13, <2>1, RunGoes DEF LineError, Fault, TypeInv
<1> QED
  BY <1>2, <1>3, <1>4, <1>5, <1>6, <1>7, <1>9, <1>10, <1>11, <1>12, <1>13 DEF RunStep

LEMMA WorldTypes ==
    ASSUME TypeInv, NEW i \in Intents, Open(i) \/ Leave(i)
    PROVE  TypeInv'
<1>1. CASE Open(i)
  BY <1>1 DEF Open, TypeInv, RunShape
<1>2. CASE Leave(i)
  <2>1. \A m \in Matchers : matchers'[m] = [matchers[m] EXCEPT !.steady = @ \ {i}]
    BY <1>2 DEF Leave
  <2>2. \A m \in Matchers : matchers'[m] # NoRun =>
            matchers'[m] \in Runs /\ RunShape(matchers'[m])
    <3> SUFFICES ASSUME NEW m \in Matchers, matchers'[m] # NoRun
                 PROVE  matchers'[m] \in Runs /\ RunShape(matchers'[m])
      OBVIOUS
    <3>1. matchers[m] # NoRun
      <4>1. [NoRun EXCEPT !.steady = @ \ {i}] = NoRun
        BY DEF NoRun
      <4> QED
        BY <2>1, <4>1
    <3>2. matchers[m] \in Runs /\ RunShape(matchers[m])
      BY <3>1 DEF TypeInv
    <3>3. matchers[m].steady \ {i} \in SUBSET Intents
      BY <3>2 DEF Runs
    <3>4. \A run \in Runs, S \in SUBSET Intents : RunShape(run) =>
              [run EXCEPT !.steady = S] \in Runs /\ RunShape([run EXCEPT !.steady = S])
      BY DEF Runs, RunShape
    <3>5. matchers'[m] = [matchers[m] EXCEPT !.steady = matchers[m].steady \ {i}]
      BY <2>1, <3>2 DEF Runs
    <3> QED
      BY <3>2, <3>3, <3>4, <3>5
  <2>3. \A m \in Matchers : RunShape(matchers[m])' <=> RunShape(matchers'[m])
    BY DEF RunShape
  <2> QED
    BY <1>2, <2>2, <2>3 DEF Leave, TypeInv
<1> QED
  BY <1>1, <1>2

\* Tables, requests and runs stay well formed.
THEOREM TypeCorrect == Spec => []TypeInv
<1>1. Init => TypeInv
  BY NoStatementOK, StatementsAssumption DEF Init, TypeInv, Uploads, NoIntent
<1>2. TypeInv /\ [Next]_vars => TypeInv'
  <2> SUFFICES ASSUME TypeInv, [Next]_vars PROVE TypeInv'
    OBVIOUS
  <2>1. CASE UNCHANGED vars
    BY <2>1 DEF TypeInv, vars, RunShape
  <2> QED
    BY <2>1, UploadTypes, RunTypes, WorldTypes DEF Next
<1> QED
  BY <1>1, <1>2, PTL DEF Spec

-----------------------------------------------------------------------------
(* Requests that do not overlap *)

\* At most one request is in progress.
OneRequest ==
    /\ \A u, v \in Uploaders : uploads[u] # NoUpload /\ uploads[v] # NoUpload => u = v
    /\ \A m, n \in Matchers : matchers[m] # NoRun /\ matchers[n] # NoRun => m = n
    /\ \A u \in Uploaders, m \in Matchers : uploads[u] = NoUpload \/ matchers[m] = NoRun

\* The statement of f still takes lines, and has been given none.
Unparsed(f) == stmts[f].status \in {"absent", "parsing"}
Inserted(f) == \E u \in Uploaders : uploads[u].pc = "parsed" /\ uploads[u].file = f

\* An upload about to insert finds its statement unparsed, and a statement that
\* is unparsed has no lines, unless they were inserted just now.
ParsedOnce ==
    /\ \A u \in Uploaders : uploads[u].pc = "create" => uploads[u].stmt.status = "parsing"
    /\ \A u \in Uploaders : uploads[u].pc = "parse" => Unparsed(uploads[u].file)
    /\ faults = 0 => \A f \in Files : inserts[f] <= 1
    /\ faults = 0 => \A f \in Files : Unparsed(f) /\ ~Inserted(f) => inserts[f] = 0

\* What a run has still to decide is unbound.
TodoIsUnbound ==
    \A m \in Matchers :
        /\ \A l \in matchers[m].todo : ~Bound(l)
        /\ matchers[m].pc \in ScanPcs =>
              ~Bound(matchers[m].line) /\ matchers[m].line \notin matchers[m].todo

SerialInv == TypeInv /\ OneRequest /\ ParsedOnce /\ TodoIsUnbound

-----------------------------------------------------------------------------
(* Scans of one page *)

OnePage == Cardinality(pending) <= PageSize

\* Until it has read its page a scan has seen nothing; then it has seen every
\* intent that was pending all along.
ScanIsWhole(run) ==
    /\ run.pc \in {"count", "page"} =>
          run.offset = 0 /\ run.best = 0 /\ run.tied = 0 /\ run.steady \subseteq pending
    /\ run.pc = "page" => run.total <= PageSize
    /\ run.pc = "decide" /\ Binds(run) =>
          \A i \in run.steady \ {run.pick} : Confidence(run.line, i) < run.best

ScansAreWhole == \A m \in Matchers : ScanIsWhole(matchers[m])

\* Idle requests are at no step of their work.
LEMMA IdleIsIdle == NoUpload.pc = "idle" /\ NoRun.pc = "idle" /\ NoRun.todo = {}
BY DEF NoUpload, NoRun

LEMMA AloneUploading ==
    ASSUME TypeInv, OneRequest, NEW u \in Uploaders, uploads[u] # NoUpload \/ Quiet,
           NEW n, uploads' = [uploads EXCEPT ![u] = n], UNCHANGED matchers
    PROVE  /\ OneRequest'
           /\ \A v \in Uploaders \ {u} : uploads[v].pc = "idle" /\ uploads'[v] = uploads[v]
           /\ uploads'[u] = n
           /\ \A m \in Matchers : matchers[m] = NoRun
<1>1. \A v \in Uploaders \ {u} : uploads[v] = NoUpload
  BY DEF OneRequest, Quiet
<1>2. \A m \in Matchers : matchers[m] = NoRun
  BY DEF OneRequest, Quiet
<1>3. \A v \in Uploaders : uploads'[v] = IF v = u THEN n ELSE uploads[v]
  BY DEF TypeInv
<1>4. OneRequest'
  BY <1>1, <1>2, <1>3 DEF OneRequest
<1> QED
  BY <1>1, <1>2, <1>3, <1>4, IdleIsIdle

LEMMA AloneRunning ==
    ASSUME TypeInv, OneRequest, NEW m \in Matchers, matchers[m] # NoRun \/ Quiet,
           NEW n, RunTo(m, n), UNCHANGED uploads
    PROVE  /\ OneRequest'
           /\ \A k \in Matchers \ {m} : matchers'[k] = NoRun /\ matchers[k] = NoRun
           /\ matchers'[m] = n
           /\ \A u \in Uploaders : uploads[u] = NoUpload
<1>1. \A k \in Matchers \ {m} : matchers[k] = NoRun
  BY DEF OneRequest, Quiet
<1>2. \A u \in Uploaders : uploads[u] = NoUpload
  BY DEF OneRequest, Quiet
<1>3. \A k \in Matchers : matchers'[k] = IF k = m THEN n ELSE matchers[k]
  BY DEF TypeInv, RunTo
<1>4. OneRequest'
  BY <1>1, <1>2, <1>3 DEF OneRequest
<1> QED
  BY <1>1, <1>2, <1>3, <1>4

\* A step of the only upload, which writes the statement of its own file.
LEMMA UploadsParsedOnce ==
    ASSUME ~Overlap, TypeInv, OneRequest, ParsedOnce, NEW u \in Uploaders,
           (\E f \in Files : Upload(u, f)) \/ UploadStep(u) \/ AbortUpload(u)
    PROVE  OneRequest' /\ ParsedOnce'
<1> PICK s \in Uploads : s = uploads[u]
  BY DEF TypeInv
<1>1. s.pc # "idle" => /\ s # NoUpload /\ s.file \in Files /\ s.stmt \in Statements
                       /\ s.pc \in {"create", "parse", "parsed"}
  BY IdleIsIdle DEF Uploads
<1>2. ASSUME NEW f \in Files, Upload(u, f) PROVE OneRequest' /\ ParsedOnce'
  <2>1. s = NoUpload /\ Quiet /\ UNCHANGED <<stmts, lines, inserts, matchers, opened, pending, faults>>
    BY <1>2 DEF Upload, uploadOnly
  <2>2. PICK n : /\ uploads' = [uploads EXCEPT ![u] = n]
                 /\ n.file = f /\ n.pc \in {"create", "parse"}
                 /\ n.pc = "create" => n.stmt.status = "parsing"
    <3>1. To(NoStatement, "parsing").status = "parsing"
      BY NoStatementOK, Statuses DEF StatementStatuses
    <3> DEFINE c == [pc |-> "create", file |-> f, stmt |-> To(NoStatement, "parsing")]
               p == [pc |-> "parse", file |-> f, stmt |-> stmts[f]]
    <3>2. c.file = f /\ c.pc = "create" /\ c.stmt.status = "parsing"
      BY <3>1
    <3>3. p.file = f /\ p.pc = "parse"
      OBVIOUS
    <3>4. uploads' = [uploads EXCEPT ![u] = c] \/ uploads' = [uploads EXCEPT ![u] = p]
      BY <1>2 DEF Upload, UploadTo
    <3> HIDE DEF c, p
    <3> QED
      BY <3>2, <3>3, <3>4
  <2>3. Unparsed(f)
    <3>1. ~ShortCircuits(stmts[f])
      BY <1>2 DEF Upload
    <3> QED
      BY <3>1 DEF ShortCircuits, Unparsed
  <2>4. /\ OneRequest'
        /\ \A v \in Uploaders \ {u} : uploads[v].pc = "idle" /\ uploads'[v] = uploads[v]
        /\ uploads'[u] = n
    BY <2>1, <2>2, AloneUploading
  <2>5. \A g \in Files : Inserted(g)' <=> FALSE
    BY <2>2, <2>4 DEF Inserted
  <2>6. \A g \in Files : Inserted(g) <=> FALSE
    BY <2>1, <2>4, IdleIsIdle DEF Inserted
  <2>7. \A g : Unparsed(g)' <=> Unparsed(g)
    BY <2>1 DEF Unparsed
  <2>8. \A v \in Uploaders : uploads'[v].pc = "parse" => Unparsed(uploads'[v].file)
    BY <2>2, <2>3, <2>4
  <2>9. \A v \in Uploaders : uploads'[v].pc = "create" => uploads'[v].stmt.status = "parsing"
    BY <2>2, <2>4
  <2>10. \A v \in Uploaders : Unparsed(uploads[v].file)' <=> Unparsed(uploads'[v].file)
    BY <2>1 DEF Unparsed
  <2> QED
    BY <2>1, <2>4, <2>5, <2>6, <2>7, <2>8, <2>9, <2>10 DEF ParsedOnce
<1>3. ASSUME s.pc # "idle", NEW n, uploads' = [uploads EXCEPT ![u] = n], UNCHANGED matchers
      PROVE  /\ OneRequest'
             /\ uploads'[u] = n /\ \A v \in Uploaders \ {u} : uploads'[v].pc = "idle"
             /\ \A f : Inserted(f) <=> s.pc = "parsed" /\ s.file = f
             /\ \A f : Inserted(f)' <=> n.pc = "parsed" /\ n.file = f
  <2>1. /\ OneRequest' /\ uploads'[u] = n
        /\ \A v \in Uploaders \ {u} : uploads[v].pc = "idle" /\ uploads'[v].pc = "idle"
    BY <1>1, <1>3, AloneUploading
  <2>2. \A f : Inserted(f) <=> s.pc = "parsed" /\ s.file = f
    BY <2>1 DEF Inserted
  <2>3. \A f : Inserted(f)' <=> n.pc = "parsed" /\ n.file = f
    BY <2>1 DEF Inserted
  <2> QED
    BY <2>1, <2>2, <2>3
<1>4. CASE CreateStatement(u)
  <2>1. /\ s.pc = "create" /\ s.stmt.status = "parsing"
        /\ UNCHANGED <<lines, inserts, matchers, opened, pending, faults>>
    BY <1>4 DEF CreateStatement, uploadOnly, ParsedOnce
  <2>2. CASE stmts[s.file] = NoStatement
    <3> DEFINE n == [pc |-> "parse", file |-> s.file, stmt |-> s.stmt]
    <3>1. uploads' = [uploads EXCEPT ![u] = n] /\ stmts' = [stmts EXCEPT ![s.file] = s.stmt]
      BY <1>4, <2>2 DEF CreateStatement, UpdateStatement, UploadTo
    <3>2. n.pc = "parse" /\ n.file = s.file
      OBVIOUS
    <3> HIDE DEF n
    <3>3. /\ OneRequest'
          /\ uploads'[u] = n /\ \A v \in Uploaders \ {u} : uploads'[v].pc = "idle"
          /\ \A f : ~Inserted(f) /\ ~Inserted(f)'
      BY <1>3, <2>1, <3>1, <3>2
    <3>4. Unparsed(s.file) /\ Unparsed(s.file)'
      BY <1>1, <2>1, <2>2, <3>1, NoStatementOK DEF Unparsed, TypeInv
    <3>5. \A f : f # s.file => (Unparsed(f)' <=> Unparsed(f))
      BY <3>1 DEF Unparsed, TypeInv
    <3> QED
      BY <2>1, <3>2, <3>3, <3>4, <3>5 DEF ParsedOnce
  <2>3. CASE stmts[s.file] # NoStatement
    <3>1. uploads' = [uploads EXCEPT ![u] = NoUpload] /\ stmts' = stmts
      BY <1>4, <2>3 DEF CreateStatement, EndUpload
    <3>2. /\ OneRequest'
          /\ \A v \in Uploaders : uploads'[v].pc = "idle"
          /\ \A f : ~Inserted(f) /\ ~Inserted(f)'
      BY <1>3, <2>1, <3>1, IdleIsIdle
    <3>3. \A f : Unparsed(f)' <=> Unparsed(f)
      BY <3>1 DEF Unparsed
    <3> QED
      BY <2>1, <3>2, <3>3 DEF ParsedOnce
  <2> QED
    BY <2>2, <2>3
<1>5. CASE FailParse(u) \/ FinishParse(u)
  <2>1. /\ s.pc \in {"parse", "parsed"}
        /\ UNCHANGED <<lines, inserts, matchers, opened, pending, faults>>
        /\ uploads' = [uploads EXCEPT ![u] = NoUpload]
    BY <1>5 DEF FailParse, FinishParse, uploadOnly, EndUpload
  <2>2. PICK t : stmts' = [stmts EXCEPT ![s.file] = t] /\ t.status \in {"failed", "parsed"}
    <3>1. To(s.stmt, "failed").status = "failed" /\ To(s.stmt, "parsed").status = "parsed"
      BY <1>1, <2>1, Statuses DEF StatementStatuses
    <3> QED
      BY <1>5, <3>1 DEF FailParse, FinishParse, UpdateStatement
  <2>3. /\ OneRequest'
        /\ \A v \in Uploaders : uploads'[v].pc = "idle"
        /\ \A f : ~Inserted(f)'
        /\ \A f : f # s.file => ~Inserted(f)
    BY <1>3, <2>1, IdleIsIdle
  <2>4. ~Unparsed(s.file)'
    BY <1>1, <2>1, <2>2 DEF Unparsed, TypeInv
  <2>5. \A f : f # s.file => (Unparsed(f)' <=> Unparsed(f))
    BY <2>2 DEF Unparsed, TypeInv
  <2> QED
    BY <2>1, <2>3, <2>4, <2>5 DEF ParsedOnce
<1>6. CASE InsertLines(u)
  <2> DEFINE n == [pc |-> "parsed", file |-> s.file, stmt |-> s.stmt]
  <2>1. /\ s.pc = "parse" /\ UNCHANGED <<stmts, lines, matchers, opened, pending, faults>>
        /\ uploads' = [uploads EXCEPT ![u] = n]
        /\ inserts' = [inserts EXCEPT ![s.file] = @ + 1]
    BY <1>6 DEF InsertLines, UploadTo
  <2>2. n.pc = "parsed" /\ n.file = s.file
    OBVIOUS
  <2> HIDE DEF n
  <2>3. /\ OneRequest'
        /\ uploads'[u] = n /\ \A v \in Uploaders \ {u} : uploads'[v].pc = "idle"
        /\ \A f : ~Inserted(f)
        /\ \A f : Inserted(f)' <=> s.file = f
    BY <1>3, <2>1, <2>2
  <2>4. Unparsed(s.file) /\ \A f : Unparsed(f)' <=> Unparsed(f)
    BY <2>1 DEF Unparsed, ParsedOnce
  <2>5. /\ faults = 0 => inserts'[s.file] = 1
        /\ \A f \in Files : f # s.file => inserts'[f] = inserts[f]
    BY <1>1, <2>1, <2>3, <2>4 DEF ParsedOnce, TypeInv
  <2> QED
    BY <2>1, <2>2, <2>3, <2>4, <2>5 DEF ParsedOnce
<1>7. CASE AbortUpload(u)
  <2>1. s # NoUpload /\ s.pc # "idle"
    BY <1>7, IdleIsIdle DEF AbortUpload, Uploads
  <2>2. UNCHANGED <<stmts, lines, inserts, matchers, opened, pending>> /\ faults' # 0
    BY <1>7 DEF AbortUpload, Fault, TypeInv
  <2>3. OneRequest' /\ \A v \in Uploaders : uploads'[v].pc = "idle"
    BY <1>3, <1>7, <2>1, IdleIsIdle DEF AbortUpload, EndUpload
  <2> QED
    BY <2>2, <2>3 DEF ParsedOnce
<1> QED
  BY <1>2, <1>4, <1>5, <1>6, <1>7 DEF UploadStep

\* A run's step leaves the uploads' promise alone, and binds only the line the
\* run is deciding.
LEMMA RunsParsedOnce ==
    ASSUME ~Overlap, TypeInv, OneRequest, ParsedOnce, NEW m \in Matchers,
           \/ \E f \in Files : StartMatching(m, f)
           \/ RunStep(m) \/ AbortRun(m) \/ PageError(m) \/ LineError(m)
    PROVE  OneRequest' /\ ParsedOnce' /\ \E n : RunTo(m, n)
<1> DEFINE run == matchers[m]
<1>1. \E n : RunTo(m, n)
  <2>1. (\E f \in Files : StartMatching(m, f)) => \E n : RunTo(m, n)
    BY DEF StartMatching
  <2>2. WriteMatching(m) \/ ListUnmatchedLines(m) \/ TakeLine(m) \/ CountPending(m) \/ ReadPage(m)
          => \E n : RunTo(m, n)
    BY DEF WriteMatching, ListUnmatchedLines, TakeLine, CountPending, ReadPage
  <2>3. Decide(m) \/ CompleteMatching(m) \/ AbortRun(m) \/ PageError(m) \/ LineError(m)
          => \E n : RunTo(m, n)
    BY DEF Decide, Unmatched, CompleteMatching, AbortRun, PageError, LineError, EndRun
  <2> QED
    BY <2>1, <2>2, <2>3 DEF RunStep
<1>2. run # NoRun \/ Quiet
  <2>1. RunStep(m) \/ PageError(m) \/ LineError(m) => run.pc # "idle"
    BY DEF RunStep, WriteMatching, ListUnmatchedLines, TakeLine, CountPending, ReadPage, Decide,
           CompleteMatching, PageError, LineError
  <2> QED
    BY <2>1, IdleIsIdle DEF StartMatching, AbortRun
<1>3. UNCHANGED <<inserts, uploads>> /\ (faults' = faults \/ faults' # 0)
  <2>1. (\E f \in Files : StartMatching(m, f)) \/ RunStep(m) => UNCHANGED <<inserts, uploads, faults>>
    BY DEF StartMatching, RunStep, WriteMatching, ListUnmatchedLines, TakeLine, CountPending,
           ReadPage, Decide, CompleteMatching, matchOnly, worldOnly
  <2>2. AbortRun(m) \/ PageError(m) \/ LineError(m)
          => UNCHANGED <<inserts, uploads>> /\ faults' # 0
    BY DEF AbortRun, PageError, LineError, Fault, TypeInv
  <2> QED
    BY <2>1, <2>2
<1>4. \/ UNCHANGED stmts
      \/ \E f \in Files, t \in Statements :
            stmts' = [stmts EXCEPT ![f] = t] /\ t.status \notin {"absent", "parsing"}
  <2>1. CASE WriteMatching(m)
    <3>1. run.pc = "start" /\ stmts' = [stmts EXCEPT ![run.file] = run.stmt]
      BY <2>1 DEF WriteMatching, UpdateStatement
    <3> QED
      BY <3>1, IdleIsIdle DEF TypeInv, Runs, RunShape
  <2>2. CASE CompleteMatching(m)
    <3>1. run.pc = "next" /\ stmts' = [stmts EXCEPT ![run.file] = To(run.stmt, Outcome(run.stmt))]
      BY <2>2 DEF CompleteMatching, UpdateStatement
    <3>2. run \in Runs
      BY <3>1, IdleIsIdle DEF TypeInv
    <3>3. run.file \in Files /\ run.stmt \in Statements
      BY <3>2 DEF Runs
    <3>4. Outcome(run.stmt) \in StatementStatuses /\ Outcome(run.stmt) \notin {"absent", "parsing"}
      BY DEF Outcome, StatementStatuses
    <3>5. /\ To(run.stmt, Outcome(run.stmt)) \in Statements
          /\ To(run.stmt, Outcome(run.stmt)).status = Outcome(run.stmt)
      BY <3>3, <3>4, Statuses
    <3> QED
      BY <3>1, <3>3, <3>4, <3>5
  <2>3. ~WriteMatching(m) /\ ~CompleteMatching(m) => UNCHANGED stmts
    BY DEF RunStep, StartMatching, ListUnmatchedLines, TakeLine, CountPending, ReadPage, Decide,
           AbortRun, PageError, LineError
  <2> QED
    BY <2>1, <2>2, <2>3
<1>5. /\ OneRequest'
      /\ \A u \in Uploaders : uploads[u].pc = "idle"
  BY <1>1, <1>2, <1>3, AloneRunning, IdleIsIdle
<1>6. \A f : ~Inserted(f) /\ ~Inserted(f)'
  BY <1>3, <1>5 DEF Inserted
<1>7. \A f \in Files : Unparsed(f)' => Unparsed(f)
  BY <1>4 DEF Unparsed, TypeInv
<1>8. ParsedOnce'
  BY <1>3, <1>5, <1>6, <1>7 DEF ParsedOnce
<1> QED
  BY <1>1, <1>5, <1>8

LEMMA TodoGoes ==
    ASSUME TypeInv, OneRequest, NEW m \in Matchers, matchers[m] # NoRun \/ Quiet,
           NEW n, RunTo(m, n), UNCHANGED uploads,
           \A l \in n.todo : lines'[l] = NoIntent,
           n.pc \in ScanPcs => lines'[n.line] = NoIntent /\ n.line \notin n.todo
    PROVE  TodoIsUnbound'
<1>1. \A k \in Matchers \ {m} : matchers'[k] = NoRun
  BY AloneRunning
<1>2. matchers'[m] = n
  BY AloneRunning
<1>3. \A k \in Matchers :
         \/ matchers'[k].todo = {} /\ matchers'[k].pc \notin ScanPcs
         \/ matchers'[k] = n
  BY <1>1, <1>2, IdleIsIdle DEF ScanPcs
<1> QED
  BY <1>3 DEF TodoIsUnbound, Bound

\* A run binds lines that were unbound when it listed them, and nobody else
\* has bound them since.
LEMMA RunsBindUnbound ==
    ASSUME ~Overlap, TypeInv, OneRequest, TodoIsUnbound, NEW m \in Matchers,
           \/ \E f \in Files : StartMatching(m, f)
           \/ RunStep(m) \/ AbortRun(m) \/ PageError(m) \/ LineError(m)
    PROVE  TodoIsUnbound' /\ \A l \in LineIds : Bound(l) => lines'[l] = lines[l]
<1> DEFINE run == matchers[m]
<1>0. run.pc # "idle" => run # NoRun /\ run \in Runs /\ RunShape(run)
  BY IdleIsIdle DEF TypeInv
<1>1. /\ \A l \in run.todo : lines[l] = NoIntent
      /\ run.pc \in ScanPcs => lines[run.line] = NoIntent /\ run.line \notin run.todo
  BY DEF TodoIsUnbound, Bound
<1>2. ASSUME NEW f \in Files, StartMatching(m, f) PROVE TodoIsUnbound' /\ lines' = lines
  <2> DEFINE n == [NoRun EXCEPT !.pc = "start", !.file = f, !.stmt = To(stmts[f], "matching")]
  <2>1. n.todo = {} /\ n.pc \notin ScanPcs
    BY DEF NoRun, ScanPcs
  <2>2. /\ matchers[m] # NoRun \/ Quiet
        /\ RunTo(m, n) /\ UNCHANGED <<lines, uploads>>
    BY <1>2 DEF StartMatching, matchOnly
  <2> HIDE DEF n
  <2> QED
    BY <2>1, <2>2, TodoGoes
<1>3. CASE WriteMatching(m) \/ CountPending(m)
  <2>1. /\ run.pc \in {"start", "count"} /\ run # NoRun /\ run \in Runs
        /\ UNCHANGED <<lines, uploads>>
    BY <1>0, <1>3 DEF WriteMatching, CountPending, matchOnly
  <2> DEFINE a == [run EXCEPT !.pc = "list"]
             b == [run EXCEPT !.pc = "page", !.total = Cardinality(pending)]
  <2>2. RunTo(m, a) \/ (RunTo(m, b) /\ run.pc = "count")
    BY <1>3 DEF WriteMatching, CountPending
  <2>3. a.todo = run.todo /\ a.pc = "list" /\ b.todo = run.todo /\ b.line = run.line
    BY <2>1 DEF Runs
  <2> HIDE DEF a, b
  <2>4. RunTo(m, a) => TodoIsUnbound'
    BY <1>1, <2>1, <2>3, TodoGoes DEF ScanPcs
  <2>5. RunTo(m, b) /\ run.pc = "count" => TodoIsUnbound'
    BY <1>1, <2>1, <2>3, TodoGoes DEF ScanPcs
  <2> QED
    BY <2>1, <2>2, <2>4, <2>5
<1>4. CASE ListUnmatchedLines(m)
  <2> DEFINE n == [run EXCEPT !.pc = "next", !.todo = UnmatchedLines(run.file)]
  <2>1. run.pc = "list" /\ run # NoRun /\ run \in Runs /\ UNCHANGED <<lines, uploads>> /\ RunTo(m, n)
    BY <1>0, <1>4 DEF ListUnmatchedLines, matchOnly
  <2>2. n.pc = "next" /\ n.todo = UnmatchedLines(run.file)
    BY <2>1 DEF Runs
  <2> HIDE DEF n
  <2>3. \A l \in n.todo : lines'[l] = NoIntent
    BY <2>1, <2>2 DEF UnmatchedLines, Bound
  <2> QED
    BY <2>1, <2>2, <2>3, TodoGoes DEF ScanPcs
<1>5. CASE TakeLine(m)
  <2>1. run.pc = "next" /\ run # NoRun /\ run \in Runs /\ UNCHANGED <<lines, uploads>>
    BY <1>0, <1>5 DEF TakeLine, matchOnly
  <2>2. PICK l \in run.todo :
            RunTo(m, [NoRun EXCEPT !.pc = "count", !.file = run.file, !.stmt = run.stmt,
                        !.todo = run.todo \ {l}, !.line = l, !.steady = pending])
    BY <1>5 DEF TakeLine
  <2> DEFINE n == [NoRun EXCEPT !.pc = "count", !.file = run.file, !.stmt = run.stmt,
                        !.todo = run.todo \ {l}, !.line = l, !.steady = pending]
  <2>3. n.line = l /\ n.todo = run.todo \ {l} /\ RunTo(m, n)
    BY <2>2 DEF NoRun
  <2> HIDE DEF n
  <2>4. \A k \in n.todo : lines'[k] = NoIntent
    BY <1>1, <2>1, <2>3
  <2>5. lines'[n.line] = NoIntent /\ n.line \notin n.todo
    BY <1>1, <2>1, <2>3
  <2> QED
    BY <2>1, <2>3, <2>4, <2>5, TodoGoes
<1>6. CASE ReadPage(m)
  <2> DEFINE page == Page(run.offset)
             weighed == Weigh(run, page)
             next == weighed.offset + PageSize
             pc == IF next >= weighed.total THEN "decide" ELSE "count"
             n == [weighed EXCEPT !.offset = next, !.pc = pc]
  <2>1. run.pc = "page" /\ run # NoRun /\ run \in Runs /\ UNCHANGED <<lines, uploads>> /\ RunTo(m, n)
    BY <1>0, <1>6 DEF ReadPage, matchOnly
  <2>2. page \in SUBSET Intents /\ IsFiniteSet(page)
    <3>1. page \in SUBSET pending
      BY DEF Page
    <3> QED
      BY <3>1, PendingIsFinite DEF TypeInv
  <2>3. weighed \in Runs /\ weighed.line = run.line /\ weighed.todo = run.todo
    BY <2>1, <2>2, Weighing
  <2> HIDE DEF weighed, page, next, pc
  <2>4. n.line = run.line /\ n.todo = run.todo
    BY <2>3 DEF Runs
  <2> HIDE DEF n
  <2> QED
    BY <1>1, <2>1, <2>4, TodoGoes DEF ScanPcs
<1>7. ASSUME run.pc = "decide", NEW s, RunTo(m, [run EXCEPT !.pc = "next", !.stmt = s]),
             UNCHANGED uploads,
             lines' = lines \/ \E i : lines' = [lines EXCEPT ![run.line] = i]
      PROVE  TodoIsUnbound' /\ \A l \in LineIds : Bound(l) => lines'[l] = lines[l]
  <2> DEFINE n == [run EXCEPT !.pc = "next", !.stmt = s]
  <2>1. run # NoRun /\ run \in Runs /\ run.line \in LineIds /\ run.todo \subseteq LineIds
    BY <1>0, <1>7 DEF RunShape, ScanPcs, Runs
  <2>2. n.pc = "next" /\ n.todo = run.todo /\ RunTo(m, n)
    BY <1>7, <2>1 DEF Runs
  <2> HIDE DEF n
  <2>3. lines[run.line] = NoIntent /\ run.line \notin run.todo
    BY <1>1, <1>7 DEF ScanPcs
  <2>4. \A l \in LineIds : l # run.line => lines'[l] = lines[l]
    BY <1>7, <2>1 DEF TypeInv
  <2>5. \A l \in n.todo : lines'[l] = NoIntent
    BY <1>1, <2>1, <2>2, <2>3, <2>4
  <2>6. TodoIsUnbound'
    BY <1>7, <2>1, <2>2, <2>5, TodoGoes DEF ScanPcs
  <2> QED
    BY <2>3, <2>4, <2>6 DEF Bound
<1>8. CASE Decide(m) \/ LineError(m)
  <2>1. run.pc = "decide" /\ run \in Runs /\ UNCHANGED uploads
    BY <1>0, <1>8 DEF Decide, LineError, matchOnly
  <2>2. \E s : RunTo(m, [run EXCEPT !.pc = "next", !.stmt = s])
    <3>1. /\ [run EXCEPT !.pc = "next", !.stmt.matched = Inc(@)]
               = [run EXCEPT !.pc = "next", !.stmt = [run.stmt EXCEPT !.matched = Inc(@)]]
          /\ [run EXCEPT !.pc = "next", !.stmt.unmatched = Inc(@)]
               = [run EXCEPT !.pc = "next", !.stmt = [run.stmt EXCEPT !.unmatched = Inc(@)]]
      BY <2>1 DEF Runs
    <3>2. \/ RunTo(m, [run EXCEPT !.pc = "next", !.stmt.matched = Inc(@)])
          \/ RunTo(m, [run EXCEPT !.pc = "next", !.stmt.unmatched = Inc(@)])
      BY <1>8 DEF Decide, LineError, Unmatched
    <3> QED
      BY <3>1, <3>2
  <2>3. lines' = lines \/ \E i : lines' = [lines EXCEPT ![run.line] = i]
    BY <1>8 DEF Decide, LineError
  <2> QED
    BY <1>7, <2>1, <2>2, <2>3
<1>9. CASE CompleteMatching(m) \/ AbortRun(m)
  <2>1. run # NoRun /\ UNCHANGED <<lines, uploads>> /\ RunTo(m, NoRun)
    BY <1>0, <1>9 DEF CompleteMatching, AbortRun, EndRun, matchOnly
  <2> QED
    BY <2>1, IdleIsIdle, TodoGoes DEF ScanPcs
<1>10. CASE PageError(m)
  <2> DEFINE n == [run EXCEPT !.pc = "decide", !.steady = {}]
  <2>1. /\ run.pc \in {"count", "page"} /\ run # NoRun /\ run \in Runs
        /\ UNCHANGED <<lines, uploads>> /\ RunTo(m, n)
    BY <1>0, <1>10 DEF PageError
  <2>2. n.line = run.line /\ n.todo = run.todo
    BY <2>1 DEF Runs
  <2> HIDE DEF n
  <2> QED
    BY <1>1, <2>1, <2>2, TodoGoes DEF ScanPcs
<1> QED
  BY <1>2, <1>3, <1>4, <1>5, <1>6, <1>8, <1>9, <1>10 DEF RunStep

\* Nobody's line is bound by an upload or by what happens to the intents.
LEMMA OthersBindNothing ==
    ASSUME TypeInv, TodoIsUnbound, UNCHANGED lines,
           UNCHANGED matchers \/ \E i \in Intents : Leave(i)
    PROVE  TodoIsUnbound'
<1>1. CASE UNCHANGED matchers
  BY <1>1 DEF TodoIsUnbound, Bound
<1>2. ASSUME NEW i \in Intents, Leave(i) PROVE TodoIsUnbound'
  <2>1. \A m \in Matchers :
           /\ matchers'[m].pc = matchers[m].pc
           /\ matchers'[m].todo = matchers[m].todo
           /\ matchers'[m].line = matchers[m].line
    <3> SUFFICES ASSUME NEW m \in Matchers
                 PROVE  /\ matchers'[m].pc = matchers[m].pc
                        /\ matchers'[m].todo = matchers[m].todo
                        /\ matchers'[m].line = matchers[m].line
      OBVIOUS
    <3>1. matchers'[m] = [matchers[m] EXCEPT !.steady = @ \ {i}]
      BY <1>2 DEF Leave
    <3>2. matchers[m] = NoRun \/ matchers[m] \in Runs
      BY DEF TypeInv
    <3> QED
      BY <3>1, <3>2 DEF NoRun, Runs
  <2> QED
    BY <2>1 DEF TodoIsUnbound, Bound
<1> QED
  BY <1>1, <1>2

LEMMA WorldIsSerial ==
    ASSUME TypeInv, OneRequest, ParsedOnce, NEW i \in Intents, Open(i) \/ Leave(i)
    PROVE  OneRequest' /\ ParsedOnce'
<1>1. UNCHANGED <<stmts, inserts, uploads, faults>>
  BY DEF Open, Leave
<1>2. \A m \in Matchers : matchers'[m] # NoRun => matchers[m] # NoRun
  <2>1. [NoRun EXCEPT !.steady = @ \ {i}] = NoRun
    BY DEF NoRun
  <2> QED
    BY <2>1 DEF Open, Leave
<1>3. OneRequest'
  BY <1>1, <1>2 DEF OneRequest
<1>4. ParsedOnce'
  BY <1>1 DEF ParsedOnce, Unparsed, Inserted
<1> QED
  BY <1>3, <1>4

LEMMA SerialStep ==
    ASSUME ~Overlap, SerialInv, [Next]_vars
    PROVE  SerialInv' /\ \A l \in LineIds : Bound(l) => lines'[l] = lines[l]
<1> USE DEF SerialInv
<1>1. CASE UNCHANGED vars
  BY <1>1 DEF vars, TypeInv, RunShape, OneRequest, ParsedOnce, Unparsed, Inserted, TodoIsUnbound, Bound
<1>2. ASSUME NEW u \in Uploaders, (\E f \in Files : Upload(u, f)) \/ UploadStep(u) \/ AbortUpload(u)
      PROVE  SerialInv' /\ lines' = lines
  <2>1. UNCHANGED <<lines, matchers>>
    BY <1>2 DEF Upload, UploadStep, CreateStatement, FailParse, InsertLines, FinishParse,
                AbortUpload, uploadOnly
  <2> QED
    BY <1>2, <2>1, UploadTypes, UploadsParsedOnce, OthersBindNothing
<1>3. ASSUME NEW m \in Matchers,
             \/ \E f \in Files : StartMatching(m, f)
             \/ RunStep(m) \/ AbortRun(m) \/ PageError(m) \/ LineError(m)
      PROVE  SerialInv' /\ \A l \in LineIds : Bound(l) => lines'[l] = lines[l]
  BY <1>3, RunTypes, RunsParsedOnce, RunsBindUnbound
<1>4. ASSUME NEW i \in Intents, Open(i) \/ Leave(i) PROVE SerialInv' /\ lines' = lines
  <2>1. UNCHANGED lines /\ (UNCHANGED matchers \/ Leave(i))
    BY <1>4 DEF Open, Leave
  <2> QED
    BY <1>4, <2>1, WorldTypes, WorldIsSerial, OthersBindNothing
<1> QED
  BY <1>1, <1>2, <1>3, <1>4 DEF Next

LEMMA SerialInitially == Init => SerialInv
<1> SUFFICES ASSUME Init PROVE SerialInv
  OBVIOUS
<1>1. TypeInv
  BY NoStatementOK, StatementsAssumption DEF Init, TypeInv, Uploads, NoIntent
<1>2. OneRequest
  BY DEF Init, OneRequest
<1>3. ParsedOnce
  BY IdleIsIdle DEF Init, ParsedOnce
<1>4. TodoIsUnbound
  BY IdleIsIdle DEF Init, TodoIsUnbound, ScanPcs
<1> QED
  BY <1>1, <1>2, <1>3, <1>4 DEF SerialInv

\* Requests that do not overlap insert the lines of a file once, as long as no
\* request dies: UploadAndParse returns a parsed statement as it is.
THEOREM LinesInsertedOnceAlways == ~Overlap => (Spec => []LinesInsertedOnce)
<1> SUFFICES ASSUME ~Overlap PROVE Spec => []LinesInsertedOnce
  OBVIOUS
<1>1. SerialInv /\ [Next]_vars => SerialInv'
  BY SerialStep
<1>2. SerialInv => LinesInsertedOnce
  BY DEF SerialInv, ParsedOnce, LinesInsertedOnce
<1> QED
  BY <1>1, <1>2, SerialInitially, PTL DEF Spec

\* Re-runs that do not overlap leave bound lines bound to the same intent:
\* MatchStatement lists unbound lines, and binds no other.
THEOREM BoundStaysBoundAlways == ~Overlap => (Spec => BoundStaysBound)
<1> SUFFICES ASSUME ~Overlap PROVE Spec => BoundStaysBound
  OBVIOUS
<1>1. SerialInv /\ [Next]_vars => SerialInv'
  BY SerialStep
<1>2. SerialInv /\ [Next]_vars => [\A l \in LineIds : Bound(l) => lines'[l] = lines[l]]_vars
  BY SerialStep
<1> QED
  BY <1>1, <1>2, SerialInitially, PTL DEF Spec, BoundStaysBound

LEMMA OnePageIsAll ==
    ASSUME TypeInv, OnePage
    PROVE  Page(0) = pending
<1> SUFFICES ASSUME NEW i \in pending
             PROVE  Cardinality({j \in pending : j > i}) \in 0..(0 + PageSize - 1)
  BY DEF Page
<1> DEFINE S == {j \in pending : j > i}
<1>1. S \in SUBSET pending /\ i \notin S
  BY DEF TypeInv, Intents
<1> HIDE DEF S
<1>2. Cardinality(S) \in Nat /\ Cardinality(pending) \in Nat
  BY <1>1, PendingIsFinite
<1>3. Cardinality(S) <= Cardinality(pending) /\ Cardinality(S) # Cardinality(pending)
  BY <1>1, PendingIsFinite, FS_Subset
<1>4. Cardinality(S) \in 0..(0 + PageSize - 1)
  BY <1>2, <1>3, StatementsAssumption DEF OnePage
<1> QED
  BY <1>4 DEF S

LEMMA ScanGoes ==
    ASSUME TypeInv, ScansAreWhole, NEW m \in Matchers, NEW n, RunTo(m, n), UNCHANGED pending,
           ScanIsWhole(n)
    PROVE  ScansAreWhole'
<1>1. \A k \in Matchers : matchers'[k] = IF k = m THEN n ELSE matchers[k]
  BY DEF TypeInv, RunTo
<1>2. ScanIsWhole(n)'
  BY DEF ScanIsWhole
<1> QED
  BY <1>1 DEF ScansAreWhole, ScanIsWhole

\* What a run knows after each of its steps.
LEMMA RunsScanAll ==
    ASSUME TypeInv, OnePage, ScansAreWhole, NEW m \in Matchers,
           \/ \E f \in Files : StartMatching(m, f)
           \/ RunStep(m) \/ AbortRun(m) \/ PageError(m) \/ LineError(m)
    PROVE  ScansAreWhole'
<1> DEFINE run == matchers[m]
<1>0. run.pc # "idle" => run \in Runs /\ RunShape(run)
  BY IdleIsIdle DEF TypeInv
<1>1. ScanIsWhole(run)
  BY DEF ScansAreWhole
<1>2. UNCHANGED pending
  BY DEF RunStep, StartMatching, WriteMatching, ListUnmatchedLines, TakeLine, CountPending, ReadPage,
         Decide, CompleteMatching, AbortRun, PageError, LineError, matchOnly, worldOnly
<1>3. \A n : n.pc \notin ScanPcs => ScanIsWhole(n)
  BY DEF ScanPcs, ScanIsWhole
<1>4. ASSUME NEW f \in Files, StartMatching(m, f) PROVE ScansAreWhole'
  <2> DEFINE n == [NoRun EXCEPT !.pc = "start", !.file = f, !.stmt = To(stmts[f], "matching")]
  <2>1. n.pc \notin ScanPcs /\ RunTo(m, n)
    BY <1>4 DEF NoRun, ScanPcs, StartMatching
  <2> HIDE DEF n
  <2> QED
    BY <1>2, <1>3, <2>1, ScanGoes
<1>5. CASE WriteMatching(m) \/ ListUnmatchedLines(m)
  <2> DEFINE a == [run EXCEPT !.pc = "list"]
             b == [run EXCEPT !.pc = "next", !.todo = UnmatchedLines(run.file)]
  <2>1. run \in Runs /\ (RunTo(m, a) \/ RunTo(m, b))
    BY <1>0, <1>5 DEF WriteMatching, ListUnmatchedLines
  <2>2. a.pc = "list" /\ b.pc = "next"
    BY <2>1 DEF Runs
  <2> HIDE DEF a, b
  <2> QED
    BY <1>2, <1>3, <2>1, <2>2, ScanGoes DEF ScanPcs
<1>6. CASE TakeLine(m)
  <2>1. PICK l \in run.todo :
            RunTo(m, [NoRun EXCEPT !.pc = "count", !.file = run.file, !.stmt = run.stmt,
                        !.todo = run.todo \ {l}, !.line = l, !.steady = pending])
    BY <1>6 DEF TakeLine
  <2> DEFINE n == [NoRun EXCEPT !.pc = "count", !.file = run.file, !.stmt = run.stmt,
                        !.todo = run.todo \ {l}, !.line = l, !.steady = pending]
  <2>2. /\ n.pc = "count" /\ n.offset = 0 /\ n.best = 0 /\ n.tied = 0 /\ n.steady = pending
        /\ RunTo(m, n)
    BY <2>1 DEF NoRun
  <2> HIDE DEF n
  <2>3. ScanIsWhole(n)
    BY <2>2 DEF ScanIsWhole
  <2> QED
    BY <1>2, <2>2, <2>3, ScanGoes
<1>7. CASE CountPending(m)
  <2> DEFINE n == [run EXCEPT !.pc = "page", !.total = Cardinality(pending)]
  <2>1. run.pc = "count" /\ run \in Runs /\ RunTo(m, n)
    BY <1>0, <1>7 DEF CountPending
  <2>2. /\ n.pc = "page" /\ n.total = Cardinality(pending) /\ n.offset = run.offset
        /\ n.best = run.best /\ n.tied = run.tied /\ n.steady = run.steady
    BY <2>1 DEF Runs
  <2> HIDE DEF n
  <2>3. ScanIsWhole(n)
    BY <1>1, <2>1, <2>2 DEF ScanIsWhole, OnePage
  <2> QED
    BY <1>2, <2>1, <2>3, ScanGoes
<1>8. CASE ReadPage(m)
  <2> DEFINE weighed == Weigh(run, Page(run.offset))
             next == weighed.offset + PageSize
             pc == IF next >= weighed.total THEN "decide" ELSE "count"
             n == [weighed EXCEPT !.offset = next, !.pc = pc]
  <2>1. run.pc = "page" /\ run \in Runs /\ RunTo(m, n)
    BY <1>0, <1>8 DEF ReadPage
  <2>2. /\ run.offset = 0 /\ run.best = 0 /\ run.tied = 0 /\ run.steady \subseteq pending
        /\ run.total <= PageSize
    BY <1>1, <2>1 DEF ScanIsWhole
  <2>3. Page(run.offset) = pending
    BY <2>2, OnePageIsAll
  <2>4. /\ weighed \in Runs /\ weighed.offset = run.offset /\ weighed.total = run.total
        /\ weighed.line = run.line /\ weighed.steady = run.steady
        /\ SettledBy(weighed, pending)
    <3>1. pending \in SUBSET Intents /\ IsFiniteSet(pending)
      BY PendingIsFinite DEF TypeInv
    <3> QED
      BY <2>1, <2>2, <2>3, <3>1, Weighing
  <2> HIDE DEF weighed
  <2>5. pc = "decide"
    <3>1. run.total \in Nat
      BY <2>1 DEF Runs
    <3> QED
      BY <2>2, <2>4, <3>1, StatementsAssumption
  <2> HIDE DEF pc, next
  <2>6. /\ n.pc = "decide" /\ n.best = weighed.best /\ n.tied = weighed.tied
        /\ n.pick = weighed.pick /\ n.line = weighed.line /\ n.steady = run.steady
    BY <2>4, <2>5 DEF Runs
  <2> HIDE DEF n
  <2>7. Binds(n) <=> Binds(weighed)
    BY <2>6 DEF Binds
  <2>8. ScanIsWhole(n)
    BY <2>2, <2>4, <2>6, <2>7 DEF ScanIsWhole, SettledBy
  <2> QED
    BY <1>2, <2>1, <2>8, ScanGoes
<1>9. CASE Decide(m) \/ LineError(m)
  <2> DEFINE a == [run EXCEPT !.pc = "next", !.stmt.matched = Inc(@)]
             b == [run EXCEPT !.pc = "next", !.stmt.unmatched = Inc(@)]
  <2>1. run.pc = "decide" /\ run \in Runs /\ (RunTo(m, a) \/ RunTo(m, b))
    BY <1>0, <1>9 DEF Decide, LineError, Unmatched
  <2>2. a.pc = "next" /\ b.pc = "next"
    BY <2>1 DEF Runs
  <2> HIDE DEF a, b
  <2> QED
    BY <1>2, <1>3, <2>1, <2>2, ScanGoes DEF ScanPcs
<1>10. CASE CompleteMatching(m) \/ AbortRun(m)
  BY <1>2, <1>3, <1>10, IdleIsIdle, ScanGoes DEF CompleteMatching, AbortRun, EndRun, ScanPcs
<1>11. CASE PageError(m)
  <2> DEFINE n == [run EXCEPT !.pc = "decide", !.steady = {}]
  <2>1. run.pc \in {"count", "page"} /\ run \in Runs /\ RunTo(m, n)
    BY <1>0, <1>11 DEF PageError
  <2>2. n.pc = "decide" /\ n.steady = {}
    BY <2>1 DEF Runs
  <2> HIDE DEF n
  <2>3. ScanIsWhole(n)
    BY <2>2 DEF ScanIsWhole
  <2> QED
    BY <1>2, <2>1, <2>3, ScanGoes
<1> QED
  BY <1>4, <1>5, <1>6, <1>7, <1>8, <1>9, <1>10, <1>11 DEF RunStep

\* Intents come and go, and a scan owes nothing to those that went.
LEMMA WorldScans ==
    ASSUME TypeInv, ScansAreWhole, NEW i \in Intents, Open(i) \/ Leave(i)
    PROVE  ScansAreWhole'
<1>1. CASE Open(i)
  <2>1. pending \subseteq pending' /\ UNCHANGED matchers
    BY <1>1 DEF Open
  <2> QED
    BY <2>1 DEF ScansAreWhole, ScanIsWhole
<1>2. CASE Leave(i)
  <2>1. pending' = pending \ {i}
    BY <1>2 DEF Leave
  <2> SUFFICES ASSUME NEW m \in Matchers PROVE ScanIsWhole(matchers[m])'
    BY DEF ScansAreWhole
  <2> DEFINE run == matchers[m]
             n == [run EXCEPT !.steady = @ \ {i}]
  <2>2. matchers'[m] = n
    BY <1>2 DEF Leave
  <2>3. run = NoRun \/ run \in Runs
    BY DEF TypeInv
  <2>4. /\ n.pc = run.pc /\ n.offset = run.offset /\ n.total = run.total /\ n.best = run.best
        /\ n.tied = run.tied /\ n.pick = run.pick /\ n.line = run.line
        /\ n.steady = run.steady \ {i}
    BY <2>3 DEF NoRun, Runs
  <2>5. ScanIsWhole(run)
    BY DEF ScansAreWhole
  <2> HIDE DEF run, n
  <2>6. Binds(matchers[m])' <=> Binds(run)
    BY <2>2, <2>4 DEF Binds
  <2> QED
    BY <2>1, <2>2, <2>4, <2>5, <2>6 DEF ScanIsWhole
<1> QED
  BY <1>1, <1>2

\* While the pending intents fit one page, a line is bound only to an intent
\* that beats every other that was pending throughout its scan.
THEOREM NoSteadyRivalOnOnePage == Spec /\ []OnePage => []NoSteadyRival
<1>1. Init => TypeInv /\ ScansAreWhole
  <2>1. Init => ScansAreWhole
    BY IdleIsIdle DEF Init, ScansAreWhole, ScanIsWhole
  <2> QED
    BY <2>1, SerialInitially DEF SerialInv
<1>2. TypeInv /\ ScansAreWhole /\ OnePage /\ [Next]_vars => TypeInv' /\ ScansAreWhole'
  <2> SUFFICES ASSUME TypeInv, ScansAreWhole, OnePage, [Next]_vars
               PROVE  TypeInv' /\ ScansAreWhole'
    OBVIOUS
  <2>1. CASE UNCHANGED vars
    BY <2>1 DEF vars, TypeInv, RunShape, ScansAreWhole, ScanIsWhole
  <2>2. ASSUME NEW u \in Uploaders, (\E f \in Files : Upload(u, f)) \/ UploadStep(u) \/ AbortUpload(u)
        PROVE  ScansAreWhole'
    <3>1. UNCHANGED <<matchers, pending>>
      BY <2>2 DEF Upload, UploadStep, CreateStatement, FailParse, InsertLines, FinishParse,
                  AbortUpload, uploadOnly
    <3> QED
      BY <3>1 DEF ScansAreWhole, ScanIsWhole
  <2> QED
    BY <2>1, <2>2, UploadTypes, RunTypes, WorldTypes, RunsScanAll, WorldScans DEF Next
<1>3. ScansAreWhole => NoSteadyRival
  BY DEF ScansAreWhole, ScanIsWhole, NoSteadyRival
<1> QED
  BY <1>1, <1>2, <1>3, PTL DEF Spec

=============================================================================
