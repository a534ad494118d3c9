--------------------------- MODULE BankStatements ---------------------------
(***************************************************************************)
(* H2HService: bank statement files uploaded, parsed into lines, and the   *)
(* lines matched against pending payment intents.  Uploads and match runs  *)
(* are processes whose steps are single database statements, like the      *)
(* workers of PaymentIntents.                                              *)
(*                                                                         *)
(* Abstraction: a file is its content (gateway and hash), an entry of a    *)
(* file is known by how it compares with each intent (Fit), confidences    *)
(* are percentages, and a statement's counters saturate at CountCap.       *)
(***************************************************************************)
EXTENDS Naturals, FiniteSetsExt

CONSTANTS
    Files,         \* contents that may be uploaded
    Parseable,     \* those that ParseH2HStatement accepts
    Entries,       \* entries of every parseable file
    LastIntent,    \* intents are 1..LastIntent, in order of creation
    Fit,           \* Fit[x][i]: how entry x compares with intent i
    PageSize,      \* intents per page of the scan (100 in the code)
    Uploaders, Matchers,    \* requests that may be in progress at once
    MaxInserts,    \* bound on insertions of one file's lines
    CountCap,      \* bound on matched_count and unmatched_count
    MaxFaults,     \* bound on requests that die and statements that error
    Overlap,       \* FALSE: a request starts only when no other is in progress
    None

Intents == 1..LastIntent

Fits == [exact : BOOLEAN, contains : BOOLEAN, amount : BOOLEAN, near : BOOLEAN]

ASSUME StatementsAssumption ==
    /\ Parseable \subseteq Files
    /\ LastIntent \in Nat
    /\ Fit \in [Entries -> [Intents -> Fits]]
    /\ PageSize \in Nat \ {0}
    /\ MaxInserts \in Nat /\ CountCap \in Nat \ {0} /\ MaxFaults \in Nat
    /\ Overlap \in BOOLEAN
    /\ None \notin Files

VARIABLES
    stmts,      \* h2h_bank_statements: file -> row
    inserts,    \* file -> committed insertions of its lines
    lines,      \* <<file, insertion, entry>> -> payment_intent_id of that line
    uploads,    \* uploader -> the request it serves
    matchers,   \* matcher -> the run it makes
    opened,     \* intents that became pending
    pending,    \* those that still are
    faults

vars == <<stmts, inserts, lines, uploads, matchers, opened, pending, faults>>

LineIds == Parseable \X (1..MaxInserts) \X Entries

NoIntent == 0       \* NULL
Bound(l) == lines[l] # NoIntent

\* The rows of h2h_bank_lines that belong to f's statement.
LinesOf(f) == {l \in LineIds : l[1] = f /\ l[2] <= inserts[f]}

StatementStatuses ==
    {"absent", "parsing", "parsed", "matching", "matched", "partial", "failed"}

Statements == [status : StatementStatuses, matched : 0..CountCap, unmatched : 0..CountCap]

NoStatement == [status |-> "absent", matched |-> 0, unmatched |-> 0]

To(s, status) == [s EXCEPT !.status = status]

NoUpload == [pc |-> "idle", file |-> None, stmt |-> NoStatement]

\* offset and total are those of the page loop.  steady is not in the code: the
\* intents pending ever since the scan for the line began, none if it was cut
\* short by an error.
NoRun == [pc |-> "idle", file |-> None, stmt |-> NoStatement, todo |-> {}, line |-> None,
          offset |-> 0, total |-> 0, best |-> 0, pick |-> NoIntent, tied |-> 0, steady |-> {}]

Init ==
    /\ stmts = [f \in Files |-> NoStatement]
    /\ lines = [l \in LineIds |-> NoIntent]
    /\ inserts = [f \in Files |-> 0]
    /\ uploads = [u \in Uploaders |-> NoUpload]
    /\ matchers = [m \in Matchers |-> NoRun]
    /\ opened = {}
    /\ pending = {}
    /\ faults = 0

Quiet == /\ \A u \in Uploaders : uploads[u] = NoUpload
         /\ \A m \in Matchers : matchers[m] = NoRun

\* UpdateStatement: every mutable column, WHERE id = $1.
UpdateStatement(f, s) == stmts' = [stmts EXCEPT ![f] = s]

-----------------------------------------------------------------------------
(* UploadAndParse *)

UploadTo(u, pc, f, s) == uploads' = [uploads EXCEPT ![u] = [pc |-> pc, file |-> f, stmt |-> s]]

EndUpload(u) == uploads' = [uploads EXCEPT ![u] = NoUpload]

uploadOnly == <<lines, inserts, matchers, opened, pending, faults>>

\* (defect) looks at the statement only if it was matched
ShortCircuitsMatched(s) == s.status \in {"matched", "partial", "failed"}

\* A statement past parsing is returned as it is.
ShortCircuits(s) == s.status \notin {"absent", "parsing"}

\* FindStatementByHash: a file that is already past parsing is no step.
Upload(u, f) ==
    /\ uploads[u] = NoUpload
    /\ Overlap \/ Quiet
    /\ ~ShortCircuits(stmts[f])
    /\ IF stmts[f] = NoStatement THEN UploadTo(u, "create", f, To(NoStatement, "parsing"))
                                 ELSE UploadTo(u, "parse", f, stmts[f])
    /\ UNCHANGED <<stmts, uploadOnly>>

\* CreateStatement, which (gateway_id, raw_hash) UNIQUE makes fail the second time.
CreateStatement(u) ==
    /\ uploads[u].pc = "create"
    /\ LET f == uploads[u].file IN
       \/ /\ stmts[f] = NoStatement
          /\ UpdateStatement(f, uploads[u].stmt)
          /\ UploadTo(u, "parse", f, uploads[u].stmt)
       \/ /\ stmts[f] # NoStatement
          /\ EndUpload(u)
          /\ UNCHANGED stmts
    /\ UNCHANGED uploadOnly

\* The parse error path: MarkFailed and UpdateStatement.
FailParse(u) ==
    /\ uploads[u].pc = "parse"
    /\ uploads[u].file \notin Parseable
    /\ UpdateStatement(uploads[u].file, To(uploads[u].stmt, "failed"))
    /\ EndUpload(u)
    /\ UNCHANGED uploadOnly

\* InsertLines, one transaction of fresh line ids.
InsertLines(u) ==
    /\ uploads[u].pc = "parse"
    /\ LET f == uploads[u].file IN
       /\ f \in Parseable
       /\ inserts[f] < MaxInserts
       /\ inserts' = [inserts EXCEPT ![f] = @ + 1]
       /\ UploadTo(u, "parsed", f, uploads[u].stmt)
    /\ UNCHANGED <<stmts, lines, matchers, opened, pending, faults>>

\* MarkParsed on the copy and UpdateStatement.
FinishParse(u) ==
    /\ uploads[u].pc = "parsed"
    /\ UpdateStatement(uploads[u].file, To(uploads[u].stmt, "parsed"))
    /\ EndUpload(u)
    /\ UNCHANGED uploadOnly

-----------------------------------------------------------------------------
(* MatchStatement *)

\* The rules of MatchByReference; paid is whether the intent was paid within 48
\* hours of the line's value date.
MatchByReference(fit, paid) ==
    CASE fit.exact                  -> 95
      [] fit.contains /\ fit.amount -> 85
      [] fit.amount /\ paid         -> 50
      [] OTHER                      -> 0

Threshold == 50

\* What the scan makes of intent i for the entry of line l: it passes over an
\* intent created outside the window, and a pending one has no paid_at.
Confidence(l, i) ==
    LET fit == Fit[l[3]][i] IN
    IF fit.near THEN MatchByReference(fit, FALSE) ELSE 0

CanStartMatching(s) == s.status \in {"parsed", "matched", "partial"}

RunTo(m, run) == matchers' = [matchers EXCEPT ![m] = run]

EndRun(m) == RunTo(m, NoRun)

worldOnly == <<opened, pending, faults>>
matchOnly == <<inserts, uploads, worldOnly>>

StartMatching(m, f) ==
    /\ matchers[m] = NoRun
    /\ Overlap \/ Quiet
    /\ CanStartMatching(stmts[f])
    /\ RunTo(m, [NoRun EXCEPT !.pc = "start", !.file = f, !.stmt = To(stmts[f], "matching")])
    /\ UNCHANGED <<stmts, lines, matchOnly>>

WriteMatching(m) ==
    /\ matchers[m].pc = "start"
    /\ UpdateStatement(matchers[m].file, matchers[m].stmt)
    /\ RunTo(m, [matchers[m] EXCEPT !.pc = "list"])
    /\ UNCHANGED <<lines, matchOnly>>

\* (defect) takes the bound lines too
AnyLines(f) == LinesOf(f)

UnmatchedLines(f) == {l \in LinesOf(f) : ~Bound(l)}

ListUnmatchedLines(m) ==
    /\ matchers[m].pc = "list"
    /\ RunTo(m, [matchers[m] EXCEPT !.pc = "next", !.todo = UnmatchedLines(matchers[m].file)])
    /\ UNCHANGED <<stmts, lines, matchOnly>>

TakeLine(m) ==
    /\ matchers[m].pc = "next"
    /\ \E l \in matchers[m].todo :
         RunTo(m, [NoRun EXCEPT !.pc = "count", !.file = matchers[m].file,
                     !.stmt = matchers[m].stmt, !.todo = matchers[m].todo \ {l}, !.line = l,
                     !.steady = pending])
    /\ UNCHANGED <<stmts, lines, matchOnly>>

\* List's two statements, repeated per page: COUNT, then one page of pending
\* intents, newest first.
CountPending(m) ==
    /\ matchers[m].pc = "count"
    /\ RunTo(m, [matchers[m] EXCEPT !.pc = "page", !.total = Cardinality(pending)])
    /\ UNCHANGED <<stmts, lines, matchOnly>>

Page(offset) ==
    {i \in pending : Cardinality({j \in pending : j > i}) \in offset..(offset + PageSize - 1)}

\* The run with the page's candidates weighed: the best confidence so far, the
\* first intent that reached it, and how many reached it.
Weigh(run, page) ==
    LET top  == Max({0} \cup {Confidence(run.line, i) : i \in page})
        ties == {i \in page : Confidence(run.line, i) = top}
    IN  CASE top > run.best -> [run EXCEPT !.best = top, !.pick = Max(ties),
                                           !.tied = Cardinality(ties)]
          [] top = run.best /\ top > 0 -> [run EXCEPT !.tied = @ + Cardinality(ties)]
          [] OTHER -> run

ReadPage(m) ==
    /\ matchers[m].pc = "page"
    /\ LET run  == Weigh(matchers[m], Page(matchers[m].offset))
           next == run.offset + PageSize
       IN  RunTo(m, [run EXCEPT !.offset = next,
                                !.pc = IF next >= run.total THEN "decide" ELSE "count"])
    /\ UNCHANGED <<stmts, lines, matchOnly>>

Inc(n) == IF n < CountCap THEN n + 1 ELSE n

Unmatched(m) == RunTo(m, [matchers[m] EXCEPT !.pc = "next", !.stmt.unmatched = Inc(@)])

\* (defect) binds whichever intent came first
BindFirst(run) == run.best >= Threshold

Binds(run) == run.best >= Threshold /\ run.tied < 2
Ambiguous(run) == run.best >= Threshold /\ run.tied >= 2

\* UpdateLineMatch, if there is a match to write, and the counters.
Decide(m) ==
    /\ matchers[m].pc = "decide"
    /\ LET run == matchers[m] IN
       \/ /\ Binds(run)
          /\ lines' = [lines EXCEPT ![run.line] = run.pick]
          /\ RunTo(m, [run EXCEPT !.pc = "next", !.stmt.matched = Inc(@)])
       \/ /\ ~Binds(run) /\ Ambiguous(run)
          /\ lines' = [lines EXCEPT ![run.line] = NoIntent]
          /\ Unmatched(m)
       \/ /\ ~Binds(run) /\ ~Ambiguous(run)
          /\ Unmatched(m)
          /\ UNCHANGED lines
    /\ UNCHANGED <<stmts, matchOnly>>

Outcome(s) == IF s.unmatched = 0 THEN "matched" ELSE "partial"

CompleteMatching(m) ==
    /\ matchers[m].pc = "next"
    /\ matchers[m].todo = {}
    /\ LET s == matchers[m].stmt IN
       UpdateStatement(matchers[m].file, To(s, Outcome(s)))
    /\ EndRun(m)
    /\ UNCHANGED <<lines, matchOnly>>

\* (defect) does not retry partial statements
RematchParsed(m, f) ==
    /\ stmts[f].status = "parsed"
    /\ StartMatching(m, f)

\* MatchPendingH2HStatementsWorker picks up what is not matched yet.
Rematch(m, f) ==
    /\ stmts[f].status \in {"parsed", "partial"}
    /\ StartMatching(m, f)

-----------------------------------------------------------------------------
(* Faults and the world *)

Fault == faults < MaxFaults /\ faults' = faults + 1

AbortUpload(u) ==
    /\ uploads[u] # NoUpload
    /\ Fault
    /\ EndUpload(u)
    /\ UNCHANGED <<stmts, lines, inserts, matchers, opened, pending>>

AbortRun(m) ==
    /\ matchers[m] # NoRun
    /\ Fault
    /\ EndRun(m)
    /\ UNCHANGED <<stmts, lines, inserts, uploads, opened, pending>>

\* List errors: the page loop breaks and the line is decided on what it saw.
PageError(m) ==
    /\ matchers[m].pc \in {"count", "page"}
    /\ Fault
    /\ RunTo(m, [matchers[m] EXCEPT !.pc = "decide", !.steady = {}])
    /\ UNCHANGED <<stmts, lines, inserts, uploads, opened, pending>>

\* UpdateLineMatch errors: the line is counted as unmatched.
LineError(m) ==
    /\ matchers[m].pc = "decide"
    /\ Binds(matchers[m]) \/ Ambiguous(matchers[m])
    /\ Fault
    /\ Unmatched(m)
    /\ UNCHANGED <<stmts, lines, inserts, uploads, opened, pending>>

\* An intent gets its reference and awaits payment.
Open(i) ==
    /\ i \notin opened
    /\ opened' = opened \cup {i}
    /\ pending' = pending \cup {i}
    /\ UNCHANGED <<stmts, lines, inserts, uploads, matchers, faults>>

\* It is paid, expires, fails or is cancelled.
Leave(i) ==
    /\ i \in pending
    /\ pending' = pending \ {i}
    /\ matchers' = [m \in Matchers |-> [matchers[m] EXCEPT !.steady = @ \ {i}]]
    /\ UNCHANGED <<stmts, lines, inserts, uploads, opened, faults>>

-----------------------------------------------------------------------------

UploadStep(u) ==
    \/ CreateStatement(u)
    \/ FailParse(u)
    \/ InsertLines(u)
    \/ FinishParse(u)

RunStep(m) ==
    \/ WriteMatching(m)
    \/ ListUnmatchedLines(m)
    \/ TakeLine(m)
    \/ CountPending(m)
    \/ ReadPage(m)
    \/ Decide(m)
    \/ CompleteMatching(m)

Next ==
    \/ \E u \in Uploaders : (\E f \in Files : Upload(u, f)) \/ UploadStep(u) \/ AbortUpload(u)
    \/ \E m \in Matchers :
         \/ \E f \in Files : StartMatching(m, f)
         \/ RunStep(m) \/ AbortRun(m) \/ PageError(m) \/ LineError(m)
    \/ \E i \in Intents : Open(i) \/ Leave(i)

Spec == Init /\ [][Next]_vars

\* Requests that have started keep running, and the cron worker keeps starting
\* runs on statements that are not matched.
Fairness ==
    /\ \A u \in Uploaders : WF_vars(UploadStep(u))
    /\ \A m \in Matchers : WF_vars(RunStep(m))
    /\ \A f \in Files : WF_vars(\E m \in Matchers : Rematch(m, f))

FairSpec == Spec /\ Fairness

-----------------------------------------------------------------------------
(* Properties *)

\* The matcher never auto-binds a line to one of several intents that fit it
\* equally well or better, as far as they were pending all through its scan;
\* holds while the pending intents fit one page.
NoSteadyRival ==
    \A m \in Matchers :
        LET run == matchers[m] IN
        run.pc = "decide" /\ Binds(run) =>
            \A i \in run.steady \ {run.pick} : Confidence(run.line, i) < run.best

\* A file's entries are inserted once, unless a request died in between: when
\* requests do not overlap, re-uploading never duplicates lines.
LinesInsertedOnce == faults = 0 => \A f \in Files : inserts[f] <= 1

Fitting(l, i) ==
    /\ i \in pending
    /\ Confidence(l, i) >= Threshold
    /\ \A j \in pending \ {i} : Confidence(l, j) < Confidence(l, i)

\* A line that one pending intent fits best does not wait for ever: some re-run
\* of the cron worker binds it, unless it stops being so or a request dies.
FittingLineBinds ==
    \A l \in LineIds :
        (l \in LinesOf(l[1]) /\ ~Bound(l) /\ \E i \in Intents : Fitting(l, i))
            ~> (Bound(l) \/ faults > 0 \/ \A i \in Intents : ~Fitting(l, i))

\* cron/cron.go on re-runs: "already-matched lines stay matched".  True when runs
\* do not overlap: UpdateLineMatch writes by line id whatever the row holds.
BoundStaysBound == [][\A l \in LineIds : Bound(l) => lines'[l] = lines[l]]_vars

-----------------------------------------------------------------------------
(* A statement of the source that the code contradicts: it does not hold. *)

\* domain/h2h_statement.go on CompleteMatching: "matched / partial depending on
\* whether every line found an intent".
PartialMeansUnbound ==
    \A f \in Files : Quiet /\ stmts[f].status = "partial" =>
        \E l \in LinesOf(f) : ~Bound(l)

=============================================================================
