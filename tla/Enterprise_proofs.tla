-------------------------- MODULE Enterprise_proofs --------------------------
(***************************************************************************)
(* Proofs about a BOQ from its draft to its work orders (Enterprise).      *)
(*                                                                         *)
(* A request decides on what it read and writes later, so a property of    *)
(* the rows is no invariant without one of the requests: BoqInv says of    *)
(* each request what of its version still holds when it writes             *)
(* (RequestSound), and of each version what its header, chain, signatures  *)
(* and quotations have to do with each other (VersionSound, QuotesSound).  *)
(* Two facts carry it. Requests that rewrite a version exclude each other  *)
(* and decisions on it (OneRequestPerCopy), so a statement may change only *)
(* what the others no longer rely on (Kept). And a decision is under the   *)
(* lock of its row: a row once rejected or superseded, that nobody is      *)
(* about to approve, stays dead (Dead), which keeps a chain with a         *)
(* rejected row from being approved in full.                               *)
(*                                                                         *)
(* DealsInv and OrdersInv add that what is still to be done for a          *)
(* quotation or an order that was accepted is in the hands of a request,   *)
(* as long as no request has died.                                         *)
(***************************************************************************)
EXTENDS Enterprise, TLAPS

-----------------------------------------------------------------------------
(* Requests: what a step makes of one, and that it leaves the others alone *)

ReqOK ==
    /\ req = [p \in Procs |-> req[p]]
    /\ \A p \in Procs :
        req[p] = [at |-> req[p].at, on |-> req[p].on, arg |-> req[p].arg, got |-> req[p].got]

OthersStay(p) == \A q \in Procs \ {p} : req'[q] = req[q]

LEMMA BeginMoves ==
    ASSUME ReqOK, NEW p \in Procs, NEW s, NEW row, NEW v, Begin(p, s, row, v)
    PROVE  /\ ReqOK' /\ OthersStay(p)
           /\ req'[p].at = s /\ req'[p].on = row /\ req'[p].arg = v
BY DEF ReqOK, OthersStay, Begin

LEMMA GotoMoves ==
    ASSUME ReqOK, NEW p \in Procs, NEW s, Goto(p, s)
    PROVE  /\ ReqOK' /\ OthersStay(p)
           /\ req'[p].at = s /\ req'[p].on = req[p].on
           /\ req'[p].arg = req[p].arg /\ req'[p].got = req[p].got
BY DEF ReqOK, OthersStay, Goto

LEMMA HoldMoves ==
    ASSUME ReqOK, NEW p \in Procs, NEW s, NEW id, Hold(p, id, s)
    PROVE  /\ ReqOK' /\ OthersStay(p)
           /\ req'[p].at = s /\ req'[p].on = req[p].on
           /\ req'[p].arg = req[p].arg /\ req'[p].got = id
BY DEF ReqOK, OthersStay, Hold

LEMMA ReturnMoves ==
    ASSUME ReqOK, NEW p \in Procs, Return(p)
    PROVE  ReqOK' /\ OthersStay(p) /\ req'[p].at = "idle"
BY DEF ReqOK, OthersStay, Return, Idle

-----------------------------------------------------------------------------
(* What is sound of a version and of the requests about it                 *)

Quotable == {"boq_approved", "superseded"}
Decided == {"approve", "count", "approved", "reject"}
Over == {"rejected", "superseded_reset"}

RowsOf(v) == {i \in Rows : i[1] = v}

\* A row that no decision will approve any more.
Dead(i) ==
    /\ chain[i] \in Over
    /\ \A p \in Procs : ~(At(p, "approve") /\ req[p].on = i)

Resetting(v) == \E p \in Procs : At(p, "reset") /\ Of(p) = v

OnRow ==
    Decided \cup {"older", "autoQuote", "recognise", "rejected", "list", "reassign"}

OnVersion == Rewriting \cup {"quote"}

\* What a request read of its version, and still relies on.
RequestSound(p) ==
  LET v == Of(p)
      i == req[p].on
      at == req[p].at
      arg == req[p].arg
      status == boq[v].status
  IN
    /\ ~Free(p) => v \in Versions
    /\ at \in OnRow => i \in Rows
    /\ at \in OnVersion \ {"reassign"} => i = <<v>>
    /\ at = "line" => arg \in Prices \cup {None}
    /\ at \in {"line", "header"} => status \in Unlocked \cup {"in_approval"}
    /\ at = "submit" => status \in Unlocked
    /\ at \in {"reset", "chain"} => status = "in_approval"
    /\ at = "reassign" => chain[i] = "pending" /\ arg \in Users
    /\ at \in {"clone", "cloneLines"} =>
        /\ arg.version \in Versions
        /\ \/ arg.then = "replaced" /\ status \in Quotable
           \/ arg.then = "cascade" /\ status = "rejected"
    /\ at = "replaced" => status \in Quotable
    /\ at = "cascade" => status \in Quotable \cup {"rejected"}
    /\ at \in Decided => chain[i] # "absent"
    /\ at \in Decided \cup {"rejected"} => arg = boq[v].total
    /\ at = "approved" => AllApproved(v)
    /\ at \in {"older", "autoQuote", "recognise", "quote"} => status \in Quotable
    /\ at = "reject" => chain[i] # "approved"
    /\ at \in {"rejected", "list"} => Dead(i)
    /\ at = "peers" =>
        /\ req[p].got \subseteq RowsOf(v)
        /\ \/ i \in Rows /\ Dead(i)
           \/ i = <<v>> /\ status = "rejected"
           \/ i = <<v>> /\ status \in Quotable /\ req[p].got = {}
    /\ at \in {"insertQuote", "supersedeQuote"} =>
        /\ status \in Quotable
        /\ arg.total = boq[v].total
        /\ \/ i \in Rows /\ arg.then = "recognise"
           \/ i = <<v>> /\ arg.then = "done"

VersionSound(v) ==
    /\ boq[v].status \in Unlocked \cup {"absent"} => Chain(v) = {}
    /\ boq[v].status = "rejected" => \E i \in RowsOf(v) : Dead(i)
    /\ boq[v].status \in Quotable => AllApproved(v) /\ Chain(v) # {}
    /\ Chain(v) # {} => \A s \in Steps : \E i \in Chain(v) : i[2] = s
    /\ v \notin CutOff /\ ~Resetting(v) =>
         \A i \in RowsOf(v) : chain[i] = "approved" => signed[<<v, i[2]>>] = boq[v].total

QuotesSound(v) ==
    /\ quotes[v] # <<>> => boq[v].status \in Quotable
    /\ \A n \in DOMAIN quotes[v] : quotes[v][n].total = boq[v].total

\* Each decision is under the lock of its row.
Locked ==
    \A p, q \in Procs :
        p # q /\ req[p].at \in Deciding /\ req[q].at \in Deciding /\ req[p].on \in Rows =>
            req[p].on # req[q].on

Quotation == [number : Nat, version : Nat, status : QuotationStatuses,
              total : Prices \cup {None}]

QuotesOK ==
    /\ quotes \in [Versions -> Seq(Quotation)]
    /\ \A p \in Procs :
        /\ req[p].at \in {"settle", "accept"} =>
            req[p].on \in Quotes /\ req[p].on[2] \in DOMAIN quotes[req[p].on[1]]
        /\ req[p].at = "settle" => req[p].arg \in QuotationStatuses
        /\ req[p].at = "insertQuote" => req[p].got.at \in 0 .. Len(quotes[Of(p)])
        /\ /\ req[p].at \in {"insertQuote", "supersedeQuote"}
           /\ req[p].got.was \in {"issued", "rejected"}
           => req[p].got.at \in DOMAIN quotes[Of(p)]

BoqInv ==
    /\ ReqOK /\ OneRequestPerCopy /\ BoqTypeOK /\ QuotesOK /\ Locked
    /\ \A p \in Procs : RequestSound(p)
    /\ \A v \in Versions : VersionSound(v) /\ QuotesSound(v)

LEMMA RowParts ==
    /\ \A i \in Rows : i = <<i[1], i[2], i[3]>> /\ i[1] \in Versions /\ i[2] \in Steps
                       /\ i[3] \in Users
    /\ \A v \in Versions, s \in Steps, u \in Users :
        <<v, s, u>> \in Rows /\ <<v, s, u>>[1] = v /\ <<v, s, u>>[2] = s
    /\ \A v : <<v>>[1] = v
BY DEF Rows

LEMMA VersionIsNoRow == \A v : <<v>> \notin Rows
<1> SUFFICES ASSUME NEW v, <<v>> \in Rows PROVE FALSE
  OBVIOUS
<1>1. PICK a, b, c : <<v>> = <<a, b, c>>
  BY DEF Rows
<1>2. Len(<<v>>) = 1 /\ Len(<<a, b, c>>) = 3
  OBVIOUS
<1> QED
  BY <1>1, <1>2

-----------------------------------------------------------------------------
(* What a step leaves alone                                                *)

\* A version keeps its price and its rows; it may be superseded.
SameVersion(v) ==
    /\ boq'[v].total = boq[v].total
    /\ boq'[v].status = boq[v].status
       \/ (boq[v].status \in Quotable /\ boq'[v].status \in Quotable)
    /\ \A i \in RowsOf(v) : chain'[i] = chain[i]

\* Enough of its version is left for a request of another to stay sound.
Kept(q) ==
  LET v == Of(q)
      i == req[q].on
  IN
    /\ req'[q] = req[q]
    /\ boq[v].status \in Quotable => boq'[v].status \in Quotable
    /\ req[q].at \in Rewriting \cup Deciding =>
        /\ boq'[v].total = boq[v].total
        /\ boq[v].status = "rejected" => boq'[v].status = "rejected"
        /\ AllApproved(v) => AllApproved(v)'
        /\ i \in Rows /\ chain[i] # "absent" => chain'[i] # "absent"
        /\ i \in Rows /\ chain[i] # "approved" => chain'[i] # "approved"
    /\ req[q].at \in Rewriting =>
        /\ boq'[v].status = boq[v].status
           \/ (boq[v].status \in Quotable /\ boq'[v].status \in Quotable)
        /\ i \in Rows => chain'[i] = chain[i]

DeadStay == \A i \in Rows : Dead(i) => Dead(i)'

LEMMA KeptIsSound ==
    ASSUME NEW q \in Procs, RequestSound(q), Kept(q), DeadStay
    PROVE  RequestSound(q)'
<1> DEFINE v == Of(q)
<1>1. req'[q] = req[q]
  BY DEF Kept
<1>2. CASE req[q].at \in Rewriting
  BY <1>1, <1>2 DEF Kept, DeadStay, RequestSound, Rewriting, Of, Free, RowsOf, OnRow, OnVersion, Decided, Quotable, Unlocked
<1>3. CASE req[q].at \in Deciding
  <2> USE DEF Of, Free, OnRow, OnVersion, Decided, Quotable, Unlocked, Rewriting, Deciding
  <2>1. CASE req[q].at \in {"rejected", "list"}
    BY <1>1, <2>1 DEF Kept, DeadStay, RequestSound
  <2>2. CASE req[q].at = "peers"
    BY <1>1, <2>2 DEF Kept, DeadStay, RequestSound, RowsOf
  <2>3. CASE req[q].at \in {"insertQuote", "supersedeQuote"}
    BY <1>1, <2>3 DEF Kept, RequestSound
  <2>4. CASE req[q].at \in {"approve", "count", "approved", "reject"}
    BY <1>1, <2>4 DEF Kept, RequestSound
  <2>5. CASE req[q].at \in {"older", "autoQuote", "recognise"}
    BY <1>1, <2>5 DEF Kept, RequestSound
  <2> QED
    BY <1>3, <2>1, <2>2, <2>3, <2>4, <2>5
<1>4. CASE req[q].at \notin Rewriting \cup Deciding
  BY <1>1, <1>4 DEF Kept, RequestSound, Rewriting, Deciding, Of, Free, OnRow, OnVersion, Decided, Quotable
<1> QED
  BY <1>2, <1>3, <1>4

LEMMA SameIsKept ==
    ASSUME NEW q \in Procs, RequestSound(q), Of(q) \in Versions, SameVersion(Of(q)), req'[q] = req[q]
    PROVE  Kept(q)
<1> DEFINE v == Of(q)
           i == req[q].on
<1>1. i \in Rows => i \in RowsOf(v)
  BY DEF RowsOf, Of
<1>2. v' = v
  BY DEF Of
<1>3. AllApproved(v) => AllApproved(v)'
  BY <1>2 DEF SameVersion, AllApproved, Chain, RowsOf
<1> QED
  BY <1>1, <1>3 DEF SameVersion, Kept, Quotable

LEMMA SameIsSound ==
    ASSUME NEW v \in Versions, VersionSound(v), SameVersion(v), DeadStay,
           \A s \in Steps : signed'[<<v, s>>] = signed[<<v, s>>],
           v \in CutOff => v \in CutOff',
           Resetting(v) => v \in CutOff' \/ Resetting(v)'
    PROVE  VersionSound(v)'
<1>1. Chain(v)' = Chain(v)
  BY DEF SameVersion, Chain, RowsOf
<1>2. AllApproved(v)' <=> AllApproved(v)
  BY <1>1 DEF SameVersion, AllApproved, Chain, RowsOf
<1>3. \A i \in RowsOf(v) : i \in Rows /\ i[2] \in Steps /\ chain'[i] = chain[i]
  BY RowParts DEF SameVersion, RowsOf
<1>4. boq'[v].status \in Unlocked \cup {"absent", "rejected"} => boq'[v].status = boq[v].status
  BY DEF SameVersion, Quotable, Unlocked
<1>5. boq'[v].status \in Quotable <=> boq[v].status \in Quotable
  BY DEF SameVersion, Quotable
<1>6. boq'[v].total = boq[v].total
  BY DEF SameVersion
<1>7. (boq[v].status \in Unlocked \cup {"absent"} => Chain(v) = {})'
  BY <1>1, <1>4 DEF VersionSound, Unlocked
<1>8. (boq[v].status = "rejected" => \E i \in RowsOf(v) : Dead(i))'
  BY <1>3, <1>4 DEF VersionSound, DeadStay, RowsOf
<1>9. (boq[v].status \in Quotable => AllApproved(v) /\ Chain(v) # {})'
  BY <1>1, <1>2, <1>5 DEF VersionSound
<1>10. (Chain(v) # {} => \A s \in Steps : \E i \in Chain(v) : i[2] = s)'
  BY <1>1 DEF VersionSound
<1>11. (v \notin CutOff /\ ~Resetting(v) =>
         \A i \in RowsOf(v) : chain[i] = "approved" => signed[<<v, i[2]>>] = boq[v].total)'
  BY <1>3, <1>6 DEF VersionSound, RowsOf
<1> QED
  BY <1>7, <1>8, <1>9, <1>10, <1>11 DEF VersionSound

\* Nobody begins to approve a row that is dead, and dead rows stay as they are.
LEMMA StillDead ==
    ASSUME NEW p \in Procs, OthersStay(p),
           req'[p].at = "approve" => chain[req'[p].on] \notin Over,
           \A i \in Rows : Dead(i) => chain'[i] \in Over
    PROVE  DeadStay
BY DEF DeadStay, Dead, OthersStay, At, Over

LEMMA StillLocked ==
    ASSUME Locked, NEW p \in Procs, OthersStay(p),
           \/ req'[p].at \notin Deciding
           \/ req'[p].on \notin Rows
           \/ req[p].at \in Deciding /\ req'[p].on = req[p].on
           \/ LockFree(req'[p].on)
    PROVE  Locked'
BY DEF Locked, LockFree, OthersStay, Deciding

\* Statements that write no more than lines, and what they do to the request.
LEMMA RequestMoves ==
    ASSUME BoqInv, NEW p \in Procs, OthersStay(p), ReqOK', OneRequestPerCopy', BoqTypeOK',
           UNCHANGED <<boq, chain, signed>>, QuotesOK', \A v \in Versions : QuotesSound(v)',
           \A v \in Versions : v \in CutOff => v \in CutOff',
           At(p, "reset") => Of(p) \in CutOff' \/ (At(p, "reset")' /\ Of(p)' = Of(p)),
           req'[p].at = "approve" => chain[req'[p].on] \notin Over,
           Locked', RequestSound(p)'
    PROVE  BoqInv'
<1>1. DeadStay
  BY StillDead DEF Dead
<1>2. \A v \in Versions : SameVersion(v)
  BY DEF SameVersion
<1>3. ASSUME NEW q \in Procs, q # p
      PROVE  RequestSound(q)'
  <2>1. req'[q] = req[q] /\ RequestSound(q)
    BY <1>3 DEF OthersStay, BoqInv
  <2>2. CASE Free(q)
    BY <2>1, <2>2 DEF RequestSound, Free, OnRow, OnVersion, Decided, Rewriting
  <2>3. CASE ~Free(q)
    <3>1. Of(q) \in Versions
      BY <2>1, <2>3 DEF RequestSound
    <3> QED
      BY <1>1, <1>2, <2>1, <3>1, SameIsKept, KeptIsSound
  <2> QED
    BY <2>2, <2>3
<1>4. ASSUME NEW v \in Versions
      PROVE  VersionSound(v)'
  <2>1. Resetting(v) => v \in CutOff' \/ Resetting(v)'
    BY DEF Resetting, OthersStay, At, Of
  <2> QED
    BY <1>1, <1>2, <2>1, SameIsSound DEF BoqInv
<1> QED
  BY <1>3, <1>4 DEF BoqInv

LEMMA BoqStutters ==
    ASSUME BoqInv, UNCHANGED <<boqs, quotes, req>>
    PROVE  BoqInv'
<1> USE DEF boqs
<1>1. ReqOK' /\ OneRequestPerCopy' /\ BoqTypeOK' /\ QuotesOK' /\ Locked'
  BY DEF BoqInv, ReqOK, OneRequestPerCopy, Clash, BoqTypeOK, QuotesOK, Locked, Of, Free
<1>2. DeadStay /\ \A v \in Versions : SameVersion(v)
  BY DEF DeadStay, Dead, At, SameVersion
<1>3. ASSUME NEW q \in Procs
      PROVE  RequestSound(q)'
  <2>1. CASE Free(q)
    BY <2>1 DEF RequestSound, Free, OnRow, OnVersion, Decided, Rewriting
  <2>2. CASE ~Free(q)
    <3>1. RequestSound(q) /\ Of(q) \in Versions
      BY <2>2 DEF BoqInv, RequestSound
    <3> QED
      BY <1>2, <3>1, SameIsKept, KeptIsSound
  <2> QED
    BY <2>1, <2>2
<1>4. ASSUME NEW v \in Versions
      PROVE  VersionSound(v)' /\ QuotesSound(v)'
  <2>1. Resetting(v) => Resetting(v)'
    BY DEF Resetting, At, Of
  <2>2. VersionSound(v)'
    BY <1>2, <2>1, SameIsSound DEF BoqInv, CutOff
  <2> QED
    BY <2>2 DEF BoqInv, QuotesSound
<1> QED
  BY <1>1, <1>3, <1>4 DEF BoqInv

LEMMA QuotesStay ==
    ASSUME BoqInv, UNCHANGED <<boq, quotes>>, NEW p \in Procs, OthersStay(p),
           req'[p].at \notin {"settle", "accept", "insertQuote", "supersedeQuote"}
    PROVE  QuotesOK' /\ \A v \in Versions : QuotesSound(v)'
BY DEF BoqInv, QuotesOK, QuotesSound, OthersStay, Of

LEMMA OnlyRequestMoves ==
    ASSUME BoqInv, NEW p \in Procs, OthersStay(p), ReqOK', OneRequestPerCopy',
           UNCHANGED boqs, QuotesOK', \A v \in Versions : QuotesSound(v)', ~At(p, "reset"),
           \/ req'[p].at \notin Deciding
           \/ req'[p].on \notin Rows
           \/ req[p].at \in Deciding /\ req'[p].on = req[p].on
           \/ LockFree(req'[p].on),
           req'[p].at = "approve" => chain[req'[p].on] \notin Over,
           RequestSound(p)'
    PROVE  BoqInv'
<1>1. Locked'
  BY StillLocked DEF BoqInv
<1>2. BoqTypeOK' /\ (\A v \in Versions : v \in CutOff => v \in CutOff')
  BY DEF BoqInv, BoqTypeOK, boqs, CutOff
<1> QED
  BY <1>1, <1>2, RequestMoves DEF boqs

\* Statements of the quotations' and the orders' own.
Elsewhere ==
    {"idle", "done", "settle", "accept", "invoice", "insertInvoice", "ewo", "insertEWO"}
        \cup Ordering

LEMMA ElsewhereMoves ==
    ASSUME BoqInv, NEW p \in Procs, OthersStay(p), ReqOK', OneRequestPerCopy',
           UNCHANGED boqs, QuotesOK', \A v \in Versions : QuotesSound(v)', ~At(p, "reset"),
           req'[p].at \in Elsewhere,
           req'[p].at # "idle" => req'[p].on[1] \in Versions
    PROVE  BoqInv'
<1>1. req'[p].at \notin Deciding \cup Rewriting \cup OnRow \cup OnVersion
  BY DEF Elsewhere, Ordering, Deciding, Rewriting, OnRow, OnVersion, Decided
<1>2. RequestSound(p)'
  BY <1>1 DEF RequestSound, Of, Free, Elsewhere, OnRow, OnVersion, Decided, Rewriting, Deciding
<1>3. req'[p].at # "approve"
  BY <1>1 DEF Deciding
<1> QED
  BY <1>1, <1>2, <1>3, OnlyRequestMoves

\* The step a request takes in the Boq's and quotations' part of the state
\* when it is about something else.
LEMMA IntercompanyKeeps ==
    ASSUME BoqInv, OneRequestPerCopy', UNCHANGED <<boqs, quotations>>, IntercompanyNext
    PROVE  BoqInv'
<1> SUFFICES ASSUME NEW p \in Procs,
        \/ \E v \in Versions :
            \/ UploadCustomerPO(p, v) \/ ValidateCustomerPO(p, v)
            \/ AcceptCustomerPO(p, v)
            \/ RejectCustomerPO(p, v) \/ CancelCustomerPO(p, v)
        \/ \E o \in ICPOs :
            \/ IssueIntercompanyPO(p, o) \/ AcceptIntercompanyPO(p, o)
            \/ RejectIntercompanyPO(p, o) \/ CancelIntercompanyPO(p, o)
        \/ WritePO(p) \/ DraftICPO(p) \/ AllDrafted(p)
        \/ AutoIssue(p) \/ AutoAcceptICPO(p) \/ AutoRecognise(p)
        \/ WriteICPO(p) \/ RecognizeOnICPOAccept(p)
        \/ FindEWOY(p) \/ AutoSpawnEWOY(p)
    PROVE BoqInv'
  BY DEF IntercompanyNext
<1> DEFINE Moved == /\ ReqOK' /\ OthersStay(p) /\ ~At(p, "reset")
                    /\ req'[p].at \in Ordering \cup {"idle"}
                    /\ req'[p].at # "idle" => req'[p].on[1] \in Versions
<1>1. ReqOK /\ (~Free(p) => Of(p) \in Versions)
  BY DEF BoqInv, RequestSound
<1>2. ASSUME NEW v \in Versions,
             \/ UploadCustomerPO(p, v) \/ ValidateCustomerPO(p, v)
             \/ AcceptCustomerPO(p, v)
             \/ RejectCustomerPO(p, v) \/ CancelCustomerPO(p, v)
      PROVE  Moved
  <2>1. PICK x : Begin(p, "po", <<v>>, x)
    BY <1>2 DEF UploadCustomerPO, ValidateCustomerPO, AcceptCustomerPO, RejectCustomerPO,
                CancelCustomerPO, MovePO
  <2>2. ~At(p, "reset")
    BY <2>1 DEF Begin, Free, At
  <2> QED
    BY <1>1, <2>1, <2>2, BeginMoves, RowParts DEF Ordering
<1>3. ASSUME NEW o \in ICPOs,
             \/ IssueIntercompanyPO(p, o) \/ AcceptIntercompanyPO(p, o)
             \/ RejectIntercompanyPO(p, o) \/ CancelIntercompanyPO(p, o)
      PROVE  Moved
  <2>1. PICK x : Begin(p, "icpo", o, x)
    BY <1>3 DEF IssueIntercompanyPO, AcceptIntercompanyPO, RejectIntercompanyPO,
                CancelIntercompanyPO, MoveICPO
  <2>2. ~At(p, "reset")
    BY <2>1 DEF Begin, Free, At
  <2> QED
    BY <1>1, <2>1, <2>2, BeginMoves DEF Ordering, ICPOs
<1>4. ASSUME DraftICPO(p)
      PROVE  Moved
  <2>1. PICK s, statement :
            /\ statement \in {"split", "autoIssue"}
            /\ req' = [req EXCEPT ![p] = [at |-> statement, on |-> @.on,
                                         got |-> @.got \ {s}, arg |-> <<Of(p), s>>]]
    BY <1>4 DEF DraftICPO
  <2> QED
    BY <1>1, <1>4, <2>1 DEF DraftICPO, At, Ordering, ReqOK, OthersStay, Free, Of
<1>5. ASSUME WritePO(p) \/ AllDrafted(p)
      PROVE  Moved
  BY <1>1, <1>5, HoldMoves, ReturnMoves DEF WritePO, AllDrafted, At, Ordering, Free, Of
<1>6. ASSUME AutoIssue(p) \/ AutoAcceptICPO(p) \/ AutoRecognise(p)
      PROVE  Moved
  BY <1>1, <1>6, GotoMoves DEF AutoIssue, AutoAcceptICPO, AutoRecognise, At, Ordering, Free, Of
<1>7. ASSUME WriteICPO(p) \/ RecognizeOnICPOAccept(p) \/ FindEWOY(p) \/ AutoSpawnEWOY(p)
      PROVE  Moved
  BY <1>1, <1>7, GotoMoves, ReturnMoves
     DEF WriteICPO, RecognizeOnICPOAccept, FindEWOY, AutoSpawnEWOY, At, Ordering, Free, Of
<1>8. Moved
  BY <1>2, <1>3, <1>4, <1>5, <1>6, <1>7
<1>9. req'[p].at \notin {"settle", "accept", "insertQuote", "supersedeQuote"}
  BY <1>8 DEF Ordering
<1>10. QuotesOK' /\ \A v \in Versions : QuotesSound(v)'
  BY <1>8, <1>9, QuotesStay DEF quotations, boqs
<1> QED
  BY <1>8, <1>10, ElsewhereMoves DEF quotations, Elsewhere

LEMMA RecogniseKeeps ==
    ASSUME BoqInv, OneRequestPerCopy', UNCHANGED <<boqs, quotations>>,
           NEW p \in Procs, RecognizeOnApproval(p)
    PROVE  BoqInv'
<1>1. ReqOK' /\ OthersStay(p) /\ req'[p].at = "idle" /\ ~At(p, "reset")
  BY ReturnMoves DEF RecognizeOnApproval, BoqInv, At
<1>2. QuotesOK' /\ \A v \in Versions : QuotesSound(v)'
  BY <1>1, QuotesStay DEF quotations, boqs
<1> QED
  BY <1>1, <1>2, ElsewhereMoves DEF quotations, Elsewhere

LEMMA AbandonKeeps ==
    ASSUME BoqInv, OneRequestPerCopy', UNCHANGED quotes,
           NEW p \in Procs, AbandonBoq(p)
    PROVE  BoqInv'
<1> DEFINE d == <<Of(p), req[p].at \in {"header", "reset"}>>
<1>1. /\ ReqOK' /\ OthersStay(p) /\ req'[p].at = "idle" /\ Of(p) \in Versions
      /\ deaths' = Append(deaths, d) /\ Len(deaths) < MaxDeaths
      /\ UNCHANGED <<boq, lines, chain, signed>>
  BY ReturnMoves DEF AbandonBoq, Abandon, BoqInv, RequestSound
<1>2. QuotesOK' /\ \A v \in Versions : QuotesSound(v)'
  BY <1>1, QuotesStay
<1>3. d \in Versions \X BOOLEAN
  <2>1. \A a \in Versions, b \in BOOLEAN : <<a, b>> \in Versions \X BOOLEAN
    OBVIOUS
  <2>2. (req[p].at \in {"header", "reset"}) \in BOOLEAN
    OBVIOUS
  <2> QED
    BY <1>1, <2>1, <2>2, Zenon
<1>4. deaths \in Seq(Versions \X BOOLEAN)
  BY DEF BoqInv, BoqTypeOK
<1> HIDE DEF d
<1>5. /\ deaths' \in Seq(Versions \X BOOLEAN) /\ Len(deaths') = Len(deaths) + 1
      /\ \A n \in DOMAIN deaths : n \in DOMAIN deaths' /\ deaths'[n] = deaths[n]
      /\ Len(deaths) + 1 \in DOMAIN deaths' /\ deaths'[Len(deaths) + 1] = d
  BY <1>1, <1>3, <1>4
<1>6. BoqTypeOK'
  BY <1>1, <1>5, BoqAssumption DEF BoqInv, BoqTypeOK
<1>7. \A v \in Versions : v \in CutOff => v \in CutOff'
  BY <1>5 DEF CutOff
<1>8. At(p, "reset") => Of(p) \in CutOff'
  <2> SUFFICES ASSUME At(p, "reset") PROVE Of(p) \in CutOff'
    OBVIOUS
  <2>1. (req[p].at \in {"header", "reset"}) = TRUE
    BY DEF At
  <2>2. d = <<Of(p), TRUE>>
    BY <2>1 DEF d
  <2> QED
    BY <1>1, <1>5, <2>2 DEF CutOff
<1>9. Locked'
  BY <1>1, StillLocked DEF BoqInv, Deciding
<1>10. RequestSound(p)'
  BY <1>1 DEF RequestSound, Free, OnRow, OnVersion, Decided, Rewriting
<1> QED
  BY <1>1, <1>2, <1>6, <1>7, <1>8, <1>9, <1>10, RequestMoves

LEMMA SettlesKeep ==
    ASSUME BoqInv, OneRequestPerCopy', NEW p \in Procs, NEW q \in Quotes,
           \/ RejectQuotation(p, q) \/ CancelQuotation(p, q) \/ ExpireQuotation(p, q)
           \/ AcceptQuotation(p, q)
    PROVE  BoqInv'
<1>1. PICK s, x :
        /\ s = "accept" \/ (s = "settle" /\ x \in QuotationStatuses)
        /\ q[2] \in Issued(q[1]) /\ Begin(p, s, q, x) /\ UNCHANGED <<boqs, quotations>>
  BY DEF RejectQuotation, CancelQuotation, ExpireQuotation, AcceptQuotation, Settle,
         QuotationStatuses
<1>2. /\ ReqOK' /\ OthersStay(p) /\ req'[p].at = s /\ req'[p].on = q /\ req'[p].arg = x
  BY <1>1, BeginMoves DEF BoqInv
<1>3. ~At(p, "reset")
  BY <1>1 DEF Begin, Free, At
<1>4. q[1] \in Versions /\ q[2] \in DOMAIN quotes[q[1]]
  BY <1>1 DEF Issued, Quotes
<1>5. QuotesOK' /\ \A v \in Versions : QuotesSound(v)'
  BY <1>1, <1>2, <1>4 DEF quotations, boqs, BoqInv, QuotesOK, QuotesSound, OthersStay, Of
<1> QED
  BY <1>1, <1>2, <1>3, <1>4, <1>5, ElsewhereMoves DEF Elsewhere

LEMMA RepeatsKeep ==
    ASSUME BoqInv, OneRequestPerCopy', NEW p \in Procs, NEW q \in Quotes,
           IssueInvoice(p, q) \/ CreateEWO(p, q)
    PROVE  BoqInv'
<1>1. PICK s, x : s \in {"invoice", "ewo"} /\ Begin(p, s, q, x) /\ UNCHANGED <<boqs, quotations>>
  BY DEF IssueInvoice, CreateEWO
<1>2. /\ ReqOK' /\ OthersStay(p) /\ req'[p].at = s /\ req'[p].on = q
  BY <1>1, BeginMoves DEF BoqInv
<1>3. ~At(p, "reset")
  BY <1>1 DEF Begin, Free, At
<1>4. q[1] \in Versions
  BY DEF Quotes
<1>5. QuotesOK' /\ \A v \in Versions : QuotesSound(v)'
  BY <1>1, <1>2, QuotesStay DEF quotations, boqs
<1> QED
  BY <1>1, <1>2, <1>3, <1>4, <1>5, ElsewhereMoves DEF Elsewhere

LEMMA GenerateKeeps ==
    ASSUME BoqInv, OneRequestPerCopy', NEW p \in Procs, NEW v \in Versions,
           GenerateQuotation(p, v)
    PROVE  BoqInv'
<1>1. /\ boq[v].status \in Quotable /\ Begin(p, "quote", <<v>>, None)
      /\ UNCHANGED <<boqs, quotations>>
  BY DEF GenerateQuotation, Quotable
<1>2. /\ ReqOK' /\ OthersStay(p) /\ req'[p].at = "quote" /\ req'[p].on = <<v>>
  BY <1>1, BeginMoves DEF BoqInv
<1>3. ~At(p, "reset")
  BY <1>1 DEF Begin, Free, At
<1>4. RequestSound(p)'
  BY <1>1, <1>2 DEF RequestSound, Of, Free, OnRow, OnVersion, Decided, Rewriting, boqs
<1>5. QuotesOK' /\ \A w \in Versions : QuotesSound(w)'
  BY <1>1, <1>2, QuotesStay DEF quotations, boqs
<1> QED
  BY <1>1, <1>2, <1>3, <1>4, <1>5, OnlyRequestMoves DEF Deciding

\* A generation reads the latest quotation and the header's total.
LEMMA ReadsKeep ==
    ASSUME BoqInv, OneRequestPerCopy', NEW p \in Procs, UNCHANGED <<boqs, quotations>>,
           NEW then, ReadLatest(p, Of(p), boq[Of(p)].total, then),
           \/ At(p, "quote") /\ then = "done"
           \/ At(p, "autoQuote") /\ then = "recognise"
    PROVE  BoqInv'
<1> DEFINE v == Of(p)
<1>1. PICK n \in IF Latest(v) = {} THEN {0} ELSE Latest(v) :
        req' = [req EXCEPT ![p] =
                   [at |-> "insertQuote", on |-> @.on, got |-> Prior(v, n),
                    arg |-> [total |-> boq[v].total, then |-> then]]]
  BY DEF ReadLatest
<1>2. /\ ReqOK' /\ OthersStay(p)
      /\ req'[p].at = "insertQuote" /\ req'[p].on = req[p].on
      /\ req'[p].got.at = n /\ (n = 0 => req'[p].got.was = "absent")
      /\ req'[p].arg.total = boq[v].total /\ req'[p].arg.then = then
  BY <1>1 DEF BoqInv, ReqOK, OthersStay, Prior
<1>3. /\ v \in Versions /\ boq[v].status \in Quotable
      /\ At(p, "quote") => req[p].on = <<v>>
      /\ At(p, "autoQuote") => req[p].on \in Rows
  BY DEF BoqInv, RequestSound, At, Free, OnRow, OnVersion, Rewriting
<1>4. RequestSound(p)'
  BY <1>2, <1>3 DEF RequestSound, Of, Free, OnRow, OnVersion, Decided, Rewriting, boqs
<1>5. n \in 0 .. Len(quotes[v]) /\ (n # 0 => n \in DOMAIN quotes[v])
  <2>1. quotes[v] \in Seq(Quotation)
    BY <1>3 DEF BoqInv, QuotesOK
  <2>2. n = 0 \/ n \in DOMAIN quotes[v]
    BY <1>1 DEF Latest
  <2> HIDE DEF v
  <2> QED
    BY <2>1, <2>2
<1>6. QuotesOK' /\ \A w \in Versions : QuotesSound(w)'
  BY <1>2, <1>5 DEF quotations, boqs, BoqInv, QuotesOK, QuotesSound, OthersStay, Of
<1>7. ~At(p, "reset") /\ req'[p].at # "approve"
  BY <1>2 DEF At
<1>8. \/ req'[p].on \notin Rows
      \/ req[p].at \in Deciding /\ req'[p].on = req[p].on
  BY <1>2, <1>3, VersionIsNoRow DEF At, Deciding
<1> QED
  BY <1>2, <1>4, <1>6, <1>7, <1>8, OnlyRequestMoves DEF quotations

\* From a row's decision to its hook on the ledger.
LEMMA RecogniseNext ==
    ASSUME BoqInv, OneRequestPerCopy', NEW p \in Procs, UNCHANGED boqs,
           QuotesOK', \A v \in Versions : QuotesSound(v)',
           req[p].at \in Deciding, req[p].on \in Rows,
           Of(p) \in Versions, boq[Of(p)].status \in Quotable, Goto(p, "recognise")
    PROVE  BoqInv'
<1>1. /\ ReqOK' /\ OthersStay(p) /\ req'[p].at = "recognise" /\ req'[p].on = req[p].on
  BY GotoMoves DEF BoqInv
<1>2. RequestSound(p)'
  BY <1>1 DEF RequestSound, Of, Free, OnRow, OnVersion, Decided, Rewriting, boqs
<1>3. ~At(p, "reset")
  BY DEF At, Deciding
<1> QED
  BY <1>1, <1>2, <1>3, OnlyRequestMoves

LEMMA DoneNext ==
    ASSUME BoqInv, OneRequestPerCopy', NEW p \in Procs, UNCHANGED boqs,
           QuotesOK', \A v \in Versions : QuotesSound(v)',
           ~At(p, "reset"), Of(p) \in Versions, Goto(p, "done")
    PROVE  BoqInv'
BY GotoMoves, ElsewhereMoves DEF BoqInv, Elsewhere, Of

\* A generation goes on to what it was called for.
LEMMA GenerationEnds ==
    ASSUME BoqInv, OneRequestPerCopy', NEW p \in Procs, UNCHANGED boqs,
           QuotesOK', \A v \in Versions : QuotesSound(v)',
           req[p].at \in {"insertQuote", "supersedeQuote"}, Goto(p, req[p].arg.then)
    PROVE  BoqInv'
<1>1. /\ Of(p) \in Versions /\ ~At(p, "reset") /\ boq[Of(p)].status \in Quotable
      /\ \/ req[p].on \in Rows /\ req[p].arg.then = "recognise"
         \/ req[p].on = <<Of(p)>> /\ req[p].arg.then = "done"
  BY DEF BoqInv, RequestSound, Free, At
<1> QED
  BY <1>1, RecogniseNext, DoneNext DEF Deciding

LEMMA AutoGenerateKeeps ==
    ASSUME BoqInv, OneRequestPerCopy', NEW p \in Procs, AutoGenerateQuotation(p)
    PROVE  BoqInv'
<1>1. At(p, "autoQuote") /\ UNCHANGED <<boqs, quotations>>
  BY DEF AutoGenerateQuotation
<1>2. CASE Goto(p, "recognise")
  <2>1. Of(p) \in Versions /\ req[p].on \in Rows /\ boq[Of(p)].status \in Quotable
    BY <1>1 DEF BoqInv, RequestSound, At, Free, OnRow
  <2>2. OthersStay(p) /\ req'[p].at = "recognise"
    BY <1>2, GotoMoves DEF BoqInv
  <2>3. QuotesOK' /\ \A v \in Versions : QuotesSound(v)'
    BY <1>1, <2>2, QuotesStay DEF quotations, boqs
  <2> QED
    BY <1>1, <1>2, <2>1, <2>3, RecogniseNext DEF At, Deciding
<1>3. CASE ReadLatest(p, Of(p), boq[Of(p)].total, "recognise")
  BY <1>1, <1>3, ReadsKeep
<1> QED
  BY <1>2, <1>3 DEF AutoGenerateQuotation

LEMMA NewQuotationType ==
    ASSUME BoqInv, NEW p \in Procs, At(p, "insertQuote"),
           NEW q, q = NewQuotation(Of(p), req[p].got.at, req[p].arg.total)
    PROVE  /\ q \in Quotation /\ q.total = boq[Of(p)].total
           /\ Of(p) \in Versions /\ boq[Of(p)].status \in Quotable
<1> DEFINE v == Of(p)
           n == req[p].got.at
<1>1. v \in Versions /\ boq[v].status \in Quotable /\ req[p].arg.total = boq[v].total
  BY DEF BoqInv, RequestSound, At, Free
<1>2. quotes[v] \in Seq(Quotation) /\ n \in 0 .. Len(quotes[v])
  BY <1>1 DEF BoqInv, QuotesOK, At
<1>3. boq[v].total \in Prices \cup {None}
  BY <1>1 DEF BoqInv, BoqTypeOK
<1> HIDE DEF v, n
<1>4. n # 0 => quotes[v][n] \in Quotation
  BY <1>2
<1>5. n # 0 => quotes[v][n].number \in Nat /\ quotes[v][n].version + 1 \in Nat
  BY <1>4 DEF Quotation
<1>6. Len(quotes[v]) + 1 \in Nat /\ "issued" \in QuotationStatuses /\ 1 \in Nat
  BY <1>2 DEF QuotationStatuses
<1>7. q = NewQuotation(v, n, boq[v].total)
  BY <1>1 DEF v, n
<1>8. q \in Quotation /\ q.total = boq[v].total
  BY <1>3, <1>5, <1>6, <1>7 DEF NewQuotation, Quotation
<1> QED
  BY <1>1, <1>8 DEF v

LEMMA CreateQuotationKeeps ==
    ASSUME BoqInv, OneRequestPerCopy', NEW p \in Procs, CreateQuotation(p)
    PROVE  BoqInv'
<1> DEFINE v == Of(p)
           q == NewQuotation(v, req[p].got.at, req[p].arg.total)
<1>1. At(p, "insertQuote") /\ UNCHANGED boqs
  BY DEF CreateQuotation
<1>2. /\ q \in Quotation /\ q.total = boq[v].total
      /\ v \in Versions /\ boq[v].status \in Quotable
  BY <1>1, NewQuotationType
<1>3. CASE Goto(p, req[p].arg.then) /\ UNCHANGED quotes
  <2>1. OthersStay(p) /\ req'[p].at \in {"recognise", "done"}
    BY <1>1, <1>3, GotoMoves DEF BoqInv, RequestSound, At
  <2>2. QuotesOK' /\ \A w \in Versions : QuotesSound(w)'
    BY <1>1, <1>3, <2>1, QuotesStay DEF boqs
  <2> QED
    BY <1>1, <1>3, <2>2, GenerationEnds DEF At
<1>4. CASE quotes' = [quotes EXCEPT ![v] = Append(@, q)] /\ Goto(p, "supersedeQuote")
  <2>1. /\ ReqOK' /\ OthersStay(p) /\ req'[p].at = "supersedeQuote"
        /\ req'[p].on = req[p].on /\ req'[p].arg = req[p].arg /\ req'[p].got = req[p].got
    BY <1>4, GotoMoves DEF BoqInv
  <2>2. RequestSound(p)'
    BY <1>1, <1>2, <2>1
       DEF BoqInv, RequestSound, At, Of, Free, OnRow, OnVersion, Decided, Rewriting, boqs
  <2>3. quotes \in [Versions -> Seq(Quotation)]
    BY DEF BoqInv, QuotesOK
  <2> HIDE DEF v, q
  <2>4. /\ quotes' \in [Versions -> Seq(Quotation)]
        /\ \A w \in Versions : Len(quotes[w]) <= Len(quotes'[w])
        /\ \A w \in Versions : DOMAIN quotes[w] \subseteq DOMAIN quotes'[w]
        /\ \A w \in Versions : w # v => quotes'[w] = quotes[w]
        /\ \A n \in DOMAIN quotes'[v] :
                quotes'[v][n] = q \/ (n \in DOMAIN quotes[v] /\ quotes'[v][n] = quotes[v][n])
    BY <1>2, <1>4, <2>3
  <2>5. \A w \in Versions : QuotesSound(w)'
    BY <1>1, <1>2, <2>4 DEF BoqInv, QuotesSound, boqs
  <2>6. QuotesOK'
    <3>1. ASSUME NEW r \in Procs
          PROVE  /\ req'[r].at \in {"settle", "accept", "insertQuote"} => req'[r] = req[r]
                 /\ req'[r].at = "supersedeQuote" =>
                        /\ req[r].at \in {"insertQuote", "supersedeQuote"}
                        /\ req'[r].on = req[r].on /\ req'[r].got = req[r].got
                 /\ req'[r].at \in {"insertQuote", "supersedeQuote"} => Of(r) \in Versions
      BY <1>1, <2>1 DEF OthersStay, At, Of, Free, BoqInv, RequestSound
    <3>2. \A w \in Versions : Len(quotes[w]) \in Nat /\ Len(quotes'[w]) \in Nat
      BY <2>3, <2>4
    <3> QED
      BY <2>4, <3>1, <3>2 DEF BoqInv, QuotesOK, Of, Quotes
  <2>7. ~At(p, "reset") /\ req[p].at \in Deciding
    BY <1>1 DEF At, Deciding
  <2> QED
    BY <1>1, <2>1, <2>2, <2>5, <2>6, <2>7, OnlyRequestMoves
<1> QED
  BY <1>3, <1>4 DEF CreateQuotation

\* A status written leaves the rows, and what they are made out for, in place.
LEMMA StatusWritten ==
    ASSUME BoqInv, NEW q, q[1] \in Versions, q[2] \in DOMAIN quotes[q[1]],
           NEW s \in QuotationStatuses, SetQuotation(q, s)
    PROVE  /\ quotes' \in [Versions -> Seq(Quotation)]
           /\ \A v \in Versions : DOMAIN quotes'[v] = DOMAIN quotes[v] /\ Len(quotes'[v]) = Len(quotes[v])
           /\ \A v \in Versions : \A n \in DOMAIN quotes[v] :
                quotes'[v][n].total = quotes[v][n].total
<1> DEFINE v == q[1]
           n == q[2]
           new == [quotes[v][n] EXCEPT !.status = s]
<1>1. v \in Versions
  OBVIOUS
<1>2. quotes \in [Versions -> Seq(Quotation)]
  BY DEF BoqInv, QuotesOK
<1>3. n \in DOMAIN quotes[v] /\ quotes[v] \in Seq(Quotation) /\ quotes[v][n] \in Quotation
  BY <1>1, <1>2
<1>4. new \in Quotation /\ new.total = quotes[v][n].total
  BY <1>3 DEF Quotation
<1>5. quotes' = [quotes EXCEPT ![v] = [quotes[v] EXCEPT ![n] = new]]
  BY DEF SetQuotation
<1> HIDE DEF v, n, new
<1>6. /\ [quotes[v] EXCEPT ![n] = new] \in Seq(Quotation)
      /\ DOMAIN [quotes[v] EXCEPT ![n] = new] = DOMAIN quotes[v]
      /\ Len([quotes[v] EXCEPT ![n] = new]) = Len(quotes[v])
  BY <1>3, <1>4
<1> QED
  BY <1>1, <1>2, <1>3, <1>4, <1>5, <1>6

LEMMA StatusesKeep ==
    ASSUME BoqInv, UNCHANGED boqs, NEW p \in Procs, OthersStay(p),
           req'[p].at \notin {"settle", "accept", "insertQuote", "supersedeQuote"},
           NEW q, q[1] \in Versions, q[2] \in DOMAIN quotes[q[1]],
           NEW s \in QuotationStatuses, SetQuotation(q, s)
    PROVE  QuotesOK' /\ \A v \in Versions : QuotesSound(v)'
<1>1. /\ quotes' \in [Versions -> Seq(Quotation)]
      /\ \A v \in Versions : DOMAIN quotes'[v] = DOMAIN quotes[v] /\ Len(quotes'[v]) = Len(quotes[v])
      /\ \A v \in Versions : \A n \in DOMAIN quotes[v] :
                quotes'[v][n].total = quotes[v][n].total
  BY StatusWritten
<1>2. quotes \in [Versions -> Seq(Quotation)]
  BY DEF BoqInv, QuotesOK
<1>3. ASSUME NEW v \in Versions
      PROVE  QuotesSound(v)'
  <2>1. quotes[v] = <<>> => quotes'[v] = <<>>
    BY <1>1, <1>2
  <2> QED
    BY <1>1, <2>1 DEF BoqInv, QuotesSound, boqs
<1>4. QuotesOK'
  <2>1. ASSUME NEW r \in Procs, req'[r].at \in {"settle", "accept", "insertQuote", "supersedeQuote"}
        PROVE  req'[r] = req[r] /\ Of(r) \in Versions
    BY <2>1 DEF OthersStay, BoqInv, RequestSound, Free
  <2> QED
    BY <1>1, <2>1 DEF BoqInv, QuotesOK, Of, Quotes
<1> QED
  BY <1>3, <1>4

LEMMA SupersedeKeeps ==
    ASSUME BoqInv, OneRequestPerCopy', NEW p \in Procs, SupersedeQuotation(p)
    PROVE  BoqInv'
<1> DEFINE q == <<Of(p), req[p].got.at>>
<1>1. /\ At(p, "supersedeQuote") /\ UNCHANGED boqs /\ Goto(p, req[p].arg.then)
      /\ Of(p) \in Versions
  BY DEF SupersedeQuotation, BoqInv, RequestSound, At, Free
<1>2. OthersStay(p) /\ req'[p].at \in {"recognise", "done"}
  BY <1>1, GotoMoves DEF BoqInv, RequestSound, At
<1>3. QuotesOK' /\ \A v \in Versions : QuotesSound(v)'
  <2>1. CASE UNCHANGED quotes
    BY <1>1, <1>2, <2>1, QuotesStay DEF boqs
  <2>2. CASE req[p].got.was \in {"issued", "rejected"} /\ SetQuotation(q, "superseded")
    <3>1. q[2] \in DOMAIN quotes[q[1]] /\ q[1] \in Versions
      BY <1>1, <2>2 DEF BoqInv, QuotesOK, At
    <3>2. "superseded" \in QuotationStatuses
      BY DEF QuotationStatuses
    <3> HIDE DEF q
    <3> QED
      BY <1>1, <1>2, <2>2, <3>1, <3>2, StatusesKeep
  <2> QED
    BY <2>1, <2>2 DEF SupersedeQuotation
<1> QED
  BY <1>1, <1>3, GenerationEnds DEF At

\* A quotation's answer, once written, leads on to what hangs on it.
LEMMA AnswersKeep ==
    ASSUME BoqInv, OneRequestPerCopy', NEW p \in Procs, WriteSettled(p) \/ WriteAccepted(p)
    PROVE  BoqInv'
<1>1. PICK s \in QuotationStatuses :
        /\ SetQuotation(req[p].on, s) /\ UNCHANGED boqs
        /\ req[p].at \in {"settle", "accept"} /\ (Return(p) \/ Goto(p, "invoice"))
  BY DEF WriteSettled, WriteAccepted, BoqInv, QuotesOK, QuotationStatuses, At
<1>2. /\ ReqOK' /\ OthersStay(p) /\ ~At(p, "reset")
      /\ \/ req'[p].at = "idle"
         \/ req'[p].at = "invoice" /\ req'[p].on = req[p].on
  BY <1>1, ReturnMoves, GotoMoves DEF BoqInv, At
<1>3. req[p].on[1] \in Versions /\ req[p].on[2] \in DOMAIN quotes[req[p].on[1]]
  BY <1>1 DEF BoqInv, QuotesOK, Quotes
<1>4. QuotesOK' /\ \A v \in Versions : QuotesSound(v)'
  BY <1>1, <1>2, <1>3, StatusesKeep
<1> QED
  BY <1>1, <1>2, <1>3, <1>4, ElsewhereMoves DEF Elsewhere

LEMMA HooksKeep ==
    ASSUME BoqInv, OneRequestPerCopy', NEW p \in Procs,
           \/ Generated(p) \/ CheckInvoice(p) \/ CreateInvoice(p) \/ CheckEWO(p) \/ InsertEWO(p)
    PROVE  BoqInv'
<1>1. /\ UNCHANGED <<boqs, quotes>>
      /\ req[p].at \in {"done", "invoice", "insertInvoice", "ewo", "insertEWO"}
      /\ Return(p) \/ \E s \in {"insertInvoice", "ewo", "insertEWO"} : Goto(p, s)
  BY DEF Generated, CheckInvoice, CreateInvoice, CheckEWO, InsertEWO, AfterInvoice, quotations, At
<1>2. /\ ReqOK' /\ OthersStay(p) /\ ~At(p, "reset")
      /\ \/ req'[p].at = "idle"
         \/ req'[p].at \in {"insertInvoice", "ewo", "insertEWO"} /\ req'[p].on = req[p].on
  BY <1>1, ReturnMoves, GotoMoves DEF BoqInv, At
<1>3. req[p].on[1] \in Versions
  BY <1>1 DEF BoqInv, RequestSound, Free, Of
<1>4. QuotesOK' /\ \A v \in Versions : QuotesSound(v)'
  BY <1>1, <1>2, QuotesStay DEF boqs
<1> QED
  BY <1>1, <1>2, <1>3, <1>4, ElsewhereMoves DEF Elsewhere

LEMMA QuotationsKeep ==
    ASSUME BoqInv, OneRequestPerCopy', QuotationsNext
    PROVE  BoqInv'
<1>1. ASSUME NEW p \in Procs, ReadPrior(p)
      PROVE  BoqInv'
  BY <1>1, ReadsKeep DEF ReadPrior
<1> QED
  BY <1>1, GenerateKeeps, SettlesKeep, RepeatsKeep, AutoGenerateKeeps, CreateQuotationKeeps,
     SupersedeKeeps, AnswersKeep, HooksKeep DEF QuotationsNext

-----------------------------------------------------------------------------
(* What the versions' own statements do                                    *)

\* A statement that writes of one version alone.
LEMMA WriteKeeps ==
    ASSUME BoqInv, ReqOK', OneRequestPerCopy', BoqTypeOK', Locked', DeadStay,
           UNCHANGED <<deaths, quotes>>, QuotesOK', NEW v \in Versions,
           \A w \in Versions \ {v} :
                /\ boq'[w] = boq[w] /\ (\A i \in RowsOf(w) : chain'[i] = chain[i])
                /\ \A s \in Steps : signed'[<<w, s>>] = signed[<<w, s>>]
                /\ Resetting(w) => Resetting(w)',
           \A q \in Procs :
                RequestSound(q)' \/ (req'[q] = req[q] /\ (Of(q) = v => Kept(q))),
           VersionSound(v)', QuotesSound(v)'
    PROVE  BoqInv'
<1>1. ASSUME NEW q \in Procs
      PROVE  RequestSound(q)'
  <2>1. CASE req'[q] = req[q] /\ Free(q)
    BY <2>1 DEF RequestSound, Free, OnRow, OnVersion, Decided, Rewriting
  <2>2. CASE req'[q] = req[q] /\ ~Free(q) /\ (Of(q) = v => Kept(q))
    <3>1. RequestSound(q) /\ Of(q) \in Versions
      BY <2>2 DEF BoqInv, RequestSound
    <3>2. Of(q) # v => SameVersion(Of(q))
      BY <3>1 DEF SameVersion
    <3>3. Kept(q)
      BY <2>2, <3>1, <3>2, SameIsKept
    <3> QED
      BY <3>1, <3>3, KeptIsSound
  <2> QED
    BY <2>1, <2>2
<1>2. ASSUME NEW w \in Versions, w # v
      PROVE  VersionSound(w)' /\ QuotesSound(w)'
  <2>1. SameVersion(w)
    BY <1>2 DEF SameVersion
  <2>2. VersionSound(w) /\ QuotesSound(w)
    BY DEF BoqInv
  <2>3. VersionSound(w)'
    BY <1>2, <2>1, <2>2, SameIsSound DEF CutOff
  <2>4. QuotesSound(w)'
    BY <1>2, <2>2 DEF QuotesSound
  <2> QED
    BY <2>3, <2>4
<1> QED
  BY <1>1, <1>2 DEF BoqInv

\* Next to a request that rewrites a version nobody relies on more of it than
\* that it can be quoted.
LEMMA QuietIsKept ==
    ASSUME BoqInv, NEW p \in Procs, NEW q \in Procs, p # q, req[p].at \in Rewriting,
           Of(q) = Of(p), req'[q] = req[q],
           boq[Of(p)].status \in Quotable => boq'[Of(p)].status \in Quotable
    PROVE  Kept(q)
<1>1. req[q].at \notin Rewriting \cup Deciding
  BY DEF BoqInv, OneRequestPerCopy, Clash, Free, Rewriting, Deciding
<1> QED
  BY <1>1 DEF Kept

\* Next to a decision nobody rewrites the version.
LEMMA DecisionIsKept ==
    ASSUME BoqInv, NEW p \in Procs, NEW q \in Procs, p # q, req[p].at \in Deciding,
           Of(q) = Of(p), req'[q] = req[q], Of(p) \in Versions,
           boq[Of(p)].status \in Quotable => boq'[Of(p)].status \in Quotable,
           boq'[Of(p)].total = boq[Of(p)].total,
           boq[Of(p)].status = "rejected" => boq'[Of(p)].status = "rejected",
           AllApproved(Of(p)) => \A i \in RowsOf(Of(p)) : chain'[i] = chain[i],
           \A i \in Rows : /\ chain[i] # "absent" => chain'[i] # "absent"
                           /\ chain[i] # "approved" /\ req[p].on # i => chain'[i] # "approved"
    PROVE  Kept(q)
<1> DEFINE v == Of(p)
<1>1. req[q].at \notin Rewriting
  BY DEF BoqInv, OneRequestPerCopy, Clash, Free, Rewriting, Deciding
<1>2. AllApproved(v) => AllApproved(Of(q))'
  <2>1. Of(q)' = v
    BY DEF Of
  <2> HIDE DEF v
  <2> QED
    BY <2>1 DEF AllApproved, Chain, RowsOf, v
<1>3. req[q].at \in Deciding /\ req[q].on \in Rows => req[p].on # req[q].on
  BY DEF BoqInv, Locked
<1> QED
  BY <1>1, <1>2, <1>3 DEF Kept

\* Statements that read, decide and go on.
LEMMA ReadKeeps ==
    ASSUME BoqInv, OneRequestPerCopy', NEW p \in Procs, OthersStay(p), ReqOK',
           UNCHANGED <<boqs, quotations>>, ~At(p, "reset"),
           \/ req'[p].at \notin Deciding
           \/ req'[p].on \notin Rows
           \/ req[p].at \in Deciding /\ req'[p].on = req[p].on
           \/ LockFree(req'[p].on),
           req'[p].at = "approve" => chain[req'[p].on] \notin Over,
           req'[p].at \notin {"settle", "accept", "insertQuote", "supersedeQuote"},
           RequestSound(p)'
    PROVE  BoqInv'
<1>1. QuotesOK' /\ \A v \in Versions : QuotesSound(v)'
  BY QuotesStay DEF quotations, boqs
<1> QED
  BY <1>1, OnlyRequestMoves

LEMMA EditsBegin ==
    ASSUME BoqInv, OneRequestPerCopy', UNCHANGED quotations, NEW p \in Procs, NEW v \in Versions,
           \/ \E price \in Prices \cup {None} : EditLines(p, v, price)
           \/ SubmitBOQ(p, v) \/ StartRevision(p, v) \/ EditBOQAfterQuotation(p, v)
    PROVE  BoqInv'
<1>1. PICK s, x :
        /\ Begin(p, s, <<v>>, x) /\ UNCHANGED boqs
        /\ \/ /\ s = "line" /\ x \in Prices \cup {None}
              /\ boq[v].status \in Unlocked \cup {"in_approval"}
           \/ s = "submit" /\ boq[v].status \in Unlocked
           \/ /\ s = "clone" /\ x.version \in Versions
              /\ \/ x.then = "cascade" /\ boq[v].status = "rejected"
                 \/ x.then = "replaced" /\ boq[v].status \in Quotable
  BY DEF EditLines, SubmitBOQ, StartRevision, EditBOQAfterQuotation, Revise, Quotable
<1>2. /\ ReqOK' /\ OthersStay(p)
      /\ req'[p].at = s /\ req'[p].on = <<v>> /\ req'[p].arg = x /\ ~At(p, "reset")
  BY <1>1, BeginMoves DEF BoqInv, Begin, Free, At
<1>3. RequestSound(p)'
  BY <1>1, <1>2 DEF RequestSound, Of, Free, OnRow, OnVersion, Decided, Rewriting, Deciding, boqs
<1> QED
  BY <1>1, <1>2, <1>3, ReadKeeps DEF Deciding

LEMMA DecisionsBegin ==
    ASSUME BoqInv, OneRequestPerCopy', UNCHANGED quotations, NEW p \in Procs, NEW i \in Rows,
           ApproveStep(p, i) \/ RejectStep(p, i)
    PROVE  BoqInv'
<1>1. PICK s :
        /\ Begin(p, s, i, boq[i[1]].total) /\ UNCHANGED boqs /\ LockFree(i)
        /\ \/ s = "approve" /\ chain[i] \in {"pending", "approved"}
           \/ s = "reject" /\ chain[i] = "pending"
  BY DEF ApproveStep, RejectStep
<1>2. /\ ReqOK' /\ OthersStay(p) /\ req'[p].at = s /\ req'[p].on = i
      /\ req'[p].arg = boq[i[1]].total /\ ~At(p, "reset")
  BY <1>1, BeginMoves DEF BoqInv, Begin, Free, At
<1>3. RequestSound(p)'
  BY <1>1, <1>2, RowParts
     DEF RequestSound, Of, Free, OnRow, OnVersion, Decided, Rewriting, Deciding, boqs
<1> QED
  BY <1>1, <1>2, <1>3, ReadKeeps DEF Over

LEMMA ReassignBegins ==
    ASSUME BoqInv, OneRequestPerCopy', UNCHANGED quotations,
           NEW p \in Procs, NEW i \in Rows, NEW u \in Users, ReassignStep(p, i, u)
    PROVE  BoqInv'
<1>1. Begin(p, "reassign", i, u) /\ UNCHANGED boqs /\ chain[i] = "pending"
  BY DEF ReassignStep
<1>2. /\ ReqOK' /\ OthersStay(p) /\ req'[p].at = "reassign" /\ req'[p].on = i
      /\ req'[p].arg = u /\ ~At(p, "reset")
  BY <1>1, BeginMoves DEF BoqInv, Begin, Free, At
<1>3. RequestSound(p)'
  BY <1>1, <1>2, RowParts
     DEF RequestSound, Of, Free, OnRow, OnVersion, Decided, Rewriting, Deciding, boqs
<1> QED
  BY <1>1, <1>2, <1>3, ReadKeeps DEF Deciding

\* What waits on a version that is settled is nothing.
LEMMA NonePending ==
    ASSUME BoqInv, NEW v \in Versions, boq[v].status \in Quotable
    PROVE  Pending(v) = {}
BY DEF BoqInv, VersionSound, AllApproved, Pending

LEMMA DecisionsGoOn ==
    ASSUME BoqInv, OneRequestPerCopy', UNCHANGED quotations, NEW p \in Procs,
           CountChain(p) \/ PriorSuperseded(p) \/ ListPeers(p) \/ PeersSuperseded(p)
    PROVE  BoqInv'
<1>1. RequestSound(p) /\ ReqOK
  BY DEF BoqInv
<1> USE DEF RequestSound, At, Of, Free, OnRow, OnVersion, Decided, Rewriting, boqs
<1>2. CASE CountChain(p)
  <2>1. At(p, "count") /\ UNCHANGED boqs
    BY <1>2 DEF CountChain
  <2>2. CASE AllApproved(Of(p)) /\ Goto(p, "approved")
    <3>1. /\ ReqOK' /\ OthersStay(p) /\ req'[p].at = "approved"
          /\ req'[p].on = req[p].on /\ req'[p].arg = req[p].arg
      BY <1>1, <2>2, GotoMoves
    <3>2. AllApproved(Of(p))'
      BY <2>1, <2>2, <3>1 DEF AllApproved, Chain
    <3>3. RequestSound(p)'
      BY <1>1, <2>1, <3>1, <3>2
    <3> QED
      BY <2>1, <3>1, <3>3, ReadKeeps DEF Deciding
  <2>3. CASE Return(p)
    <3>1. ReqOK' /\ OthersStay(p) /\ req'[p].at = "idle"
      BY <1>1, <2>3, ReturnMoves
    <3> QED
      BY <2>1, <3>1, ReadKeeps DEF Deciding
  <2> QED
    BY <1>2, <2>2, <2>3 DEF CountChain
<1>3. CASE PriorSuperseded(p)
  <2>1. At(p, "older") /\ UNCHANGED boqs /\ Goto(p, "autoQuote")
    BY <1>3 DEF PriorSuperseded
  <2>2. /\ ReqOK' /\ OthersStay(p) /\ req'[p].at = "autoQuote"
        /\ req'[p].on = req[p].on /\ req'[p].arg = req[p].arg
    BY <1>1, <2>1, GotoMoves
  <2>3. RequestSound(p)'
    BY <1>1, <2>1, <2>2
  <2> QED
    BY <2>1, <2>2, <2>3, ReadKeeps DEF Deciding
<1>4. CASE ListPeers(p)
  <2>1. /\ At(p, "list") /\ UNCHANGED boqs
        /\ Hold(p, Pending(Of(p)) \ {req[p].on}, "peers")
    BY <1>4 DEF ListPeers
  <2>2. /\ ReqOK' /\ OthersStay(p) /\ req'[p].at = "peers" /\ req'[p].on = req[p].on
        /\ req'[p].got = Pending(Of(p)) \ {req[p].on}
    BY <1>1, <2>1, HoldMoves
  <2>3. req'[p].got \subseteq RowsOf(Of(p))
    BY <2>2 DEF Pending, Chain, RowsOf
  <2>4. Dead(req[p].on)'
    BY <1>1, <2>1, <2>2 DEF Dead, OthersStay
  <2>5. RequestSound(p)'
    BY <1>1, <2>1, <2>2, <2>3, <2>4 DEF RowsOf
  <2> QED
    BY <2>1, <2>2, <2>5, ReadKeeps DEF Deciding
<1>5. CASE PeersSuperseded(p)
  <2>1. At(p, "peers") /\ UNCHANGED boqs /\ Return(p)
    BY <1>5 DEF PeersSuperseded
  <2>2. ReqOK' /\ OthersStay(p) /\ req'[p].at = "idle"
    BY <1>1, <2>1, ReturnMoves
  <2> QED
    BY <2>1, <2>2, ReadKeeps DEF Deciding
<1> QED
  BY <1>2, <1>3, <1>4, <1>5

LEMMA CascadeKeeps ==
    ASSUME BoqInv, OneRequestPerCopy', UNCHANGED quotations, NEW p \in Procs, CascadeReset(p)
    PROVE  BoqInv'
<1> DEFINE v == Of(p)
<1>1. /\ At(p, "cascade") /\ UNCHANGED boqs /\ Hold(p, Pending(v), "peers")
      /\ req[p].on = <<v>> /\ v \in Versions /\ boq[v].status \in Quotable \cup {"rejected"}
  BY DEF CascadeReset, BoqInv, RequestSound, At, Free, OnRow, OnVersion, Rewriting
<1>2. /\ ReqOK' /\ OthersStay(p) /\ req'[p].at = "peers" /\ req'[p].on = <<v>>
      /\ req'[p].got = Pending(v)
  BY <1>1, HoldMoves DEF BoqInv
<1>3. Pending(v) \subseteq RowsOf(v)
  BY DEF Pending, Chain, RowsOf
<1>4. boq[v].status = "rejected" \/ Pending(v) = {}
  BY <1>1, NonePending
<1> HIDE DEF v
<1>5. RequestSound(p)'
  BY <1>1, <1>2, <1>3, <1>4, RowParts
     DEF RequestSound, Of, Free, OnRow, OnVersion, Decided, Rewriting, Deciding, boqs, RowsOf
<1>6. req'[p].on \notin Rows /\ ~At(p, "reset")
  BY <1>1, <1>2, VersionIsNoRow DEF At
<1> QED
  BY <1>1, <1>2, <1>5, <1>6, ReadKeeps

LEMMA WriteLineKeeps ==
    ASSUME BoqInv, OneRequestPerCopy', UNCHANGED quotations, NEW p \in Procs, WriteLine(p)
    PROVE  BoqInv'
<1>1. /\ At(p, "line") /\ lines' = [lines EXCEPT ![Of(p)] = req[p].arg]
      /\ UNCHANGED <<boq, chain, signed, deaths>> /\ Goto(p, "header")
      /\ req[p].arg \in Prices \cup {None}
  BY DEF WriteLine, BoqInv, RequestSound, At
<1>2. /\ ReqOK' /\ OthersStay(p) /\ req'[p].at = "header" /\ req'[p].on = req[p].on
  BY <1>1, GotoMoves DEF BoqInv
<1>3. RequestSound(p)'
  BY <1>1, <1>2
     DEF BoqInv, At, RequestSound, Of, Free, OnRow, OnVersion, Decided, Rewriting, Deciding
<1>4. BoqTypeOK'
  BY <1>1 DEF BoqInv, BoqTypeOK
<1>5. QuotesOK' /\ \A v \in Versions : QuotesSound(v)'
  BY <1>1, <1>2, QuotesStay DEF quotations
<1>6. Locked' /\ ~At(p, "reset") /\ req'[p].at # "approve"
  BY <1>1, <1>2, StillLocked DEF BoqInv, Deciding, At
<1>7. \A v \in Versions : v \in CutOff => v \in CutOff'
  BY <1>1 DEF CutOff
<1> QED
  BY <1>1, <1>2, <1>3, <1>4, <1>5, <1>6, <1>7, RequestMoves

-----------------------------------------------------------------------------
(* Statements that write a header                                          *)

LEMMA HeaderSound ==
    ASSUME BoqInv, NEW v \in Versions, UNCHANGED <<chain, signed, deaths>>, DeadStay,
           boq'[v].status \in Unlocked \cup {"absent"} => Chain(v) = {},
           boq'[v].status = "rejected" => \E i \in RowsOf(v) : Dead(i),
           boq'[v].status \in Quotable => AllApproved(v) /\ Chain(v) # {},
           boq'[v].total = boq[v].total \/ Chain(v) = {} \/ Resetting(v)',
           Resetting(v) => Resetting(v)'
    PROVE  VersionSound(v)'
<1>1. Chain(v)' = Chain(v) /\ (AllApproved(v)' <=> AllApproved(v))
  BY DEF Chain, AllApproved
<1>2. (boq[v].status = "rejected" => \E i \in RowsOf(v) : Dead(i))'
  BY DEF DeadStay, RowsOf
<1>3. (v \notin CutOff /\ ~Resetting(v) =>
         \A i \in RowsOf(v) : chain[i] = "approved" => signed[<<v, i[2]>>] = boq[v].total)'
  <2> SUFFICES ASSUME v \notin CutOff, ~Resetting(v)', NEW i \in RowsOf(v), chain[i] = "approved"
               PROVE  signed[<<v, i[2]>>] = boq'[v].total
    BY DEF CutOff, RowsOf
  <2>1. i \in Chain(v)
    BY DEF Chain, RowsOf
  <2>2. boq'[v].total = boq[v].total /\ ~Resetting(v)
    BY <2>1
  <2> QED
    BY <2>2 DEF BoqInv, VersionSound
<1>4. VersionSound(v)
  BY DEF BoqInv
<1> QED
  BY <1>1, <1>2, <1>3, <1>4 DEF VersionSound

\* A version that is new has nothing to it yet.
LEMMA NewVersion ==
    ASSUME BoqInv, NEW v \in Versions, boq[v].status \in Unlocked \cup {"absent"}
    PROVE  Chain(v) = {} /\ quotes[v] = <<>>
BY DEF BoqInv, VersionSound, QuotesSound, Unlocked, Quotable

LEMMA HeaderType ==
    ASSUME BoqInv, NEW v \in Versions
    PROVE  /\ boq[v] \in [status : BOQStatuses \cup {"absent"}, total : Prices \cup {None}]
           /\ boq[v] = [status |-> boq[v].status, total |-> boq[v].total]
BY DEF BoqInv, BoqTypeOK

LEMMA NobodyOnNew ==
    ASSUME BoqInv, NEW v \in Versions, boq[v].status = "absent",
           NEW q \in Procs, Of(q) = v, req'[q] = req[q]
    PROVE  Kept(q)
<1>1. RequestSound(q) /\ Chain(v) = {}
  BY NewVersion DEF BoqInv
<1>2. req[q].on \in Rows => chain[req[q].on] = "absent"
  BY <1>1 DEF Chain, Of
<1>3. req[q].at \notin Rewriting
  BY <1>1, <1>2 DEF RequestSound, Rewriting, Unlocked, Quotable, OnRow
<1>4. req[q].at \notin Deciding
  BY <1>1, <1>2 DEF RequestSound, Deciding, Decided, Quotable, OnRow, Dead, Over
<1> QED
  BY <1>3, <1>4 DEF Kept, Quotable

LEMMA StatusSet ==
    ASSUME BoqInv, NEW v \in Versions, NEW s, SetStatus(v, s)
    PROVE  boq' = [boq EXCEPT ![v] = [status |-> s, total |-> boq[v].total]]
<1>1. DOMAIN boq = Versions /\ boq = [w \in Versions |-> boq[w]]
  BY DEF BoqInv, BoqTypeOK
<1>2. boq' = [w \in Versions |-> IF w = v THEN [boq[v] EXCEPT !.status = s] ELSE boq[w]]
  BY <1>1 DEF SetStatus
<1>3. [boq[v] EXCEPT !.status = s] = [status |-> s, total |-> boq[v].total]
  <2>1. boq[v] \in [status : BOQStatuses \cup {"absent"}, total : Prices \cup {None}]
    BY HeaderType
  <2> QED
    BY <2>1
<1> QED
  BY <1>1, <1>2, <1>3

LEMMA TotalSet ==
    ASSUME BoqInv, NEW v \in Versions, NEW t, boq' = [boq EXCEPT ![v].total = t]
    PROVE  boq' = [boq EXCEPT ![v] = [status |-> boq[v].status, total |-> t]]
<1>1. DOMAIN boq = Versions /\ boq = [w \in Versions |-> boq[w]]
  BY DEF BoqInv, BoqTypeOK
<1>2. boq' = [w \in Versions |-> IF w = v THEN [boq[v] EXCEPT !.total = t] ELSE boq[w]]
  BY <1>1
<1>3. [boq[v] EXCEPT !.total = t] = [status |-> boq[v].status, total |-> t]
  <2>1. boq[v] \in [status : BOQStatuses \cup {"absent"}, total : Prices \cup {None}]
    BY HeaderType
  <2> QED
    BY <2>1
<1> QED
  BY <1>1, <1>2, <1>3

LEMMA CreateBOQKeeps ==
    ASSUME BoqInv, OneRequestPerCopy', UNCHANGED quotations, CreateBOQ
    PROVE  BoqInv'
<1>1. /\ boq[1] = NoBOQ /\ boq' = [boq EXCEPT ![1].status = "draft"]
      /\ UNCHANGED <<lines, chain, signed, deaths, req, quotes>>
  BY DEF CreateBOQ, SetStatus, quotations
<1>2. DeadStay
  BY <1>1 DEF DeadStay, Dead, At
<1>3. ReqOK' /\ Locked' /\ QuotesOK'
  BY <1>1 DEF BoqInv, ReqOK, Locked, QuotesOK, Of
<1>4. CASE 1 \in Versions
  <2>1. boq'[1].status = "draft" /\ boq'[1].total = boq[1].total
        /\ \A w \in Versions \ {1} : boq'[w] = boq[w]
    BY <1>1, <1>4 DEF BoqInv, BoqTypeOK
  <2>2. BoqTypeOK'
    BY <1>1, <1>4 DEF BoqInv, BoqTypeOK, BOQStatuses
  <2>3. boq[1].status = "absent" /\ Chain(1) = {} /\ quotes[1] = <<>>
    BY <1>1, <1>4, NewVersion DEF NoBOQ
  <2>4. VersionSound(1)'
    BY <1>1, <1>2, <1>4, <2>1, <2>3, HeaderSound DEF Quotable, Resetting, At, Of
  <2>5. QuotesSound(1)'
    BY <1>1, <2>3 DEF QuotesSound
  <2>6. \A q \in Procs : req'[q] = req[q] /\ (Of(q) = 1 => Kept(q))
    BY <1>1, <1>4, <2>3, NobodyOnNew
  <2>7. \A w \in Versions : Resetting(w) => Resetting(w)'
    BY <1>1 DEF Resetting, At, Of
  <2> QED
    BY <1>1, <1>2, <1>3, <1>4, <2>1, <2>2, <2>4, <2>5, <2>6, <2>7, WriteKeeps
<1>5. CASE 1 \notin Versions
  <2>1. boq' = boq
    BY <1>1, <1>5 DEF BoqInv, BoqTypeOK
  <2> QED
    BY <1>1, <2>1, BoqStutters DEF boqs
<1> QED
  BY <1>4, <1>5

\* A request writes the header of one version.
LEMMA HeaderKeeps ==
    ASSUME BoqInv, OneRequestPerCopy', NEW p \in Procs, OthersStay(p), ReqOK',
           UNCHANGED <<lines, chain, signed, deaths, quotes>>, NEW v \in Versions,
           NEW h \in [status : BOQStatuses \cup {"absent"}, total : Prices \cup {None}],
           boq' = [boq EXCEPT ![v] = h], ~At(p, "reset"),
           req'[p].at \notin {"approve", "settle", "accept", "insertQuote", "supersedeQuote"},
           req'[p].at \notin Deciding \/ (req[p].at \in Deciding /\ req'[p].on = req[p].on),
           RequestSound(p)',
           h.status \in Unlocked \cup {"absent"} => Chain(v) = {},
           h.status = "rejected" => \E i \in RowsOf(v) : Dead(i),
           h.status \in Quotable => AllApproved(v) /\ Chain(v) # {},
           h.total = boq[v].total \/ Chain(v) = {} \/ Resetting(v)',
           quotes[v] # <<>> => h.status \in Quotable /\ h.total = boq[v].total,
           \A q \in Procs \ {p} : Of(q) = v => Kept(q)
    PROVE  BoqInv'
<1>1. boq'[v] = h /\ \A w \in Versions \ {v} : boq'[w] = boq[w]
  BY DEF BoqInv, BoqTypeOK
<1>2. BoqTypeOK'
  BY DEF BoqInv, BoqTypeOK
<1>3. DeadStay
  BY StillDead DEF Dead
<1>4. Locked'
  BY StillLocked DEF BoqInv
<1>5. QuotesOK'
  BY DEF BoqInv, QuotesOK, OthersStay, Of
<1>6. \A w \in Versions : Resetting(w) => Resetting(w)'
  BY DEF Resetting, OthersStay, At, Of
<1>7. VersionSound(v)'
  BY <1>1, <1>3, <1>6, HeaderSound
<1>8. QuotesSound(v)'
  <2>1. CASE quotes[v] = <<>>
    BY <2>1 DEF QuotesSound
  <2>2. CASE quotes[v] # <<>>
    BY <1>1, <2>2 DEF BoqInv, QuotesSound
  <2> QED
    BY <2>1, <2>2
<1>9. \A q \in Procs : RequestSound(q)' \/ (req'[q] = req[q] /\ (Of(q) = v => Kept(q)))
  BY DEF OthersStay
<1> QED
  BY <1>1, <1>2, <1>3, <1>4, <1>5, <1>6, <1>7, <1>8, <1>9, WriteKeeps

\* One that rewrites its version, which is not quoted.
LEMMA RewriteKeeps ==
    ASSUME BoqInv, OneRequestPerCopy', NEW p \in Procs, OthersStay(p), ReqOK',
           UNCHANGED <<lines, chain, signed, deaths, quotes>>, Of(p) \in Versions,
           NEW h \in [status : BOQStatuses \cup {"absent"}, total : Prices \cup {None}],
           boq' = [boq EXCEPT ![Of(p)] = h], req[p].at \in Rewriting \ {"reset"},
           req'[p].at \in Rewriting \cup {"idle"}, RequestSound(p)',
           h.status \in Unlocked \cup {"absent"} => Chain(Of(p)) = {},
           h.status # "rejected",
           boq[Of(p)].status \in Quotable <=> h.status \in Quotable,
           boq[Of(p)].status \in Quotable => h.total = boq[Of(p)].total,
           \/ h.total = boq[Of(p)].total
           \/ Chain(Of(p)) = {}
           \/ req'[p].at = "reset" /\ Of(p)' = Of(p)
    PROVE  BoqInv'
<1> DEFINE v == Of(p)
<1>1. boq'[v] = h /\ VersionSound(v) /\ QuotesSound(v)
  BY DEF BoqInv, BoqTypeOK
<1>2. h.status \in Quotable => AllApproved(v) /\ Chain(v) # {}
  BY <1>1 DEF VersionSound
<1>3. h.total = boq[v].total \/ Chain(v) = {} \/ Resetting(v)'
  BY DEF Resetting, At
<1>4. quotes[v] # <<>> => h.status \in Quotable /\ h.total = boq[v].total
  BY <1>1 DEF QuotesSound
<1>5. \A q \in Procs \ {p} : Of(q) = v => Kept(q)
  BY <1>1, QuietIsKept DEF OthersStay
<1>6. /\ ~At(p, "reset")
      /\ req'[p].at \notin {"approve", "settle", "accept", "insertQuote", "supersedeQuote"}
      /\ req'[p].at \notin Deciding
  BY DEF At, Rewriting, Deciding
<1> HIDE DEF v
<1> QED
  BY <1>1, <1>2, <1>3, <1>4, <1>5, <1>6, HeaderKeeps DEF v

LEMMA RecomputeKeeps ==
    ASSUME BoqInv, OneRequestPerCopy', UNCHANGED quotations, NEW p \in Procs, RecomputeHeader(p)
    PROVE  BoqInv'
<1> DEFINE v == Of(p)
           h == [status |-> boq[v].status, total |-> lines[v]]
<1>1. /\ At(p, "header") /\ v \in Versions
      /\ boq[v].status \in Unlocked \cup {"in_approval"} /\ req[p].on = <<v>>
      /\ UNCHANGED <<lines, chain, signed, deaths, quotes>>
  BY DEF RecomputeHeader, BoqInv, RequestSound, At, Free, OnVersion, Rewriting, quotations
<1>2. boq[v] = [status |-> boq[v].status, total |-> boq[v].total]
      /\ boq[v].status \in BOQStatuses \cup {"absent"} /\ lines[v] \in Prices \cup {None}
  BY <1>1, HeaderType DEF BoqInv, BoqTypeOK
<1>3. boq' = [boq EXCEPT ![v] = h]
  BY <1>1, TotalSet DEF RecomputeHeader
<1>4. h \in [status : BOQStatuses \cup {"absent"}, total : Prices \cup {None}]
      /\ boq'[v] = h
  BY <1>1, <1>2, <1>3 DEF BoqInv, BoqTypeOK
<1>5. CASE boq[v].status = "in_approval" /\ Goto(p, "reset")
  <2>1. ReqOK' /\ OthersStay(p) /\ req'[p].at = "reset" /\ req'[p].on = req[p].on
    BY <1>5, GotoMoves DEF BoqInv
  <2>2. RequestSound(p)'
    BY <1>1, <1>4, <1>5, <2>1 DEF RequestSound, Of, Free, OnRow, OnVersion, Decided, Rewriting
  <2> QED
    BY <1>1, <1>3, <1>4, <1>5, <2>1, <2>2, RewriteKeeps
       DEF Rewriting, At, Of, Quotable, Unlocked
<1>6. CASE boq[v].status # "in_approval" /\ Return(p)
  <2>1. ReqOK' /\ OthersStay(p) /\ req'[p].at = "idle"
    BY <1>6, ReturnMoves DEF BoqInv
  <2>2. RequestSound(p)'
    BY <2>1 DEF RequestSound, Free, OnRow, OnVersion, Decided, Rewriting
  <2>3. /\ Chain(v) = {} /\ h.status = boq[v].status
        /\ h.status # "rejected" /\ h.status \notin Quotable
    BY <1>1, <1>6, NewVersion DEF Unlocked, Quotable
  <2>4. req[p].at \in Rewriting \ {"reset"}
    BY <1>1 DEF At, Rewriting
  <2> QED
    BY <1>1, <1>3, <1>4, <2>1, <2>2, <2>3, <2>4, RewriteKeeps
<1> QED
  BY <1>5, <1>6 DEF RecomputeHeader

LEMMA SubmitKeeps ==
    ASSUME BoqInv, OneRequestPerCopy', UNCHANGED quotations, NEW p \in Procs, WriteSubmitted(p)
    PROVE  BoqInv'
<1> DEFINE v == Of(p)
           h == [status |-> "in_approval", total |-> boq[v].total]
<1>1. /\ At(p, "submit") /\ v \in Versions /\ boq[v].status \in Unlocked /\ req[p].on = <<v>>
      /\ UNCHANGED <<lines, chain, signed, deaths, quotes>> /\ Goto(p, "chain")
  BY DEF WriteSubmitted, BoqInv, RequestSound, At, Free, OnVersion, Rewriting, quotations
<1>2. boq[v] = [status |-> boq[v].status, total |-> boq[v].total]
      /\ boq[v].total \in Prices \cup {None}
  BY <1>1, HeaderType
<1>3. boq' = [boq EXCEPT ![v] = h]
  BY <1>1, StatusSet DEF WriteSubmitted
<1>4. h \in [status : BOQStatuses \cup {"absent"}, total : Prices \cup {None}]
      /\ boq'[v] = h
  BY <1>1, <1>2, <1>3 DEF BoqInv, BoqTypeOK, BOQStatuses
<1>5. ReqOK' /\ OthersStay(p) /\ req'[p].at = "chain" /\ req'[p].on = req[p].on
  BY <1>1, GotoMoves DEF BoqInv
<1>6. RequestSound(p)'
  BY <1>1, <1>4, <1>5 DEF RequestSound, Of, Free, OnRow, OnVersion, Decided, Rewriting
<1> QED
  BY <1>1, <1>3, <1>4, <1>5, <1>6, RewriteKeeps DEF Rewriting, At, Quotable, Unlocked

LEMMA ReplacedKeeps ==
    ASSUME BoqInv, OneRequestPerCopy', UNCHANGED quotations, NEW p \in Procs, SupersedeEdited(p)
    PROVE  BoqInv'
<1> DEFINE v == Of(p)
           h == [status |-> "superseded", total |-> boq[v].total]
<1>1. /\ At(p, "replaced") /\ v \in Versions /\ boq[v].status \in Quotable /\ req[p].on = <<v>>
      /\ UNCHANGED <<lines, chain, signed, deaths, quotes>> /\ Goto(p, "cascade")
  BY DEF SupersedeEdited, BoqInv, RequestSound, At, Free, OnVersion, Rewriting, quotations
<1>2. boq[v] = [status |-> boq[v].status, total |-> boq[v].total]
      /\ boq[v].total \in Prices \cup {None}
  BY <1>1, HeaderType
<1>3. boq' = [boq EXCEPT ![v] = h]
  BY <1>1, StatusSet DEF SupersedeEdited
<1>4. h \in [status : BOQStatuses \cup {"absent"}, total : Prices \cup {None}]
      /\ boq'[v] = h
  BY <1>1, <1>2, <1>3 DEF BoqInv, BoqTypeOK, BOQStatuses
<1>5. ReqOK' /\ OthersStay(p) /\ req'[p].at = "cascade" /\ req'[p].on = req[p].on
  BY <1>1, GotoMoves DEF BoqInv
<1>6. RequestSound(p)'
  BY <1>1, <1>4, <1>5 DEF RequestSound, Of, Free, OnRow, OnVersion, Decided, Rewriting, Quotable
<1> QED
  BY <1>1, <1>3, <1>4, <1>5, <1>6, RewriteKeeps DEF Rewriting, At, Quotable, Unlocked

LEMMA OlderKeeps ==
    ASSUME BoqInv, OneRequestPerCopy', UNCHANGED quotations, NEW p \in Procs, SupersedePrior(p)
    PROVE  BoqInv'
<1>1. PICK w \in Older(Of(p)) : SetStatus(w, "superseded")
  BY DEF SupersedePrior
<1> DEFINE h == [status |-> "superseded", total |-> boq[w].total]
<1>2. /\ At(p, "older") /\ w \in Versions /\ boq[w].status = "boq_approved"
      /\ UNCHANGED <<lines, chain, signed, deaths, quotes, req>>
  BY <1>1 DEF SupersedePrior, Older, quotations
<1>3. boq' = [boq EXCEPT ![w] = h] /\ boq[w].total \in Prices \cup {None}
  BY <1>1, <1>2, StatusSet, HeaderType
<1>4. /\ h \in [status : BOQStatuses \cup {"absent"}, total : Prices \cup {None}]
      /\ boq'[w] = h /\ \A u \in Versions \ {w} : boq'[u] = boq[u]
  BY <1>2, <1>3 DEF BoqInv, BoqTypeOK, BOQStatuses
<1>5. \A u \in Versions : SameVersion(u)
  BY <1>2, <1>4 DEF SameVersion, Quotable
<1>6. ReqOK' /\ OthersStay(p) /\ DeadStay
  BY <1>2 DEF BoqInv, ReqOK, OthersStay, DeadStay, Dead, At
<1>7. \A q \in Procs : req'[q] = req[q] /\ (Of(q) = w => Kept(q))
  BY <1>2, <1>5, SameIsKept DEF BoqInv
<1>8. RequestSound(p)'
  <2>1. RequestSound(p) /\ Of(p) \in Versions
    BY <1>2 DEF BoqInv, RequestSound, At, Free
  <2> QED
    BY <1>2, <1>5, <1>6, <2>1, SameIsKept, KeptIsSound
<1>9. /\ h.status = "superseded" /\ h.total = boq[w].total
      /\ AllApproved(w) /\ Chain(w) # {}
  BY <1>2 DEF BoqInv, VersionSound, Quotable
<1>10. /\ ~At(p, "reset") /\ req'[p].on = req[p].on /\ req[p].at \in Deciding
       /\ req'[p].at \notin {"approve", "settle", "accept", "insertQuote", "supersedeQuote"}
  BY <1>2 DEF At, Deciding
<1> HIDE DEF h
<1> QED
  BY <1>2, <1>3, <1>4, <1>6, <1>7, <1>8, <1>9, <1>10, HeaderKeeps DEF Unlocked, Quotable

\* The verdict of a decision, written to the header of its version.
LEMMA VerdictKeeps ==
    ASSUME BoqInv, OneRequestPerCopy', NEW p \in Procs, OthersStay(p), ReqOK',
           UNCHANGED <<lines, chain, signed, deaths, quotes>>, Of(p) \in Versions,
           req[p].at \in Deciding, NEW s \in {"boq_approved", "rejected"},
           boq' = [boq EXCEPT ![Of(p)] = [status |-> s, total |-> boq[Of(p)].total]],
           req'[p].at \in {"older", "list"}, req'[p].on = req[p].on, RequestSound(p)',
           s = "rejected" => boq[Of(p)].status \notin Quotable /\ \E i \in RowsOf(Of(p)) : Dead(i),
           s = "boq_approved" => 
                boq[Of(p)].status # "rejected" /\ AllApproved(Of(p)) /\ Chain(Of(p)) # {}
    PROVE  BoqInv'
<1> DEFINE v == Of(p)
           h == [status |-> s, total |-> boq[v].total]
<1>1. /\ h \in [status : BOQStatuses \cup {"absent"}, total : Prices \cup {None}]
      /\ boq'[v] = h
  BY HeaderType DEF BoqInv, BoqTypeOK, BOQStatuses
<1>2. h.status = s /\ h.total = boq[v].total
  OBVIOUS
<1>3. ASSUME NEW q \in Procs \ {p}, Of(q) = v
      PROVE  Kept(q)
  BY <1>1, <1>2, <1>3, DecisionIsKept DEF OthersStay, Quotable
<1>4. quotes[v] # <<>> => h.status \in Quotable
  BY <1>2 DEF BoqInv, QuotesSound, Quotable
<1>5. /\ ~At(p, "reset")
      /\ req'[p].at \notin {"approve", "settle", "accept", "insertQuote", "supersedeQuote"}
  BY DEF At, Deciding
<1> HIDE DEF h
<1> QED
  BY <1>1, <1>2, <1>3, <1>4, <1>5, HeaderKeeps DEF Unlocked, Quotable, h

LEMMA MarksKeep ==
    ASSUME BoqInv, OneRequestPerCopy', UNCHANGED quotations, NEW p \in Procs,
           MarkApproved(p) \/ MarkRejected(p)
    PROVE  BoqInv'
<1> DEFINE v == Of(p)
           i == req[p].on
<1>1. /\ req[p].at \in {"approved", "rejected"} /\ v \in Versions /\ i \in Rows /\ i \in RowsOf(v)
      /\ req[p].arg = boq[v].total
      /\ UNCHANGED <<lines, chain, signed, deaths, quotes>>
  BY DEF MarkApproved, MarkRejected, BoqInv, RequestSound, At, Of, Free, OnRow, Decided, RowsOf, quotations
<1>2. RequestSound(p) /\ VersionSound(v) /\ ReqOK
  BY <1>1 DEF BoqInv
<1>3. CASE MarkApproved(p)
  <2>1. /\ At(p, "approved") /\ Goto(p, "older")
        /\ boq' = [boq EXCEPT ![v] = [status |-> "boq_approved", total |-> boq[v].total]]
    BY <1>1, <1>3 DEF MarkApproved
  <2>2. ReqOK' /\ OthersStay(p) /\ req'[p].at = "older" /\ req'[p].on = i
    BY <1>2, <2>1, GotoMoves
  <2>3. /\ AllApproved(v) /\ i \in Chain(v)
        /\ boq[v].status # "rejected"
    BY <1>1, <1>2, <2>1
       DEF RequestSound, VersionSound, At, Decided, Chain, AllApproved, Dead, Over, RowsOf
  <2>4. boq'[v].status = "boq_approved"
    BY <1>1, <2>1 DEF BoqInv, BoqTypeOK
  <2>5. RequestSound(p)'
    BY <1>1, <2>2, <2>4 DEF RequestSound, Of, Free, OnRow, OnVersion, Decided, Rewriting, Quotable
  <2> QED
    BY <1>1, <2>1, <2>2, <2>3, <2>5, VerdictKeeps DEF At, Deciding
<1>4. CASE MarkRejected(p)
  <2>1. /\ At(p, "rejected") /\ Goto(p, "list")
        /\ boq' = [boq EXCEPT ![v] = [status |-> "rejected", total |-> boq[v].total]]
    BY <1>1, <1>4 DEF MarkRejected
  <2>2. ReqOK' /\ OthersStay(p) /\ req'[p].at = "list" /\ req'[p].on = i
    BY <1>2, <2>1, GotoMoves
  <2>3. Dead(i)
    BY <1>2, <2>1 DEF RequestSound, At
  <2>4. boq[v].status \notin Quotable
    BY <1>1, <1>2, <2>3 DEF VersionSound, AllApproved, Chain, Dead, Over, RowsOf
  <2>5. Dead(i)'
    BY <1>1, <2>2, <2>3 DEF Dead, At, OthersStay
  <2>6. RequestSound(p)'
    BY <1>1, <2>2, <2>5 DEF RequestSound, Of, Free, OnRow, OnVersion, Decided, Rewriting
  <2> QED
    BY <1>1, <2>1, <2>2, <2>3, <2>4, <2>6, VerdictKeeps DEF At, Deciding
<1> QED
  BY <1>3, <1>4

LEMMA CloneKeeps ==
    ASSUME BoqInv, OneRequestPerCopy', UNCHANGED quotations, NEW p \in Procs, CreateClone(p)
    PROVE  BoqInv'
<1> DEFINE v == Of(p)
           w == req[p].arg.version
           h == [status |-> "revision_draft", total |-> boq[v].total]
<1>1. /\ At(p, "clone") /\ v \in Versions /\ w \in Versions /\ req[p].on = <<v>>
      /\ UNCHANGED <<lines, chain, signed, deaths, quotes>>
      /\ boq[v].status # "absent"
  BY DEF CreateClone, BoqInv, RequestSound, At, Free, OnVersion, Rewriting, quotations, Quotable
<1>2. ReqOK /\ RequestSound(p)
  BY DEF BoqInv
<1>3. CASE /\ boq[w] = NoBOQ /\ Goto(p, "cloneLines")
           /\ boq' = [boq EXCEPT ![w] = [boq[v] EXCEPT !.status = "revision_draft"]]
  <2>1. boq[w].status = "absent" /\ w # v
    BY <1>1, <1>3 DEF NoBOQ
  <2>2. boq[v] \in [status : BOQStatuses \cup {"absent"}, total : Prices \cup {None}]
    BY <1>1, HeaderType
  <2>3. boq' = [boq EXCEPT ![w] = h]
    <3>1. [boq[v] EXCEPT !.status = "revision_draft"] = h
      BY <2>2
    <3> HIDE DEF h
    <3> QED
      BY <1>3, <3>1
  <2>4. /\ h \in [status : BOQStatuses \cup {"absent"}, total : Prices \cup {None}]
        /\ h.status = "revision_draft"
    BY <2>2 DEF BOQStatuses
  <2>5. ReqOK' /\ OthersStay(p) /\ req'[p].at = "cloneLines" /\ req'[p].on = req[p].on
        /\ req'[p].arg = req[p].arg
    BY <1>2, <1>3, GotoMoves
  <2>6. boq'[v] = boq[v]
    BY <1>1, <2>1, <2>3 DEF BoqInv, BoqTypeOK
  <2>7. RequestSound(p)'
    BY <1>1, <1>2, <2>5, <2>6
       DEF RequestSound, At, Of, Free, OnRow, OnVersion, Decided, Rewriting
  <2>8. Chain(w) = {} /\ quotes[w] = <<>>
    BY <1>1, <2>1, NewVersion
  <2>9. \A q \in Procs \ {p} : Of(q) = w => Kept(q)
    BY <1>1, <2>1, <2>5, NobodyOnNew DEF OthersStay
  <2>10. ~At(p, "reset")
    BY <1>1 DEF At
  <2> HIDE DEF h, w
  <2> QED
    BY <1>1, <2>3, <2>4, <2>5, <2>7, <2>8, <2>9, <2>10, HeaderKeeps DEF Unlocked, Quotable, Deciding
<1>4. CASE Return(p) /\ UNCHANGED boq
  <2>1. ReqOK' /\ OthersStay(p) /\ req'[p].at = "idle"
    BY <1>2, <1>4, ReturnMoves
  <2>2. RequestSound(p)'
    BY <2>1 DEF RequestSound, Free, OnRow, OnVersion, Decided, Rewriting
  <2>3. ~At(p, "reset") /\ UNCHANGED boqs
    BY <1>1, <1>4 DEF At, boqs
  <2> QED
    BY <2>1, <2>2, <2>3, ReadKeeps DEF Deciding
<1> QED
  BY <1>3, <1>4 DEF CreateClone

LEMMA CloneLinesKeeps ==
    ASSUME BoqInv, OneRequestPerCopy', UNCHANGED quotations, NEW p \in Procs, CloneLines(p)
    PROVE  BoqInv'
<1> DEFINE v == Of(p)
<1>1. /\ At(p, "cloneLines") /\ lines' = [lines EXCEPT ![req[p].arg.version] = lines[v]]
      /\ UNCHANGED <<boq, chain, signed, deaths>> /\ Goto(p, req[p].arg.then)
      /\ v \in Versions
      /\ \/ req[p].arg.then = "replaced" /\ boq[v].status \in Quotable
         \/ req[p].arg.then = "cascade" /\ boq[v].status = "rejected"
  BY DEF CloneLines, BoqInv, RequestSound, At, Free
<1>2. /\ ReqOK' /\ OthersStay(p) /\ req'[p].at = req[p].arg.then /\ req'[p].on = req[p].on
  BY <1>1, GotoMoves DEF BoqInv
<1>3. RequestSound(p)'
  BY <1>1, <1>2
     DEF BoqInv, At, RequestSound, Of, Free, OnRow, OnVersion, Decided, Rewriting, Deciding
<1>4. BoqTypeOK'
  BY <1>1 DEF BoqInv, BoqTypeOK
<1>5. QuotesOK' /\ \A u \in Versions : QuotesSound(u)'
  BY <1>1, <1>2, QuotesStay DEF quotations
<1>6. Locked' /\ ~At(p, "reset") /\ req'[p].at # "approve"
  BY <1>1, <1>2, StillLocked DEF BoqInv, Deciding, At
<1>7. \A u \in Versions : u \in CutOff => u \in CutOff'
  BY <1>1 DEF CutOff
<1> QED
  BY <1>1, <1>2, <1>3, <1>4, <1>5, <1>6, <1>7, RequestMoves

-----------------------------------------------------------------------------
(* Statements that write rows of a chain                                   *)

LEMMA RowsKeep ==
    ASSUME BoqInv, OneRequestPerCopy', NEW p \in Procs, OthersStay(p), ReqOK',
           NEW v \in Versions, v = Of(p),
           UNCHANGED <<boq, lines, deaths, quotes>>,
           chain' \in [Rows -> InstanceStatuses \cup {"absent"}],
           signed' \in [Versions \X Steps -> Prices \cup {None}],
           \A i \in Rows : i[1] # v => chain'[i] = chain[i],
           \A w \in Versions \ {v}, s \in Steps : signed'[<<w, s>>] = signed[<<w, s>>],
           \A i \in Rows : Dead(i) => chain'[i] \in Over,
           req'[p].at \notin {"approve", "settle", "accept", "insertQuote", "supersedeQuote"},
           req'[p].at \notin Deciding \/ (req[p].at \in Deciding /\ req'[p].on = req[p].on),
           RequestSound(p)',
           \A q \in Procs \ {p} : Of(q) = v => Kept(q), VersionSound(v)'
    PROVE  BoqInv'
<1>1. DeadStay
  BY StillDead
<1>2. Locked'
  BY StillLocked DEF BoqInv
<1>3. BoqTypeOK' /\ QuotesOK' /\ QuotesSound(v)'
  BY DEF BoqInv, BoqTypeOK, QuotesOK, QuotesSound, OthersStay, Of
<1>4. \A w \in Versions \ {v} :
        /\ boq'[w] = boq[w] /\ (\A i \in RowsOf(w) : chain'[i] = chain[i])
        /\ \A s \in Steps : signed'[<<w, s>>] = signed[<<w, s>>]
        /\ Resetting(w) => Resetting(w)'
  BY DEF RowsOf, Resetting, OthersStay, At, Of
<1>5. \A q \in Procs : RequestSound(q)' \/ (req'[q] = req[q] /\ (Of(q) = v => Kept(q)))
  BY DEF OthersStay
<1> QED
  BY <1>1, <1>2, <1>3, <1>4, <1>5, WriteKeeps

\* A chain that is being rebuilt: the rows of it that are left.
LEMMA ResetRowKeeps ==
    ASSUME BoqInv, OneRequestPerCopy', UNCHANGED quotations, NEW p \in Procs, ResetRow(p)
    PROVE  BoqInv'
<1>0. PICK v \in Versions : v = Of(p)
  BY DEF ResetRow, BoqInv, RequestSound, At, Free
<1>1. PICK j \in Chain(v) : chain' = [chain EXCEPT ![j] = "superseded_reset"]
  BY <1>0 DEF ResetRow
<1>2. /\ At(p, "reset") /\ v \in Versions /\ boq[v].status = "in_approval" /\ j \in Rows /\ j[1] = v
      /\ chain[j] # "absent"
      /\ UNCHANGED <<boq, lines, signed, deaths, req, quotes>>
  BY <1>0, <1>1 DEF ResetRow, BoqInv, RequestSound, At, Free, Chain, quotations
<1>3. /\ chain' \in [Rows -> InstanceStatuses \cup {"absent"}]
      /\ chain'[j] = "superseded_reset" /\ \A i \in Rows \ {j} : chain'[i] = chain[i]
  BY <1>1, <1>2 DEF BoqInv, BoqTypeOK, InstanceStatuses
<1>4. ReqOK' /\ OthersStay(p) /\ RequestSound(p) /\ VersionSound(v)
  BY <1>2 DEF BoqInv, ReqOK, OthersStay
<1>5. RequestSound(p)'
  BY <1>2, <1>4
     DEF RequestSound, At, Of, Free, OnRow, OnVersion, Decided, Rewriting
<1>6. Resetting(v)' /\ Chain(v)' = Chain(v)
  BY <1>0, <1>2, <1>3 DEF Resetting, At, Of, Chain
<1>7. VersionSound(v)'
  BY <1>2, <1>4, <1>6 DEF VersionSound, Unlocked, Quotable
<1>8. \A q \in Procs \ {p} : Of(q) = v => Kept(q)
  BY <1>0, <1>2, QuietIsKept DEF At, Rewriting, OthersStay
<1>9. signed' \in [Versions \X Steps -> Prices \cup {None}]
  BY <1>2 DEF BoqInv, BoqTypeOK
<1>10. \A i \in Rows : Dead(i) => chain'[i] \in Over
  BY <1>3 DEF Dead, Over
<1>11. req'[p].at \notin Deciding \cup {"approve", "settle", "accept", "insertQuote", "supersedeQuote"}
  BY <1>2 DEF At, Deciding
<1> QED
  BY <1>0, <1>2, <1>3, <1>4, <1>5, <1>7, <1>8, <1>9, <1>10, <1>11, RowsKeep

LEMMA FreshRows ==
    ASSUME NEW v \in Versions
    PROVE  /\ Fresh(v) \subseteq RowsOf(v)
           /\ \A s \in Steps : \E i \in Fresh(v) : i[2] = s
<1>1. \A s \in Steps : <<v, s, Named>> \in Rows /\ <<v, s, Named>> \in Fresh(v)
  BY BoqAssumption DEF Fresh, Rows
<1>2. Fresh(v) \subseteq RowsOf(v)
  BY BoqAssumption DEF Fresh, Rows, RowsOf
<1> QED
  BY <1>1, <1>2, RowParts

\* A fresh chain, of a version that has none or whose rows are all reset.
LEMMA InsertsKeep ==
    ASSUME BoqInv, OneRequestPerCopy', UNCHANGED quotations, NEW p \in Procs,
           RebuildChain(p) \/ CreateBatch(p)
    PROVE  BoqInv'
<1>0. PICK v \in Versions : v = Of(p)
  BY DEF RebuildChain, CreateBatch, BoqInv, RequestSound, At, Free
<1>1. /\ req[p].at \in {"reset", "chain"} /\ boq[v].status = "in_approval"
      /\ InsertChain(v) /\ Return(p)
      /\ UNCHANGED <<boq, lines, signed, deaths, quotes>>
      /\ req[p].at = "reset" => \A i \in Chain(v) : chain[i] = "superseded_reset"
  BY <1>0 DEF RebuildChain, CreateBatch, BoqInv, RequestSound, At, Free, quotations
<1>2. ReqOK' /\ OthersStay(p) /\ req'[p].at = "idle" /\ VersionSound(v)
  BY <1>1, ReturnMoves DEF BoqInv
<1>3. /\ chain \in [Rows -> InstanceStatuses \cup {"absent"}]
      /\ signed' \in [Versions \X Steps -> Prices \cup {None}]
  BY <1>1 DEF BoqInv, BoqTypeOK
<1>4. /\ chain' \in [Rows -> InstanceStatuses \cup {"absent"}]
      /\ \A i \in Rows :
            chain'[i] = chain[i]
            \/ (i \in Fresh(v) /\ chain[i] = "absent" /\ chain'[i] = "pending")
      /\ (\A i \in Fresh(v) : chain'[i] = "pending") \/ chain' = chain
  BY <1>1, <1>3, FreshRows DEF InsertChain, InstanceStatuses, RowsOf
<1>5. RequestSound(p)'
  BY <1>2 DEF RequestSound, Free, OnRow, OnVersion, Decided, Rewriting
<1>6. \A i \in Rows : i[1] # v => chain'[i] = chain[i]
  BY <1>4, FreshRows DEF RowsOf
<1>7. (Chain(v) # {} => \A s \in Steps : \E i \in Chain(v) : i[2] = s)'
  <2>1. CASE \A i \in Fresh(v) : chain'[i] = "pending"
    <3>1. Fresh(v) \subseteq Chain(v)'
      BY <2>1, FreshRows DEF Chain, RowsOf
    <3> QED
      BY <3>1, FreshRows
  <2>2. CASE chain' = chain
    BY <1>2, <2>2 DEF VersionSound, Chain
  <2> QED
    BY <1>4, <2>1, <2>2
<1>8. (v \notin CutOff /\ ~Resetting(v) =>
         \A i \in RowsOf(v) : chain[i] = "approved" => signed[<<v, i[2]>>] = boq[v].total)'
  <2> SUFFICES ASSUME NEW i \in RowsOf(v), chain'[i] = "approved", ~Resetting(v)', v \notin CutOff'
               PROVE  signed[<<v, i[2]>>] = boq[v].total
    BY <1>1 DEF RowsOf
  <2>1. i \in Chain(v) /\ chain[i] = "approved"
    BY <1>4 DEF RowsOf, Chain
  <2>2. req[p].at # "reset"
    BY <1>1, <2>1
  <2>3. ~Resetting(v) /\ v \notin CutOff
    BY <1>1, <1>2, <2>2 DEF Resetting, OthersStay, At, Of, CutOff
  <2> QED
    BY <1>2, <2>1, <2>3 DEF VersionSound
<1>9. VersionSound(v)'
  BY <1>1, <1>7, <1>8 DEF VersionSound, Unlocked, Quotable
<1>10. \A q \in Procs \ {p} : Of(q) = v => Kept(q)
  BY <1>0, <1>1, <1>2, QuietIsKept DEF Rewriting, OthersStay
<1>11. \A i \in Rows : Dead(i) => chain'[i] \in Over
  BY <1>4 DEF Dead, Over
<1> QED
  BY <1>0, <1>1, <1>2, <1>3, <1>4, <1>5, <1>6, <1>9, <1>10, <1>11, RowsKeep DEF Deciding

\* A decision writes a row: an approval it decides on, or one it puts an end to.
LEMMA DecisionsKeep ==
    ASSUME BoqInv, OneRequestPerCopy', NEW p \in Procs, OthersStay(p), ReqOK',
           NEW v \in Versions, v = Of(p), NEW j \in RowsOf(v), Chain(v) # {},
           NEW s \in {"approved", "rejected", "superseded_reset"},
           \/ s = "approved" /\ ~Dead(j) /\ req[p].on = j /\ chain[j] # "absent"
           \/ s # "approved" /\ boq[v].status \notin Quotable /\ ~AllApproved(v),
           UNCHANGED <<boq, lines, deaths, quotes>>, chain' = [chain EXCEPT ![j] = s],
           signed' \in [Versions \X Steps -> Prices \cup {None}],
           \A w \in Versions, t \in Steps :
                signed'[<<w, t>>] = IF s = "approved" /\ w = v /\ t = j[2]
                                    THEN boq[v].total ELSE signed[<<w, t>>],
           req[p].at \in Deciding, req'[p].on = req[p].on,
           req'[p].at \in Deciding \ {"approve", "insertQuote", "supersedeQuote"},
           RequestSound(p)'
    PROVE  BoqInv'
<1>1. j \in Rows /\ j[1] = v /\ chain \in [Rows -> InstanceStatuses \cup {"absent"}]
  BY DEF RowsOf, BoqInv, BoqTypeOK
<1>2. /\ chain' \in [Rows -> InstanceStatuses \cup {"absent"}]
      /\ chain'[j] = s /\ \A i \in Rows \ {j} : chain'[i] = chain[i]
  BY <1>1 DEF InstanceStatuses
<1>3. \A i \in Rows : Dead(i) => chain'[i] \in Over
  BY <1>2 DEF Dead, Over
<1>4. Chain(v)' = Chain(v) \cup {j} /\ VersionSound(v)
  BY <1>1, <1>2 DEF Chain, BoqInv
<1>5. \A q \in Procs \ {p} : Of(q) = v => Kept(q)
  <2>1. AllApproved(v) => \A i \in RowsOf(v) : chain'[i] = chain[i]
    BY <1>1, <1>2 DEF AllApproved, Chain, RowsOf
  <2>2. \A i \in Rows : /\ chain[i] # "absent" => chain'[i] # "absent"
                        /\ chain[i] # "approved" /\ req[p].on # i => chain'[i] # "approved"
    BY <1>1, <1>2
  <2> QED
    BY <2>1, <2>2, DecisionIsKept DEF OthersStay
<1>6. DeadStay
  BY <1>2, <1>3, StillDead
<1>7. (boq[v].status = "rejected" => \E i \in RowsOf(v) : Dead(i))'
  BY <1>4, <1>6 DEF VersionSound, DeadStay, RowsOf
<1>8. (boq[v].status \in Quotable => AllApproved(v) /\ Chain(v) # {})'
  BY <1>2, <1>4 DEF VersionSound, AllApproved
<1>9. (v \notin CutOff /\ ~Resetting(v) =>
         \A i \in RowsOf(v) : chain[i] = "approved" => signed[<<v, i[2]>>] = boq[v].total)'
  <2> SUFFICES ASSUME NEW i \in RowsOf(v), chain'[i] = "approved", ~Resetting(v)', v \notin CutOff'
               PROVE  signed'[<<v, i[2]>>] = boq[v].total
    BY DEF RowsOf
  <2>1. i \in Rows /\ i[2] \in Steps
    BY RowParts DEF RowsOf
  <2>2. ~Resetting(v) /\ v \notin CutOff
    BY DEF Resetting, OthersStay, At, Of, CutOff, Deciding
  <2>3. chain[i] = "approved" => signed[<<v, i[2]>>] = boq[v].total
    BY <1>4, <2>2 DEF VersionSound
  <2> QED
    BY <1>2, <2>1, <2>3
<1>10. VersionSound(v)'
  BY <1>4, <1>7, <1>8, <1>9, <1>1 DEF VersionSound, Chain
<1>11. /\ req'[p].at \notin {"approve", "settle", "accept", "insertQuote", "supersedeQuote"}
       /\ \A i \in Rows : i[1] # v => chain'[i] = chain[i]
  BY <1>1, <1>2 DEF Deciding
<1> QED
  BY <1>2, <1>3, <1>5, <1>10, <1>11, RowsKeep

LEMMA ApprovedKeeps ==
    ASSUME BoqInv, OneRequestPerCopy', UNCHANGED quotations, NEW p \in Procs, WriteApproved(p)
    PROVE  BoqInv'
<1>1. PICK v \in Versions : v = Of(p)
  BY DEF WriteApproved, BoqInv, RequestSound, At, Free
<1>2. PICK j \in RowsOf(v) : j = req[p].on
  BY <1>1 DEF WriteApproved, BoqInv, RequestSound, At, OnRow, Decided, RowsOf, Of
<1>3. /\ At(p, "approve") /\ Goto(p, "count") /\ req[p].arg = boq[v].total /\ chain[j] # "absent"
      /\ chain' = [chain EXCEPT ![j] = "approved"]
      /\ signed' = [signed EXCEPT ![<<v, j[2]>>] = boq[v].total]
      /\ UNCHANGED <<boq, lines, deaths, quotes>>
  BY <1>1, <1>2 DEF WriteApproved, BoqInv, RequestSound, At, Decided, RowsOf, quotations
<1>4. /\ ReqOK' /\ OthersStay(p) /\ req'[p].at = "count"
      /\ req'[p].on = req[p].on /\ req'[p].arg = req[p].arg
  BY <1>3, GotoMoves DEF BoqInv
<1>5. /\ j \in Rows /\ j[2] \in Steps /\ signed \in [Versions \X Steps -> Prices \cup {None}]
      /\ boq[v].total \in Prices \cup {None}
      /\ chain \in [Rows -> InstanceStatuses \cup {"absent"}]
  BY RowParts, HeaderType DEF RowsOf, BoqInv, BoqTypeOK
<1>6. signed' \in [Versions \X Steps -> Prices \cup {None}] /\ j \in Chain(v)
  BY <1>2, <1>3, <1>5 DEF Chain, RowsOf
<1>7. \A w \in Versions, t \in Steps :
        signed'[<<w, t>>] = IF w = v /\ t = j[2] THEN boq[v].total ELSE signed[<<w, t>>]
  BY <1>3, <1>5
<1>8. ~Dead(j)
  BY <1>2, <1>3 DEF Dead
<1>9. RequestSound(p)'
  BY <1>1, <1>2, <1>3, <1>4, <1>5
     DEF RequestSound, Of, Free, OnRow, OnVersion, Decided, Rewriting
<1>10. req[p].at \in Deciding /\ req'[p].at \in Deciding \ {"approve", "insertQuote", "supersedeQuote"}
  BY <1>3, <1>4 DEF At, Deciding
<1> DEFINE s == "approved"
<1>11. /\ s \in {"approved", "rejected", "superseded_reset"} /\ Chain(v) # {}
       /\ s = "approved" /\ ~Dead(j) /\ req[p].on = j /\ chain[j] # "absent"
       /\ chain' = [chain EXCEPT ![j] = s]
       /\ \A w \in Versions, t \in Steps :
            signed'[<<w, t>>] = IF s = "approved" /\ w = v /\ t = j[2]
                                THEN boq[v].total ELSE signed[<<w, t>>]
  BY <1>2, <1>3, <1>6, <1>7, <1>8
<1>12. /\ UNCHANGED <<boq, lines, deaths, quotes>> /\ ReqOK' /\ OthersStay(p)
       /\ req'[p].on = req[p].on
       /\ signed' \in [Versions \X Steps -> Prices \cup {None}]
  BY <1>3, <1>4, <1>6
<1> HIDE DEF s
<1> QED
  BY <1>1, <1>9, <1>10, <1>11, <1>12, DecisionsKeep

LEMMA RejectedKeeps ==
    ASSUME BoqInv, OneRequestPerCopy', UNCHANGED quotations, NEW p \in Procs, WriteRejected(p)
    PROVE  BoqInv'
<1>1. PICK v \in Versions : v = Of(p)
  BY DEF WriteRejected, BoqInv, RequestSound, At, Free
<1>2. PICK j \in RowsOf(v) : j = req[p].on
  BY <1>1 DEF WriteRejected, BoqInv, RequestSound, At, OnRow, Decided, RowsOf, Of
<1>3. /\ At(p, "reject") /\ Goto(p, "rejected") /\ req[p].arg = boq[v].total
      /\ chain[j] \notin {"absent", "approved"}
      /\ chain' = [chain EXCEPT ![j] = "rejected"]
      /\ UNCHANGED <<boq, lines, signed, deaths, quotes>>
  BY <1>1, <1>2 DEF WriteRejected, BoqInv, RequestSound, At, Decided, RowsOf, quotations
<1>4. /\ ReqOK' /\ OthersStay(p) /\ req'[p].at = "rejected"
      /\ req'[p].on = req[p].on /\ req'[p].arg = req[p].arg
  BY <1>3, GotoMoves DEF BoqInv
<1>5. /\ j \in Rows /\ signed' \in [Versions \X Steps -> Prices \cup {None}]
      /\ chain \in [Rows -> InstanceStatuses \cup {"absent"}]
  BY <1>3 DEF RowsOf, BoqInv, BoqTypeOK
<1>6. /\ ~AllApproved(v) /\ boq[v].status \notin Quotable /\ Chain(v) # {}
      /\ \A w \in Versions, t \in Steps : signed'[<<w, t>>] = signed[<<w, t>>]
  BY <1>3 DEF AllApproved, Chain, RowsOf, BoqInv, VersionSound
<1>7. Dead(j)'
  <2>1. \A q \in Procs : ~(At(q, "approve") /\ req[q].on = j)
    BY <1>2, <1>3, <1>5 DEF BoqInv, Locked, At, Deciding
  <2> QED
    BY <1>3, <1>4, <1>5, <2>1 DEF Dead, Over, At, OthersStay
<1>8. RequestSound(p)'
  BY <1>1, <1>2, <1>3, <1>4, <1>5, <1>7
     DEF RequestSound, Of, Free, OnRow, OnVersion, Decided, Rewriting
<1>9. req[p].at \in Deciding /\ req'[p].at \in Deciding \ {"approve", "insertQuote", "supersedeQuote"}
  BY <1>3, <1>4 DEF At, Deciding
<1> QED
  BY <1>1, <1>2, <1>3, <1>4, <1>5, <1>6, <1>8, <1>9, DecisionsKeep

LEMMA PeerKeeps ==
    ASSUME BoqInv, OneRequestPerCopy', UNCHANGED quotations, NEW p \in Procs, SupersedePeer(p)
    PROVE  BoqInv'
<1>1. PICK v \in Versions : v = Of(p)
  BY DEF SupersedePeer, BoqInv, RequestSound, At, Free
<1>2. PICK j \in req[p].got :
        chain' = [chain EXCEPT ![j] = "superseded_reset"] /\ Hold(p, req[p].got \ {j}, "peers")
  BY DEF SupersedePeer
<1>3. /\ At(p, "peers") /\ req[p].got \subseteq RowsOf(v) /\ j \in RowsOf(v)
      /\ UNCHANGED <<boq, lines, signed, deaths, quotes>>
      /\ \/ req[p].on \in Rows /\ Dead(req[p].on)
         \/ req[p].on = <<v>> /\ boq[v].status = "rejected"
  BY <1>1, <1>2 DEF SupersedePeer, BoqInv, RequestSound, At, quotations
<1>4. /\ ReqOK' /\ OthersStay(p) /\ req'[p].at = "peers"
      /\ req'[p].on = req[p].on /\ req'[p].got = req[p].got \ {j}
  BY <1>2, HoldMoves DEF BoqInv
<1>5. \E i \in RowsOf(v) : Dead(i)
  BY <1>1, <1>3 DEF RowsOf, Of, BoqInv, VersionSound
<1>6. ~AllApproved(v) /\ boq[v].status \notin Quotable /\ Chain(v) # {}
  BY <1>5 DEF AllApproved, Chain, RowsOf, BoqInv, VersionSound, Dead, Over
<1>7. RequestSound(p)'
  <2>1. j \in Rows /\ chain \in [Rows -> InstanceStatuses \cup {"absent"}]
    BY <1>3 DEF RowsOf, BoqInv, BoqTypeOK
  <2>2. \A i \in Rows : Dead(i) => chain'[i] \in Over
    BY <1>2, <2>1 DEF Dead, Over
  <2>3. DeadStay
    BY <1>4, <2>2, StillDead
  <2>4. Of(p)' = Of(p)
    BY <1>4 DEF Of
  <2> QED
    BY <1>1, <1>3, <1>4, <2>3, <2>4
       DEF RequestSound, Free, OnRow, OnVersion, Decided, Rewriting, DeadStay, RowsOf
<1>8. /\ signed' \in [Versions \X Steps -> Prices \cup {None}]
      /\ \A w \in Versions, t \in Steps : signed'[<<w, t>>] = signed[<<w, t>>]
  BY <1>3 DEF BoqInv, BoqTypeOK
<1>9. /\ req[p].at \in Deciding
      /\ req'[p].at \in Deciding \ {"approve", "insertQuote", "supersedeQuote"}
  BY <1>3, <1>4 DEF At, Deciding
<1> QED
  BY <1>1, <1>2, <1>3, <1>4, <1>6, <1>7, <1>8, <1>9, DecisionsKeep

\* A row that waits for a decision changes its user.
LEMMA ReassignedKeeps ==
    ASSUME BoqInv, OneRequestPerCopy', UNCHANGED quotations, NEW p \in Procs, WriteReassigned(p)
    PROVE  BoqInv'
<1>1. PICK v \in Versions : v = Of(p)
  BY DEF WriteReassigned, BoqInv, RequestSound, At, Free
<1>2. PICK i \in RowsOf(v) : i = req[p].on
  BY <1>1 DEF WriteReassigned, BoqInv, RequestSound, At, OnRow, RowsOf, Of
<1>3. PICK j : j = <<i[1], i[2], req[p].arg>>
  OBVIOUS
<1>4. /\ At(p, "reassign") /\ Return(p) /\ chain[i] = "pending" /\ req[p].arg \in Users
      /\ chain' = IF chain[j] = "absent"
                  THEN [chain EXCEPT ![i] = "absent", ![j] = chain[i]] ELSE chain
      /\ UNCHANGED <<boq, lines, signed, deaths, quotes>>
  BY <1>1, <1>2, <1>3 DEF WriteReassigned, BoqInv, RequestSound, At, quotations
<1>5. ReqOK' /\ OthersStay(p) /\ req'[p].at = "idle" /\ VersionSound(v)
  BY <1>4, ReturnMoves DEF BoqInv
<1>6. /\ i \in Rows /\ j \in Rows /\ i[1] = v /\ j[1] = v /\ j[2] = i[2]
      /\ chain \in [Rows -> InstanceStatuses \cup {"absent"}]
      /\ signed \in [Versions \X Steps -> Prices \cup {None}]
  BY <1>3, <1>4, RowParts DEF RowsOf, BoqInv, BoqTypeOK
<1>7. \/ /\ i # j /\ chain[j] = "absent" /\ chain'[i] = "absent" /\ chain'[j] = "pending"
         /\ \A r \in Rows \ {i, j} : chain'[r] = chain[r]
      \/ chain' = chain
  BY <1>4, <1>6
<1>8. chain' \in [Rows -> InstanceStatuses \cup {"absent"}]
  BY <1>4, <1>6 DEF InstanceStatuses
<1>9. RequestSound(p)'
  BY <1>5 DEF RequestSound, Free, OnRow, OnVersion, Decided, Rewriting
<1>10. \A q \in Procs \ {p} : Of(q) = v => Kept(q)
  BY <1>1, <1>4, <1>5, QuietIsKept DEF Rewriting, OthersStay, At
<1>11. \A r \in Rows : chain[r] \in Over \cup {"approved"} <=> chain'[r] \in Over \cup {"approved"}
  BY <1>4, <1>6, <1>7 DEF Over
<1>12. \A r \in Rows : chain[r] \in Over \cup {"approved"} => chain'[r] = chain[r]
  BY <1>4, <1>6, <1>7 DEF Over
<1>13. DeadStay
  BY <1>5, <1>12, StillDead DEF Dead
<1>14. ~AllApproved(v) /\ i \in Chain(v)
  BY <1>4, <1>6 DEF AllApproved, Chain
<1>15. (Chain(v) # {} => \A s \in Steps : \E r \in Chain(v) : r[2] = s)'
  <2> SUFFICES ASSUME NEW s \in Steps
               PROVE  \E r \in Chain(v)' : r[2] = s
    OBVIOUS
  <2>1. PICK r \in Chain(v) : r[2] = s
    BY <1>5, <1>14 DEF VersionSound
  <2>2. \/ r \in Chain(v)'
        \/ r = i /\ j \in Chain(v)'
    BY <1>6, <1>7, <2>1 DEF Chain
  <2> QED
    BY <1>6, <2>1, <2>2
<1>16. (v \notin CutOff /\ ~Resetting(v) =>
          \A r \in RowsOf(v) : chain[r] = "approved" => signed[<<v, r[2]>>] = boq[v].total)'
  <2> SUFFICES ASSUME NEW r \in RowsOf(v), chain'[r] = "approved", ~Resetting(v)', v \notin CutOff'
               PROVE  signed[<<v, r[2]>>] = boq[v].total
    BY <1>4 DEF RowsOf
  <2>1. ~Resetting(v) /\ v \notin CutOff
    BY <1>4, <1>5 DEF Resetting, OthersStay, At, Of, CutOff
  <2>2. chain[r] = "approved"
    BY <1>11, <1>12 DEF RowsOf
  <2> QED
    BY <1>5, <2>1, <2>2 DEF VersionSound
<1>17. (boq[v].status = "rejected" => \E r \in RowsOf(v) : Dead(r))'
  BY <1>4, <1>5, <1>13 DEF VersionSound, DeadStay, RowsOf
<1>18. VersionSound(v)'
  BY <1>4, <1>5, <1>14, <1>15, <1>16, <1>17 DEF VersionSound
<1>19. \A r \in Rows : r[1] # v => chain'[r] = chain[r]
  BY <1>6, <1>7
<1>20. \A r \in Rows : Dead(r) => chain'[r] \in Over
  BY <1>12 DEF Dead
<1> QED
  BY <1>1, <1>4, <1>5, <1>6, <1>8, <1>9, <1>10, <1>18, <1>19, <1>20, RowsKeep DEF Deciding

-----------------------------------------------------------------------------
(* Every step                                                              *)

LEMMA BoqKeeps ==
    ASSUME BoqInv, OneRequestPerCopy', UNCHANGED quotations, BoqNext \/ EditQuoted
    PROVE  BoqInv'
<1>1. CASE CreateBOQ
  BY <1>1, CreateBOQKeeps
<1>2. ASSUME NEW p \in Procs, NEW v \in Versions,
             \/ \E price \in Prices \cup {None} : EditLines(p, v, price)
             \/ SubmitBOQ(p, v) \/ StartRevision(p, v) \/ EditBOQAfterQuotation(p, v)
      PROVE  BoqInv'
  BY <1>2, EditsBegin
<1>3. ASSUME NEW p \in Procs, NEW i \in Rows, ApproveStep(p, i) \/ RejectStep(p, i)
      PROVE  BoqInv'
  BY <1>3, DecisionsBegin
<1>4. ASSUME NEW p \in Procs, NEW i \in Rows, NEW u \in Users, ReassignStep(p, i, u)
      PROVE  BoqInv'
  BY <1>4, ReassignBegins
<1>5. ASSUME NEW p \in Procs,
             \/ WriteLine(p) \/ RecomputeHeader(p) \/ ResetRow(p) \/ RebuildChain(p)
             \/ WriteSubmitted(p) \/ CreateBatch(p)
             \/ WriteReassigned(p) \/ CreateClone(p) \/ CloneLines(p)
             \/ SupersedeEdited(p) \/ CascadeReset(p)
      PROVE  BoqInv'
  BY <1>5, WriteLineKeeps, RecomputeKeeps, ResetRowKeeps, InsertsKeep, SubmitKeeps,
     ReassignedKeeps, CloneKeeps, CloneLinesKeeps, ReplacedKeeps, CascadeKeeps
<1>6. ASSUME NEW p \in Procs,
             \/ WriteApproved(p) \/ CountChain(p) \/ MarkApproved(p)
             \/ SupersedePrior(p) \/ PriorSuperseded(p)
             \/ WriteRejected(p) \/ MarkRejected(p) \/ ListPeers(p)
             \/ SupersedePeer(p) \/ PeersSuperseded(p)
      PROVE  BoqInv'
  BY <1>6, ApprovedKeeps, DecisionsGoOn, MarksKeep, OlderKeeps, RejectedKeeps, PeerKeeps
<1> QED
  BY <1>1, <1>2, <1>3, <1>4, <1>5, <1>6 DEF BoqNext, EditQuoted

LEMMA BoqInvInit ==
    ASSUME Init
    PROVE  BoqInv
<1> USE DEF Init, BoqInit, QuotationsInit
<1>1. \A p \in Procs : req[p] = Idle /\ Free(p)
  BY DEF Free, Idle
<1>2. ReqOK /\ OneRequestPerCopy /\ Locked
  BY <1>1 DEF ReqOK, OneRequestPerCopy, Clash, Locked, Deciding, Idle
<1>3. BoqTypeOK
  BY BoqAssumption DEF BoqTypeOK, NoBOQ, InstanceStatuses
<1>4. QuotesOK
  BY <1>1 DEF QuotesOK, Idle
<1>5. \A p \in Procs : RequestSound(p)
  BY <1>1 DEF RequestSound, Idle, Free, OnRow, OnVersion, Decided, Rewriting
<1>6. \A v \in Versions : Chain(v) = {} /\ boq[v].status = "absent"
  BY DEF Chain, NoBOQ
<1>7. \A v \in Versions : VersionSound(v)
  BY <1>6 DEF VersionSound, Quotable, RowsOf
<1>8. \A v \in Versions : QuotesSound(v)
  BY DEF QuotesSound
<1> QED
  BY <1>2, <1>3, <1>4, <1>5, <1>7, <1>8 DEF BoqInv

LEMMA BoqInvStep ==
    ASSUME BoqInv, [Next /\ OneRequestPerCopy']_vars
    PROVE  BoqInv'
<1>1. CASE (BoqNext \/ EditQuoted) /\ UNCHANGED quotations /\ OneRequestPerCopy'
  BY <1>1, BoqKeeps
<1>2. CASE QuotationsNext /\ OneRequestPerCopy'
  BY <1>2, QuotationsKeep
<1>3. CASE IntercompanyNext /\ UNCHANGED <<boqs, quotations>> /\ OneRequestPerCopy'
  BY <1>3, IntercompanyKeeps
<1>4. CASE /\ \E p \in Procs : RecognizeOnApproval(p) /\ UNCHANGED <<boqs, quotations>>
           /\ OneRequestPerCopy'
  BY <1>4, RecogniseKeeps
<1>5. CASE /\ \E p \in Procs : AbandonBoq(p) /\ UNCHANGED <<quotations, intercompany>>
           /\ OneRequestPerCopy'
  BY <1>5, AbandonKeeps DEF quotations
<1>6. CASE UNCHANGED vars
  BY <1>6, BoqStutters DEF vars, quotations
<1> QED
  BY <1>1, <1>2, <1>3, <1>4, <1>5, <1>6 DEF Next

LEMMA SpecBoqInv == Spec => []BoqInv
BY BoqInvInit, BoqInvStep, PTL DEF Spec

-----------------------------------------------------------------------------
(* What follows                                                            *)

\* Approvals do not carry over to another price.
THEOREM QuotedIsSigned == Spec => []QuotedAsSigned
<1>1. BoqInv => QuotedAsSigned
  <2> SUFFICES ASSUME BoqInv, NEW v \in Versions \ CutOff, NEW n \in DOMAIN quotes[v],
                      NEW s \in Steps
               PROVE  signed[<<v, s>>] = quotes[v][n].total
    BY DEF QuotedAsSigned
  <2>1. quotes[v] # <<>>
    OBVIOUS
  <2>2. boq[v].status \in Quotable /\ quotes[v][n].total = boq[v].total
    BY <2>1 DEF BoqInv, QuotesSound
  <2>3. VersionSound(v)
    BY DEF BoqInv
  <2>4. PICK i \in Chain(v) : i[2] = s /\ chain[i] = "approved"
    BY <2>2, <2>3 DEF VersionSound, AllApproved
  <2>5. ~Resetting(v)
    BY <2>2 DEF Resetting, BoqInv, RequestSound, At, Quotable
  <2>6. i \in RowsOf(v)
    BY DEF Chain, RowsOf
  <2> QED
    BY <2>2, <2>3, <2>4, <2>5, <2>6 DEF VersionSound
<1> QED
  BY <1>1, SpecBoqInv, PTL

\* A row that is dead and a chain approved in full exclude each other.
LEMMA NoTwoVerdicts ==
    ASSUME BoqInv, NEW v \in Versions, AllApproved(v)
    PROVE  boq[v].status # "rejected" /\ \A i \in RowsOf(v) : ~Dead(i)
<1>1. \A i \in RowsOf(v) : ~Dead(i)
  BY DEF AllApproved, Chain, RowsOf, Dead, Over
<1> QED
  BY <1>1 DEF BoqInv, VersionSound

VerdictKept(v) ==
    /\ boq[v].status = "rejected" => boq'[v].status = "rejected"
    /\ boq[v].status = "boq_approved" => boq'[v].status \in {"boq_approved", "superseded"}

LEMMA StatusMoves ==
    ASSUME BoqInv, NEW w, NEW s, SetStatus(w, s), NEW v \in Versions,
           w = v /\ boq[v].status = "rejected" => s = "rejected",
           w = v /\ boq[v].status = "boq_approved" => s \in {"boq_approved", "superseded"}
    PROVE  VerdictKept(v)
<1>1. /\ boq \in [Versions -> [status : BOQStatuses \cup {"absent"}, total : Prices \cup {None}]]
      /\ boq[v] \in [status : BOQStatuses \cup {"absent"}, total : Prices \cup {None}]
  BY DEF BoqInv, BoqTypeOK
<1>2. boq'[v] = IF w = v THEN [boq[v] EXCEPT !.status = s] ELSE boq[v]
  BY <1>1 DEF SetStatus
<1> QED
  BY <1>1, <1>2 DEF VerdictKept

LEMMA VerdictIsKept ==
    ASSUME BoqInv, [Next /\ OneRequestPerCopy']_vars, NEW v \in Versions
    PROVE  VerdictKept(v)
<1>0. boq \in [Versions -> [status : BOQStatuses \cup {"absent"}, total : Prices \cup {None}]]
  BY DEF BoqInv, BoqTypeOK
<1>1. CASE UNCHANGED boq
  BY <1>1 DEF VerdictKept
<1>2. CASE CreateBOQ
  <2>1. boq[1].status = "absent" /\ SetStatus(1, "draft")
    BY <1>2 DEF CreateBOQ, NoBOQ
  <2> QED
    BY <2>1, StatusMoves
<1>3. ASSUME NEW p \in Procs, WriteSubmitted(p) \/ SupersedePrior(p) \/ SupersedeEdited(p)
      PROVE  VerdictKept(v)
  <2>1. RequestSound(p)
    BY DEF BoqInv
  <2>2. CASE WriteSubmitted(p)
    <3>1. boq[Of(p)].status \in Unlocked /\ SetStatus(Of(p), "in_approval")
      BY <2>1, <2>2 DEF WriteSubmitted, RequestSound, At
    <3> QED
      BY <3>1, StatusMoves DEF Unlocked
  <2>3. CASE SupersedePrior(p)
    <3>1. PICK w \in Older(Of(p)) : SetStatus(w, "superseded")
      BY <2>3 DEF SupersedePrior
    <3>2. boq[w].status = "boq_approved"
      BY <3>1 DEF Older
    <3> QED
      BY <3>1, <3>2, StatusMoves
  <2>4. CASE SupersedeEdited(p)
    <3>1. boq[Of(p)].status \in Quotable /\ SetStatus(Of(p), "superseded")
      BY <2>1, <2>4 DEF SupersedeEdited, RequestSound, At
    <3> QED
      BY <3>1, StatusMoves DEF Quotable
  <2> QED
    BY <1>3, <2>2, <2>3, <2>4
<1>4. ASSUME NEW p \in Procs, RecomputeHeader(p)
      PROVE  VerdictKept(v)
  <2>1. boq' = [boq EXCEPT ![Of(p)].total = lines[Of(p)]]
    BY <1>4 DEF RecomputeHeader
  <2>2. boq[v] \in [status : BOQStatuses \cup {"absent"}, total : Prices \cup {None}]
    BY <1>0
  <2>3. boq'[v].status = boq[v].status
    BY <1>0, <2>1, <2>2
  <2> QED
    BY <2>3 DEF VerdictKept
<1>5. ASSUME NEW p \in Procs, MarkApproved(p) \/ MarkRejected(p)
      PROVE  VerdictKept(v)
  <2>1. RequestSound(p)
    BY DEF BoqInv
  <2>2. CASE MarkApproved(p)
    <3>1. AllApproved(Of(p)) /\ Of(p) \in Versions
          /\ boq' = [boq EXCEPT ![Of(p)] = [status |-> "boq_approved", total |-> req[p].arg]]
      BY <2>1, <2>2 DEF MarkApproved, RequestSound, At, Free
    <3>2. boq[Of(p)].status # "rejected"
      BY <3>1, NoTwoVerdicts
    <3> QED
      BY <1>0, <3>1, <3>2 DEF VerdictKept
  <2>3. CASE MarkRejected(p)
    <3>1. /\ Dead(req[p].on) /\ req[p].on \in RowsOf(Of(p)) /\ Of(p) \in Versions
          /\ boq' = [boq EXCEPT ![Of(p)] = [status |-> "rejected", total |-> req[p].arg]]
      BY <2>1, <2>3 DEF MarkRejected, RequestSound, At, Free, OnRow, RowsOf, Of
    <3>2. boq[Of(p)].status # "boq_approved"
      BY <3>1, NoTwoVerdicts DEF BoqInv, VersionSound, Quotable
    <3> QED
      BY <1>0, <3>1, <3>2 DEF VerdictKept
  <2> QED
    BY <1>5, <2>2, <2>3
<1>6. ASSUME NEW p \in Procs, CreateClone(p)
      PROVE  VerdictKept(v)
  <2>1. CASE UNCHANGED boq
    BY <2>1 DEF VerdictKept
  <2>2. CASE /\ boq[req[p].arg.version] = NoBOQ
             /\ boq' = [boq EXCEPT ![req[p].arg.version] =
                           [boq[Of(p)] EXCEPT !.status = "revision_draft"]]
    BY <1>0, <2>2 DEF VerdictKept, NoBOQ
  <2> QED
    BY <1>6, <2>1, <2>2 DEF CreateClone
<1>7. ASSUME NEW p \in Procs,
             \/ WriteLine(p) \/ ResetRow(p) \/ RebuildChain(p) \/ CreateBatch(p)
             \/ WriteApproved(p) \/ CountChain(p) \/ PriorSuperseded(p)
             \/ WriteRejected(p) \/ ListPeers(p) \/ SupersedePeer(p) \/ PeersSuperseded(p)
             \/ WriteReassigned(p) \/ CloneLines(p) \/ CascadeReset(p) \/ AbandonBoq(p)
      PROVE  UNCHANGED boq
  BY <1>7 DEF WriteLine, ResetRow, RebuildChain, CreateBatch, WriteApproved, CountChain,
     PriorSuperseded, WriteRejected, ListPeers, SupersedePeer, PeersSuperseded,
     WriteReassigned, CloneLines, CascadeReset, AbandonBoq, boqs
<1>8. ASSUME NEW p \in Procs,
             \/ \E w \in Versions :
                \/ \E price \in Prices \cup {None} : EditLines(p, w, price)
                \/ SubmitBOQ(p, w) \/ StartRevision(p, w) \/ EditBOQAfterQuotation(p, w)
             \/ \E i \in Rows :
                \/ ApproveStep(p, i) \/ RejectStep(p, i)
                \/ \E u \in Users : ReassignStep(p, i, u)
      PROVE  UNCHANGED boq
  BY <1>8 DEF EditLines, SubmitBOQ, StartRevision, EditBOQAfterQuotation, Revise,
     ApproveStep, RejectStep, ReassignStep, boqs
<1>9. CASE BoqNext \/ EditQuoted
  BY <1>1, <1>2, <1>3, <1>4, <1>5, <1>6, <1>7, <1>8, <1>9 DEF BoqNext, EditQuoted
<1>10. CASE QuotationsNext
  <2>1. UNCHANGED boqs
    BY <1>10 DEF QuotationsNext, GenerateQuotation, RejectQuotation, CancelQuotation,
       ExpireQuotation, Settle, AcceptQuotation, IssueInvoice, CreateEWO, ReadPrior,
       AutoGenerateQuotation, CreateQuotation, SupersedeQuotation, Generated, WriteSettled,
       WriteAccepted, CheckInvoice, CreateInvoice, CheckEWO, InsertEWO
  <2> QED
    BY <1>1, <2>1 DEF boqs
<1>11. CASE UNCHANGED vars \/ UNCHANGED boqs
  BY <1>1, <1>11 DEF vars, boqs
<1> QED
  BY <1>1, <1>7, <1>9, <1>10, <1>11 DEF Next

\* A rejected version stays rejected; an approved one only gives way.
THEOREM VerdictsAreFinal == Spec => VerdictStands
<1>1. BoqInv /\ [Next /\ OneRequestPerCopy']_vars =>
        [\A v \in Versions :
            /\ boq[v].status = "rejected" => boq'[v].status = "rejected"
            /\ boq[v].status = "boq_approved" =>
                  boq'[v].status \in {"boq_approved", "superseded"}]_vars
  BY VerdictIsKept DEF VerdictKept
<1> QED
  BY <1>1, SpecBoqInv, PTL DEF Spec, VerdictStands

-----------------------------------------------------------------------------
(* Which part of the state a step is about                                 *)

\* Requests about a quotation that was answered, and those about orders
Hooks == {"invoice", "insertInvoice", "ewo", "insertEWO"}
Answering == {"settle", "accept"} \cup Hooks

\* One request at most moves, between statements of others' concern.
Aside(statements) ==
    \/ UNCHANGED req
    \/ \E p \in Procs :
        /\ ReqOK' /\ OthersStay(p)
        /\ req[p].at \notin statements /\ req'[p].at \notin statements

LEMMA BoqIsAside ==
    ASSUME BoqInv, BoqNext \/ EditQuoted
    PROVE  Aside(Answering \cup Ordering) /\ UNCHANGED deaths
<1> DEFINE far == Answering \cup Ordering
<1> DEFINE Goal == Aside(far) /\ UNCHANGED deaths
<1>1. ASSUME CreateBOQ
      PROVE  Goal
  BY <1>1 DEF CreateBOQ, Aside
<1>2. ASSUME NEW p \in Procs,
             \/ \E v \in Versions :
                \/ \E price \in Prices \cup {None} : EditLines(p, v, price)
                \/ SubmitBOQ(p, v) \/ StartRevision(p, v) \/ EditBOQAfterQuotation(p, v)
             \/ \E i \in Rows :
                \/ ApproveStep(p, i) \/ RejectStep(p, i)
                \/ \E u \in Users : ReassignStep(p, i, u)
      PROVE  Goal
  <2>1. PICK s \in {"line", "submit", "clone", "approve", "reject", "reassign"} :
            \E row, x : Begin(p, s, row, x) /\ UNCHANGED boqs
    BY <1>2 DEF EditLines, SubmitBOQ, StartRevision, EditBOQAfterQuotation, Revise,
       ApproveStep, RejectStep, ReassignStep
  <2>2. req[p].at = "idle"
    BY <2>1 DEF Begin, Free
  <2>3. ReqOK' /\ OthersStay(p) /\ req'[p].at = s
    BY <2>1, BeginMoves DEF BoqInv
  <2> QED
    BY <2>1, <2>2, <2>3 DEF Aside, Answering, Ordering, Hooks, boqs
<1>3. ASSUME NEW p \in Procs,
             \/ WriteLine(p) \/ RecomputeHeader(p) \/ WriteSubmitted(p) \/ CreateClone(p)
             \/ CloneLines(p) \/ SupersedeEdited(p)
             \/ WriteApproved(p) \/ CountChain(p) \/ MarkApproved(p) \/ PriorSuperseded(p)
             \/ WriteRejected(p) \/ MarkRejected(p) \/ PeersSuperseded(p)
             \/ RebuildChain(p) \/ CreateBatch(p) \/ WriteReassigned(p)
      PROVE  Goal
  <2>1. /\ req[p].at \in Rewriting \cup Deciding /\ UNCHANGED deaths
        /\ \/ Return(p)
           \/ \E s \in Rewriting \cup Deciding : Goto(p, s)
    BY <1>3 DEF WriteLine, RecomputeHeader, WriteSubmitted, CreateClone, CloneLines,
       SupersedeEdited, WriteApproved, CountChain, MarkApproved, PriorSuperseded, WriteRejected,
       MarkRejected, PeersSuperseded, RebuildChain, CreateBatch, WriteReassigned,
       At, Rewriting, Deciding, boqs, BoqInv, RequestSound
  <2>2. /\ ReqOK' /\ OthersStay(p)
        /\ req'[p].at \in {"idle"} \cup Rewriting \cup Deciding
    BY <2>1, ReturnMoves, GotoMoves DEF BoqInv
  <2> QED
    BY <2>1, <2>2 DEF Aside, Answering, Ordering, Hooks, Rewriting, Deciding
<1>4. ASSUME NEW p \in Procs, ListPeers(p) \/ SupersedePeer(p) \/ CascadeReset(p)
      PROVE  Goal
  <2>1. /\ req[p].at \in {"list", "peers", "cascade"} /\ UNCHANGED deaths
        /\ \E id : Hold(p, id, "peers")
    BY <1>4 DEF ListPeers, SupersedePeer, CascadeReset, At, boqs
  <2>2. ReqOK' /\ OthersStay(p) /\ req'[p].at = "peers"
    BY <2>1, HoldMoves DEF BoqInv
  <2> QED
    BY <2>1, <2>2 DEF Aside, Answering, Ordering, Hooks
<1>5. ASSUME NEW p \in Procs, ResetRow(p) \/ SupersedePrior(p)
      PROVE  Goal
  BY <1>5 DEF ResetRow, SupersedePrior, Aside
<1> HIDE DEF Goal
<1>6. Goal
  BY <1>1, <1>2, <1>3, <1>4, <1>5 DEF BoqNext, EditQuoted
<1> QED
  BY <1>6 DEF Goal

LEMMA OrdersAreAside ==
    ASSUME BoqInv, IntercompanyNext
    PROVE  Aside(Answering)
<1> SUFFICES ASSUME NEW p \in Procs,
        \/ \E v \in Versions :
            \/ UploadCustomerPO(p, v) \/ ValidateCustomerPO(p, v)
            \/ AcceptCustomerPO(p, v)
            \/ RejectCustomerPO(p, v) \/ CancelCustomerPO(p, v)
        \/ \E o \in ICPOs :
            \/ IssueIntercompanyPO(p, o) \/ AcceptIntercompanyPO(p, o)
            \/ RejectIntercompanyPO(p, o) \/ CancelIntercompanyPO(p, o)
        \/ WritePO(p) \/ DraftICPO(p) \/ AllDrafted(p)
        \/ AutoIssue(p) \/ AutoAcceptICPO(p) \/ AutoRecognise(p)
        \/ WriteICPO(p) \/ RecognizeOnICPOAccept(p)
        \/ FindEWOY(p) \/ AutoSpawnEWOY(p)
             PROVE  Aside(Answering)
  BY DEF IntercompanyNext
<1>1. CASE \/ \E v \in Versions :
              \/ UploadCustomerPO(p, v) \/ ValidateCustomerPO(p, v)
              \/ AcceptCustomerPO(p, v)
              \/ RejectCustomerPO(p, v) \/ CancelCustomerPO(p, v)
           \/ \E o \in ICPOs :
              \/ IssueIntercompanyPO(p, o) \/ AcceptIntercompanyPO(p, o)
              \/ RejectIntercompanyPO(p, o) \/ CancelIntercompanyPO(p, o)
  <2>1. PICK s \in {"po", "icpo"} : \E row, x : Begin(p, s, row, x)
    BY <1>1 DEF UploadCustomerPO, ValidateCustomerPO, AcceptCustomerPO, RejectCustomerPO,
       CancelCustomerPO, MovePO, IssueIntercompanyPO, AcceptIntercompanyPO,
       RejectIntercompanyPO, CancelIntercompanyPO, MoveICPO
  <2>2. req[p].at = "idle"
    BY <2>1 DEF Begin, Free
  <2>3. ReqOK' /\ OthersStay(p) /\ req'[p].at = s
    BY <2>1, BeginMoves DEF BoqInv
  <2> QED
    BY <2>2, <2>3 DEF Aside, Answering, Hooks
<1>2. CASE \/ WritePO(p) \/ AllDrafted(p) \/ AutoIssue(p) \/ AutoAcceptICPO(p)
           \/ AutoRecognise(p) \/ WriteICPO(p) \/ RecognizeOnICPOAccept(p)
           \/ FindEWOY(p) \/ AutoSpawnEWOY(p)
  <2>1. /\ req[p].at \in Ordering
        /\ \/ Return(p) \/ \E s \in Ordering : Goto(p, s)
           \/ Hold(p, Providers, "split")
    BY <1>2 DEF WritePO, AllDrafted, AutoIssue, AutoAcceptICPO, AutoRecognise, WriteICPO,
       RecognizeOnICPOAccept, FindEWOY, AutoSpawnEWOY, At, Ordering
  <2>2. ReqOK' /\ OthersStay(p) /\ req'[p].at \in {"idle"} \cup Ordering
    BY <2>1, ReturnMoves, GotoMoves, HoldMoves DEF BoqInv, Ordering
  <2> QED
    BY <2>1, <2>2 DEF Aside, Answering, Hooks, Ordering
<1>3. CASE DraftICPO(p)
  <2>1. PICK s, statement :
            /\ statement \in {"split", "autoIssue"}
            /\ req' = [req EXCEPT ![p] = [at |-> statement, on |-> @.on,
                                         got |-> @.got \ {s}, arg |-> <<Of(p), s>>]]
    BY <1>3 DEF DraftICPO
  <2>2. ReqOK' /\ OthersStay(p) /\ req'[p].at \in {"split", "autoIssue"} /\ req[p].at = "split"
    BY <1>3, <2>1 DEF BoqInv, DraftICPO, At, ReqOK, OthersStay
  <2> QED
    BY <2>2 DEF Aside, Answering, Hooks
<1> QED
  BY <1>1, <1>2, <1>3

-----------------------------------------------------------------------------
(* Quotations that were accepted                                           *)

\* A request that will see to a quotation's invoice, or to its work order.
Bills(p, q) ==
    /\ req[p].on = q
    /\ At(p, "insertInvoice") \/ (At(p, "invoice") /\ req[p].arg = "hook")
Orders(p, q) ==
    /\ req[p].on = q
    /\ \/ req[p].at \in {"ewo", "insertEWO"}
       \/ req[p].at \in {"invoice", "insertInvoice"} /\ req[p].arg = "hook"

Billed(q) == invoices[q] = 1 \/ \E p \in Procs : Bills(p, q)
Worked(q) == ewos[q] = 1 \/ \E p \in Procs : Orders(p, q)

AnswerSound(p) ==
    /\ req[p].at = "accept" => req[p].arg = "hook"
    /\ req[p].at = "settle" => req[p].arg # "accepted"
    /\ req[p].at \in Hooks => req[p].on \in Quotes

DealsInv ==
    /\ invoices \in [Quotes -> {0, 1}] /\ ewos \in [Quotes -> {0, 1}]
    /\ \A v \in Versions : Len(quotes[v]) <= MaxQuotes
    /\ \A p \in Procs : AnswerSound(p)
    /\ deaths = <<>> => \A q \in Quotes : Accepted(q) => Billed(q) /\ Worked(q)

\* A step of a request that neither bills nor orders, or goes on with it.
LEMMA DealMoves ==
    ASSUME DealsInv, NEW p \in Procs, OthersStay(p), AnswerSound(p)',
           invoices' \in [Quotes -> {0, 1}], ewos' \in [Quotes -> {0, 1}],
           \A v \in Versions : Len(quotes'[v]) <= MaxQuotes,
           deaths' = <<>> => deaths = <<>>,
           \A q \in Quotes :
              /\ invoices[q] = 1 => invoices'[q] = 1
              /\ ewos[q] = 1 => ewos'[q] = 1
              /\ Bills(p, q) => invoices'[q] = 1 \/ Bills(p, q)' \/ ~Accepted(q)
              /\ Orders(p, q) => ewos'[q] = 1 \/ Orders(p, q)' \/ ~Accepted(q)
              /\ Accepted(q)' => Accepted(q) \/ (Bills(p, q)' /\ Orders(p, q)')
    PROVE  DealsInv'
<1>1. \A r \in Procs : AnswerSound(r)'
  BY DEF DealsInv, AnswerSound, OthersStay
<1>2. \A r \in Procs \ {p} : \A q : (Bills(r, q) => Bills(r, q)') /\ (Orders(r, q) => Orders(r, q)')
  BY DEF OthersStay, Bills, Orders, At
<1>3. ASSUME NEW q \in Quotes, deaths' = <<>>, Accepted(q)'
      PROVE  Billed(q)' /\ Worked(q)'
  <2>1. CASE Bills(p, q)' /\ Orders(p, q)'
    BY <2>1 DEF Billed, Worked
  <2>2. CASE Accepted(q)
    <3>1. Billed(q) /\ Worked(q)
      BY <1>3, <2>2 DEF DealsInv
    <3>2. Billed(q)'
      BY <1>2, <2>2, <3>1 DEF Billed
    <3>3. Worked(q)'
      BY <1>2, <2>2, <3>1 DEF Worked
    <3> QED
      BY <3>2, <3>3
  <2> QED
    BY <1>3, <2>1, <2>2
<1> QED
  BY <1>1, <1>3 DEF DealsInv

\* Statements that are not about an answered quotation.
LEMMA AsideKeepsDeals ==
    ASSUME DealsInv, Aside(Answering), UNCHANGED quotations, deaths' = <<>> => deaths = <<>>
    PROVE  DealsInv'
<1> USE DEF quotations
<1>1. CASE UNCHANGED req
  BY <1>1 DEF DealsInv, AnswerSound, Billed, Worked, Bills, Orders, At, Accepted, StatusOf
<1>2. ASSUME NEW p \in Procs, OthersStay(p),
             req[p].at \notin Answering, req'[p].at \notin Answering
      PROVE  DealsInv'
  <2>1. AnswerSound(p)'
    BY <1>2 DEF AnswerSound, Answering, Hooks
  <2>2. \A q : ~Bills(p, q) /\ ~Orders(p, q)
    BY <1>2 DEF Bills, Orders, At, Answering, Hooks
  <2>3. \A q : Accepted(q)' <=> Accepted(q)
    BY DEF Accepted, StatusOf
  <2> QED
    BY <1>2, <2>1, <2>2, <2>3, DealMoves DEF DealsInv
<1> QED
  BY <1>1, <1>2 DEF Aside

\* A death is recorded, and excuses.
LEMMA DeathKeepsDeals ==
    ASSUME BoqInv, DealsInv, NEW p \in Procs, AbandonBoq(p), UNCHANGED quotations
    PROVE  DealsInv'
<1>1. ReqOK' /\ OthersStay(p) /\ req'[p].at = "idle"
  BY ReturnMoves DEF AbandonBoq, Abandon, BoqInv
<1>2. \A r \in Procs : AnswerSound(r)'
  BY <1>1 DEF DealsInv, AnswerSound, OthersStay, Hooks
<1>3. deaths' # <<>>
  <2>1. deaths \in Seq(Versions \X BOOLEAN)
    BY DEF BoqInv, BoqTypeOK
  <2> QED
    BY <2>1 DEF AbandonBoq
<1> QED
  BY <1>2, <1>3 DEF DealsInv, quotations

LEMMA AnswersAreBegun ==
    ASSUME BoqInv, DealsInv, NEW p \in Procs,
           NEW q \in Quotes,
           \/ RejectQuotation(p, q) \/ CancelQuotation(p, q) \/ ExpireQuotation(p, q)
           \/ AcceptQuotation(p, q) \/ IssueInvoice(p, q) \/ CreateEWO(p, q)
    PROVE  DealsInv'
<1>1. PICK s, x : /\ s \in Answering
                  /\ Begin(p, s, q, x)
                  /\ s = "accept" => x = "hook"
                  /\ s = "settle" => x # "accepted"
  BY DEF RejectQuotation, CancelQuotation, ExpireQuotation, Settle, AcceptQuotation,
     IssueInvoice, CreateEWO, Answering, Hooks
<1>2. UNCHANGED <<boqs, quotations>>
  BY DEF RejectQuotation, CancelQuotation, ExpireQuotation, Settle, AcceptQuotation,
     IssueInvoice, CreateEWO
<1>3. /\ OthersStay(p) /\ req[p].at = "idle"
      /\ req'[p].at = s /\ req'[p].on = q /\ req'[p].arg = x
  BY <1>1, BeginMoves DEF BoqInv, Begin, Free
<1>4. AnswerSound(p)'
  BY <1>1, <1>3 DEF AnswerSound
<1>5. \A r : ~Bills(p, r) /\ ~Orders(p, r)
  BY <1>3 DEF Bills, Orders, At
<1>6. \A r : Accepted(r)' <=> Accepted(r)
  BY <1>2 DEF Accepted, StatusOf, quotations
<1> QED
  BY <1>2, <1>3, <1>4, <1>5, <1>6, DealMoves DEF DealsInv, quotations, boqs

\* What a status written makes of the quotations accepted.
LEMMA AcceptedByWrite ==
    ASSUME BoqInv, NEW q, q[1] \in Versions, q[2] \in DOMAIN quotes[q[1]],
           NEW s \in QuotationStatuses, SetQuotation(q, s)
    PROVE  \A r \in Quotes : Accepted(r)' =>
                IF r[1] = q[1] /\ r[2] = q[2] THEN s = "accepted" ELSE Accepted(r)
<1> DEFINE v == q[1]
           n == q[2]
           new == [quotes[v][n] EXCEPT !.status = s]
<1>1. quotes \in [Versions -> Seq(Quotation)] /\ v \in Versions /\ n \in DOMAIN quotes[v]
  BY DEF BoqInv, QuotesOK
<1>2. quotes[v] \in Seq(Quotation) /\ quotes[v][n] \in Quotation
  BY <1>1
<1>3. new.status = s
  BY <1>2 DEF Quotation
<1>4. quotes' = [quotes EXCEPT ![v] = [quotes[v] EXCEPT ![n] = new]]
  BY DEF SetQuotation
<1>5. SUFFICES ASSUME NEW r \in Quotes, Accepted(r)'
               PROVE  IF r[1] = v /\ r[2] = n THEN s = "accepted" ELSE Accepted(r)
  OBVIOUS
<1>6. r[1] \in Versions /\ r[2] \in DOMAIN quotes'[r[1]] /\ quotes'[r[1]][r[2]].status = "accepted"
  BY <1>5 DEF Quotes, Accepted, StatusOf
<1> HIDE DEF v, n, new
<1>7. DOMAIN quotes'[v] = DOMAIN quotes[v] /\ quotes'[v][n] = new
  BY <1>1, <1>2, <1>4
<1>8. CASE r[1] = v /\ r[2] = n
  BY <1>3, <1>6, <1>7, <1>8
<1>9. CASE ~(r[1] = v /\ r[2] = n)
  <2>1. r[2] \in DOMAIN quotes[r[1]] /\ quotes'[r[1]][r[2]] = quotes[r[1]][r[2]]
    BY <1>1, <1>2, <1>4, <1>6, <1>9
  <2> QED
    BY <1>6, <1>9, <2>1 DEF Accepted, StatusOf
<1> QED
  BY <1>8, <1>9

LEMMA GenerationIsAside ==
    ASSUME BoqInv, NEW p \in Procs,
           \/ \E v \in Versions : GenerateQuotation(p, v)
           \/ ReadPrior(p) \/ AutoGenerateQuotation(p)
           \/ CreateQuotation(p) \/ SupersedeQuotation(p) \/ Generated(p)
    PROVE  /\ ReqOK' /\ OthersStay(p) /\ UNCHANGED <<boqs, invoices, ewos>>
           /\ req[p].at \notin Answering \cup Ordering
           /\ req'[p].at \notin Answering \cup Ordering
<1> USE DEF Answering, Ordering, Hooks
<1>1. CASE \E v \in Versions : GenerateQuotation(p, v)
  <2>1. PICK v : Begin(p, "quote", <<v>>, None) /\ UNCHANGED <<boqs, quotations>>
    BY <1>1 DEF GenerateQuotation
  <2>2. req[p].at = "idle" /\ ReqOK' /\ OthersStay(p) /\ req'[p].at = "quote"
    BY <2>1, BeginMoves DEF Begin, Free, BoqInv
  <2> QED
    BY <2>1, <2>2 DEF quotations
<1>2. CASE ReadPrior(p) \/ AutoGenerateQuotation(p)
  <2>1. UNCHANGED <<boqs, quotations>> /\ req[p].at \in {"quote", "autoQuote"}
    BY <1>2 DEF ReadPrior, AutoGenerateQuotation, At
  <2>2. \/ Goto(p, "recognise")
        \/ \E v, total, then : ReadLatest(p, v, total, then)
    BY <1>2 DEF ReadPrior, AutoGenerateQuotation
  <2>3. CASE Goto(p, "recognise")
    BY <2>1, <2>3, GotoMoves DEF BoqInv, quotations
  <2>4. CASE \E v, total, then : ReadLatest(p, v, total, then)
    <3>1. PICK id, x : req' = [req EXCEPT ![p] = [at |-> "insertQuote", on |-> @.on, got |-> id,
                                                  arg |-> x]]
      BY <2>4 DEF ReadLatest
    <3>2. ReqOK' /\ OthersStay(p) /\ req'[p].at = "insertQuote"
      BY <3>1 DEF BoqInv, ReqOK, OthersStay
    <3> QED
      BY <2>1, <3>2 DEF quotations
  <2> QED
    BY <2>2, <2>3, <2>4
<1>3. CASE CreateQuotation(p) \/ SupersedeQuotation(p) \/ Generated(p)
  <2>1. /\ req[p].at \in {"insertQuote", "supersedeQuote", "done"}
        /\ UNCHANGED <<boqs, invoices, ewos>>
        /\ Return(p) \/ \E s \in {"supersedeQuote", "recognise", "done"} : Goto(p, s)
    BY <1>3 DEF CreateQuotation, SupersedeQuotation, Generated, At, BoqInv, RequestSound, quotations
  <2> QED
    BY <2>1, GotoMoves, ReturnMoves DEF BoqInv
<1> QED
  BY <1>1, <1>2, <1>3

\* A new quotation is issued, and an older one superseded: neither is accepted.
LEMMA GenerationsKeepDeals ==
    ASSUME BoqInv, DealsInv, NEW p \in Procs,
           \/ \E v \in Versions : GenerateQuotation(p, v)
           \/ ReadPrior(p) \/ AutoGenerateQuotation(p)
           \/ CreateQuotation(p) \/ SupersedeQuotation(p) \/ Generated(p)
    PROVE  DealsInv'
<1>1. /\ ReqOK' /\ OthersStay(p) /\ UNCHANGED <<boqs, invoices, ewos>>
      /\ req[p].at \notin Answering /\ req'[p].at \notin Answering
  BY GenerationIsAside
<1>2. AnswerSound(p)' /\ \A q : ~Bills(p, q) /\ ~Orders(p, q)
  BY <1>1 DEF AnswerSound, Bills, Orders, At, Answering, Hooks
<1>3. /\ \A v \in Versions : Len(quotes'[v]) <= MaxQuotes
      /\ \A q \in Quotes : Accepted(q)' => Accepted(q)
  <2>1. CASE UNCHANGED quotes
    BY <2>1 DEF DealsInv, Accepted, StatusOf
  <2>2. CASE CreateQuotation(p) /\ ~UNCHANGED quotes
    <3>1. PICK v \in Versions, q \in Quotation :
            /\ quotes' = [quotes EXCEPT ![v] = Append(quotes[v], q)]
            /\ Len(quotes[v]) # MaxQuotes /\ q.status = "issued"
      BY <2>2, NewQuotationType DEF CreateQuotation, NewQuotation
    <3>2. quotes \in [Versions -> Seq(Quotation)] /\ \A w \in Versions : Len(quotes[w]) <= MaxQuotes
      BY DEF BoqInv, QuotesOK, DealsInv
    <3>3. /\ \A w \in Versions : w # v => quotes'[w] = quotes[w]
          /\ Len(quotes'[v]) = Len(quotes[v]) + 1
          /\ \A n \in DOMAIN quotes'[v] :
                quotes'[v][n] = q \/ (n \in DOMAIN quotes[v] /\ quotes'[v][n] = quotes[v][n])
      BY <3>1, <3>2
    <3>4. Len(quotes[v]) \in Nat /\ Len(quotes[v]) <= MaxQuotes
      BY <3>2
    <3>5. \A w \in Versions : Len(quotes'[w]) <= MaxQuotes
      BY <3>1, <3>2, <3>3, <3>4, QuotationsAssumption
    <3> QED
      BY <3>1, <3>3, <3>5 DEF Accepted, StatusOf, Quotes
  <2>3. CASE SupersedeQuotation(p) /\ ~UNCHANGED quotes
    <3>1. PICK q : q = <<Of(p), req[p].got.at>>
      OBVIOUS
    <3>2. /\ SetQuotation(q, "superseded") /\ q[1] \in Versions /\ q[2] \in DOMAIN quotes[q[1]]
          /\ "superseded" \in QuotationStatuses
      BY <2>3, <3>1
         DEF SupersedeQuotation, BoqInv, QuotesOK, RequestSound, At, Free, QuotationStatuses
    <3> QED
      BY <3>2, StatusWritten, AcceptedByWrite DEF DealsInv
  <2> QED
    BY <2>1, <2>2, <2>3 DEF GenerateQuotation, ReadPrior, AutoGenerateQuotation, Generated, quotations
<1>4. invoices' \in [Quotes -> {0, 1}] /\ ewos' \in [Quotes -> {0, 1}]
  BY <1>1 DEF DealsInv
<1> QED
  BY <1>1, <1>2, <1>3, <1>4, DealMoves DEF boqs

\* An acceptance, once written, goes on to the quotation's invoice.
LEMMA AnswersKeepDeals ==
    ASSUME BoqInv, DealsInv, NEW p \in Procs, WriteSettled(p) \/ WriteAccepted(p)
    PROVE  DealsInv'
<1>1. PICK q \in Quotes : q = req[p].on /\ q[1] \in Versions /\ q[2] \in DOMAIN quotes[q[1]]
  BY DEF WriteSettled, WriteAccepted, BoqInv, QuotesOK, At, Quotes
<1>2. PICK s \in QuotationStatuses :
        /\ SetQuotation(q, s) /\ UNCHANGED <<boqs, invoices, ewos>>
        /\ req[p].at \in {"settle", "accept"}
        /\ \/ s # "accepted" /\ Return(p)
           \/ s = "accepted" /\ Goto(p, "invoice") /\ req[p].arg = "hook"
  BY <1>1 DEF WriteSettled, WriteAccepted, BoqInv, QuotesOK, QuotationStatuses, At, DealsInv,
     AnswerSound
<1>3. /\ OthersStay(p)
      /\ \/ s # "accepted" /\ req'[p].at = "idle"
         \/ s = "accepted" /\ req'[p].at = "invoice" /\ req'[p].on = q /\ req'[p].arg = "hook"
  BY <1>1, <1>2, ReturnMoves, GotoMoves DEF BoqInv
<1>4. AnswerSound(p)'
  BY <1>3 DEF AnswerSound, Hooks
<1>5. \A r : ~Bills(p, r) /\ ~Orders(p, r)
  BY <1>2 DEF Bills, Orders, At
<1>6. \A v \in Versions : Len(quotes'[v]) <= MaxQuotes
  BY <1>1, <1>2, StatusWritten DEF DealsInv
<1>7. ASSUME NEW r \in Quotes, Accepted(r)'
      PROVE  Accepted(r) \/ (Bills(p, r)' /\ Orders(p, r)')
  <2>1. IF r[1] = q[1] /\ r[2] = q[2] THEN s = "accepted" ELSE Accepted(r)
    BY <1>1, <1>2, <1>7, AcceptedByWrite
  <2>2. r[1] = q[1] /\ r[2] = q[2] => r = q
    BY DEF Quotes
  <2>3. s = "accepted" => Bills(p, q)' /\ Orders(p, q)'
    BY <1>3 DEF Bills, Orders, At
  <2> QED
    BY <2>1, <2>2, <2>3
<1> QED
  BY <1>2, <1>3, <1>4, <1>5, <1>6, <1>7, DealMoves DEF DealsInv, boqs

LEMMA InsertsOnce ==
    ASSUME NEW rows \in [Quotes -> {0, 1}], NEW q \in Quotes
    PROVE  /\ InsertOnce(rows, q) \in [Quotes -> {0, 1}]
           /\ InsertOnce(rows, q)[q] = 1
           /\ \A r \in Quotes : rows[r] = 1 => InsertOnce(rows, q)[r] = 1
BY DEF InsertOnce

\* What follows an acceptance, or repeats it.
LEMMA HooksKeepDeals ==
    ASSUME BoqInv, DealsInv, NEW p \in Procs,
           CheckInvoice(p) \/ CreateInvoice(p) \/ CheckEWO(p) \/ InsertEWO(p)
    PROVE  DealsInv'
<1>1. PICK q \in Quotes : q = req[p].on
  BY DEF CheckInvoice, CreateInvoice, CheckEWO, InsertEWO, At, DealsInv, AnswerSound, Hooks
<1>2. /\ UNCHANGED <<boqs, quotes>> /\ req[p].at \in Hooks
      /\ Return(p) \/ \E s \in Hooks : Goto(p, s)
  BY DEF CheckInvoice, CreateInvoice, CheckEWO, InsertEWO, AfterInvoice, quotations, At, Hooks
<1>3. /\ OthersStay(p)
      /\ \/ req'[p].at = "idle" /\ Return(p)
         \/ req'[p].at \in Hooks /\ req'[p].on = q /\ req'[p].arg = req[p].arg
  BY <1>1, <1>2, ReturnMoves, GotoMoves DEF BoqInv
<1>4. AnswerSound(p)'
  BY <1>3 DEF AnswerSound, Hooks
<1>5. /\ invoices' \in [Quotes -> {0, 1}] /\ ewos' \in [Quotes -> {0, 1}]
      /\ \A r \in Quotes : /\ invoices[r] = 1 => invoices'[r] = 1
                           /\ ewos[r] = 1 => ewos'[r] = 1
  BY <1>1, InsertsOnce
     DEF CheckInvoice, CreateInvoice, CheckEWO, InsertEWO, quotations, DealsInv
<1>6. \A r : Accepted(r)' <=> Accepted(r)
  BY <1>2 DEF Accepted, StatusOf
<1>7. \A r : (Bills(p, r) => r = q) /\ (Orders(p, r) => r = q)
  BY <1>1 DEF Bills, Orders
<1>8. Accepted(q) /\ Bills(p, q) => invoices'[q] = 1 \/ Bills(p, q)'
  <2>1. CASE CheckInvoice(p)
    <3>1. CASE Goto(p, "insertInvoice")
      BY <1>1, <3>1, GotoMoves DEF Bills, At, BoqInv
    <3>2. CASE ~(invoices[q] = 0 /\ Accepted(q))
      BY <1>1, <1>5, <3>2 DEF DealsInv
    <3> QED
      BY <1>1, <2>1, <3>1, <3>2 DEF CheckInvoice
  <2>2. CASE CreateInvoice(p)
    BY <1>1, <2>2, InsertsOnce DEF CreateInvoice, DealsInv
  <2>3. CASE CheckEWO(p) \/ InsertEWO(p)
    BY <2>3 DEF CheckEWO, InsertEWO, Bills, At
  <2> QED
    BY <2>1, <2>2, <2>3
<1>9. Accepted(q) /\ Orders(p, q) => ewos'[q] = 1 \/ Orders(p, q)'
  <2>1. CASE CheckInvoice(p) \/ CreateInvoice(p)
    <3>1. Orders(p, q) => /\ req[p].arg = "hook" /\ req[p].on = q
                          /\ \E s \in {"insertInvoice", "ewo"} : Goto(p, s)
      BY <2>1 DEF CheckInvoice, CreateInvoice, Orders, At, AfterInvoice
    <3> QED
      BY <3>1, GotoMoves DEF BoqInv, Orders
  <2>2. CASE CheckEWO(p)
    <3>1. CASE Goto(p, "insertEWO")
      BY <1>1, <3>1, GotoMoves DEF Orders, BoqInv
    <3>2. CASE ~(ewos[q] = 0 /\ Accepted(q))
      BY <1>1, <1>5, <3>2 DEF DealsInv
    <3> QED
      BY <1>1, <2>2, <3>1, <3>2 DEF CheckEWO
  <2>3. CASE InsertEWO(p)
    BY <1>1, <2>3, InsertsOnce DEF InsertEWO, DealsInv
  <2> QED
    BY <2>1, <2>2, <2>3
<1>10. \A v \in Versions : Len(quotes'[v]) <= MaxQuotes
  BY <1>2 DEF DealsInv
<1> QED
  BY <1>2, <1>3, <1>4, <1>5, <1>6, <1>7, <1>8, <1>9, <1>10, DealMoves DEF boqs

LEMMA DealsInvInit ==
    ASSUME Init
    PROVE  DealsInv
<1> USE DEF Init, BoqInit, QuotationsInit
<1>1. \A p \in Procs : AnswerSound(p)
  BY DEF AnswerSound, Idle, Hooks
<1>2. \A q \in Quotes : ~Accepted(q)
  BY DEF Accepted, Quotes
<1>3. invoices \in [Quotes -> {0, 1}] /\ ewos \in [Quotes -> {0, 1}]
  OBVIOUS
<1>4. \A v \in Versions : Len(quotes[v]) <= MaxQuotes
  BY QuotationsAssumption
<1> QED
  BY <1>1, <1>2, <1>3, <1>4 DEF DealsInv

LEMMA DealsInvStep ==
    ASSUME BoqInv, DealsInv, [Next /\ OneRequestPerCopy']_vars
    PROVE  DealsInv'
<1>1. CASE (BoqNext \/ EditQuoted) /\ UNCHANGED quotations
  BY <1>1, BoqIsAside, AsideKeepsDeals DEF Aside, Answering
<1>2. CASE QuotationsNext
  BY <1>2, GenerationsKeepDeals, AnswersAreBegun, AnswersKeepDeals, HooksKeepDeals DEF QuotationsNext
<1>3. CASE IntercompanyNext /\ UNCHANGED <<boqs, quotations>>
  BY <1>3, OrdersAreAside, AsideKeepsDeals DEF boqs
<1>4. ASSUME NEW p \in Procs, RecognizeOnApproval(p), UNCHANGED <<boqs, quotations>>
      PROVE  DealsInv'
  <2>1. ReqOK' /\ OthersStay(p) /\ req'[p].at = "idle" /\ req[p].at = "recognise"
    BY <1>4, ReturnMoves DEF RecognizeOnApproval, BoqInv, At
  <2>2. Aside(Answering)
    BY <2>1 DEF Aside, Answering, Hooks
  <2> QED
    BY <1>4, <2>2, AsideKeepsDeals DEF boqs
<1>5. ASSUME NEW p \in Procs, AbandonBoq(p), UNCHANGED quotations
      PROVE  DealsInv'
  BY <1>5, DeathKeepsDeals
<1>6. CASE UNCHANGED vars
  <2>1. Aside(Answering) /\ UNCHANGED <<quotations, boqs>>
    BY <1>6 DEF Aside, vars
  <2> QED
    BY <2>1, AsideKeepsDeals DEF boqs
<1> QED
  BY <1>1, <1>2, <1>3, <1>4, <1>5, <1>6 DEF Next

LEMMA SpecDealsInv == Spec => [](BoqInv /\ DealsInv)
<1>1. Init => BoqInv /\ DealsInv
  BY BoqInvInit, DealsInvInit
<1>2. BoqInv /\ DealsInv /\ [Next /\ OneRequestPerCopy']_vars => (BoqInv /\ DealsInv)'
  BY BoqInvStep, DealsInvStep
<1> QED
  BY <1>1, <1>2, PTL DEF Spec

\* A quotation that stands accepted has its invoice and its work order once
\* everyone is done, and never two.
THEOREM AcceptedIsBilledOnceAlways == Spec => []AcceptedIsBilledOnce
<1>1. BoqInv /\ DealsInv => AcceptedIsBilledOnce
  <2> SUFFICES ASSUME BoqInv, DealsInv, NEW v \in Versions, NEW n \in DOMAIN quotes[v],
                      NEW q, q = <<v, n>>
               PROVE  /\ invoices[q] <= 1 /\ ewos[q] <= 1
                      /\ Settled /\ Accepted(q) => invoices[q] = 1 /\ ewos[q] = 1
    BY DEF AcceptedIsBilledOnce
  <2>1. quotes[v] \in Seq(Quotation) /\ Len(quotes[v]) <= MaxQuotes
    BY DEF BoqInv, QuotesOK, DealsInv
  <2>2. n \in 1 .. MaxQuotes
    BY <2>1, QuotationsAssumption
  <2>3. q \in Quotes
    BY <2>2 DEF Quotes, Numbers
  <2>4. invoices[q] \in {0, 1} /\ ewos[q] \in {0, 1}
    BY <2>3 DEF DealsInv
  <2>5. ASSUME Settled, Accepted(q)
        PROVE  invoices[q] = 1 /\ ewos[q] = 1
    <3>1. \A p \in Procs : ~Bills(p, q) /\ ~Orders(p, q)
      BY <2>5 DEF Settled, Free, Bills, Orders, At
    <3> QED
      BY <2>3, <2>5, <3>1 DEF Settled, DealsInv, Billed, Worked
  <2> QED
    BY <2>4, <2>5
<1> QED
  BY <1>1, SpecDealsInv, PTL

-----------------------------------------------------------------------------
(* Orders                                                                  *)

Split == {"split", "autoIssue", "autoAccept", "autoRecognise"}
Spawn == {"recogniseICPO", "spawn", "insertY"}

\* A request that will draft an IC-PO, or spawn its work order.
Drafts(p, o) == req[p].at \in Split /\ Of(p) = o[1] /\ o[2] \in req[p].got
Spawns(p, o) == req[p].at \in Spawn /\ req[p].on = o

\* What a request read of an order, and still relies on.
OrderingSound(p) ==
  LET v == Of(p)
      at == req[p].at
      o == req[p].on
      auto == req[p].arg
  IN
    /\ at \in {"po"} \cup Split => v \in Versions /\ o = <<v>>
    /\ at = "po" => customerPO[v] # "accepted" /\ auto \in CustomerPOStatuses
    /\ at \in Split =>
        /\ customerPO[v] = "accepted" /\ req[p].got \subseteq Providers
        /\ \A s \in req[p].got : icpo[<<v, s>>] = "absent"
    /\ at \in Split \ {"split"} =>
        \E s \in AutoAccept \ req[p].got : auto = <<v, s>> /\ icpo[<<v, s>>] # "absent"
    /\ at \in {"autoIssue", "autoAccept"} => icpo[auto] # "accepted"
    /\ at = "autoRecognise" => icpo[auto] = "accepted"
    /\ at \in {"icpo"} \cup Spawn => o \in ICPOs
    /\ at = "icpo" => icpo[o] \notin {"absent", "accepted"} /\ auto \in ICPOStatuses
    /\ at \in Spawn => icpo[o] = "accepted"
    /\ at = "insertY" => ewoY[o] = 0

OrderSound(o) ==
    /\ icpo[o] # "absent" => customerPO[o[1]] = "accepted"
    /\ ewoY[o] \in {0, 1}
    /\ ewoY[o] = 1 \/ ledger[o] = "ic_po_accept" => icpo[o] = "accepted"
    /\ deaths = <<>> =>
        /\ customerPO[o[1]] = "accepted" => icpo[o] # "absent" \/ \E p \in Procs : Drafts(p, o)
        /\ icpo[o] = "accepted" /\ o[2] \notin AutoAccept =>
              ewoY[o] = 1 \/ \E p \in Procs : Spawns(p, o)

OrdersInv ==
    /\ IntercompanyTypeOK
    /\ \A p \in Procs : OrderingSound(p)
    /\ \A o \in ICPOs : OrderSound(o)

LEMMA OrderParts ==
    /\ \A o \in ICPOs : o = <<o[1], o[2]>> /\ o[1] \in Versions /\ o[2] \in Providers
    /\ \A v \in Versions, s \in Providers :
        <<v, s>> \in ICPOs /\ <<v, s>>[1] = v /\ <<v, s>>[2] = s
BY DEF ICPOs

\* Statements that are not about an order.
LEMMA AsideKeepsOrders ==
    ASSUME OrdersInv, Aside(Ordering), UNCHANGED <<customerPO, icpo, ewoY>>,
           ledger' \in [ICPOs -> {"none", "boq_approval", "ic_po_accept"}],
           \A o \in ICPOs : ledger'[o] = "ic_po_accept" => ledger[o] = "ic_po_accept",
           deaths' = <<>> => deaths = <<>>
    PROVE  OrdersInv'
<1>1. IntercompanyTypeOK'
  BY DEF OrdersInv, IntercompanyTypeOK
<1>2. \A p \in Procs : req'[p] = req[p] \/ (req'[p].at \notin Ordering /\ req[p].at \notin Ordering)
  BY DEF Aside, OthersStay
<1>3. ASSUME NEW p \in Procs
      PROVE  OrderingSound(p)'
  <2>1. CASE req'[p] = req[p]
    BY <2>1 DEF OrdersInv, OrderingSound, Of
  <2>2. CASE req'[p].at \notin Ordering
    BY <2>2 DEF OrderingSound, Ordering, Split, Spawn
  <2> QED
    BY <1>2, <2>1, <2>2
<1>4. \A p \in Procs : \A o : (Drafts(p, o) => Drafts(p, o)') /\ (Spawns(p, o) => Spawns(p, o)')
  BY <1>2 DEF Drafts, Spawns, Split, Spawn, Ordering, Of
<1>5. \A o \in ICPOs : OrderSound(o)'
  BY <1>4 DEF OrdersInv, OrderSound
<1> QED
  BY <1>1, <1>3, <1>5 DEF OrdersInv

\* A request begins on an order that it read.
LEMMA OrderingBegins ==
    ASSUME OrdersInv, NEW p \in Procs, OthersStay(p), Free(p), UNCHANGED <<intercompany, deaths>>,
           OrderingSound(p)'
    PROVE  OrdersInv'
<1> USE DEF intercompany
<1>1. IntercompanyTypeOK'
  BY DEF OrdersInv, IntercompanyTypeOK
<1>2. ASSUME NEW q \in Procs, q # p
      PROVE  OrderingSound(q)'
  <2>1. req'[q] = req[q] /\ OrderingSound(q)
    BY <1>2 DEF OrdersInv, OthersStay
  <2> QED
    BY <2>1 DEF OrderingSound, Of
<1>3. \A q \in Procs : \A o : (Drafts(q, o) => Drafts(q, o)') /\ (Spawns(q, o) => Spawns(q, o)')
  BY DEF Drafts, Spawns, Split, Spawn, Of, OthersStay, Free
<1>4. \A o \in ICPOs : OrderSound(o)'
  BY <1>3 DEF OrdersInv, OrderSound
<1> QED
  BY <1>1, <1>2, <1>4 DEF OrdersInv

\* A statement of a request that is about an order: it writes of its version
\* alone, which no other request is ordering for.
LEMMA OrderMoves ==
    ASSUME BoqInv, OrdersInv, NEW p \in Procs, OthersStay(p), req[p].at \in Ordering,
           NEW v \in Versions, v = Of(p), UNCHANGED deaths, IntercompanyTypeOK',
           \A w \in Versions \ {v} : customerPO'[w] = customerPO[w],
           \A o \in ICPOs : o[1] # v =>
                icpo'[o] = icpo[o] /\ ewoY'[o] = ewoY[o] /\ ledger'[o] = ledger[o],
           OrderingSound(p)',
           \A o \in ICPOs : o[1] = v => OrderSound(o)'
    PROVE  OrdersInv'
<1>1. ASSUME NEW q \in Procs, q # p
      PROVE  OrderingSound(q)'
  <2>1. req'[q] = req[q] /\ OrderingSound(q)
    BY <1>1 DEF OthersStay, OrdersInv
  <2>2. CASE req[q].at \notin Ordering
    BY <2>1, <2>2 DEF OrderingSound, Ordering, Split, Spawn
  <2>3. CASE req[q].at \in Ordering
    <3>1. Of(q) # v
      BY <1>1, <2>3 DEF BoqInv, OneRequestPerCopy, Clash, Free, Ordering
    <3>2. CASE req[q].at \in {"po"} \cup Split
      <4>1. \A s \in Providers : icpo'[<<Of(q), s>>] = icpo[<<Of(q), s>>]
        BY <2>1, <3>1, <3>2, OrderParts DEF OrderingSound
      <4>2. Of(q)' = Of(q) /\ customerPO'[Of(q)] = customerPO[Of(q)]
        BY <2>1, <3>1, <3>2 DEF OrderingSound, Of
      <4>3. AutoAccept \subseteq Providers
        BY IntercompanyAssumption
      <4>4. CASE req[q].at = "po"
        BY <2>1, <4>2, <4>4 DEF OrderingSound, Split, Spawn
      <4>5. CASE req[q].at = "split"
        BY <2>1, <4>1, <4>2, <4>5 DEF OrderingSound, Split, Spawn
      <4>6. CASE req[q].at \in Split \ {"split"}
        <5>1. PICK s \in AutoAccept \ req[q].got :
                 req[q].arg = <<Of(q), s>> /\ icpo[<<Of(q), s>>] # "absent"
          BY <2>1, <4>6 DEF OrderingSound
        <5>2. /\ icpo'[req[q].arg] = icpo[req[q].arg]
              /\ req'[q].arg = <<Of(q)', s>> /\ icpo'[<<Of(q)', s>>] # "absent"
          BY <2>1, <4>1, <4>2, <4>3, <5>1
        <5> QED
          BY <2>1, <4>1, <4>2, <4>6, <5>1, <5>2 DEF OrderingSound, Split, Spawn
      <4> QED
        BY <3>2, <4>4, <4>5, <4>6
    <3>3. CASE req[q].at \in {"icpo"} \cup Spawn
      BY <2>1, <3>1, <3>3 DEF OrderingSound, Of, Split, Spawn
    <3> QED
      BY <2>3, <3>2, <3>3 DEF Ordering, Split, Spawn
  <2> QED
    BY <2>2, <2>3
<1>2. ASSUME NEW o \in ICPOs, o[1] # v
      PROVE  OrderSound(o)'
  <2>1. \A q \in Procs : (Drafts(q, o) => Drafts(q, o)') /\ (Spawns(q, o) => Spawns(q, o)')
    BY <1>2 DEF Drafts, Spawns, Of, OthersStay
  <2> QED
    BY <1>2, <2>1, OrderParts DEF OrdersInv, OrderSound
<1> QED
  BY <1>1, <1>2 DEF OrdersInv

LEMMA OrdersAreBegun ==
    ASSUME BoqInv, OrdersInv, UNCHANGED boqs, NEW p \in Procs,
           \/ \E v \in Versions :
              \/ UploadCustomerPO(p, v) \/ ValidateCustomerPO(p, v)
              \/ AcceptCustomerPO(p, v)
              \/ RejectCustomerPO(p, v) \/ CancelCustomerPO(p, v)
           \/ \E o \in ICPOs :
              \/ IssueIntercompanyPO(p, o) \/ AcceptIntercompanyPO(p, o)
              \/ RejectIntercompanyPO(p, o) \/ CancelIntercompanyPO(p, o)
    PROVE  OrdersInv'
<1>1. ASSUME NEW v \in Versions, NEW x \in CustomerPOStatuses, customerPO[v] # "accepted",
             Begin(p, "po", <<v>>, x), UNCHANGED intercompany
      PROVE  OrdersInv'
  <2>1. /\ OthersStay(p) /\ Free(p) /\ req'[p].at = "po" /\ req'[p].on = <<v>>
        /\ req'[p].arg = x
    BY <1>1, BeginMoves DEF BoqInv, Begin
  <2>2. OrderingSound(p)'
    BY <1>1, <2>1 DEF OrderingSound, Of, Split, Spawn, intercompany
  <2> QED
    BY <1>1, <2>1, <2>2, OrderingBegins DEF boqs
<1>2. ASSUME NEW o \in ICPOs, NEW x \in ICPOStatuses, icpo[o] \notin {"absent", "accepted"},
             Begin(p, "icpo", o, x), UNCHANGED intercompany
      PROVE  OrdersInv'
  <2>1. /\ OthersStay(p) /\ Free(p) /\ req'[p].at = "icpo" /\ req'[p].on = o
        /\ req'[p].arg = x
    BY <1>2, BeginMoves DEF BoqInv, Begin
  <2>2. OrderingSound(p)'
    BY <1>2, <2>1 DEF OrderingSound, Of, Split, Spawn, intercompany
  <2> QED
    BY <1>2, <2>1, <2>2, OrderingBegins DEF boqs
<1>3. ASSUME NEW v \in Versions,
             \/ UploadCustomerPO(p, v) \/ ValidateCustomerPO(p, v)
             \/ AcceptCustomerPO(p, v)
             \/ RejectCustomerPO(p, v) \/ CancelCustomerPO(p, v)
      PROVE  OrdersInv'
  <2>1. PICK x \in CustomerPOStatuses :
            /\ Begin(p, "po", <<v>>, x) /\ UNCHANGED intercompany
            /\ customerPO[v] # "accepted"
    BY <1>3 DEF UploadCustomerPO, ValidateCustomerPO, AcceptCustomerPO, RejectCustomerPO,
                CancelCustomerPO, MovePO, CustomerPOStatuses
  <2> QED
    BY <1>1, <2>1
<1>4. ASSUME NEW o \in ICPOs,
             \/ IssueIntercompanyPO(p, o) \/ AcceptIntercompanyPO(p, o)
             \/ RejectIntercompanyPO(p, o) \/ CancelIntercompanyPO(p, o)
      PROVE  OrdersInv'
  <2>1. PICK x \in ICPOStatuses :
            /\ Begin(p, "icpo", o, x) /\ UNCHANGED intercompany
            /\ icpo[o] \notin {"absent", "accepted"}
    BY <1>4 DEF IssueIntercompanyPO, AcceptIntercompanyPO, RejectIntercompanyPO,
                CancelIntercompanyPO, MoveICPO, ICPOStatuses
  <2> QED
    BY <1>2, <2>1
<1> QED
  BY <1>3, <1>4

\* The customer's order: once it is accepted every provider is to be drafted one.
LEMMA WritePOKeepsOrders ==
    ASSUME BoqInv, OrdersInv, UNCHANGED boqs, NEW p \in Procs, WritePO(p)
    PROVE  OrdersInv'
<1>1. PICK v \in Versions : v = Of(p)
  BY DEF WritePO, OrdersInv, OrderingSound, At
<1>2. /\ req[p].at = "po" /\ req[p].on = <<v>> /\ customerPO[v] # "accepted"
      /\ req[p].arg \in CustomerPOStatuses
      /\ customerPO' = [customerPO EXCEPT ![v] = req[p].arg]
      /\ UNCHANGED <<icpo, ewoY, ledger>>
  BY <1>1 DEF WritePO, OrdersInv, OrderingSound, At, Of
<1>3. /\ OthersStay(p)
      /\ \/ req'[p].at = "idle" /\ req[p].arg # "accepted"
         \/ /\ req'[p].at = "split" /\ req'[p].on = <<v>> /\ req'[p].got = Providers
            /\ req[p].arg = "accepted"
  BY <1>2, HoldMoves, ReturnMoves DEF BoqInv, WritePO
<1>4. IntercompanyTypeOK' /\ customerPO'[v] = req[p].arg
      /\ \A w \in Versions \ {v} : customerPO'[w] = customerPO[w]
  BY <1>2 DEF OrdersInv, IntercompanyTypeOK
<1>5. \A o \in ICPOs : o[1] = v => icpo[o] = "absent" /\ ewoY[o] = 0 /\ ledger[o] # "ic_po_accept"
  BY <1>2 DEF OrdersInv, OrderSound
<1>6. OrderingSound(p)'
  BY <1>2, <1>3, <1>4, <1>5, OrderParts DEF OrderingSound, Of, Split, Spawn
<1>7. ASSUME NEW o \in ICPOs, o[1] = v
      PROVE  OrderSound(o)'
  <2>1. icpo'[o] = "absent" /\ ewoY'[o] = 0 /\ ledger'[o] # "ic_po_accept"
    BY <1>2, <1>5, <1>7
  <2>2. customerPO'[v] = "accepted" => Drafts(p, o)'
    BY <1>1, <1>3, <1>4, <1>7, OrderParts DEF Drafts, Split, Of
  <2> QED
    BY <1>7, <2>1, <2>2 DEF OrderSound
<1> QED
  BY <1>1, <1>2, <1>3, <1>4, <1>6, <1>7, OrderMoves DEF Ordering, boqs

LEMMA DraftKeepsOrders ==
    ASSUME BoqInv, OrdersInv, UNCHANGED boqs, NEW p \in Procs, DraftICPO(p)
    PROVE  OrdersInv'
<1>1. PICK v \in Versions : v = Of(p)
  BY DEF DraftICPO, OrdersInv, OrderingSound, At, Split
<1>2. PICK s \in req[p].got :
        /\ icpo' = [icpo EXCEPT ![<<v, s>>] = "draft"]
        /\ req' = [req EXCEPT ![p] =
              [at |-> IF s \in AutoAccept THEN "autoIssue" ELSE "split",
               on |-> @.on, got |-> @.got \ {s}, arg |-> <<v, s>>]]
  BY <1>1 DEF DraftICPO
<1>3. PICK o \in ICPOs : o = <<v, s>>
  BY <1>2, OrderParts DEF DraftICPO, OrdersInv, OrderingSound, At, Split
<1>4. /\ req[p].at = "split" /\ req[p].on = <<v>> /\ customerPO[v] = "accepted"
      /\ req[p].got \subseteq Providers /\ \A t \in req[p].got : icpo[<<v, t>>] = "absent"
      /\ UNCHANGED <<customerPO, ewoY, ledger>>
  BY <1>1 DEF DraftICPO, OrdersInv, OrderingSound, At, Split
<1>5. /\ OthersStay(p) /\ req'[p].on = <<v>> /\ req'[p].got = req[p].got \ {s}
      /\ req'[p].arg = o
      /\ \/ req'[p].at = "split"
         \/ req'[p].at = "autoIssue" /\ s \in AutoAccept
  BY <1>2, <1>3, <1>4 DEF BoqInv, ReqOK, OthersStay
<1>6. /\ IntercompanyTypeOK' /\ icpo'[o] = "draft"
      /\ \A r \in ICPOs \ {o} : icpo'[r] = icpo[r]
  BY <1>2, <1>3, <1>4 DEF OrdersInv, IntercompanyTypeOK, ICPOStatuses
<1>7. OrderingSound(p)'
  <2>1. \A t \in req'[p].got : icpo'[<<v, t>>] = "absent"
    BY <1>3, <1>4, <1>5, <1>6, OrderParts
  <2>2. req'[p].at = "autoIssue" =>
          \E t \in AutoAccept \ req'[p].got : req'[p].arg = <<v, t>> /\ icpo'[<<v, t>>] # "absent"
    BY <1>3, <1>5, <1>6
  <2>3. Of(p)' = v
    BY <1>5 DEF Of
  <2> QED
    BY <1>4, <1>5, <1>6, <2>1, <2>2, <2>3 DEF OrderingSound, Split, Spawn
<1>8. icpo[o] = "absent"
  BY <1>2, <1>3, <1>4
<1>9. ASSUME NEW r \in ICPOs, r[1] = v
      PROVE  OrderSound(r)'
  <2>1. OrderSound(r) /\ customerPO'[r[1]] = "accepted"
    BY <1>4, <1>9 DEF OrdersInv
  <2>2. CASE r = o
    BY <1>4, <1>6, <1>8, <2>1, <2>2 DEF OrderSound
  <2>3. CASE r # o
    <3>1. \A q \in Procs : Drafts(q, r) => Drafts(q, r)'
      <4>1. Drafts(p, r) => Drafts(p, r)'
        <5>1. <<v>>[1] = v /\ Of(p)' = v
          BY <1>5 DEF Of
        <5>2. r[2] # s
          BY <1>3, <1>9, <2>3, OrderParts
        <5> QED
          BY <1>5, <1>9, <5>1, <5>2 DEF Drafts, Split
      <4>2. ASSUME NEW q \in Procs \ {p}
            PROVE  Drafts(q, r) => Drafts(q, r)'
        BY <1>5 DEF Drafts, OthersStay, Of
      <4> QED
        BY <4>1, <4>2
    <3>2. \A q \in Procs : Spawns(q, r) => Spawns(q, r)'
      BY <1>4, <1>5 DEF Spawns, Spawn, OthersStay
    <3> QED
      BY <1>4, <1>6, <2>1, <2>3, <3>1, <3>2 DEF OrderSound, boqs
  <2> QED
    BY <2>2, <2>3
<1> QED
  BY <1>1, <1>3, <1>4, <1>5, <1>6, <1>7, <1>9, OrderMoves, OrderParts DEF Ordering, boqs

\* One that the policy accepts: issued, accepted, recognised.
LEMMA AutoKeepsOrders ==
    ASSUME BoqInv, OrdersInv, UNCHANGED boqs, NEW p \in Procs,
           AutoIssue(p) \/ AutoAcceptICPO(p) \/ AutoRecognise(p) \/ AllDrafted(p)
    PROVE  OrdersInv'
<1>1. PICK v \in Versions : v = Of(p)
  BY DEF AutoIssue, AutoAcceptICPO, AutoRecognise, AllDrafted, OrdersInv, OrderingSound, At, Split
<1>2. /\ req[p].at \in Split /\ req[p].on = <<v>> /\ customerPO[v] = "accepted"
      /\ req[p].got \subseteq Providers /\ \A t \in req[p].got : icpo[<<v, t>>] = "absent"
      /\ UNCHANGED <<customerPO, ewoY>> /\ IntercompanyTypeOK
  BY <1>1 DEF AutoIssue, AutoAcceptICPO, AutoRecognise, AllDrafted, OrdersInv, OrderingSound,
              At, Split, intercompany
<1>3. CASE AllDrafted(p)
  <2>1. OthersStay(p) /\ req'[p].at = "idle" /\ req[p].got = {} /\ UNCHANGED intercompany
    BY <1>3, ReturnMoves DEF AllDrafted, BoqInv
  <2>2. OrderingSound(p)' /\ IntercompanyTypeOK'
    BY <1>2, <2>1 DEF OrderingSound, Split, Spawn, intercompany, IntercompanyTypeOK
  <2>3. \A q \in Procs, r \in ICPOs : /\ Drafts(q, r) => Drafts(q, r)'
                                      /\ Spawns(q, r) => Spawns(q, r)'
    BY <1>2, <2>1 DEF Drafts, Spawns, Spawn, Split, OthersStay, Of
  <2>4. \A r \in ICPOs : OrderSound(r)'
    BY <2>1, <2>3 DEF OrdersInv, OrderSound, intercompany, boqs
  <2> QED
    BY <1>1, <1>2, <2>1, <2>2, <2>4, OrderMoves DEF Ordering, Split, boqs, intercompany
<1>4. CASE AutoIssue(p) \/ AutoAcceptICPO(p) \/ AutoRecognise(p)
  <2>1. PICK s \in AutoAccept \ req[p].got : req[p].arg = <<v, s>> /\ icpo[<<v, s>>] # "absent"
    BY <1>1, <1>4 DEF AutoIssue, AutoAcceptICPO, AutoRecognise, OrdersInv, OrderingSound, At, Split
  <2>2. PICK o \in ICPOs : o = <<v, s>> /\ o[1] = v /\ o[2] = s
    BY IntercompanyAssumption, OrderParts
  <2>3. PICK next \in {"autoAccept", "autoRecognise", "split"} :
          /\ Goto(p, next)
          /\ \/ /\ next = "autoAccept" /\ icpo' = [icpo EXCEPT ![o] = "issued"]
                /\ icpo[o] # "accepted" /\ UNCHANGED ledger
             \/ /\ next = "autoRecognise" /\ icpo' = [icpo EXCEPT ![o] = "accepted"]
                /\ icpo[o] # "accepted" /\ UNCHANGED ledger
             \/ /\ next = "split" /\ icpo[o] = "accepted" /\ UNCHANGED icpo
                /\ Recognise({o}, "ic_po_accept") \/ UNCHANGED ledger
    BY <1>4, <2>1, <2>2
       DEF AutoIssue, AutoAcceptICPO, AutoRecognise, OrdersInv, OrderingSound, At
  <2>4. /\ OthersStay(p) /\ req'[p].at = next /\ req'[p].on = <<v>>
        /\ req'[p].got = req[p].got /\ req'[p].arg = o
    BY <1>2, <2>1, <2>2, <2>3, GotoMoves DEF BoqInv
  <2>5. /\ icpo' \in [ICPOs -> ICPOStatuses \cup {"absent"}]
        /\ \A r \in ICPOs \ {o} : icpo'[r] = icpo[r]
        /\ next = "autoAccept" => icpo'[o] = "issued"
        /\ next = "autoRecognise" => icpo'[o] = "accepted"
        /\ next = "split" => icpo'[o] = "accepted"
    BY <1>2, <2>3 DEF IntercompanyTypeOK, ICPOStatuses
  <2>6. /\ ledger' \in [ICPOs -> {"none", "boq_approval", "ic_po_accept"}]
        /\ \A r \in ICPOs \ {o} : ledger'[r] = ledger[r]
        /\ next # "split" => ledger'[o] = ledger[o]
    BY <1>2, <2>3 DEF IntercompanyTypeOK, Recognise
  <2>7. IntercompanyTypeOK'
    BY <1>2, <2>5, <2>6 DEF IntercompanyTypeOK
  <2>8. OrderingSound(p)'
    <3>1. \A t \in req'[p].got : icpo'[<<v, t>>] = "absent"
      BY <1>2, <2>1, <2>2, <2>4, <2>5, OrderParts
    <3>2. Of(p)' = v /\ next \in Split
      BY <2>4 DEF Of, Split
    <3>3. s \in AutoAccept \ req'[p].got /\ req'[p].arg = <<v, s>> /\ icpo'[<<v, s>>] # "absent"
      BY <2>1, <2>2, <2>4, <2>5
    <3> QED
      BY <1>2, <2>2, <2>4, <2>5, <3>1, <3>2, <3>3 DEF OrderingSound, Split, Spawn
  <2>9. ASSUME NEW r \in ICPOs, r[1] = v
        PROVE  OrderSound(r)'
    <3>1. OrderSound(r) /\ customerPO'[r[1]] = "accepted"
      BY <1>2, <2>9 DEF OrdersInv
    <3>2. \A q \in Procs : /\ Drafts(q, r) => Drafts(q, r)'
                           /\ Spawns(q, r) => Spawns(q, r)'
      BY <1>2, <2>4 DEF Drafts, Spawns, Split, Spawn, OthersStay, Of
    <3>3. CASE r = o
      BY <1>2, <2>2, <2>3, <2>5, <2>6, <3>1, <3>3 DEF OrderSound
    <3>4. CASE r # o
      BY <1>2, <2>5, <2>6, <3>1, <3>2, <3>4 DEF OrderSound, boqs
    <3> QED
      BY <3>3, <3>4
  <2> QED
    BY <1>1, <1>2, <2>2, <2>4, <2>5, <2>6, <2>7, <2>8, <2>9, OrderMoves DEF Ordering, Split, boqs
<1> QED
  BY <1>3, <1>4

\* An IC-PO that is accepted by hand goes on to the work order it spawns.
LEMMA WriteICPOKeepsOrders ==
    ASSUME BoqInv, OrdersInv, UNCHANGED boqs, NEW p \in Procs, WriteICPO(p)
    PROVE  OrdersInv'
<1>1. PICK o \in ICPOs : o = req[p].on
  BY DEF WriteICPO, OrdersInv, OrderingSound, At
<1>2. PICK v \in Versions : v = Of(p) /\ v = o[1]
  BY <1>1, OrderParts DEF Of
<1>3. /\ req[p].at = "icpo" /\ icpo[o] \notin {"absent", "accepted"}
      /\ req[p].arg \in ICPOStatuses /\ icpo' = [icpo EXCEPT ![o] = req[p].arg]
      /\ UNCHANGED <<customerPO, ewoY, ledger>>
  BY <1>1 DEF WriteICPO, OrdersInv, OrderingSound, At
<1>4. /\ OthersStay(p)
      /\ \/ req'[p].at = "idle" /\ req[p].arg # "accepted"
         \/ req'[p].at = "recogniseICPO" /\ req'[p].on = o /\ req[p].arg = "accepted"
  BY <1>1, <1>3, GotoMoves, ReturnMoves DEF BoqInv, WriteICPO
<1>5. /\ IntercompanyTypeOK' /\ icpo'[o] = req[p].arg /\ icpo'[o] # "absent"
      /\ \A r \in ICPOs \ {o} : icpo'[r] = icpo[r]
  BY <1>3 DEF OrdersInv, IntercompanyTypeOK, ICPOStatuses
<1>6. OrderingSound(p)'
  BY <1>4, <1>5 DEF OrderingSound, Split, Spawn
<1>7. ASSUME NEW r \in ICPOs, r[1] = v
      PROVE  OrderSound(r)'
  <2>1. OrderSound(r) /\ OrderSound(o)
    BY DEF OrdersInv
  <2>2. CASE r = o
    <3>1. icpo'[o] = "accepted" => Spawns(p, o)'
      BY <1>4, <1>5 DEF Spawns, Spawn
    <3> QED
      BY <1>3, <1>5, <2>1, <2>2, <3>1 DEF OrderSound, boqs
  <2>3. CASE r # o
    <3>1. \A q \in Procs : /\ Drafts(q, r) => Drafts(q, r)'
                           /\ Spawns(q, r) => Spawns(q, r)'
      BY <1>3, <1>4 DEF Drafts, Spawns, Split, Spawn, OthersStay, Of
    <3> QED
      BY <1>3, <1>5, <2>1, <2>3, <3>1 DEF OrderSound, boqs
  <2> QED
    BY <2>2, <2>3
<1> QED
  BY <1>2, <1>3, <1>4, <1>5, <1>6, <1>7, OrderMoves DEF Ordering, boqs

LEMMA SpawnKeepsOrders ==
    ASSUME BoqInv, OrdersInv, UNCHANGED boqs, NEW p \in Procs,
           RecognizeOnICPOAccept(p) \/ FindEWOY(p) \/ AutoSpawnEWOY(p)
    PROVE  OrdersInv'
<1>1. req[p].at \in Spawn
  BY DEF RecognizeOnICPOAccept, FindEWOY, AutoSpawnEWOY, At, Spawn
<1>2. PICK o \in ICPOs : o = req[p].on
  BY <1>1 DEF OrdersInv, OrderingSound
<1>3. PICK v \in Versions : v = Of(p) /\ v = o[1]
  BY <1>2, OrderParts DEF Of
<1>4. /\ icpo[o] = "accepted" /\ UNCHANGED <<customerPO, icpo>> /\ IntercompanyTypeOK
      /\ ewoY[o] \in {0, 1}
  BY <1>1, <1>2
     DEF RecognizeOnICPOAccept, FindEWOY, AutoSpawnEWOY, OrdersInv, OrderingSound, OrderSound,
         intercompany
<1>5. /\ OthersStay(p)
      /\ \/ /\ req'[p].at \in {"spawn", "insertY"} /\ req'[p].on = o /\ UNCHANGED ewoY
            /\ req'[p].at = "insertY" => ewoY[o] = 0
         \/ /\ req'[p].at = "idle" /\ ewoY'[o] = 1
            /\ \A r \in ICPOs \ {o} : ewoY'[r] = ewoY[r]
  <2>1. CASE RecognizeOnICPOAccept(p)
    BY <1>2, <2>1, GotoMoves DEF RecognizeOnICPOAccept, BoqInv
  <2>2. CASE FindEWOY(p)
    BY <1>2, <1>4, <2>2, GotoMoves, ReturnMoves DEF FindEWOY, BoqInv, intercompany
  <2>3. CASE AutoSpawnEWOY(p)
    <3>1. ewoY[o] = 0 /\ ewoY \in [ICPOs -> Nat] /\ ewoY' = [ewoY EXCEPT ![o] = @ + 1]
      BY <1>2, <1>4, <2>3 DEF AutoSpawnEWOY, OrdersInv, OrderingSound, At, IntercompanyTypeOK
    <3>2. ewoY'[o] = 1 /\ \A r \in ICPOs \ {o} : ewoY'[r] = ewoY[r]
      BY <3>1
    <3> QED
      BY <2>3, <3>2, ReturnMoves DEF AutoSpawnEWOY, BoqInv
  <2> QED
    BY <2>1, <2>2, <2>3
<1>6. /\ ledger' \in [ICPOs -> {"none", "boq_approval", "ic_po_accept"}]
      /\ \A r \in ICPOs \ {o} : ledger'[r] = ledger[r]
  BY <1>2, <1>4
     DEF RecognizeOnICPOAccept, FindEWOY, AutoSpawnEWOY, Recognise, IntercompanyTypeOK, intercompany
<1>7. ewoY' \in [ICPOs -> Nat]
  BY <1>4 DEF RecognizeOnICPOAccept, FindEWOY, AutoSpawnEWOY, IntercompanyTypeOK, intercompany
<1>8. IntercompanyTypeOK'
  BY <1>4, <1>6, <1>7 DEF IntercompanyTypeOK
<1>9. OrderingSound(p)'
  BY <1>4, <1>5 DEF OrderingSound, Split, Spawn
<1>10. ASSUME NEW r \in ICPOs, r[1] = v
       PROVE  OrderSound(r)'
  <2>1. OrderSound(r) /\ OrderSound(o)
    BY DEF OrdersInv
  <2>2. CASE r = o
    <3>1. ewoY'[o] \in {0, 1} /\ (ewoY'[o] = 1 \/ Spawns(p, o)')
      BY <1>4, <1>5 DEF Spawns, Spawn
    <3> QED
      BY <1>4, <2>1, <2>2, <3>1 DEF OrderSound, boqs
  <2>3. CASE r # o
    <3>1. \A q \in Procs : /\ Drafts(q, r) => Drafts(q, r)'
                           /\ Spawns(q, r) => Spawns(q, r)'
      <4>1. ~Drafts(p, r) /\ ~Spawns(p, r)
        BY <1>1, <1>2, <2>3 DEF Drafts, Spawns, Split, Spawn
      <4> QED
        BY <1>5, <4>1 DEF Drafts, Spawns, OthersStay, Of
    <3>2. ewoY'[r] = ewoY[r]
      BY <1>5, <2>3
    <3> QED
      BY <1>4, <1>6, <2>1, <2>3, <3>1, <3>2 DEF OrderSound, boqs
  <2> QED
    BY <2>2, <2>3
<1> QED
  BY <1>1, <1>3, <1>4, <1>5, <1>6, <1>8, <1>9, <1>10, OrderMoves DEF Ordering, Spawn, boqs

LEMMA OrdersInvInit ==
    ASSUME Init
    PROVE  OrdersInv
<1> USE DEF Init, IntercompanyInit
<1>1. IntercompanyTypeOK
  BY DEF IntercompanyTypeOK
<1>2. \A p \in Procs : OrderingSound(p)
  BY DEF OrderingSound, Idle, Split, Spawn
<1>3. \A o \in ICPOs : OrderSound(o)
  BY OrderParts DEF OrderSound
<1> QED
  BY <1>1, <1>2, <1>3 DEF OrdersInv

LEMMA OrdersInvStep ==
    ASSUME BoqInv, OrdersInv, DealsInv, [Next /\ OneRequestPerCopy']_vars
    PROVE  OrdersInv'
<1> USE DEF intercompany
<1>1. CASE (BoqNext \/ EditQuoted) /\ UNCHANGED intercompany
  <2>1. Aside(Ordering) /\ UNCHANGED deaths
    BY <1>1, BoqIsAside DEF Aside
  <2> QED
    BY <1>1, <2>1, AsideKeepsOrders DEF OrdersInv, IntercompanyTypeOK
<1>2. CASE QuotationsNext /\ UNCHANGED intercompany
  <2>1. Aside(Ordering) /\ UNCHANGED deaths
    <3>1. PICK p \in Procs :
        \/ \/ \E v \in Versions : GenerateQuotation(p, v)
           \/ ReadPrior(p) \/ AutoGenerateQuotation(p)
           \/ CreateQuotation(p) \/ SupersedeQuotation(p) \/ Generated(p)
        \/ \E q \in Quotes :
            \/ RejectQuotation(p, q) \/ CancelQuotation(p, q) \/ ExpireQuotation(p, q)
            \/ AcceptQuotation(p, q) \/ IssueInvoice(p, q) \/ CreateEWO(p, q)
        \/ WriteSettled(p) \/ WriteAccepted(p)
        \/ CheckInvoice(p) \/ CreateInvoice(p) \/ CheckEWO(p) \/ InsertEWO(p)
      BY <1>2 DEF QuotationsNext
    <3>2. CASE \/ \E v \in Versions : GenerateQuotation(p, v)
               \/ ReadPrior(p) \/ AutoGenerateQuotation(p)
               \/ CreateQuotation(p) \/ SupersedeQuotation(p) \/ Generated(p)
      BY <3>2, GenerationIsAside DEF Aside, boqs
    <3>3. CASE \E q \in Quotes :
                \/ RejectQuotation(p, q) \/ CancelQuotation(p, q) \/ ExpireQuotation(p, q)
                \/ AcceptQuotation(p, q) \/ IssueInvoice(p, q) \/ CreateEWO(p, q)
      <4>1. PICK s, q, x : s \in Answering /\ Begin(p, s, q, x) /\ UNCHANGED boqs
        BY <3>3 DEF RejectQuotation, CancelQuotation, ExpireQuotation, Settle, AcceptQuotation,
           IssueInvoice, CreateEWO, Answering, Hooks
      <4>2. ReqOK' /\ OthersStay(p) /\ req[p].at = "idle" /\ req'[p].at = s
        BY <4>1, BeginMoves DEF BoqInv, Begin, Free
      <4> QED
        BY <4>1, <4>2 DEF Aside, Answering, Hooks, Ordering, boqs
    <3>4. CASE \/ WriteSettled(p) \/ WriteAccepted(p)
               \/ CheckInvoice(p) \/ CreateInvoice(p) \/ CheckEWO(p) \/ InsertEWO(p)
      <4>1. /\ UNCHANGED boqs /\ req[p].at \in Answering
            /\ Return(p) \/ \E s \in Hooks : Goto(p, s)
        BY <3>4 DEF WriteSettled, WriteAccepted, CheckInvoice, CreateInvoice, CheckEWO, InsertEWO,
           AfterInvoice, At, Answering, Hooks
      <4>2. ReqOK' /\ OthersStay(p) /\ req'[p].at \in {"idle"} \cup Hooks
        BY <4>1, ReturnMoves, GotoMoves DEF BoqInv
      <4> QED
        BY <4>1, <4>2 DEF Aside, Answering, Hooks, Ordering, boqs
    <3> QED
      BY <3>1, <3>2, <3>3, <3>4
  <2> QED
    BY <1>2, <2>1, AsideKeepsOrders DEF OrdersInv, IntercompanyTypeOK
<1>3. CASE IntercompanyNext /\ UNCHANGED boqs
  BY <1>3, OrdersAreBegun, WritePOKeepsOrders, DraftKeepsOrders, AutoKeepsOrders,
     WriteICPOKeepsOrders, SpawnKeepsOrders DEF IntercompanyNext
<1>4. ASSUME NEW p \in Procs, RecognizeOnApproval(p), UNCHANGED boqs
      PROVE  OrdersInv'
  <2>1. ReqOK' /\ OthersStay(p) /\ req'[p].at = "idle" /\ req[p].at = "recognise"
    BY <1>4, ReturnMoves DEF RecognizeOnApproval, BoqInv, At
  <2>2. Aside(Ordering)
    BY <2>1 DEF Aside, Ordering
  <2>3. /\ ledger' \in [ICPOs -> {"none", "boq_approval", "ic_po_accept"}]
        /\ \A o \in ICPOs : ledger'[o] = "ic_po_accept" => ledger[o] = "ic_po_accept"
    BY <1>4 DEF RecognizeOnApproval, Recognise, OrdersInv, IntercompanyTypeOK
  <2> QED
    BY <1>4, <2>2, <2>3, AsideKeepsOrders DEF boqs, RecognizeOnApproval
<1>5. ASSUME NEW p \in Procs, AbandonBoq(p), UNCHANGED intercompany
      PROVE  OrdersInv'
  <2>1. ReqOK' /\ OthersStay(p) /\ req'[p].at = "idle"
    BY <1>5, ReturnMoves DEF AbandonBoq, Abandon, BoqInv
  <2>2. deaths' # <<>>
    BY <1>5 DEF AbandonBoq, BoqInv, BoqTypeOK
  <2>3. \A q \in Procs : OrderingSound(q)'
    <3>1. OrderingSound(p)'
      BY <2>1 DEF OrderingSound, Split, Spawn
    <3>2. ASSUME NEW q \in Procs \ {p}
          PROVE  OrderingSound(q)'
      BY <1>5, <2>1 DEF OrdersInv, OrderingSound, OthersStay, Of
    <3> QED
      BY <3>1, <3>2
  <2>4. IntercompanyTypeOK'
    BY <1>5 DEF OrdersInv, IntercompanyTypeOK
  <2>5. \A o \in ICPOs : OrderSound(o)'
    BY <1>5, <2>2 DEF OrdersInv, OrderSound
  <2> QED
    BY <2>3, <2>4, <2>5 DEF OrdersInv
<1>6. CASE UNCHANGED vars
  <2>1. Aside(Ordering) /\ UNCHANGED <<intercompany, boqs>>
    BY <1>6 DEF Aside, vars
  <2> QED
    BY <2>1, AsideKeepsOrders DEF boqs, OrdersInv, IntercompanyTypeOK
<1> QED
  BY <1>1, <1>2, <1>3, <1>4, <1>5, <1>6 DEF Next

LEMMA SpecOrdersInv == Spec => []OrdersInv
<1>1. Init => BoqInv /\ DealsInv /\ OrdersInv
  BY BoqInvInit, DealsInvInit, OrdersInvInit
<1>2. BoqInv /\ DealsInv /\ OrdersInv /\ [Next /\ OneRequestPerCopy']_vars
        => (BoqInv /\ DealsInv /\ OrdersInv)'
  BY BoqInvStep, DealsInvStep, OrdersInvStep
<1> QED
  BY <1>1, <1>2, PTL DEF Spec

\* Work and revenue between subsidiaries follow orders.
THEOREM WorkIsOrderedAlways == Spec => []WorkIsOrdered
<1>1. OrdersInv => WorkIsOrdered
  <2> SUFFICES ASSUME OrdersInv, NEW o \in ICPOs
               PROVE  /\ icpo[o] # "absent" => customerPO[o[1]] = "accepted"
                      /\ ewoY[o] <= 1
                      /\ ewoY[o] = 1 \/ ledger[o] = "ic_po_accept" => icpo[o] = "accepted"
                      /\ Settled /\ customerPO[o[1]] = "accepted" => icpo[o] # "absent"
                      /\ Settled /\ icpo[o] = "accepted" /\ o[2] \notin AutoAccept
                            => ewoY[o] = 1
    BY DEF WorkIsOrdered
  <2>1. OrderSound(o)
    BY DEF OrdersInv
  <2>2. Settled => deaths = <<>> /\ \A p \in Procs : ~Drafts(p, o) /\ ~Spawns(p, o)
    BY DEF Settled, Free, Drafts, Spawns, Split, Spawn
  <2>3. ewoY[o] <= 1
    BY <2>1 DEF OrderSound
  <2> QED
    BY <2>1, <2>2, <2>3 DEF OrderSound
<1> QED
  BY <1>1, SpecOrdersInv, PTL

\* Headers, lines, chains and orders keep to the values their columns may hold.
THEOREM TypeCorrect == Spec => [](BoqTypeOK /\ IntercompanyTypeOK)
<1>1. BoqInv => BoqTypeOK
  BY DEF BoqInv
<1>2. OrdersInv => IntercompanyTypeOK
  BY DEF OrdersInv
<1> QED
  BY <1>1, <1>2, SpecBoqInv, SpecOrdersInv, PTL

=============================================================================
