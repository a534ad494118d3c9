-------------------------- MODULE Operations_proofs --------------------------
(***************************************************************************)
(* What the two systems built on Requests promise: Fulfilment, for any     *)
(* number of leads, customers, WOs, BASTs and concurrent requests, and     *)
(* Warehouse, for any number of orders, lots, dispatches and requests.     *)
(***************************************************************************)
EXTENDS Fulfilment, Warehouse, Sums

-----------------------------------------------------------------------------
(***************************************************************************)
(* Fulfilment.  The argument follows what a request holds                  *)
(* between two of its statements: rows it has seen are still there, an     *)
(* approval it acts on was recorded, and nobody takes either away.         *)
(***************************************************************************)

Opened == {w \in WOs : wo[w] # None}
Submitted == {b \in Basts : bast[b] # None}

\* The BASTs whose WO has been approved, and those of installations.
Approved == {b \in Submitted : bast[b].on \in signed}
Installs == {b \in Submitted : wo[bast[b].on].type = "install"}

\* What a request r holds at each of its statements.
RequestOK(r, opened, submitted, approved, installs) ==
    \/ r = Idle
    \/ r.at = "writeLead" /\ r.on \in Leads /\ r.arg \in LeadStatuses
    \/ r.at = "createCustomer" /\ r.on \in Leads /\ r.arg \in OTCTypes
    \/ /\ r.at \in {"createOrder", "markConverted", "createOTC"}
       /\ r.on \in Leads /\ r.arg \in OTCTypes /\ r.got \in Customers
    \/ r.at = "writeWO" /\ r.on \in opened /\ r.arg \in WOStatuses
    \/ r.at \in {"createBAST", "awaitNOC"} /\ r.on \in opened
    \/ r.at = "paymentGate" /\ r.on \in submitted /\ r.arg = "approved"
    \/ r.at = "markVerified" /\ r.on \in submitted /\ r.arg \in {"approved", "rejected"}
    \/ r.at = "driveWO" /\ r.on \in submitted /\ r.arg = "rejected"
    \/ r.at = "driveWO" /\ r.on \in approved /\ r.arg = "approved"
    \/ r.at \in {"provision", "promote", "setActive"} /\ r.on \in approved \cap installs
    \/ r.at \in {"completeRequest", "terminate", "deactivate"} /\ r.on \in approved

RequestsOK ==
    \A p \in Procs : RequestOK(req[p], Opened, Submitted, Approved, Installs)

\* Rows refer to rows that exist.
RowsLinked ==
    /\ \A b \in Submitted : bast[b].on \in Opened
    /\ signed \subseteq Opened
    /\ \A w \in WOs : request[w] \in RequestStatuses => w \in Opened

IInv == TypeOK /\ RequestsOK /\ RowsLinked

\* No step removes a row, an approval, or what they were opened for.
RowsStay ==
    /\ \A w \in Opened : w \in Opened' /\ wo'[w].type = wo[w].type /\ wo'[w].of = wo[w].of
    /\ \A b \in Submitted : b \in Submitted' /\ bast'[b].on = bast[b].on
    /\ signed \subseteq signed'

\* What a request holds stays true as rows are added.
LEMMA RequestStays ==
    ASSUME NEW r, NEW o1, NEW o2, NEW s1, NEW s2, NEW a1, NEW a2, NEW i1, NEW i2,
           o1 \subseteq o2, s1 \subseteq s2, a1 \subseteq a2, i1 \subseteq i2,
           RequestOK(r, o1, s1, a1, i1)
    PROVE  RequestOK(r, o2, s2, a2, i2)
BY DEF RequestOK

LEMMA SetsGrow ==
    ASSUME RowsLinked, RowsStay
    PROVE  /\ Opened \subseteq Opened' /\ Submitted \subseteq Submitted'
           /\ Approved \subseteq Approved' /\ Installs \subseteq Installs'
<1>1. Opened \subseteq Opened' /\ Submitted \subseteq Submitted'
  BY DEF RowsStay
<1>2. Approved \subseteq Approved'
  BY <1>1 DEF RowsStay, Approved
<1>3. Installs \subseteq Installs'
  BY <1>1 DEF RowsStay, Installs, RowsLinked
<1> QED
  BY <1>1, <1>2, <1>3

\* So one request's step need only account for that request.
LEMMA OneMoves ==
    ASSUME RequestsOK, RowsLinked, RowsStay, NEW p \in Procs, NEW r,
           req \in [Procs -> Requests],
           RequestOK(r, Opened', Submitted', Approved', Installs'),
           r \in Requests,
           req' = [req EXCEPT ![p] = r]
    PROVE  RequestsOK' /\ req' \in [Procs -> Requests]
<1>1. ASSUME NEW q \in Procs
      PROVE  RequestOK(req'[q], Opened', Submitted', Approved', Installs')
  <2>1. CASE q = p
    BY <2>1
  <2>2. CASE q # p
    <3>1. req'[q] = req[q] /\ RequestOK(req[q], Opened, Submitted, Approved, Installs)
      BY <2>2 DEF RequestsOK
    <3> QED
      BY <3>1, SetsGrow, RequestStays
  <2> QED
    BY <2>1, <2>2
<1> QED
  BY <1>1 DEF RequestsOK

LEMMA NoneMoves ==
    ASSUME RequestsOK, RowsLinked, RowsStay, UNCHANGED req
    PROVE  RequestsOK'
<1>1. ASSUME NEW q \in Procs
      PROVE  RequestOK(req'[q], Opened', Submitted', Approved', Installs')
  <2>1. RequestOK(req[q], Opened, Submitted, Approved, Installs)
    BY DEF RequestsOK
  <2> QED
    BY <2>1, SetsGrow, RequestStays
<1> QED
  BY <1>1 DEF RequestsOK

\* What Begin, Goto, Hold and Return make of the record.
LEMMA RequestRecords ==
    ASSUME req \in [Procs -> Requests], NEW p \in Procs
    PROVE  /\ Idle \in Requests
           /\ Return(p) => req' = [req EXCEPT ![p] = Idle]
           /\ \A at \in Statements : Goto(p, at) =>
                /\ req' = [req EXCEPT ![p] = req'[p]]
                /\ req'[p] \in Requests
                /\ req'[p].at = at /\ req'[p].on = req[p].on
                /\ req'[p].arg = req[p].arg /\ req'[p].got = req[p].got
           /\ \A at \in Statements, id \in Held : Hold(p, id, at) =>
                /\ req' = [req EXCEPT ![p] = req'[p]]
                /\ req'[p] \in Requests
                /\ req'[p].at = at /\ req'[p].on = req[p].on
                /\ req'[p].arg = req[p].arg /\ req'[p].got = id
           /\ \A at \in Statements, row \in Held,
                 v \in LeadStatuses \cup OTCTypes \cup WOStatuses \cup NOCStatuses \cup {None} :
                Begin(p, at, row, v) =>
                    /\ req' = [req EXCEPT ![p] = req'[p]]
                    /\ req'[p] \in Requests
                    /\ req'[p].at = at /\ req'[p].on = row /\ req'[p].arg = v
<1>1. Idle \in Requests
  BY DEF Idle, Requests, Held, Statements
<1>2. Return(p) => req' = [req EXCEPT ![p] = Idle]
  BY DEF Return
<1>3. ASSUME NEW at \in Statements, Goto(p, at)
      PROVE  /\ req' = [req EXCEPT ![p] = req'[p]]
             /\ req'[p] \in Requests
             /\ req'[p].at = at /\ req'[p].on = req[p].on
             /\ req'[p].arg = req[p].arg /\ req'[p].got = req[p].got
  BY <1>3 DEF Goto, Requests
<1>4. ASSUME NEW at \in Statements, NEW id \in Held, Hold(p, id, at)
      PROVE  /\ req' = [req EXCEPT ![p] = req'[p]]
             /\ req'[p] \in Requests
             /\ req'[p].at = at /\ req'[p].on = req[p].on
             /\ req'[p].arg = req[p].arg /\ req'[p].got = id
  BY <1>4 DEF Hold, Requests
<1>5. ASSUME NEW at \in Statements, NEW row \in Held,
             NEW v \in LeadStatuses \cup OTCTypes \cup WOStatuses \cup NOCStatuses \cup {None},
             Begin(p, at, row, v)
      PROVE  /\ req' = [req EXCEPT ![p] = req'[p]]
             /\ req'[p] \in Requests
             /\ req'[p].at = at /\ req'[p].on = row /\ req'[p].arg = v
  BY <1>5 DEF Begin, Requests, Held
<1> QED
  BY <1>1, <1>2, <1>3, <1>4, <1>5

-----------------------------------------------------------------------------
(* The statements of crm and billing *)

Elsewhere == UNCHANGED <<radius, field, history>>

LEMMA ElsewhereStays ==
    ASSUME RowsLinked, Elsewhere
    PROVE  RowsLinked' /\ RowsStay
BY DEF RowsLinked, RowsStay, Elsewhere, field, history, Opened, Submitted

LEMMA SalesTypes ==
    ASSUME IInv, LeadNext \/ ConversionNext \/ OTCNext
    PROVE  SalesTypeOK'
<1> USE DEF SalesTypeOK, LeadStatuses, CustomerStatuses, OTCTypes, At
<1>0. SalesTypeOK /\ RequestsOK
  BY DEF IInv, TypeOK
<1>1. ASSUME NEW l \in Leads, CreateLead(l) \/ UpdateDocument(l) PROVE SalesTypeOK'
  BY <1>0, <1>1 DEF CreateLead, UpdateDocument
<1>2. ASSUME NEW p \in Procs, NEW l \in Leads, UpdateLead(p, l) \/ ConvertLead(p, l)
      PROVE SalesTypeOK'
  BY <1>0, <1>2 DEF UpdateLead, ConvertLead, sales
<1>3. ASSUME NEW p \in Procs, WriteLead(p) PROVE SalesTypeOK'
  BY <1>0, <1>3 DEF WriteLead, RequestsOK, RequestOK, Idle
<1>4. ASSUME NEW p \in Procs, CreateCustomer(p) PROVE SalesTypeOK'
  BY <1>0, <1>4 DEF CreateCustomer
<1>5. ASSUME NEW p \in Procs, CreateOrder(p) PROVE SalesTypeOK'
  BY <1>0, <1>5 DEF CreateOrder, RequestsOK, RequestOK, Idle
<1>6. ASSUME NEW p \in Procs, MarkConverted(p) PROVE SalesTypeOK'
  BY <1>0, <1>6 DEF MarkConverted, RequestsOK, RequestOK, Idle
<1>7. ASSUME NEW p \in Procs, CreateOTCForOrder(p) PROVE SalesTypeOK'
  BY <1>0, <1>7 DEF CreateOTCForOrder
<1>8. ASSUME NEW c \in Customers, IssueOTC(c) \/ PayOTC(c) PROVE SalesTypeOK'
  BY <1>0, <1>8 DEF IssueOTC, PayOTC
<1> QED
  BY <1>1, <1>2, <1>3, <1>4, <1>5, <1>6, <1>7, <1>8 DEF LeadNext, ConversionNext, OTCNext

\* The requests of crm go from one statement to the next with what it needs.
LEMMA SalesRequests ==
    ASSUME IInv, LeadNext \/ ConversionNext \/ OTCNext, Elsewhere
    PROVE  RequestsOK' /\ req' \in [Procs -> Requests]
<1> DEFINE Goal == RequestsOK' /\ req' \in [Procs -> Requests]
<1>0. /\ req \in [Procs -> Requests] /\ RequestsOK
      /\ RowsLinked /\ RowsStay
  BY ElsewhereStays DEF IInv, TypeOK
<1>1. ASSUME UNCHANGED req PROVE Goal
  BY <1>0, <1>1, NoneMoves
<1> DEFINE Move(p, r) == /\ RequestOK(r, Opened', Submitted', Approved', Installs')
                         /\ r \in Requests
                         /\ req' = [req EXCEPT ![p] = r]
<1>2. ASSUME NEW p \in Procs, \E r : Move(p, r) PROVE Goal
  BY <1>0, <1>2, OneMoves
<1>a. ASSUME NEW p \in Procs, NEW l \in Leads, UpdateLead(p, l) \/ ConvertLead(p, l)
      PROVE  Goal
  <2>1. PICK s \in LeadStatuses \cup OTCTypes :
           \/ s \in LeadStatuses /\ Begin(p, "writeLead", l, s)
           \/ s \in OTCTypes /\ Begin(p, "createCustomer", l, s)
    BY <1>a DEF UpdateLead, ConvertLead, OTCTypes
  <2> DEFINE r == req'[p]
  <2>2. Move(p, r)
    BY <1>0, <2>1, RequestRecords DEF RequestOK, Held, Statements
  <2> QED
    BY <2>2, <1>2
<1>b. ASSUME NEW p \in Procs, WriteLead(p) \/ CreateOTCForOrder(p) PROVE Goal
  <2>1. Move(p, Idle)
    BY <1>0, <1>b, RequestRecords DEF WriteLead, CreateOTCForOrder, RequestOK
  <2> QED
    BY <2>1, <1>2
<1>c. ASSUME NEW p \in Procs, CreateCustomer(p) \/ CreateOrder(p) \/ MarkConverted(p) PROVE Goal
  <2>1. RequestOK(req[p], Opened, Submitted, Approved, Installs)
    BY <1>0 DEF RequestsOK
  <2>2. CASE CreateCustomer(p)
    <3>1. Move(p, req'[p])
      BY <1>0, <2>1, <2>2, RequestRecords DEF CreateCustomer, At, RequestOK, Idle, Held, Statements
    <3> QED
      BY <3>1, <1>2
  <2>3. CASE CreateOrder(p)
    <3>1. Move(p, req'[p])
      BY <1>0, <2>1, <2>3, RequestRecords DEF CreateOrder, At, RequestOK, Idle, Held, Statements
    <3> QED
      BY <3>1, <1>2
  <2>4. CASE MarkConverted(p)
    <3>1. Move(p, req'[p])
      BY <1>0, <2>1, <2>4, RequestRecords DEF MarkConverted, At, RequestOK, Idle, Held, Statements
    <3> QED
      BY <3>1, <1>2
  <2> QED
    BY <1>c, <2>2, <2>3, <2>4
<1> QED
  BY <1>1, <1>a, <1>b, <1>c
  DEF LeadNext, ConversionNext, OTCNext, CreateLead, UpdateDocument, IssueOTC, PayOTC

-----------------------------------------------------------------------------
(* The statements of field: each keeps the tables' types and links, and      *)
(* takes away no row                                                         *)

Tables == SalesTypeOK' /\ RadiusTypeOK' /\ FieldTypeOK' /\ RowsLinked' /\ RowsStay

LEMMA NothingWritten ==
    ASSUME IInv, UNCHANGED <<sales, radius, field, history>>
    PROVE  Tables
BY DEF IInv, TypeOK, Tables, SalesTypeOK, RadiusTypeOK, FieldTypeOK, RowsLinked, RowsStay,
   sales, field, history, Opened, Submitted

LEMMA SalesKept ==
    ASSUME IInv, UNCHANGED sales
    PROVE  SalesTypeOK'
BY DEF IInv, TypeOK, SalesTypeOK, sales

LEMMA RadiusKept ==
    ASSUME IInv, \/ UNCHANGED radius
                 \/ \E c \in Customers : \/ Provision(c)
                                         \/ PromoteToPermanent(c)
                                         \/ Deactivate(c)
    PROVE  RadiusTypeOK'
BY DEF IInv, TypeOK, RadiusTypeOK, RadiusStatuses, Provision, PromoteToPermanent, Deactivate,
   SetAccount

\* A row with another status is still a row, of the same WO.
LEMMA StatusWritten ==
    ASSUME IInv, NEW w \in Opened, NEW status \in WOStatuses, SetWOStatus(w, status),
           UNCHANGED <<bast, request, history>>
    PROVE  FieldTypeOK' /\ RowsLinked' /\ RowsStay
<1>1. /\ w \in WOs /\ wo[w] \in WORows /\ wo \in [WOs -> WORows \cup {None}]
      /\ wo' = [wo EXCEPT ![w] = [wo[w] EXCEPT !.status = status]]
  BY DEF IInv, TypeOK, FieldTypeOK, Opened, SetWOStatus
<1>2. [wo[w] EXCEPT !.status = status] \in WORows
  BY <1>1 DEF WORows
<1>3. FieldTypeOK'
  BY <1>1, <1>2 DEF IInv, TypeOK, FieldTypeOK, history
<1>4. RowsStay
  <2>1. \A v \in Opened : /\ v \in Opened' /\ wo'[v].type = wo[v].type
                          /\ wo'[v].of = wo[v].of
    BY <1>1, <1>2, NoneIsNoRow DEF Opened, WORows
  <2> QED
    BY <2>1 DEF RowsStay, Submitted, history
<1>5. RowsLinked'
  BY <1>4 DEF IInv, RowsLinked, RowsStay, Submitted, history
<1> QED
  BY <1>3, <1>4, <1>5

LEMMA InsertedWO ==
    ASSUME IInv, NEW w \in WOs, NEW type \in {"install", "termination"}, NEW c \in Customers,
           InsertWO(w, type, c), UNCHANGED <<bast, history>>,
           \A v \in WOs \ {w} : request'[v] = request[v]
    PROVE  /\ wo' \in [WOs -> WORows \cup {None}]
           /\ RowsLinked' /\ RowsStay
<1> DEFINE row == [type |-> type, of |-> c, status |-> "unassigned"]
<1>1. /\ row \in WORows /\ wo[w] = None /\ wo' = [wo EXCEPT ![w] = row]
      /\ wo \in [WOs -> WORows \cup {None}]
  BY DEF InsertWO, WORows, WOStatuses, IInv, TypeOK, FieldTypeOK
<1>2. RowsStay
  BY <1>1 DEF RowsStay, Opened, Submitted, history
<1>3. RowsLinked'
  <2>1. w \in Opened'
    BY <1>1, NoneIsNoRow DEF Opened
  <2> QED
    BY <1>2, <2>1 DEF IInv, RowsLinked, RowsStay, Submitted, history
<1> QED
  BY <1>1, <1>2, <1>3

\* The rows a request is about, once it has got as far as a BAST.
LEMMA HeldRows ==
    ASSUME IInv, NEW p \in Procs, req[p].on \in Submitted
    PROVE  WOOf(p) \in Opened /\ CustomerOf(p) \in Customers
BY DEF IInv, TypeOK, FieldTypeOK, RowsLinked, WOOf, CustomerOf, Opened, Submitted, WORows

LEMMA AtStatement ==
    ASSUME IInv, NEW p \in Procs
    PROVE  RequestOK(req[p], Opened, Submitted, Approved, Installs)
BY DEF IInv, RequestsOK

LEMMA FieldTables ==
    ASSUME IInv, FieldNext
    PROVE  Tables
<1> USE DEF At
<1>1. ASSUME NEW w \in WOs, NEW c \in Customers, CreateWOFromOrder(w, c) PROVE Tables
  <2>1. wo' \in [WOs -> WORows \cup {None}] /\ RowsLinked' /\ RowsStay
    BY <1>1, InsertedWO DEF CreateWOFromOrder
  <2> QED
    BY <1>1, <2>1, SalesKept, RadiusKept DEF CreateWOFromOrder, Tables, FieldTypeOK, history,
       IInv, TypeOK
<1>2. ASSUME NEW w \in WOs, NEW c \in Customers, CreateTerminationWO(w, c) PROVE Tables
  <2>0. request \in [WOs -> RequestStatuses \cup {None}]
    BY DEF IInv, TypeOK, FieldTypeOK
  <2>1. wo' \in [WOs -> WORows \cup {None}] /\ RowsLinked' /\ RowsStay
    BY <1>2, <2>0, InsertedWO DEF CreateTerminationWO
  <2> QED
    BY <1>2, <2>1, SalesKept, RadiusKept DEF CreateTerminationWO, Tables, FieldTypeOK,
       RequestStatuses, history, IInv, TypeOK
<1>3. ASSUME NEW w \in WOs, CancelTerminationRequest(w) PROVE Tables
  BY <1>3, SalesKept, RadiusKept DEF CancelTerminationRequest, Tables, FieldTypeOK, history,
     RequestStatuses, IInv, TypeOK, RowsLinked, RowsStay, Opened, Submitted
<1>4. ASSUME NEW p \in Procs, NEW w \in WOs,
             \/ UpdateStatus(p, w) \/ AssignTechnicians(p, w) \/ RescheduleWO(p, w)
             \/ RouteToTeam(p, w) \/ SubmitBAST(p, w)
      PROVE  Tables
  BY <1>4, NothingWritten DEF UpdateStatus, AssignTechnicians, RescheduleWO, RouteToTeam,
     SubmitBAST, Decide
<1>5. ASSUME NEW p \in Procs, NEW b \in Basts, VerifyBAST(p, b) PROVE Tables
  BY <1>5, NothingWritten DEF VerifyBAST
<1>6. ASSUME NEW p \in Procs, WriteWO(p) PROVE Tables
  BY <1>6, AtStatement, StatusWritten, SalesKept, RadiusKept
  DEF WriteWO, Tables, RequestOK, Idle
<1>7. ASSUME NEW p \in Procs, AwaitNOC(p) PROVE Tables
  BY <1>7, AtStatement, StatusWritten, SalesKept, RadiusKept
  DEF AwaitNOC, Tables, RequestOK, Idle, WOStatuses
<1>8. ASSUME NEW p \in Procs, CreateBAST(p) PROVE Tables
  <2>1. PICK b \in Basts :
          /\ bast[b] = None
          /\ bast' = [bast EXCEPT ![b] = [on |-> req[p].on, noc |-> "pending"]]
    BY <1>8 DEF CreateBAST
  <2>2. req[p].on \in Opened
    BY <1>8, AtStatement DEF CreateBAST, RequestOK, Idle
  <2>3. FieldTypeOK'
    BY <1>8, <2>1, <2>2 DEF CreateBAST, IInv, TypeOK, FieldTypeOK, BastRows, NOCStatuses, Opened,
       history
  <2>4. RowsLinked' /\ RowsStay
    BY <1>8, <2>1, <2>2 DEF CreateBAST, IInv, TypeOK, FieldTypeOK, RowsLinked, RowsStay, Opened,
       Submitted, history
  <2> QED
    BY <1>8, <2>3, <2>4, SalesKept, RadiusKept DEF CreateBAST, Tables
<1>9. ASSUME NEW p \in Procs, PaymentGate(p) PROVE Tables
  BY <1>9, NothingWritten DEF PaymentGate
<1>10. ASSUME NEW p \in Procs, MarkVerified(p) PROVE Tables
  <2> DEFINE b == req[p].on
             row == [bast[b] EXCEPT !.noc = req[p].arg]
  <2>1. b \in Submitted /\ req[p].arg \in NOCStatuses
    BY <1>10, AtStatement DEF MarkVerified, RequestOK, Idle, NOCStatuses
  <2>2. /\ b \in Basts /\ bast[b] \in BastRows /\ bast \in [Basts -> BastRows \cup {None}]
        /\ bast' = [bast EXCEPT ![b] = row] /\ bast[b].on \in Opened
    BY <1>10, <2>1 DEF MarkVerified, IInv, TypeOK, FieldTypeOK, Submitted, RowsLinked
  <2>3. row \in BastRows /\ row.on = bast[b].on
    BY <2>1, <2>2 DEF BastRows
  <2>4. signed \subseteq signed' /\ signed' \subseteq signed \cup {bast[b].on}
    BY <1>10 DEF MarkVerified
  <2>5. FieldTypeOK'
    BY <1>10, <2>2, <2>3, <2>4 DEF MarkVerified, IInv, TypeOK, FieldTypeOK, Opened
  <2>6. RowsLinked' /\ RowsStay
    BY <1>10, <2>2, <2>3, <2>4, NoneIsNoRow DEF MarkVerified, IInv, RowsLinked, RowsStay, Opened,
       Submitted
  <2> QED
    BY <1>10, <2>5, <2>6, SalesKept, RadiusKept DEF MarkVerified, Tables
<1>11. ASSUME NEW p \in Procs, DriveWO(p) PROVE Tables
  <2>1. req[p].on \in Submitted
    BY <1>11, AtStatement DEF DriveWO, RequestOK, Idle, Approved
  <2> QED
    BY <1>11, <2>1, HeldRows, StatusWritten, SalesKept, RadiusKept DEF DriveWO, Tables, WOStatuses
<1>12. ASSUME NEW p \in Procs, ProvisionAccount(p) \/ PromoteAccount(p) \/ DeactivateAccount(p)
       PROVE  Tables
  <2>1. req[p].on \in Submitted
    BY <1>12, AtStatement
    DEF ProvisionAccount, PromoteAccount, DeactivateAccount, RequestOK, Idle, Approved
  <2>2. FieldTypeOK' /\ RowsLinked' /\ RowsStay /\ UNCHANGED sales
    BY <1>12 DEF ProvisionAccount, PromoteAccount, DeactivateAccount, IInv, TypeOK, FieldTypeOK,
       RowsLinked, RowsStay, field, history, Opened, Submitted
  <2>3. RadiusTypeOK'
    BY <1>12, <2>1, HeldRows, RadiusKept DEF ProvisionAccount, PromoteAccount, DeactivateAccount
  <2> QED
    BY <2>2, <2>3, SalesKept DEF Tables
<1>13. ASSUME NEW p \in Procs, SetCustomerActive(p) \/ TerminateCustomer(p) PROVE Tables
  <2>1. req[p].on \in Submitted
    BY <1>13, AtStatement DEF SetCustomerActive, TerminateCustomer, RequestOK, Idle, Approved
  <2>2. FieldTypeOK' /\ RowsLinked' /\ RowsStay /\ UNCHANGED radius
    BY <1>13 DEF SetCustomerActive, TerminateCustomer, IInv, TypeOK, FieldTypeOK,
       RowsLinked, RowsStay, field, history, Opened, Submitted
  <2>3. SalesTypeOK'
    BY <1>13, <2>1, HeldRows DEF SetCustomerActive, TerminateCustomer, IInv, TypeOK, SalesTypeOK,
       CustomerStatuses
  <2> QED
    BY <2>2, <2>3, RadiusKept DEF Tables
<1>14. ASSUME NEW p \in Procs, CompleteTermination(p) PROVE Tables
  <2>1. WOOf(p) \in WOs /\ WOOf(p) \in Opened
    BY <1>14, AtStatement, HeldRows DEF CompleteTermination, RequestOK, Idle, Approved, Opened
  <2> QED
    BY <1>14, <2>1, SalesKept, RadiusKept DEF CompleteTermination, Tables, IInv, TypeOK,
       FieldTypeOK, RequestStatuses, RowsLinked, RowsStay, Opened, Submitted, history
<1>15. ASSUME NEW p \in Procs, Fail(p) PROVE Tables
  <2>1. cut' = cut \/ (cut' = cut \cup {WOOf(p)} /\ WOOf(p) \in signed)
    BY <1>15, AtStatement DEF Fail, RequestOK, Idle, Approved, WOOf
  <2> QED
    BY <1>15, <2>1, SalesKept, RadiusKept DEF Fail, Tables, IInv, TypeOK, FieldTypeOK, RowsLinked,
       RowsStay, Opened, Submitted, field
<1> QED
  BY <1>1, <1>2, <1>3, <1>4, <1>5, <1>6, <1>7, <1>8, <1>9, <1>10, <1>11, <1>12, <1>13, <1>14, <1>15
  DEF FieldNext

-----------------------------------------------------------------------------
(* The requests of field *)

\* What a BAST in hand says of the sets after a step.
LEMMA FieldRequests ==
    ASSUME IInv, FieldNext
    PROVE  RequestsOK' /\ req' \in [Procs -> Requests]
<1> DEFINE Goal == RequestsOK' /\ req' \in [Procs -> Requests]
           OK(r) == RequestOK(r, Opened', Submitted', Approved', Installs')
           Move(p, r) == OK(r) /\ r \in Requests /\ req' = [req EXCEPT ![p] = r]
<1>0. req \in [Procs -> Requests] /\ RequestsOK /\ RowsLinked /\ RowsStay
  BY FieldTables DEF IInv, TypeOK, Tables
<1>1. ASSUME UNCHANGED req PROVE Goal
  BY <1>0, <1>1, NoneMoves
<1>2. ASSUME NEW p \in Procs, \E r : Move(p, r) PROVE Goal
  BY <1>0, <1>2, OneMoves
<1>3. ASSUME NEW p \in Procs, Return(p) PROVE Goal
  <2>1. Move(p, Idle)
    BY <1>0, <1>3, RequestRecords DEF RequestOK
  <2> QED
    BY <2>1, <1>2
<1>4. Opened \subseteq Opened' /\ Submitted \subseteq Submitted'
      /\ Approved \subseteq Approved' /\ Installs \subseteq Installs'
  BY <1>0, SetsGrow
<1> HIDE DEF Goal
<1>5. ASSUME NEW p \in Procs, NEW w \in WOs,
             \/ UpdateStatus(p, w) \/ AssignTechnicians(p, w) \/ RescheduleWO(p, w)
             \/ RouteToTeam(p, w)
      PROVE  Goal
  <2>1. w \in Opened /\ wo[w].status \in WOStatuses
    BY <1>5 DEF UpdateStatus, AssignTechnicians, RescheduleWO, RouteToTeam, Opened, IInv, TypeOK,
       FieldTypeOK, WORows
  <2>2. \A s \in ValidTransitions[wo[w].status] : s \in WOStatuses
    BY <2>1 DEF ValidTransitions, WOStatuses
  <2>3. PICK s \in WOStatuses : Begin(p, "writeWO", w, s)
    BY <1>5, <2>1, <2>2 DEF UpdateStatus, AssignTechnicians, RescheduleWO, RouteToTeam, Decide,
       WOStatuses
  <2>4. Move(p, req'[p])
    BY <1>0, <1>4, <2>1, <2>3, RequestRecords DEF RequestOK, Held, Statements
  <2> QED
    BY <2>4, <1>2
<1>6. ASSUME NEW p \in Procs, NEW w \in WOs, SubmitBAST(p, w) PROVE Goal
  <2>1. w \in Opened /\ Begin(p, "createBAST", w, None)
    BY <1>6 DEF SubmitBAST, Opened
  <2>2. Move(p, req'[p])
    BY <1>0, <1>4, <2>1, RequestRecords DEF RequestOK, Held, Statements
  <2> QED
    BY <2>2, <1>2
<1>7. ASSUME NEW p \in Procs, NEW b \in Basts, VerifyBAST(p, b) PROVE Goal
  <2>1. b \in Submitted
    BY <1>7 DEF VerifyBAST, Submitted
  <2>2. CASE Begin(p, "paymentGate", b, "approved")
    <3>1. Move(p, req'[p])
      BY <1>0, <1>4, <2>1, <2>2, RequestRecords DEF RequestOK, Held, Statements, NOCStatuses
    <3> QED
      BY <3>1, <1>2
  <2>3. CASE Begin(p, "markVerified", b, "rejected")
    <3>1. Move(p, req'[p])
      BY <1>0, <1>4, <2>1, <2>3, RequestRecords DEF RequestOK, Held, Statements, NOCStatuses
    <3> QED
      BY <3>1, <1>2
  <2> QED
    BY <1>7, <2>2, <2>3 DEF VerifyBAST
<1> USE DEF At
<1>8. ASSUME NEW p \in Procs, CreateBAST(p) PROVE Goal
  <2>1. req[p].on \in Opened /\ Goto(p, "awaitNOC")
    BY <1>8, AtStatement DEF CreateBAST, RequestOK, Idle
  <2>2. Move(p, req'[p])
    BY <1>0, <1>4, <2>1, RequestRecords DEF RequestOK, Statements
  <2> QED
    BY <2>2, <1>2
<1>9. ASSUME NEW p \in Procs, PaymentGate(p) PROVE Goal
  <2>1. req[p].on \in Submitted /\ req[p].arg = "approved"
    BY <1>9, AtStatement DEF PaymentGate, RequestOK, Idle
  <2>2. CASE Goto(p, "markVerified")
    <3>1. Move(p, req'[p])
      BY <1>0, <1>4, <2>1, <2>2, RequestRecords DEF RequestOK, Statements
    <3> QED
      BY <3>1, <1>2
  <2> QED
    BY <1>3, <1>9, <2>2 DEF PaymentGate
<1>10. ASSUME NEW p \in Procs, MarkVerified(p) PROVE Goal
  <2>1. req[p].on \in Submitted /\ req[p].arg \in {"approved", "rejected"}
        /\ Goto(p, "driveWO")
    BY <1>10, AtStatement DEF MarkVerified, RequestOK, Idle
  <2>2. req[p].arg = "approved" => req[p].on \in Approved'
    BY <1>0, <1>4, <1>10, <2>1 DEF MarkVerified, Approved, RowsStay
  <2>3. Move(p, req'[p])
    BY <1>0, <1>4, <2>1, <2>2, RequestRecords DEF RequestOK, Statements
  <2> QED
    BY <2>3, <1>2
<1>11. ASSUME NEW p \in Procs, DriveWO(p) PROVE Goal
  <2>1. CASE req[p].arg = "rejected"
    BY <1>3, <1>11, <2>1 DEF DriveWO
  <2>2. CASE req[p].arg # "rejected"
    <3>1. req[p].on \in Approved
      BY <1>11, <2>2, AtStatement DEF DriveWO, RequestOK, Idle
    <3>2. \/ Goto(p, "provision") /\ req[p].on \in Installs
          \/ Goto(p, "completeRequest")
      BY <1>11, <2>2, <3>1 DEF DriveWO, Approved, Installs, WOOf
    <3>3. Move(p, req'[p])
      BY <1>0, <1>4, <3>1, <3>2, RequestRecords DEF RequestOK, Statements
    <3> QED
      BY <3>3, <1>2
  <2> QED
    BY <2>1, <2>2
<1>12. ASSUME NEW p \in Procs, ProvisionAccount(p) \/ PromoteAccount(p) PROVE Goal
  <2>1. /\ req[p].on \in Approved \cap Installs
        /\ Goto(p, "promote") \/ Goto(p, "setActive")
    BY <1>12, AtStatement DEF ProvisionAccount, PromoteAccount, RequestOK, Idle
  <2>2. Move(p, req'[p])
    BY <1>0, <1>4, <2>1, RequestRecords DEF RequestOK, Statements
  <2> QED
    BY <2>2, <1>2
<1>13. ASSUME NEW p \in Procs, CompleteTermination(p) \/ TerminateCustomer(p) PROVE Goal
  <2>1. CASE Return(p)
    BY <1>3, <2>1
  <2>2. CASE ~Return(p)
    <3>1. /\ req[p].on \in Approved
          /\ Goto(p, "terminate") \/ Goto(p, "deactivate")
      BY <1>13, <2>2, AtStatement DEF CompleteTermination, TerminateCustomer, RequestOK, Idle
    <3>2. Move(p, req'[p])
      BY <1>0, <1>4, <3>1, RequestRecords DEF RequestOK, Statements
    <3> QED
      BY <3>2, <1>2
  <2> QED
    BY <2>1, <2>2
<1>14. ASSUME NEW p \in Procs,
              \/ WriteWO(p) \/ AwaitNOC(p) \/ SetCustomerActive(p) \/ DeactivateAccount(p)
              \/ Fail(p)
       PROVE  Goal
  BY <1>3, <1>14 DEF WriteWO, AwaitNOC, SetCustomerActive, DeactivateAccount, Fail, Abandon
<1>15. ASSUME NEW w \in WOs, \/ CancelTerminationRequest(w)
                             \/ \E c \in Customers : \/ CreateWOFromOrder(w, c)
                                                     \/ CreateTerminationWO(w, c)
       PROVE  Goal
  BY <1>1, <1>15 DEF CancelTerminationRequest, CreateWOFromOrder, CreateTerminationWO
<1>16. Goal
  BY <1>5, <1>6, <1>7, <1>8, <1>9, <1>10, <1>11, <1>12, <1>13, <1>14, <1>15 DEF FieldNext
<1> QED
  BY <1>16 DEF Goal

-----------------------------------------------------------------------------

LEMMA InvInit == Init => IInv
BY NoneIsNoRow DEF Init, SalesInit, RadiusInit, FieldInit, IInv, TypeOK, SalesTypeOK, RadiusTypeOK, FieldTypeOK,
   RequestsOK, RequestOK, RowsLinked, Opened, Submitted, Idle, Requests, Held, Statements

LEMMA InvStep ==
    ASSUME IInv, [Next]_vars
    PROVE  IInv' /\ RowsStay
<1>1. CASE UNCHANGED vars
  <2>1. Tables
    BY <1>1, NothingWritten DEF vars
  <2>2. RequestsOK'
    BY <1>1, <2>1, NoneMoves DEF vars, IInv, Tables
  <2> QED
    BY <1>1, <2>1, <2>2 DEF vars, IInv, TypeOK, Tables
<1>2. CASE (LeadNext \/ ConversionNext \/ OTCNext) /\ Elsewhere
  <2>1. RowsLinked' /\ RowsStay
    BY <1>2, ElsewhereStays DEF IInv
  <2>2. RadiusTypeOK' /\ FieldTypeOK'
    BY <1>2 DEF IInv, TypeOK, RadiusTypeOK, FieldTypeOK, Elsewhere, field, history
  <2> QED
    BY <1>2, <2>1, <2>2, SalesTypes, SalesRequests DEF IInv, TypeOK
<1>3. CASE FieldNext
  BY <1>3, FieldTables, FieldRequests DEF IInv, TypeOK, Tables
<1> QED
  BY <1>1, <1>2, <1>3 DEF Next, Elsewhere

LEMMA Invariance == Spec => []IInv
BY InvInit, InvStep, PTL DEF Spec

\* Every row of crm, field and network, and all a request carries, has its
\* type, whatever runs concurrently and fails.
THEOREM TypeCorrect == Spec => []TypeOK
BY Invariance, PTL DEF IInv

-----------------------------------------------------------------------------
(* One live sign-off per WO: the index refuses what the checks let through *)

LEMMA BastsKept ==
    ASSUME OneLiveSignOff, UNCHANGED bast
    PROVE  OneLiveSignOff'
BY DEF OneLiveSignOff, ActiveBasts

\* The only writes to BASTs are an insert and a verdict.
LEMMA BastWrites ==
    ASSUME [Next]_vars
    PROVE  \/ UNCHANGED bast
           \/ \E p \in Procs : CreateBAST(p) \/ MarkVerified(p)
BY DEF Next, vars, field, FieldNext, CreateWOFromOrder, CreateTerminationWO,
   CancelTerminationRequest, UpdateStatus, AssignTechnicians, RescheduleWO, RouteToTeam, Decide,
   SubmitBAST, VerifyBAST, WriteWO, AwaitNOC, PaymentGate, DriveWO, ProvisionAccount,
   PromoteAccount, SetCustomerActive, CompleteTermination, TerminateCustomer,
   DeactivateAccount, Fail

\* A WO never has two BASTs that are not rejected, however many submissions
\* and verdicts race on it.
THEOREM OneLiveSignOffAlways == Spec => []OneLiveSignOff
<1>1. Init => OneLiveSignOff
  BY DEF Init, FieldInit, OneLiveSignOff, ActiveBasts
<1>2. ASSUME IInv, OneLiveSignOff, [Next]_vars
      PROVE  OneLiveSignOff'
  <2> SUFFICES ASSUME NEW a \in Basts, NEW b \in Basts, NEW w \in WOs,
                      a \in ActiveBasts(w)', b \in ActiveBasts(w)'
               PROVE  a = b
    BY DEF OneLiveSignOff
  <2>0. bast \in [Basts -> BastRows \cup {None}]
    BY <1>2 DEF IInv, TypeOK, FieldTypeOK
  <2>1. ASSUME NEW p \in Procs, CreateBAST(p) PROVE a = b
    <3>1. PICK c \in Basts :
            /\ bast[c] = None /\ OneActivePerWO(req[p].on, c)
            /\ bast' = [bast EXCEPT ![c] = [on |-> req[p].on, noc |-> "pending"]]
      BY <2>1 DEF CreateBAST
    <3>2. ActiveBasts(req[p].on) = {}
      BY <3>1 DEF OneActivePerWO, ActiveBasts
    <3>3. w # req[p].on => {a, b} \subseteq ActiveBasts(w)
      BY <2>0, <3>1 DEF ActiveBasts
    <3>4. w = req[p].on => a = c /\ b = c
      BY <2>0, <3>1, <3>2 DEF ActiveBasts
    <3> QED
      BY <1>2, <3>3, <3>4 DEF OneLiveSignOff
  <2>2. ASSUME NEW p \in Procs, MarkVerified(p) PROVE a = b
    <3> DEFINE c == req[p].on
    <3>1. c \in Submitted
      BY <1>2, <2>2, AtStatement DEF MarkVerified, At, RequestOK, Idle
    <3>2. /\ bast[c] \in BastRows
          /\ bast' = [bast EXCEPT ![c].noc = req[p].arg]
          /\ req[p].arg # "rejected" => OneActivePerWO(bast[c].on, c)
      BY <2>0, <2>2, <3>1 DEF MarkVerified, Submitted
    <3>3. a # c => a \in ActiveBasts(w)
      BY <2>0, <3>2 DEF ActiveBasts
    <3>4. b # c => b \in ActiveBasts(w)
      BY <2>0, <3>2 DEF ActiveBasts
    <3>5. c \in {a, b} => w = bast[c].on /\ req[p].arg # "rejected"
      BY <2>0, <3>1, <3>2 DEF ActiveBasts, BastRows, Submitted
    <3> QED
      BY <1>2, <3>2, <3>3, <3>4, <3>5 DEF OneActivePerWO, OneLiveSignOff
  <2> QED
    BY <1>2, <2>1, <2>2, BastWrites, BastsKept DEF OneLiveSignOff
<1> QED
  BY <1>1, <1>2, Invariance, PTL DEF Spec

-----------------------------------------------------------------------------
(* Who changes a customer's status and an account *)

Promotes(p, c) ==
    /\ At(p, "promote") /\ c = CustomerOf(p) /\ radius'[c] = "permanent_active"
    /\ UNCHANGED customer

Activates(p, c) ==
    /\ At(p, "setActive") /\ c = CustomerOf(p)
    /\ customer[c] # "terminated" /\ customer'[c] = "active" /\ UNCHANGED radius

\* A customer's status changes at its creation, its activation and its
\* termination.
LEMMA StatusWrites ==
    ASSUME IInv, [Next]_vars, NEW c \in Customers, customer'[c] # customer[c]
    PROVE  \/ customer[c] = "absent" /\ customer'[c] = "pending_install"
           \/ customer'[c] = "terminated"
           \/ \E p \in Procs : Activates(p, c)
<1> DEFINE Goal == \/ customer[c] = "absent" /\ customer'[c] = "pending_install"
                   \/ customer'[c] = "terminated"
                   \/ \E p \in Procs : Activates(p, c)
<1>0. customer \in [Customers -> CustomerStatuses \cup {"absent"}]
  BY DEF IInv, TypeOK, SalesTypeOK
<1>1. CASE UNCHANGED vars \/ LeadNext \/ OTCNext
  BY <1>1 DEF vars, sales, LeadNext, CreateLead, UpdateDocument, UpdateLead, ConvertLead, OTCNext,
     IssueOTC, PayOTC
<1>2. ASSUME NEW p \in Procs, CreateCustomer(p) PROVE Goal
  BY <1>0, <1>2 DEF CreateCustomer
<1>3. ASSUME NEW p \in Procs,
             WriteLead(p) \/ CreateOrder(p) \/ MarkConverted(p) \/ CreateOTCForOrder(p)
      PROVE  Goal
  BY <1>3 DEF WriteLead, CreateOrder, MarkConverted, CreateOTCForOrder
<1>4. ASSUME NEW p \in Procs, SetCustomerActive(p) PROVE Goal
  BY <1>0, <1>4 DEF SetCustomerActive, NotTerminated, Activates
<1>5. ASSUME NEW p \in Procs, TerminateCustomer(p) PROVE Goal
  BY <1>0, <1>5 DEF TerminateCustomer
<1>6. FieldNext => \/ UNCHANGED sales
                   \/ \E p \in Procs : SetCustomerActive(p) \/ TerminateCustomer(p)
  BY DEF FieldNext, CreateWOFromOrder, CreateTerminationWO,
     CancelTerminationRequest, UpdateStatus, AssignTechnicians, RescheduleWO, RouteToTeam, Decide,
     SubmitBAST, CreateBAST, VerifyBAST, WriteWO, AwaitNOC, PaymentGate, MarkVerified, DriveWO,
     ProvisionAccount, PromoteAccount, CompleteTermination, DeactivateAccount, Fail
<1> QED
  BY <1>1, <1>2, <1>3, <1>4, <1>5, <1>6 DEF Next, ConversionNext, sales

\* An account becomes permanent by a promotion only, and stops being so by
\* a deactivation only.
LEMMA AccountWrites ==
    ASSUME IInv, [Next]_vars, NEW c \in Customers, radius'[c] # radius[c]
    PROVE  \/ radius[c] = "none" /\ radius'[c] = "temporary"
           \/ \E p \in Procs : Promotes(p, c)
           \/ /\ radius'[c] = "deactivated" /\ UNCHANGED customer
              /\ \E p \in Procs : At(p, "deactivate") /\ CustomerOf(p) = c
<1> DEFINE Goal == \/ radius[c] = "none" /\ radius'[c] = "temporary"
                   \/ \E p \in Procs : Promotes(p, c)
                   \/ /\ radius'[c] = "deactivated" /\ UNCHANGED customer
                      /\ \E p \in Procs : At(p, "deactivate") /\ CustomerOf(p) = c
<1>0. radius \in [Customers -> RadiusStatuses \cup {"none"}]
  BY DEF IInv, TypeOK, RadiusTypeOK
<1>1. ASSUME NEW d, Provision(d) PROVE Goal
  BY <1>0, <1>1 DEF Provision
<1>2. ASSUME NEW p \in Procs, PromoteAccount(p) PROVE Goal
  BY <1>0, <1>2 DEF PromoteAccount, PromoteToPermanent, SetAccount, Promotes, sales
<1>3. ASSUME NEW p \in Procs, DeactivateAccount(p) PROVE Goal
  BY <1>0, <1>3 DEF DeactivateAccount, Deactivate, SetAccount, sales
<1>4. FieldNext => \/ UNCHANGED radius
                   \/ \E d : Provision(d)
                   \/ \E p \in Procs : PromoteAccount(p) \/ DeactivateAccount(p)
  BY DEF FieldNext, CreateWOFromOrder, CreateTerminationWO,
     CancelTerminationRequest, UpdateStatus, AssignTechnicians, RescheduleWO, RouteToTeam, Decide,
     SubmitBAST, CreateBAST, VerifyBAST, WriteWO, AwaitNOC, PaymentGate, MarkVerified, DriveWO,
     ProvisionAccount, SetCustomerActive, CompleteTermination, TerminateCustomer, Fail
<1> QED
  BY <1>1, <1>2, <1>3, <1>4 DEF Next, vars

\* A terminated customer stays terminated.
THEOREM TerminatedStaysTerminatedAlways == Spec => TerminatedStaysTerminated
<1>1. ASSUME IInv, [Next]_vars
      PROVE  \A c \in Customers : customer[c] = "terminated" => customer'[c] = "terminated"
  BY <1>1, StatusWrites DEF Activates
<1> QED
  BY <1>1, Invariance, PTL DEF Spec, TerminatedStaysTerminated

\* A request at an approval's hooks for a customer proves the approval.
LEMMA HooksAreEarned ==
    ASSUME IInv, NEW p \in Procs, At(p, "promote") \/ At(p, "setActive")
    PROVE  InstalledFor(CustomerOf(p))
<1>1. req[p].on \in Approved \cap Installs
  BY AtStatement DEF At, RequestOK, Idle
<1> QED
  BY <1>1 DEF InstalledFor, CustomerOf, WOOf, Approved, Installs

\* Nobody is in service without an approved installation.
THEOREM ServiceIsEarnedAlways == Spec => []ServiceIsEarned
<1>1. Init => ServiceIsEarned
  BY DEF Init, SalesInit, RadiusInit, ServiceIsEarned
<1>2. ASSUME IInv, ServiceIsEarned, [Next]_vars
      PROVE  ServiceIsEarned'
  <2> SUFFICES ASSUME NEW c \in Customers,
                      customer'[c] = "active" \/ radius'[c] = "permanent_active"
               PROVE  InstalledFor(c)'
    BY DEF ServiceIsEarned
  <2>1. InstalledFor(c)
    BY <1>2, StatusWrites, AccountWrites, HooksAreEarned DEF ServiceIsEarned, Activates, Promotes
  <2> QED
    BY <1>2, <2>1, InvStep DEF IInv, InstalledFor, RowsStay, RowsLinked
<1> QED
  BY <1>1, <1>2, Invariance, PTL DEF Spec

-----------------------------------------------------------------------------
(* An active customer has its account: the account is promoted before the    *)
(* status, and only a completed termination takes it away                    *)

Accounted(c) == radius[c] = "permanent_active" \/ TerminationOf(c)

AccountsFollow ==
    \A p \in Procs :
        /\ At(p, "setActive") => Accounted(CustomerOf(p))
        /\ req[p].at \in {"terminate", "deactivate"} => request[WOOf(p)] = "completed"

\* A completed request stays completed.
LEMMA RequestWrites ==
    ASSUME IInv, [Next]_vars, NEW w \in WOs, request[w] = "completed"
    PROVE  request'[w] = "completed"
<1>0. request \in [WOs -> {"wo_created", "completed", "cancelled", None}]
  BY DEF IInv, TypeOK, FieldTypeOK, RequestStatuses
<1>1. ASSUME NEW v \in WOs, NEW c \in Customers, CreateTerminationWO(v, c)
      PROVE  request'[w] = "completed"
  <2>1. wo[v] = None /\ w \in Opened
    BY <1>1 DEF CreateTerminationWO, InsertWO, IInv, RowsLinked, RequestStatuses
  <2> QED
    BY <1>0, <1>1, <2>1 DEF CreateTerminationWO, Opened
<1>2. ASSUME NEW v \in WOs, CancelTerminationRequest(v)
      PROVE  request'[w] = "completed"
  BY <1>0, <1>2 DEF CancelTerminationRequest
<1>3. ASSUME NEW p \in Procs, CompleteTermination(p)
      PROVE  request'[w] = "completed"
  BY <1>0, <1>3 DEF CompleteTermination
<1>4. FieldNext => \/ UNCHANGED request
                   \/ \E v \in WOs, c \in Customers : CreateTerminationWO(v, c)
                   \/ \E v \in WOs : CancelTerminationRequest(v)
                   \/ \E p \in Procs : CompleteTermination(p)
  BY DEF FieldNext, field, CreateWOFromOrder,
     UpdateStatus, AssignTechnicians, RescheduleWO, RouteToTeam, Decide,
     SubmitBAST, CreateBAST, VerifyBAST, WriteWO, AwaitNOC, PaymentGate, MarkVerified, DriveWO,
     ProvisionAccount, PromoteAccount, SetCustomerActive, TerminateCustomer, DeactivateAccount, Fail
<1> QED
  BY <1>1, <1>2, <1>3, <1>4 DEF Next, vars, field

\* Who reaches the hooks' last statements.
LEMMA Entries ==
    ASSUME IInv, [Next]_vars, NEW p \in Procs, req'[p] # req[p],
           req'[p].at \in {"setActive", "terminate", "deactivate"}
    PROVE  PromoteAccount(p) \/ CompleteTermination(p) \/ TerminateCustomer(p)
<1> DEFINE Goal == PromoteAccount(p) \/ CompleteTermination(p) \/ TerminateCustomer(p)
<1>0. req \in [Procs -> Requests]
  BY DEF IInv, TypeOK
<1> USE DEF Begin, Goto, Hold, Return, Idle
<1>1. UNCHANGED req => Goal
  OBVIOUS
<1>2. ASSUME NEW q \in Procs, Return(q) PROVE Goal
  BY <1>0, <1>2
<1>3. ASSUME NEW q \in Procs, NEW at \in Statements \ {"setActive", "terminate", "deactivate"},
             NEW x, NEW y, Begin(q, at, x, y) \/ Goto(q, at) \/ Hold(q, x, at)
      PROVE  Goal
  BY <1>0, <1>3 DEF Requests
<1>4. ASSUME NEW q \in Procs,
             ProvisionAccount(q) \/ CreateOrder(q) \/ MarkConverted(q)
             \/ CreateBAST(q) \/ PaymentGate(q) \/ MarkVerified(q)
      PROVE  Goal
  <2> HIDE DEF Begin, Goto, Hold, Return
  <2> QED
    BY <1>2, <1>3, <1>4 DEF ProvisionAccount, CreateOrder, MarkConverted,
       CreateBAST, PaymentGate, MarkVerified, Statements
<1>5. ASSUME NEW q \in Procs, DriveWO(q) \/ CreateCustomer(q) PROVE Goal
  <2>1. CASE CreateCustomer(q)
    <3>1. PICK c \in Customers : Hold(q, c, "createOrder")
      BY <2>1 DEF CreateCustomer
    <3> HIDE DEF Begin, Goto, Hold, Return
    <3> QED
      BY <1>3, <3>1 DEF Statements
  <2>2. CASE DriveWO(q)
    <3>1. Return(q) \/ Goto(q, "provision") \/ Goto(q, "completeRequest")
      BY <2>2 DEF DriveWO
    <3> HIDE DEF Begin, Goto, Hold, Return
    <3> QED
      BY <1>2, <1>3, <3>1 DEF Statements
  <2> QED
    BY <1>5, <2>1, <2>2
<1>6. ASSUME NEW q \in Procs,
             PromoteAccount(q) \/ CompleteTermination(q) \/ TerminateCustomer(q)
      PROVE  Goal
  BY <1>0, <1>6 DEF PromoteAccount, CompleteTermination, TerminateCustomer
<1> HIDE DEF Begin, Goto, Hold, Return
<1>7. ASSUME NEW q \in Procs,
             \/ WriteLead(q) \/ CreateOTCForOrder(q) \/ WriteWO(q) \/ AwaitNOC(q)
             \/ SetCustomerActive(q) \/ DeactivateAccount(q) \/ Fail(q)
      PROVE  Goal
  BY <1>2, <1>7 DEF WriteLead, CreateOTCForOrder, WriteWO, AwaitNOC, SetCustomerActive,
     DeactivateAccount, Fail, Abandon
<1>8. ASSUME NEW q \in Procs, NEW l \in Leads, UpdateLead(q, l) \/ ConvertLead(q, l) PROVE Goal
  BY <1>3, <1>8 DEF UpdateLead, ConvertLead, Statements
<1>9. ASSUME NEW q \in Procs, NEW w \in WOs,
             \/ UpdateStatus(q, w) \/ AssignTechnicians(q, w) \/ RescheduleWO(q, w)
             \/ RouteToTeam(q, w) \/ SubmitBAST(q, w)
      PROVE  Goal
  BY <1>3, <1>9 DEF UpdateStatus, AssignTechnicians, RescheduleWO, RouteToTeam, SubmitBAST,
     Decide, Statements
<1>10. ASSUME NEW q \in Procs, NEW b \in Basts, VerifyBAST(q, b) PROVE Goal
  BY <1>3, <1>10 DEF VerifyBAST, Statements
<1> QED
  BY <1>1, <1>4, <1>5, <1>6, <1>7, <1>8, <1>9, <1>10
  DEF Next, vars, LeadNext, CreateLead, UpdateDocument, ConversionNext, OTCNext, IssueOTC, PayOTC,
      FieldNext, CreateWOFromOrder, CreateTerminationWO, CancelTerminationRequest

\* The rows of a request at an approval's hooks.
LEMMA HooksHold ==
    ASSUME IInv, NEW p \in Procs,
           req[p].at \in {"promote", "setActive", "completeRequest", "terminate", "deactivate"}
    PROVE  /\ req[p].on \in Submitted /\ WOOf(p) \in Opened
           /\ CustomerOf(p) \in Customers
<1>1. req[p].on \in Approved
  BY AtStatement DEF RequestOK, Idle
<1> QED
  BY <1>1, HeldRows DEF Approved

LEMMA AccountedStays ==
    ASSUME IInv, AccountsFollow, [Next]_vars, NEW c \in Customers, Accounted(c)
    PROVE  Accounted(c)'
<1>1. ASSUME NEW w \in WOs, request[w] = "completed", wo[w].of = c
      PROVE  Accounted(c)'
  <2>1. w \in Opened
    BY <1>1 DEF IInv, RowsLinked, RequestStatuses
  <2> QED
    BY <1>1, <2>1, RequestWrites, InvStep DEF Accounted, TerminationOf, RowsStay
<1>2. ASSUME NEW p \in Procs, At(p, "deactivate"), CustomerOf(p) = c
      PROVE  Accounted(c)'
  BY <1>1, <1>2, HooksHold DEF AccountsFollow, At, CustomerOf, Opened
<1> QED
  BY <1>1, <1>2, AccountWrites DEF Accounted, TerminationOf, Promotes

LEMMA AccountsFollowStep ==
    ASSUME IInv, AccountsFollow, [Next]_vars
    PROVE  AccountsFollow'
<1> DEFINE hooks == {"setActive", "terminate", "deactivate"}
<1> SUFFICES ASSUME NEW p \in Procs, req'[p].at \in hooks
             PROVE  /\ req'[p].at = "setActive" => Accounted(CustomerOf(p))'
                    /\ req'[p].at \in {"terminate", "deactivate"} =>
                          request'[WOOf(p)'] = "completed"
  BY DEF AccountsFollow, At
<1> DEFINE Goal == /\ req'[p].at = "setActive" => Accounted(CustomerOf(p))'
                   /\ req'[p].at \in {"terminate", "deactivate"} =>
                         request'[WOOf(p)'] = "completed"
<1>0. RowsStay /\ req \in [Procs -> Requests]
  BY InvStep DEF IInv, TypeOK
<1>1. ASSUME req'[p].on = req[p].on, req[p].on \in Submitted, WOOf(p) \in Opened
      PROVE  WOOf(p)' = WOOf(p) /\ CustomerOf(p)' = CustomerOf(p)
  BY <1>0, <1>1 DEF RowsStay, WOOf, CustomerOf
<1>2. CASE req'[p] = req[p]
  <2>1. WOOf(p)' = WOOf(p) /\ CustomerOf(p)' = CustomerOf(p) /\ WOOf(p) \in WOs
        /\ CustomerOf(p) \in Customers
    BY <1>1, <1>2, HooksHold DEF Opened
  <2> QED
    BY <1>2, <2>1, AccountedStays, RequestWrites DEF AccountsFollow, At
<1>3. CASE PromoteAccount(p)
  <2>1. Goto(p, "setActive") /\ At(p, "promote") /\ PromoteToPermanent(CustomerOf(p))
    BY <1>3 DEF PromoteAccount
  <2>2. req'[p].on = req[p].on /\ req'[p].at = "setActive"
    BY <1>0, <2>1, RequestRecords DEF Statements
  <2>3. CustomerOf(p)' = CustomerOf(p) /\ CustomerOf(p) \in Customers
    BY <1>1, <2>1, <2>2, HooksHold DEF At
  <2>4. radius'[CustomerOf(p)] = "permanent_active"
    BY <2>1, <2>3 DEF PromoteToPermanent, SetAccount, IInv, TypeOK, RadiusTypeOK
  <2> QED
    BY <2>2, <2>3, <2>4 DEF Accounted
<1>4. CASE CompleteTermination(p) \/ TerminateCustomer(p)
  <2>1. req[p].at \in {"completeRequest", "terminate"}
    BY <1>4 DEF CompleteTermination, TerminateCustomer, At
  <2>2. req'[p].on = req[p].on /\ req'[p].at \in {"terminate", "deactivate"}
    BY <1>0, <1>4, RequestRecords DEF CompleteTermination, TerminateCustomer, Statements, Idle
  <2>3. WOOf(p)' = WOOf(p) /\ WOOf(p) \in WOs
    BY <1>1, <2>1, <2>2, HooksHold DEF Opened
  <2>4. request'[WOOf(p)] = "completed"
    BY <1>0, <1>4, <2>2, <2>3, RequestWrites DEF CompleteTermination, TerminateCustomer, IInv,
       TypeOK, FieldTypeOK, AccountsFollow, At, Return, Idle
  <2> QED
    BY <2>2, <2>3, <2>4
<1> QED
  BY <1>2, <1>3, <1>4, Entries

\* An active customer has a permanent account, unless a termination of it
\* was completed.
THEOREM ActiveHasAccountAlways == Spec => []ActiveHasAccount
<1> DEFINE J == ActiveHasAccount /\ AccountsFollow
<1>1. Init => J
  BY DEF Init, SalesInit, ActiveHasAccount, AccountsFollow, At, Idle
<1>2. ASSUME IInv, J, [Next]_vars
      PROVE  J'
  <2>1. AccountsFollow'
    BY <1>2, AccountsFollowStep
  <2>2. ASSUME NEW c \in Customers, customer'[c] = "active"
        PROVE  Accounted(c)'
    <3>1. Accounted(c)
      BY <1>2, <2>2, StatusWrites DEF ActiveHasAccount, Accounted, Activates, AccountsFollow
    <3> QED
      BY <1>2, <3>1, AccountedStays
  <2> QED
    BY <2>1, <2>2 DEF ActiveHasAccount, Accounted
<1> QED
  BY <1>1, <1>2, Invariance, PTL DEF Spec

-----------------------------------------------------------------------------
(* Once an approval's hooks have run, the customer is active: whoever        *)
(* recorded the approval is still at the hooks, has activated the customer,  *)
(* or died and is counted in cut; nobody else moves that request, and no     *)
(* status but "terminated" replaces "active"                                 *)

Hooks == {"driveWO", "provision", "promote", "setActive"}

\* Request p holds an approval of WO w whose hooks are still to run.
Activating(p, w) ==
    /\ req[p].at \in Hooks
    /\ At(p, "driveWO") => req[p].arg = "approved"
    /\ req[p].on \in Submitted
    /\ WOOf(p) = w

InService(c) == customer[c] \in {"active", "terminated"}

ApprovalsRun ==
    \A w \in signed \ cut :
        wo[w].type = "install" =>
            InService(wo[w].of) \/ \E p \in Procs : Activating(p, w)

\* A request at the hooks is moved by its own next statement or a failure.
LEMMA HookMoves ==
    ASSUME [Next]_vars, req \in [Procs -> Requests],
           NEW p \in Procs, req[p].at \in Hooks, req'[p] # req[p]
    PROVE  \/ DriveWO(p) \/ ProvisionAccount(p) \/ PromoteAccount(p)
           \/ SetCustomerActive(p) \/ Fail(p)
<1> DEFINE Goal == \/ DriveWO(p) \/ ProvisionAccount(p) \/ PromoteAccount(p)
                   \/ SetCustomerActive(p) \/ Fail(p)
<1>1. UNCHANGED req => Goal
  OBVIOUS
<1>2. ASSUME NEW q \in Procs,
             \/ Return(q)
             \/ \E at, x, row : Begin(q, at, row, x) \/ Goto(q, at) \/ Hold(q, x, at)
      PROVE  q = p /\ ~ \E at, x, row : Begin(q, at, row, x)
  BY <1>2 DEF Begin, Free, Goto, Hold, Return, Hooks
<1>3. ASSUME NEW q \in Procs, \E at, row, x : Begin(q, at, row, x) PROVE Goal
  BY <1>2, <1>3
<1>4. ASSUME NEW q \in Procs, NEW w \in WOs,
             \/ UpdateStatus(q, w) \/ AssignTechnicians(q, w) \/ RescheduleWO(q, w)
             \/ RouteToTeam(q, w) \/ SubmitBAST(q, w)
      PROVE  Goal
  BY <1>3, <1>4 DEF UpdateStatus, AssignTechnicians, RescheduleWO, RouteToTeam, SubmitBAST, Decide
<1>5. ASSUME NEW q \in Procs, NEW b \in Basts, VerifyBAST(q, b) PROVE Goal
  BY <1>3, <1>5 DEF VerifyBAST
<1>6. ASSUME NEW q \in Procs, NEW l \in Leads, UpdateLead(q, l) \/ ConvertLead(q, l) PROVE Goal
  BY <1>3, <1>6 DEF UpdateLead, ConvertLead
<1>7. ASSUME NEW q \in Procs,
             \/ WriteLead(q) \/ CreateCustomer(q) \/ CreateOrder(q) \/ MarkConverted(q)
             \/ CreateOTCForOrder(q)
      PROVE  Goal
  <2>1. q = p
    BY <1>2, <1>7 DEF WriteLead, CreateCustomer, CreateOrder, MarkConverted, CreateOTCForOrder
  <2> QED
    BY <1>7, <2>1 DEF WriteLead, CreateCustomer, CreateOrder, MarkConverted, CreateOTCForOrder,
       At, Hooks
<1>8. ASSUME NEW q \in Procs,
             \/ WriteWO(q) \/ CreateBAST(q) \/ AwaitNOC(q) \/ PaymentGate(q) \/ MarkVerified(q)
             \/ CompleteTermination(q) \/ TerminateCustomer(q) \/ DeactivateAccount(q)
      PROVE  Goal
  <2>1. q = p
    BY <1>2, <1>8 DEF WriteWO, CreateBAST, AwaitNOC, PaymentGate, MarkVerified,
       CompleteTermination, TerminateCustomer, DeactivateAccount
  <2> QED
    BY <1>8, <2>1 DEF WriteWO, CreateBAST, AwaitNOC, PaymentGate, MarkVerified,
       CompleteTermination, TerminateCustomer, DeactivateAccount, At, Hooks
<1>9. ASSUME NEW q \in Procs,
             \/ DriveWO(q) \/ ProvisionAccount(q) \/ PromoteAccount(q) \/ SetCustomerActive(q)
             \/ Fail(q)
      PROVE  Goal
  <2>1. q = p
    BY <1>2, <1>9 DEF DriveWO, ProvisionAccount, PromoteAccount, SetCustomerActive, Fail, Abandon
  <2> QED
    BY <1>9, <2>1
<1> QED
  BY <1>1, <1>4, <1>5, <1>6, <1>7, <1>8, <1>9
  DEF Next, vars, LeadNext, CreateLead, UpdateDocument, ConversionNext, OTCNext, IssueOTC, PayOTC,
      FieldNext, CreateWOFromOrder, CreateTerminationWO, CancelTerminationRequest

\* Approvals are recorded by the verdict, and left half done by a failure.
LEMMA HistoryWrites ==
    ASSUME [Next]_vars
    PROVE  /\ cut \subseteq cut'
           /\ signed' # signed => \E p \in Procs : MarkVerified(p)
<1>1. FieldNext => \/ UNCHANGED history
                   \/ \E p \in Procs : MarkVerified(p) \/ Fail(p)
  BY DEF FieldNext, CreateWOFromOrder, CreateTerminationWO, CancelTerminationRequest,
     UpdateStatus, AssignTechnicians, RescheduleWO, RouteToTeam, Decide,
     SubmitBAST, CreateBAST, VerifyBAST, WriteWO, AwaitNOC, PaymentGate, DriveWO,
     ProvisionAccount, PromoteAccount, SetCustomerActive, CompleteTermination,
     TerminateCustomer, DeactivateAccount
<1> QED
  BY <1>1 DEF Next, vars, history, MarkVerified, Fail

\* A customer in service stays so, or is terminated.
LEMMA InServiceStays ==
    ASSUME IInv, [Next]_vars, NEW c \in Customers, InService(c)
    PROVE  InService(c)'
BY StatusWrites DEF InService, Activates

\* Each statement of the hooks leads to the next, the last to an active
\* customer; a failure is counted.
LEMMA ActivatingStep ==
    ASSUME IInv, [Next]_vars, NEW w \in Opened, wo[w].type = "install",
           NEW p \in Procs, Activating(p, w)
    PROVE  Activating(p, w)' \/ InService(wo[w].of)' \/ w \in cut'
<1>0. /\ req \in [Procs -> Requests] /\ RowsStay
      /\ req[p].on \in Submitted /\ WOOf(p) = w /\ CustomerOf(p) = wo[w].of
      /\ wo[w].of \in Customers
  BY InvStep, HeldRows DEF IInv, TypeOK, Activating, CustomerOf
<1>1. ASSUME req'[p].on = req[p].on
      PROVE  req'[p].on \in Submitted' /\ WOOf(p)' = w
  BY <1>0, <1>1 DEF RowsStay, WOOf
<1>2. CASE req'[p] = req[p]
  BY <1>1, <1>2 DEF Activating, At
<1>3. CASE DriveWO(p)
  <2>1. Goto(p, "provision")
    BY <1>0, <1>3 DEF DriveWO, Activating, At
  <2>2. req'[p].on = req[p].on /\ req'[p].at = "provision"
    BY <1>0, <2>1, RequestRecords DEF Statements
  <2> QED
    BY <1>1, <2>2 DEF Activating, At, Hooks
<1>4. CASE ProvisionAccount(p) \/ PromoteAccount(p)
  <2>1. Goto(p, "promote") \/ Goto(p, "setActive")
    BY <1>4 DEF ProvisionAccount, PromoteAccount
  <2>2. req'[p].on = req[p].on /\ req'[p].at \in {"promote", "setActive"}
    BY <1>0, <2>1, RequestRecords DEF Statements
  <2> QED
    BY <1>1, <2>2 DEF Activating, At, Hooks
<1>5. CASE SetCustomerActive(p)
  <2>1. customer'[wo[w].of] \in {"active", "terminated"} /\ UNCHANGED wo
    BY <1>0, <1>5 DEF SetCustomerActive, NotTerminated, IInv, TypeOK, SalesTypeOK, field
  <2> QED
    BY <2>1 DEF InService
<1>6. CASE Fail(p)
  BY <1>0, <1>6 DEF Fail, Activating, Hooks, At
<1> QED
  BY <1>0, <1>2, <1>3, <1>4, <1>5, <1>6, HookMoves DEF Activating

\* However verdicts, re-routings, second WOs and terminations run around it,
\* an approval whose hooks have all run leaves its customer active, or
\* terminated meanwhile.
THEOREM ApprovedIsActivatedAlways == Spec => []ApprovedIsActivated
<1>1. Init => ApprovalsRun
  BY DEF Init, FieldInit, ApprovalsRun
<1>2. ASSUME IInv, ApprovalsRun, [Next]_vars
      PROVE  ApprovalsRun'
  <2>0. IInv' /\ RowsStay /\ signed \subseteq WOs /\ cut \subseteq cut'
    BY <1>2, InvStep, HistoryWrites DEF IInv, TypeOK, FieldTypeOK
  <2> SUFFICES ASSUME NEW w \in WOs, w \in signed', w \notin cut', wo'[w].type = "install",
                      ~InService(wo[w].of)'
               PROVE  \E p \in Procs : Activating(p, w)'
    BY <2>0 DEF ApprovalsRun, IInv, TypeOK, FieldTypeOK
  <2>1. CASE w \in signed
    <3>1. /\ w \in Opened /\ wo[w].type = "install" /\ wo'[w].of = wo[w].of
          /\ wo[w].of \in Customers
      BY <2>0, <2>1, <1>2 DEF IInv, RowsLinked, RowsStay, TypeOK, FieldTypeOK, WORows, Opened
    <3>2. ~InService(wo[w].of)
      BY <1>2, <3>1, InServiceStays DEF InService
    <3>3. PICK p \in Procs : Activating(p, w)
      BY <1>2, <2>0, <2>1, <3>1, <3>2 DEF ApprovalsRun
    <3> QED
      BY <1>2, <3>1, <3>3, ActivatingStep
  <2>2. CASE w \notin signed
    <3>1. PICK p \in Procs : MarkVerified(p)
      BY <1>2, <2>2, HistoryWrites
    <3> DEFINE b == req[p].on
    <3>2. /\ b \in Submitted /\ bast[b].on = w /\ req[p].arg = "approved"
          /\ Goto(p, "driveWO") /\ req \in [Procs -> Requests]
      BY <1>2, <2>2, <3>1, AtStatement
      DEF MarkVerified, RequestOK, Idle, At, IInv, TypeOK
    <3>3. req'[p].on = b /\ req'[p].at = "driveWO" /\ req'[p].arg = "approved"
      BY <3>2, RequestRecords DEF Statements
    <3>4. b \in Submitted' /\ bast'[b].on = w
      BY <2>0, <3>2 DEF RowsStay
    <3> QED
      BY <3>3, <3>4 DEF Activating, Hooks, WOOf, At
  <2> QED
    BY <2>1, <2>2
<1>3. IInv /\ ApprovalsRun => ApprovedIsActivated
  BY DEF ApprovalsRun, ApprovedIsActivated, Activating, Verifying, InService, Hooks, WOOf
<1> QED
  BY <1>1, <1>2, <1>3, Invariance, PTL DEF Spec

-----------------------------------------------------------------------------
(***************************************************************************)
(* Warehouse.  What the store room promises of the rows it writes from     *)
(* copies, while levels, transfers and opnames race as they like.  The     *)
(* argument: as one request at a time works on such a row, what it holds   *)
(* of the row is still there when it writes; and nothing else in the store *)
(* room writes the row.  Levels need no such rule: each statement that     *)
(* moves one by a number moves what explains it, on paper or in a          *)
(* request's hand, by the same number.                                     *)
(***************************************************************************)

-----------------------------------------------------------------------------
(* Requests: what a step makes of one, and that it leaves the others alone *)

ReqOK ==
    /\ req = [p \in Procs |-> req[p]]
    /\ \A p \in Procs :
        req[p] = [at |-> req[p].at, on |-> req[p].on, arg |-> req[p].arg, got |-> req[p].got]

OthersStay(p) == \A q \in Procs \ {p} : req'[q] = req[q]

LEMMA BeginMoves ==
    ASSUME ReqOK, NEW p \in Procs, NEW s, NEW row, NEW v, Begin(p, s, row, v)
    PROVE  /\ ReqOK' /\ OthersStay(p)
           /\ req'[p].at = s /\ req'[p].on = row /\ req'[p].arg = v
BY DEF ReqOK, OthersStay, Begin

LEMMA GotoMoves ==
    ASSUME ReqOK, NEW p \in Procs, NEW s, Goto(p, s)
    PROVE  /\ ReqOK' /\ OthersStay(p)
           /\ req'[p].at = s /\ req'[p].on = req[p].on /\ req'[p].arg = req[p].arg
BY DEF ReqOK, OthersStay, Goto

LEMMA HoldMoves ==
    ASSUME ReqOK, NEW p \in Procs, NEW s, NEW id, Hold(p, id, s)
    PROVE  ReqOK' /\ OthersStay(p) /\ req'[p].at = s
BY DEF ReqOK, OthersStay, Hold

LEMMA ReturnMoves ==
    ASSUME ReqOK, NEW p \in Procs, Return(p)
    PROVE  ReqOK' /\ OthersStay(p) /\ req'[p] = Idle
BY DEF ReqOK, OthersStay, Return, Idle

\* A step puts nobody at a statement outside S.
Enters(S) == \A p \in Procs : req'[p] = req[p] \/ req'[p].at \in S \cup {"idle"}

LEMMA OneEnters ==
    ASSUME NEW S, NEW p \in Procs, OthersStay(p), req'[p].at \in S \cup {"idle"}
    PROVE  Enters(S)
BY DEF Enters, OthersStay

LedgerStatements == {"level", "movement", "status", "expected", "count"}
PurchasingStatements == {"poStatus", "receipt"}
LotStatements == {"persistTaken", "lotStatus"}
GearStatements == {"gearStatus", "scanned", "comingBack", "reload"}

LEMMA LedgerEnters ==
    ASSUME ReqOK, LedgerNext
    PROVE  ReqOK' /\ Enters(LedgerStatements)
<1>1. CASE \E t \in Transfers : CreateTransfer(t)
  BY <1>1 DEF CreateTransfer, ReqOK, Enters
<1>2. CASE \E s \in Sessions : StartOpname(s)
  BY <1>2 DEF StartOpname, ReqOK, Enters
<1>3. ASSUME NEW p \in Procs,
             \/ Intake(p) \/ MoveLevel(p) \/ RecordMovement(p) \/ SetStatus(p)
             \/ ReadExpected(p) \/ UpsertCount(p)
             \/ \E t \in Transfers :
                    DispatchTransfer(p, t) \/ ReceiveTransfer(p, t) \/ CancelTransfer(p, t)
             \/ \E s \in Sessions :
                    UpsertOpnameCount(p, s) \/ CommitOpname(p, s) \/ CancelOpname(p, s)
      PROVE  ReqOK' /\ OthersStay(p) /\ req'[p].at \in LedgerStatements \cup {"idle"}
  <2>1. CASE Intake(p)
    BY <2>1, BeginMoves DEF Intake, LedgerStatements
  <2>2. CASE MoveLevel(p)
    BY <2>2, GotoMoves DEF MoveLevel, LedgerStatements
  <2>3. CASE RecordMovement(p)
    <3>1. ASSUME NEW rest,
                 req' = [req EXCEPT ![p] =
                            [at |-> "level", on |-> @.on, arg |-> rest, got |-> @.got]]
          PROVE  ReqOK' /\ OthersStay(p) /\ req'[p].at \in LedgerStatements
      BY <3>1 DEF ReqOK, OthersStay, LedgerStatements
    <3>2. CASE Goto(p, "status")
      BY <3>2, GotoMoves DEF LedgerStatements
    <3>3. CASE Return(p)
      BY <3>3, ReturnMoves DEF Idle
    <3> QED
      BY <2>3, <3>1, <3>2, <3>3 DEF RecordMovement
  <2>4. CASE SetStatus(p) \/ UpsertCount(p)
    BY <2>4, ReturnMoves DEF SetStatus, UpsertCount, Idle
  <2>5. CASE ReadExpected(p)
    BY <2>5, HoldMoves DEF ReadExpected, LedgerStatements
  <2>6. CASE \E t \in Transfers :
                DispatchTransfer(p, t) \/ ReceiveTransfer(p, t) \/ CancelTransfer(p, t)
    BY <2>6, BeginMoves DEF DispatchTransfer, ReceiveTransfer, CancelTransfer, LedgerStatements
  <2>7. CASE \E s \in Sessions : UpsertOpnameCount(p, s) \/ CancelOpname(p, s)
    BY <2>7, BeginMoves DEF UpsertOpnameCount, CancelOpname, LedgerStatements
  <2>8. ASSUME NEW s \in Sessions, CommitOpname(p, s)
        PROVE  ReqOK' /\ OthersStay(p) /\ req'[p].at \in LedgerStatements
    <3>1. PICK v, w : v \in {"status", "level"} /\ Begin(p, v, s, w)
      BY <2>8 DEF CommitOpname
    <3> QED
      BY <3>1, BeginMoves DEF LedgerStatements
  <2> QED
    BY <1>3, <2>1, <2>2, <2>3, <2>4, <2>5, <2>6, <2>7, <2>8
<1> QED
  BY <1>1, <1>2, <1>3, OneEnters DEF LedgerNext

LEMMA PurchasingEnters ==
    ASSUME ReqOK, PurchasingNext
    PROVE  ReqOK' /\ Enters(PurchasingStatements)
<1>1. CASE \E o \in POs : CreatePurchaseOrder(o)
  BY <1>1 DEF CreatePurchaseOrder, ReqOK, Enters
<1>2. ASSUME NEW p \in Procs, SetPOStatus(p) \/ PersistReceipt(p)
      PROVE  ReqOK' /\ Enters(PurchasingStatements)
  BY <1>2, ReturnMoves, OneEnters DEF SetPOStatus, PersistReceipt, Idle
<1>3. ASSUME NEW p \in Procs, NEW o \in POs,
             SubmitPurchaseOrder(p, o) \/ ApprovePurchaseOrder(p, o) \/ CancelPurchaseOrder(p, o)
      PROVE  ReqOK' /\ Enters(PurchasingStatements)
  BY <1>3, BeginMoves, OneEnters
     DEF SubmitPurchaseOrder, ApprovePurchaseOrder, CancelPurchaseOrder, PurchasingStatements
<1>4. ASSUME NEW p \in Procs, NEW o \in POs, CreateGoodsReceipt(p, o)
      PROVE  ReqOK' /\ Enters(PurchasingStatements)
  <2>1. PICK v : Begin(p, "receipt", o, v)
    BY <1>4 DEF CreateGoodsReceipt
  <2> QED
    BY <2>1, BeginMoves, OneEnters DEF PurchasingStatements
<1> QED
  BY <1>1, <1>2, <1>3, <1>4 DEF PurchasingNext

LEMMA LotsEnter ==
    ASSUME ReqOK, LotsNext
    PROVE  ReqOK' /\ Enters(LotStatements)
<1>1. CASE \E l \in Lots : ReceiveLot(l)
  BY <1>1 DEF ReceiveLot, ReqOK, Enters
<1>2. ASSUME NEW p \in Procs, PersistTaken(p) \/ SetLotStatus(p)
      PROVE  ReqOK' /\ Enters(LotStatements)
  BY <1>2, ReturnMoves, OneEnters DEF PersistTaken, SetLotStatus, Idle
<1>3. ASSUME NEW p \in Procs, NEW l \in Lots,
             \/ CutSegment(p, l) \/ ConsumeFromBatch(p, l)
             \/ DisposeCableLot(p, l) \/ MarkBatchExpired(p, l)
      PROVE  ReqOK' /\ Enters(LotStatements)
  BY <1>3, BeginMoves, OneEnters
     DEF CutSegment, ConsumeFromBatch, DisposeCableLot, MarkBatchExpired, LotStatements
<1> QED
  BY <1>1, <1>2, <1>3 DEF LotsNext

LEMMA GearEnters ==
    ASSUME ReqOK, GearNext
    PROVE  ReqOK' /\ Enters(GearStatements)
<1>1. CASE \E d \in Dispatches : CreateDispatch(d)
  BY <1>1 DEF CreateDispatch, ReqOK, Enters
<1>2. ASSUME NEW p \in Procs, SetGearStatus(p) \/ UpdateItem(p)
      PROVE  ReqOK' /\ Enters(GearStatements)
  BY <1>2, ReturnMoves, GotoMoves, OneEnters
     DEF SetGearStatus, UpdateItem, Idle, GearStatements
<1>3. ASSUME NEW p \in Procs, ReloadDispatch(p)
      PROVE  ReqOK' /\ Enters(GearStatements)
  <2>1. CASE Return(p)
    BY <2>1, ReturnMoves, OneEnters DEF Idle
  <2>2. ASSUME NEW d, req' = [req EXCEPT ![p] = [Idle EXCEPT !.at = "gearStatus", !.on = d,
                                                   !.arg = [status |-> "returned"]]]
        PROVE  ReqOK' /\ Enters(GearStatements)
    BY <2>2 DEF ReqOK, Enters, Idle, GearStatements
  <2> QED
    BY <1>3, <2>1, <2>2 DEF ReloadDispatch
<1>4. ASSUME NEW p \in Procs, NEW d \in Dispatches,
             StageDispatch(p, d) \/ CancelDispatch(p, d) \/ MarkPickedUp(p, d)
      PROVE  ReqOK' /\ Enters(GearStatements)
  BY <1>4, BeginMoves, OneEnters
     DEF StageDispatch, CancelDispatch, MarkPickedUp, GearStatements
<1>5. ASSUME NEW p \in Procs, NEW l \in Lines, PickUpItemByScan(p, l) \/ ReturnItem(p, l)
      PROVE  ReqOK' /\ Enters(GearStatements)
  <2>1. PICK s \in {"scanned", "comingBack"} : \E v : Begin(p, s, l, v)
    BY <1>5 DEF PickUpItemByScan, ReturnItem
  <2> QED
    BY <2>1, BeginMoves, OneEnters DEF GearStatements
<1> QED
  BY <1>1, <1>2, <1>3, <1>4, <1>5 DEF GearNext

LEMMA AbandonEnters ==
    ASSUME ReqOK, NEW p \in Procs, AbandonStock(p)
    PROVE  ReqOK' /\ Enters({})
BY ReturnMoves, OneEnters DEF AbandonStock, Abandon, Idle

-----------------------------------------------------------------------------
(* Lots                                                                    *)

\* What a request holds of a lot is the lot as it is.
LotHeldBy(p) ==
    /\ req[p].at = "persistTaken" =>
        /\ req[p].on \in Lots
        /\ lot[req[p].on].status \in {"in_stock", "allocated"}
        /\ \E n \in 1 .. lot[req[p].on].remaining : req[p].arg = Take(lot[req[p].on], n)
    /\ req[p].at = "lotStatus" =>
        /\ req[p].on \in Lots
        /\ lot[req[p].on].status \notin {"absent", "consumed"}
        /\ req[p].arg.status \in {"disposed", "expired"}

LotHeld == \A p \in Procs : LotHeldBy(p)

LotsUntouched == \A l \in Lots : lot[l].status = "absent" => taken[l] = 0

LotInv == LotsTypeOK /\ PiecesAddUp /\ LotsUntouched /\ LotHeld

LEMMA LotFrame ==
    ASSUME LotInv, UNCHANGED lots, NEW S, Enters(S), S \cap LotStatements = {}
    PROVE  LotInv'
<1>1. LotHeld'
  BY DEF LotInv, LotHeld, LotHeldBy, lots, Enters, LotStatements, Take
<1> QED
  BY <1>1 DEF LotInv, lots, LotsTypeOK, PiecesAddUp, LotsUntouched

\* Two requests never hold one copied row.
LEMMA Apart ==
    ASSUME OneRequestPerCopy, NEW p \in Procs, NEW q \in Procs, p # q,
           req[p].on \in POs \cup Lots \cup Dispatches \cup Lines
    PROVE  req[p].on # req[q].on
BY DEF OneRequestPerCopy

LEMMA LotStep ==
    ASSUME LotInv, ReqOK, OneRequestPerCopy, LotsNext
    PROVE  LotInv'
<1> USE LotAssumption
<1>1. ASSUME NEW l \in Lots, ReceiveLot(l)
      PROVE  LotInv'
  <2>1. lot[l].status = "absent" /\ taken[l] = 0
    BY <1>1 DEF ReceiveLot, NoLot, LotInv, LotsUntouched
  <2>2. LotsTypeOK' /\ PiecesAddUp' /\ LotsUntouched'
    BY <1>1, <2>1 DEF LotInv, ReceiveLot, LotsTypeOK, PiecesAddUp, LotsUntouched, LotStatuses
  <2>3. \A k \in Lots : lot[k].status # "absent" => lot'[k] = lot[k]
    BY <1>1, <2>1 DEF ReceiveLot, LotInv, LotsTypeOK
  <2>4. \A p \in Procs : req[p].at \in LotStatements => lot'[req[p].on] = lot[req[p].on]
    BY <2>3 DEF LotInv, LotHeld, LotHeldBy, LotStatements
  <2>5. LotHeld'
    BY <1>1, <2>4 DEF LotInv, ReceiveLot, LotHeld, LotHeldBy, LotStatements
  <2> QED
    BY <2>2, <2>5 DEF LotInv
<1>2. ASSUME NEW p \in Procs, PersistTaken(p)
      PROVE  LotInv'
  <2> DEFINE l == req[p].on
             a == req[p].arg
  <2>1. PICK n \in 1 .. lot[l].remaining : a = Take(lot[l], n)
    BY <1>2 DEF LotInv, LotHeld, LotHeldBy, PersistTaken, At
  <2>2. l \in Lots /\ lot[l].status \in {"in_stock", "allocated"}
    BY <1>2 DEF LotInv, LotHeld, LotHeldBy, PersistTaken, At
  <2>3. /\ a.units = n /\ a.remaining = lot[l].remaining - n
        /\ a.status = "consumed" <=> lot[l].remaining = n
        /\ a.status \in {"consumed", "allocated"}
    BY <2>1, <2>2 DEF Take
  <2>4. lot[l].remaining \in 0 .. LotTotal /\ taken[l] \in Nat
    BY <2>2 DEF LotInv, LotsTypeOK
  <2>5. /\ lot' = [lot EXCEPT ![l] = [status |-> a.status, remaining |-> a.remaining]]
        /\ taken' = [taken EXCEPT ![l] = @ + a.units]
    BY <1>2 DEF PersistTaken
  <2> HIDE DEF l, a
  <2>6. LotsTypeOK' /\ PiecesAddUp' /\ LotsUntouched'
    BY <2>2, <2>3, <2>4, <2>5
       DEF LotInv, LotsTypeOK, PiecesAddUp, LotsUntouched, LotStatuses
  <2>7. OthersStay(p) /\ req'[p] = Idle
    BY <1>2, ReturnMoves DEF PersistTaken
  <2>8. ASSUME NEW q \in Procs, q # p, req[q].at \in LotStatements
        PROVE  req'[q] = req[q] /\ lot'[req[q].on] = lot[req[q].on]
    BY <2>2, <2>5, <2>7, <2>8, Apart DEF OthersStay, l, LotInv, LotsTypeOK, LotHeld, LotHeldBy, LotStatements
  <2>9. LotHeld'
    <3> SUFFICES ASSUME NEW q \in Procs PROVE LotHeldBy(q)'
      BY DEF LotHeld
    <3>1. req'[q].at \in LotStatements => q # p /\ req'[q] = req[q]
      BY <2>7 DEF OthersStay, LotStatements, Idle
    <3>2. LotHeldBy(q)
      BY DEF LotInv, LotHeld
    <3> QED
      BY <2>8, <3>1, <3>2 DEF LotHeldBy, LotStatements
  <2> QED
    BY <2>6, <2>9 DEF LotInv
<1>3. ASSUME NEW p \in Procs, SetLotStatus(p)
      PROVE  LotInv'
  <2> DEFINE l == req[p].on
             a == req[p].arg
  <2>1. /\ l \in Lots
        /\ lot[l].status \notin {"absent", "consumed"}
        /\ a.status \in {"disposed", "expired"}
    BY <1>3 DEF LotInv, LotHeld, LotHeldBy, SetLotStatus, At
  <2>2. lot' = [lot EXCEPT ![l].status = a.status] /\ UNCHANGED taken
    BY <1>3 DEF SetLotStatus
  <2> HIDE DEF l, a
  <2>3. LotsTypeOK' /\ PiecesAddUp' /\ LotsUntouched'
    BY <2>1, <2>2 DEF LotInv, LotsTypeOK, PiecesAddUp, LotsUntouched, LotStatuses
  <2>4. OthersStay(p) /\ req'[p] = Idle
    BY <1>3, ReturnMoves DEF SetLotStatus
  <2>5. ASSUME NEW q \in Procs, q # p, req[q].at \in LotStatements
        PROVE  req'[q] = req[q] /\ lot'[req[q].on] = lot[req[q].on]
    BY <2>1, <2>2, <2>4, <2>5, Apart DEF OthersStay, l, LotInv, LotsTypeOK, LotHeld, LotHeldBy, LotStatements
  <2>6. LotHeld'
    BY <2>4, <2>5 DEF LotInv, LotHeld, LotHeldBy, LotStatements, Idle, OthersStay, Take
  <2> QED
    BY <2>3, <2>6 DEF LotInv
<1>4. ASSUME NEW p \in Procs, NEW l \in Lots, CutSegment(p, l) \/ ConsumeFromBatch(p, l)
      PROVE  LotInv'
  <2>1. PICK n \in 1 .. lot[l].remaining : Begin(p, "persistTaken", l, Take(lot[l], n))
    BY <1>4 DEF CutSegment, ConsumeFromBatch
  <2>2. UNCHANGED lots /\ lot[l].status \in {"in_stock", "allocated"}
    BY <1>4 DEF CutSegment, ConsumeFromBatch
  <2>3. /\ OthersStay(p) /\ req'[p].at = "persistTaken"
        /\ req'[p].on = l /\ req'[p].arg = Take(lot[l], n)
    BY <2>1, BeginMoves
  <2>4. LotHeld'
    <3>1. LotHeldBy(p)'
      BY <2>2, <2>3 DEF LotHeldBy, lots
    <3>2. ASSUME NEW q \in Procs, q # p
          PROVE  LotHeldBy(q)'
      BY <2>2, <2>3, <3>2 DEF LotInv, LotHeld, LotHeldBy, OthersStay, lots, Take
    <3> QED
      BY <3>1, <3>2 DEF LotHeld
  <2> QED
    BY <2>2, <2>4 DEF LotInv, lots, LotsTypeOK, PiecesAddUp, LotsUntouched
<1>5. ASSUME NEW p \in Procs, NEW l \in Lots, DisposeCableLot(p, l) \/ MarkBatchExpired(p, l)
      PROVE  LotInv'
  <2>1. /\ UNCHANGED lots /\ lot[l].status \notin {"absent", "consumed"}
        /\ OthersStay(p) /\ req'[p].at = "lotStatus"
        /\ req'[p].on = l /\ req'[p].arg.status \in {"disposed", "expired"}
    BY <1>5, BeginMoves DEF DisposeCableLot, MarkBatchExpired
  <2>2. LotHeld'
    <3>1. LotHeldBy(p)'
      BY <2>1 DEF LotHeldBy, lots
    <3>2. ASSUME NEW q \in Procs, q # p
          PROVE  LotHeldBy(q)'
      BY <2>1, <3>2 DEF LotInv, LotHeld, LotHeldBy, OthersStay, lots, Take
    <3> QED
      BY <3>1, <3>2 DEF LotHeld
  <2> QED
    BY <2>1, <2>2 DEF LotInv, lots, LotsTypeOK, PiecesAddUp, LotsUntouched
<1> QED
  BY <1>1, <1>2, <1>3, <1>4, <1>5 DEF LotsNext

-----------------------------------------------------------------------------
(* Purchase orders                                                         *)

\* What a receipt of n units will write to the order it was made for.
ReceiptFor(copy, n, r) ==
    /\ r.units = n /\ r.received = copy.received + n
    /\ r.status = IF StatusAfter(copy, n) = copy.status THEN None
                  ELSE StatusAfter(copy, n)

POHeld ==
    \A p \in Procs :
        /\ req[p].at = "poStatus" =>
            /\ req[p].on \in POs
            /\ po[req[p].on].status \notin {"absent", "closed"}
            /\ req[p].arg.status \in {"submitted", "approved", "cancelled"}
        /\ req[p].at = "receipt" =>
            /\ req[p].on \in POs
            /\ po[req[p].on].status \in {"approved", "receiving"}
            /\ \E n \in 1 .. Ordered - po[req[p].on].received :
                    ReceiptFor(po[req[p].on], n, req[p].arg)

POInv == PurchasingTypeOK /\ ReceiptsAddUp /\ POHeld

LEMMA POFrame ==
    ASSUME POInv, UNCHANGED purchasing, NEW S, Enters(S), S \cap PurchasingStatements = {}
    PROVE  POInv'
<1>1. POHeld'
  BY DEF POInv, POHeld, purchasing, Enters, PurchasingStatements
<1> QED
  BY <1>1 DEF POInv, purchasing, PurchasingTypeOK, ReceiptsAddUp

\* The holders of other orders keep what they hold.
LEMMA POsApart ==
    ASSUME POInv, OneRequestPerCopy, NEW p \in Procs, req[p].on \in POs,
           OthersStay(p), req'[p].at = "idle",
           \A o \in POs : o # req[p].on => po'[o] = po[o]
    PROVE  POHeld'
<1>1. ASSUME NEW q \in Procs, q # p, req[q].at \in PurchasingStatements
      PROVE  req'[q] = req[q] /\ po'[req[q].on] = po[req[q].on]
  BY <1>1, Apart DEF OthersStay, POInv, POHeld, PurchasingStatements
<1> QED
  BY <1>1 DEF POInv, POHeld, PurchasingStatements, OthersStay

LEMMA POStep ==
    ASSUME POInv, ReqOK, OneRequestPerCopy, PurchasingNext
    PROVE  POInv'
<1> USE OrderedAssumption, NoneIsNoStatus
<1>1. ASSUME NEW o \in POs, CreatePurchaseOrder(o)
      PROVE  POInv'
  <2>1. po[o].status = "absent" /\ po[o].received = 0
    BY <1>1 DEF CreatePurchaseOrder, NoPO
  <2>2. PurchasingTypeOK' /\ ReceiptsAddUp'
    BY <1>1, <2>1 DEF POInv, CreatePurchaseOrder, PurchasingTypeOK, ReceiptsAddUp, POStatuses
  <2>3. \A q \in Procs : req[q].at \in PurchasingStatements => po'[req[q].on] = po[req[q].on]
    BY <1>1, <2>1 DEF POInv, CreatePurchaseOrder, PurchasingTypeOK, POHeld, PurchasingStatements
  <2>4. POHeld'
    BY <1>1, <2>3 DEF POInv, CreatePurchaseOrder, POHeld, PurchasingStatements
  <2> QED
    BY <2>2, <2>4 DEF POInv
<1>2. ASSUME NEW p \in Procs, SetPOStatus(p)
      PROVE  POInv'
  <2> DEFINE o == req[p].on
             s == req[p].arg.status
  <2>1. /\ o \in POs /\ po[o].status # "closed"
        /\ s \in {"submitted", "approved", "cancelled"}
    BY <1>2 DEF POInv, POHeld, SetPOStatus, At
  <2>2. po' = [po EXCEPT ![o].status = s] /\ UNCHANGED receipts
    BY <1>2 DEF SetPOStatus
  <2>3. OthersStay(p) /\ req'[p].at = "idle"
    BY <1>2, ReturnMoves DEF SetPOStatus, Idle
  <2>4. POHeld'
    BY <2>1, <2>2, <2>3, POsApart DEF POInv, PurchasingTypeOK
  <2> HIDE DEF o, s
  <2>5. PurchasingTypeOK' /\ ReceiptsAddUp'
    BY <2>1, <2>2 DEF POInv, PurchasingTypeOK, ReceiptsAddUp, POStatuses
  <2> QED
    BY <2>4, <2>5 DEF POInv
<1>3. ASSUME NEW p \in Procs, PersistReceipt(p)
      PROVE  POInv'
  <2> DEFINE o == req[p].on
             r == req[p].arg
  <2>1. PICK n \in 1 .. Ordered - po[o].received : ReceiptFor(po[o], n, r)
    BY <1>3 DEF POInv, POHeld, PersistReceipt, At
  <2>2. o \in POs /\ po[o].status \in {"approved", "receiving"}
    BY <1>3 DEF POInv, POHeld, PersistReceipt, At
  <2>3. /\ receipts' = [receipts EXCEPT ![o] = @ + r.units]
        /\ po' = [po EXCEPT ![o].received = r.received,
                            ![o].status = IF r.status = None THEN @ ELSE r.status]
    BY <1>3 DEF PersistReceipt
  <2>4. OthersStay(p) /\ req'[p].at = "idle"
    BY <1>3, ReturnMoves DEF PersistReceipt, Idle
  <2>5. POHeld'
    BY <2>2, <2>3, <2>4, POsApart DEF POInv, PurchasingTypeOK
  <2> HIDE DEF o, r
  <2>6. po[o].received \in 0 .. Ordered /\ receipts[o] = po[o].received
    BY <2>2 DEF POInv, PurchasingTypeOK, ReceiptsAddUp
  <2>7. /\ r.units = n /\ r.received = po[o].received + n
        /\ r.received \in 0 .. Ordered
    BY <2>1, <2>6 DEF ReceiptFor
  <2>8. /\ po' = [po EXCEPT ![o] = po'[o]]
        /\ po'[o] = [status |-> StatusAfter(po[o], n), received |-> r.received]
    BY <2>1, <2>2, <2>3, <2>6
       DEF ReceiptFor, StatusAfter, POInv, PurchasingTypeOK, POStatuses
  <2>9. StatusAfter(po[o], n) \in POStatuses
        /\ (StatusAfter(po[o], n) = "closed" <=> po[o].received + n = Ordered)
    BY <2>2, <2>6 DEF StatusAfter, POStatuses
  <2>10. PurchasingTypeOK' /\ ReceiptsAddUp'
    BY <2>2, <2>3, <2>6, <2>7, <2>8, <2>9 DEF POInv, PurchasingTypeOK, ReceiptsAddUp
  <2> QED
    BY <2>5, <2>10 DEF POInv
<1>4. ASSUME NEW p \in Procs, NEW o \in POs,
             SubmitPurchaseOrder(p, o) \/ ApprovePurchaseOrder(p, o) \/ CancelPurchaseOrder(p, o)
      PROVE  POInv'
  <2>1. /\ UNCHANGED purchasing /\ po[o].status \notin {"absent", "closed"}
        /\ OthersStay(p) /\ req'[p].at = "poStatus" /\ req'[p].on = o
        /\ req'[p].arg.status \in {"submitted", "approved", "cancelled"}
    BY <1>4, BeginMoves DEF SubmitPurchaseOrder, ApprovePurchaseOrder, CancelPurchaseOrder
  <2>2. POHeld'
    BY <2>1 DEF POInv, POHeld, OthersStay, purchasing
  <2> QED
    BY <2>1, <2>2 DEF POInv, purchasing, PurchasingTypeOK, ReceiptsAddUp
<1>5. ASSUME NEW p \in Procs, NEW o \in POs, CreateGoodsReceipt(p, o)
      PROVE  POInv'
  <2>1. PICK n \in 1 .. Ordered - po[o].received, w \in Warehouses :
            Begin(p, "receipt", o,
                  [units |-> n, warehouse |-> w, received |-> po[o].received + n,
                   status |-> IF StatusAfter(po[o], n) = po[o].status THEN None
                              ELSE StatusAfter(po[o], n)])
    BY <1>5 DEF CreateGoodsReceipt
  <2>2. UNCHANGED purchasing /\ po[o].status \in {"approved", "receiving"}
    BY <1>5 DEF CreateGoodsReceipt
  <2>3. /\ OthersStay(p) /\ req'[p].at = "receipt" /\ req'[p].on = o
        /\ ReceiptFor(po[o], n, req'[p].arg)
    BY <2>1, BeginMoves DEF ReceiptFor
  <2>4. POHeld'
    BY <2>2, <2>3 DEF POInv, POHeld, OthersStay, purchasing
  <2> QED
    BY <2>2, <2>4 DEF POInv, purchasing, PurchasingTypeOK, ReceiptsAddUp
<1> QED
  BY <1>1, <1>2, <1>3, <1>4, <1>5 DEF PurchasingNext

-----------------------------------------------------------------------------
(* Gear                                                                    *)

LinesComplete == \A l \in Lines : line[l].status = "returned" => line[l].returned = LineQty

HeldBy(p) ==
    /\ req[p].at = "gearStatus" =>
        /\ req[p].on \in Dispatches
        /\ req[p].arg.status \in {"staged", "picked_up", "returned", "cancelled"}
        /\ req[p].arg.status = "picked_up" => AllScanned(req[p].on)
        /\ req[p].arg.status = "returned" => AllReturned(req[p].on)
    /\ req[p].at = "scanned" =>
        /\ req[p].on \in Lines
        /\ line[req[p].on].status \in {"planned", "picked"}
        /\ req[p].arg = [line[req[p].on] EXCEPT !.status = "picked"]
    /\ req[p].at = "comingBack" =>
        /\ req[p].on \in Lines
        /\ line[req[p].on].returned < LineQty
        /\ req[p].arg \in [status : {"picked", "returned"}, returned : 0 .. LineQty]
        /\ req[p].arg.status = "returned" => req[p].arg.returned = LineQty
    /\ req[p].at = "reload" => req[p].on \in Lines

GearHeld == \A p \in Procs : HeldBy(p)

GearInv == GearTypeOK /\ HeaderFollowsLines /\ LinesComplete /\ GearHeld

LEMMA GearFrame ==
    ASSUME GearInv, UNCHANGED gears, NEW S, Enters(S), S \cap GearStatements = {}
    PROVE  GearInv'
<1>1. GearHeld'
  BY DEF GearInv, GearHeld, HeldBy, gears, Enters, GearStatements, AllScanned, AllReturned
<1> QED
  BY <1>1 DEF GearInv, gears, GearTypeOK, HeaderFollowsLines, LinesComplete

LEMMA DispatchOf ==
    /\ \A d \in Dispatches : CopiedRow(d) = d
    /\ \A l \in Lines : CopiedRow(l) = l[1] /\ l[1] \in Dispatches
    /\ \A d \in Dispatches, i \in GearLines : <<d, i>> \in Lines /\ <<d, i>>[1] = d
    /\ \A l \in Lines : l = <<l[1], l[2]>> /\ l[2] \in GearLines
BY GearAssumption DEF CopiedRow, Lines

\* A write to a dispatch, or to a line of it, leaves alone what the holders
\* of other dispatches hold.
LEMMA GearApart ==
    ASSUME GearInv, OneRequestPerCopy, NEW p \in Procs,
           req[p].on \in Dispatches \cup Lines, OthersStay(p),
           req'[p].at = "idle" \/ (req'[p].at = "reload" /\ req'[p].on \in Lines),
           \A l \in Lines : l[1] # CopiedRow(req[p].on) => line'[l] = line[l]
    PROVE  GearHeld'
<1> DEFINE d == CopiedRow(req[p].on)
<1>1. ASSUME NEW q \in Procs, q # p, req[q].at \in GearStatements
      PROVE  /\ req'[q] = req[q] /\ CopiedRow(req[q].on) # d
             /\ req[q].on \in Dispatches \cup Lines
  BY <1>1 DEF OthersStay, OneRequestPerCopy, GearInv, GearHeld, HeldBy, GearStatements
<1>2. ASSUME NEW q \in Procs, q # p, req[q].at = "gearStatus", req[q].on \in Dispatches,
             NEW i \in GearLines
      PROVE  line'[<<req[q].on, i>>] = line[<<req[q].on, i>>]
  BY <1>1, <1>2, DispatchOf DEF GearStatements
<1>3. ASSUME NEW q \in Procs, q # p, req[q].at \in {"scanned", "comingBack"},
             req[q].on \in Lines
      PROVE  line'[req[q].on] = line[req[q].on]
  BY <1>1, <1>3, DispatchOf DEF GearStatements
<1> HIDE DEF d
<1>4. ASSUME NEW q \in Procs, q # p, req[q].at = "gearStatus"
      PROVE  /\ req'[q] = req[q]
             /\ AllScanned(req[q].on) => AllScanned(req[q].on)'
             /\ AllReturned(req[q].on) => AllReturned(req[q].on)'
  <2>1. req'[q] = req[q] /\ req[q].on \in Dispatches
    BY <1>4 DEF OthersStay, GearInv, GearHeld, HeldBy
  <2>2. \A i \in GearLines : line'[<<req[q].on, i>>] = line[<<req[q].on, i>>]
    BY <1>2, <1>4, <2>1
  <2> QED
    BY <2>1, <2>2 DEF AllScanned, AllReturned
<1>5. ASSUME NEW q \in Procs, q # p, req[q].at \in {"scanned", "comingBack", "reload"}
      PROVE  /\ req'[q] = req[q]
             /\ req[q].at # "reload" => line'[req[q].on] = line[req[q].on]
  BY <1>3, <1>5 DEF OthersStay, GearInv, GearHeld, HeldBy
<1>6. ASSUME NEW q \in Procs, q # p
      PROVE  req'[q] = req[q]
  BY <1>6 DEF OthersStay
<1>7. ASSUME NEW q \in Procs
      PROVE  HeldBy(q)'
  <2>1. CASE q = p
    BY <2>1 DEF HeldBy
  <2>2. CASE q # p /\ req[q].at = "gearStatus"
    <3>1. req'[q] = req[q] /\ HeldBy(q)
      BY <1>6, <2>2 DEF GearInv, GearHeld
    <3> QED
      BY <1>4, <2>2, <3>1 DEF HeldBy
  <2>3. CASE q # p /\ req[q].at # "gearStatus"
    <3>1. req'[q] = req[q] /\ HeldBy(q)
      BY <1>6, <2>3 DEF GearInv, GearHeld
    <3> QED
      BY <1>5, <2>3, <3>1 DEF HeldBy
  <2> QED
    BY <2>1, <2>2, <2>3
<1> QED
  BY <1>7 DEF GearHeld

LEMMA GearStep ==
    ASSUME GearInv, ReqOK, OneRequestPerCopy, GearNext
    PROVE  GearInv'
<1> USE GearAssumption
<1>1. ASSUME NEW d \in Dispatches, CreateDispatch(d)
      PROVE  GearInv'
  BY <1>1 DEF GearInv, CreateDispatch, GearTypeOK, GearStatuses, HeaderFollowsLines,
              LinesComplete, GearHeld, HeldBy, AllScanned, AllReturned
<1>2. ASSUME NEW p \in Procs, SetGearStatus(p)
      PROVE  GearInv'
  <2> DEFINE d == req[p].on
             s == req[p].arg.status
  <2>1. /\ d \in Dispatches /\ s \in {"staged", "picked_up", "returned", "cancelled"}
        /\ s = "picked_up" => AllScanned(d)
        /\ s = "returned" => AllReturned(d)
    BY <1>2 DEF GearInv, GearHeld, HeldBy, SetGearStatus, At
  <2>2. gear' = [gear EXCEPT ![d] = s] /\ UNCHANGED line
    BY <1>2 DEF SetGearStatus
  <2>3. GearHeld'
    BY <1>2, <2>1, <2>2, ReturnMoves, GearApart DEF SetGearStatus, Idle
  <2> HIDE DEF d, s
  <2>4. HeaderFollowsLines'
    BY <2>1, <2>2, DispatchOf
       DEF GearInv, GearTypeOK, HeaderFollowsLines, AllScanned, AllReturned, LinesComplete
  <2>5. GearTypeOK' /\ LinesComplete'
    BY <2>1, <2>2 DEF GearInv, GearTypeOK, GearStatuses, LinesComplete
  <2> QED
    BY <2>3, <2>4, <2>5 DEF GearInv
<1>3. ASSUME NEW p \in Procs, UpdateItem(p)
      PROVE  GearInv'
  <2> DEFINE l == req[p].on
             a == req[p].arg
  <2>1. l \in Lines /\ line' = [line EXCEPT ![l] = a] /\ UNCHANGED gear
    BY <1>3 DEF GearInv, GearHeld, HeldBy, UpdateItem, At
  <2>2. /\ OthersStay(p)
        /\ req'[p].at = "idle" \/ (req'[p].at = "reload" /\ req'[p].on \in Lines)
    BY <1>3, <2>1, ReturnMoves, GotoMoves DEF UpdateItem, Idle
  <2>3. GearHeld'
    BY <2>1, <2>2, GearApart, DispatchOf DEF GearInv, GearTypeOK
  <2>4. /\ a \in [status : {"picked", "returned"}, returned : 0 .. LineQty]
        /\ a.status = "returned" => a.returned = LineQty
        /\ line[l].returned = LineQty => a.returned = LineQty
    <3>1. line[l] \in [status : LineStatuses, returned : 0 .. LineQty]
      BY <2>1 DEF GearInv, GearTypeOK
    <3>2. CASE At(p, "scanned")
      <4>1. a = [line[l] EXCEPT !.status = "picked"]
        BY <3>2 DEF GearInv, GearHeld, HeldBy, At
      <4> HIDE DEF l, a
      <4> QED
        BY <3>1, <4>1
    <3>3. CASE At(p, "comingBack")
      <4>1. /\ line[l].returned < LineQty
            /\ a \in [status : {"picked", "returned"}, returned : 0 .. LineQty]
            /\ a.status = "returned" => a.returned = LineQty
        BY <3>3 DEF GearInv, GearHeld, HeldBy, At
      <4> HIDE DEF l, a
      <4> QED
        BY <3>1, <4>1
    <3> QED
      BY <1>3, <3>2, <3>3 DEF UpdateItem
  <2> HIDE DEF l, a
  <2>5. GearTypeOK' /\ LinesComplete'
    BY <2>1, <2>4 DEF GearInv, GearTypeOK, LineStatuses, LinesComplete
  <2>6. HeaderFollowsLines'
    <3>1. \A k \in Lines :
            /\ line[k].status # "planned" => line'[k].status # "planned"
            /\ line[k].returned = LineQty => line'[k].returned = LineQty
      BY <2>1, <2>4 DEF GearInv, GearTypeOK
    <3> QED
      BY <2>1, <3>1, DispatchOf DEF GearInv, HeaderFollowsLines
  <2> QED
    BY <2>3, <2>5, <2>6 DEF GearInv
<1>4. ASSUME NEW p \in Procs, ReloadDispatch(p)
      PROVE  GearInv'
  <2> DEFINE d == req[p].on[1]
  <2>1. d \in Dispatches /\ UNCHANGED gears
    BY <1>4, DispatchOf DEF GearInv, GearHeld, HeldBy, ReloadDispatch, At
  <2>2. CASE Return(p)
    BY <2>1, <2>2, ReturnMoves
       DEF OthersStay, Idle, gears, GearInv, GearHeld, HeldBy, GearTypeOK, HeaderFollowsLines,
           LinesComplete, AllScanned, AllReturned
  <2>3. CASE /\ AllReturned(d)
             /\ req' = [req EXCEPT ![p] = [Idle EXCEPT !.at = "gearStatus", !.on = d,
                                                   !.arg = [status |-> "returned"]]]
    <3>1. /\ OthersStay(p) /\ req'[p].at = "gearStatus" /\ req'[p].on = d
          /\ req'[p].arg.status = "returned"
      BY <2>3 DEF ReqOK, OthersStay, Idle
    <3> QED
      BY <2>1, <2>3, <3>1
         DEF OthersStay, gears, GearInv, GearHeld, HeldBy, GearTypeOK, HeaderFollowsLines,
             LinesComplete, AllScanned, AllReturned
  <2> QED
    BY <1>4, <2>2, <2>3 DEF ReloadDispatch
<1>5. ASSUME NEW p \in Procs, NEW d \in Dispatches,
             StageDispatch(p, d) \/ CancelDispatch(p, d) \/ MarkPickedUp(p, d)
      PROVE  GearInv'
  <2>1. /\ UNCHANGED gears /\ OthersStay(p)
        /\ req'[p].at = "gearStatus" /\ req'[p].on = d
        /\ \/ req'[p].arg.status \in {"staged", "cancelled"}
           \/ req'[p].arg.status = "picked_up" /\ AllScanned(d)
    BY <1>5, BeginMoves DEF StageDispatch, CancelDispatch, MarkPickedUp
  <2> QED
    BY <2>1
       DEF OthersStay, gears, GearInv, GearHeld, HeldBy, GearTypeOK, HeaderFollowsLines,
           LinesComplete, AllScanned, AllReturned
<1>6. ASSUME NEW p \in Procs, NEW l \in Lines, PickUpItemByScan(p, l)
      PROVE  GearInv'
  <2>1. line[l] \in [status : LineStatuses, returned : 0 .. LineQty]
    BY DEF GearInv, GearTypeOK
  <2>2. /\ UNCHANGED gears /\ OthersStay(p)
        /\ req'[p].at = "scanned" /\ req'[p].on = l
        /\ line[l].status \in {"planned", "picked"}
        /\ req'[p].arg = [line[l] EXCEPT !.status = "picked"]
    BY <1>6, <2>1, BeginMoves DEF PickUpItemByScan
  <2> QED
    BY <2>2
       DEF OthersStay, gears, GearInv, GearHeld, HeldBy, GearTypeOK, HeaderFollowsLines,
           LinesComplete, AllScanned, AllReturned
<1>7. ASSUME NEW p \in Procs, NEW l \in Lines, ReturnItem(p, l)
      PROVE  GearInv'
  <2>1. line[l] \in [status : LineStatuses, returned : 0 .. LineQty]
        /\ (line[l].status = "returned" => line[l].returned = LineQty)
    BY DEF GearInv, GearTypeOK, LinesComplete
  <2>2. PICK n \in 1 .. LineQty - line[l].returned :
            Begin(p, "comingBack", l,
                  [status |-> IF line[l].returned + n = LineQty THEN "returned"
                              ELSE line[l].status,
                   returned |-> line[l].returned + n])
    BY <1>7 DEF ReturnItem
  <2>3. /\ UNCHANGED gears /\ OthersStay(p)
        /\ req'[p].at = "comingBack" /\ req'[p].on = l
        /\ line[l].returned < LineQty
        /\ req'[p].arg \in [status : {"picked", "returned"}, returned : 0 .. LineQty]
        /\ req'[p].arg.status = "returned" => req'[p].arg.returned = LineQty
    BY <1>7, <2>1, <2>2, BeginMoves DEF ReturnItem
  <2> QED
    BY <2>3
       DEF OthersStay, gears, GearInv, GearHeld, HeldBy, GearTypeOK, HeaderFollowsLines,
           LinesComplete, AllScanned, AllReturned
<1> QED
  BY <1>1, <1>2, <1>3, <1>4, <1>5, <1>6, <1>7 DEF GearNext

-----------------------------------------------------------------------------
(* The store room as a whole                                               *)

StoreInv == ReqOK /\ OneRequestPerCopy /\ LotInv /\ POInv /\ GearInv

LEMMA StoreInvInit == WarehouseInit => StoreInv
<1> SUFFICES ASSUME WarehouseInit PROVE StoreInv
  OBVIOUS
<1> USE LotAssumption, OrderedAssumption, GearAssumption DEF WarehouseInit
<1>1. ReqOK /\ \A p \in Procs : req[p].at = "idle" /\ req[p].on = None
  BY DEF ReqOK, Idle
<1>2. LotInv
  BY <1>1 DEF LotInv, LotsInit, LotsTypeOK, PiecesAddUp, LotsUntouched, LotHeld, LotHeldBy, NoLot,
              LotStatuses
<1>3. POInv
  BY <1>1 DEF POInv, PurchasingInit, PurchasingTypeOK, ReceiptsAddUp, POHeld, NoPO, POStatuses
<1>4. GearInv
  BY <1>1 DEF GearInv, GearInit, GearTypeOK, HeaderFollowsLines, LinesComplete, GearHeld, HeldBy,
              Planned, GearStatuses, LineStatuses
<1>5. OneRequestPerCopy
  BY <1>1, NoneIsNoStock DEF OneRequestPerCopy
<1> QED
  BY <1>1, <1>2, <1>3, <1>4, <1>5 DEF StoreInv

\* Statements belong to one part of the store room each.
LEMMA PartsApart ==
    /\ LedgerStatements \cap LotStatements = {} /\ LedgerStatements \cap GearStatements = {}
    /\ LedgerStatements \cap PurchasingStatements = {}
    /\ PurchasingStatements \cap LotStatements = {}
    /\ PurchasingStatements \cap GearStatements = {}
    /\ LotStatements \cap GearStatements = {}
BY DEF LedgerStatements, PurchasingStatements, LotStatements, GearStatements

LEMMA StoreInvStep ==
    ASSUME StoreInv, [WarehouseNext /\ OneRequestPerCopy']_warehouseVars
    PROVE  StoreInv'
<1> USE DEF StoreInv
<1>1. CASE UNCHANGED warehouseVars
  <2>1. UNCHANGED <<lots, purchasing, gears, req>>
    BY <1>1 DEF warehouseVars
  <2>2. ReqOK' /\ OneRequestPerCopy' /\ Enters({})
    BY <2>1 DEF ReqOK, OneRequestPerCopy, Enters
  <2> QED
    BY <2>1, <2>2, LotFrame, POFrame, GearFrame
<1>2. CASE LedgerNext /\ UNCHANGED <<purchasing, lots, gears>> /\ OneRequestPerCopy'
  BY <1>2, LedgerEnters, PartsApart, LotFrame, POFrame, GearFrame
<1>3. CASE PurchasingNext /\ UNCHANGED <<lots, gears>> /\ OneRequestPerCopy'
  BY <1>3, PurchasingEnters, PartsApart, LotFrame, POStep, GearFrame
<1>4. CASE LotsNext /\ UNCHANGED <<ledger, purchasing, gears>> /\ OneRequestPerCopy'
  BY <1>4, LotsEnter, PartsApart, LotStep, POFrame, GearFrame
<1>5. CASE GearNext /\ UNCHANGED <<ledger, purchasing, lots>> /\ OneRequestPerCopy'
  BY <1>5, GearEnters, PartsApart, LotFrame, POFrame, GearStep
<1>6. ASSUME NEW p \in Procs, AbandonStock(p), UNCHANGED <<purchasing, lots, gears>>,
             OneRequestPerCopy'
      PROVE  StoreInv'
  BY <1>6, AbandonEnters, LotFrame, POFrame, GearFrame
<1> QED
  BY <1>1, <1>2, <1>3, <1>4, <1>5, <1>6 DEF WarehouseNext

LEMMA SpecStoreInv == WarehouseSpec => []StoreInv
BY StoreInvInit, StoreInvStep, PTL DEF WarehouseSpec

\* What is left of a drum or batch and what was taken from it add up to what
\* arrived, for any number of lots, lengths and requests, wherever one of
\* them dies: lot and piece are one transaction.
THEOREM PiecesAlwaysAddUp == WarehouseSpec => []PiecesAddUp
<1>1. StoreInv => PiecesAddUp
  BY DEF StoreInv, LotInv
<1> QED
  BY <1>1, SpecStoreInv, PTL

\* An order's received total is the sum of its receipts, never above what was
\* ordered, and the order is closed exactly when all has come.
THEOREM ReceiptsAlwaysAddUp == WarehouseSpec => []ReceiptsAddUp
<1>1. StoreInv => ReceiptsAddUp
  BY DEF StoreInv, POInv
<1> QED
  BY <1>1, SpecStoreInv, PTL

\* A dispatch picked up had every line scanned, and one returned has every
\* unit of every line back, for any number of lines and dispatches.
THEOREM HeaderAlwaysFollowsLines == WarehouseSpec => []HeaderFollowsLines
<1>1. StoreInv => HeaderFollowsLines
  BY DEF StoreInv, GearInv
<1> QED
  BY <1>1, SpecStoreInv, PTL
-----------------------------------------------------------------------------
(* Levels and movements: each statement moves a level, the movements, or what *)
(* is between the two, and two of them by the same amount                     *)

\* What the requests of r are about to write to the movements of w; without
\* those of p; and what one request is.
FlightOf(r, w) ==
    LET writing == {q \in Procs : r[q].at = "movement" /\ r[q].arg.warehouse = w}
    IN  SumFunctionOnSet([q \in writing |-> r[q].arg.delta], writing)

FlightBut(r, p, w) ==
    LET others == {q \in Procs \ {p} : r[q].at = "movement" /\ r[q].arg.warehouse = w}
    IN  SumFunctionOnSet([q \in others |-> r[q].arg.delta], others)

InTransit(k, w) == IF k.at = "movement" /\ k.arg.warehouse = w THEN k.arg.delta ELSE 0

DeltasOf(r) == \A q \in Procs : r[q].at = "movement" => r[q].arg.delta \in Int

LEMMA FlightSplits ==
    ASSUME NEW r, DeltasOf(r), NEW p \in Procs, NEW w
    PROVE  /\ FlightBut(r, p, w) \in Int /\ InTransit(r[p], w) \in Int
           /\ FlightOf(r, w) = FlightBut(r, p, w) + InTransit(r[p], w)
<1> DEFINE S == {q \in Procs : r[q].at = "movement" /\ r[q].arg.warehouse = w}
           T == {q \in Procs \ {p} : r[q].at = "movement" /\ r[q].arg.warehouse = w}
           f == [q \in S |-> r[q].arg.delta]
           k == [q \in T |-> r[q].arg.delta]
<1>1. IsFiniteSet(S) /\ IsFiniteSet(T)
  BY LedgerAssumption, FS_Subset
<1>2. Numbers(f, S) /\ Numbers(k, T) /\ \A q \in T : f[q] = k[q]
  BY DEF Numbers, DeltasOf
<1>3. T = S \ {p} /\ (p \in S => f[p] = InTransit(r[p], w)) /\ (p \notin S => InTransit(r[p], w) = 0)
  BY DEF InTransit
<1>4. FlightOf(r, w) = SumFunctionOnSet(f, S) /\ FlightBut(r, p, w) = SumFunctionOnSet(k, T)
  BY DEF FlightOf, FlightBut
<1>5. InTransit(r[p], w) \in Int
  BY DEF InTransit, DeltasOf
<1> HIDE DEF S, T, f, k
<1>6. SumFunctionOnSet(k, T) \in Int
  BY <1>1, <1>2, SumType
<1>7. SumFunctionOnSet(f, T) = SumFunctionOnSet(k, T)
  <2>1. Numbers(f, T)
    BY <1>2 DEF Numbers
  <2> QED
    BY <1>1, <1>2, <2>1, SumAgrees
<1>8. CASE p \in S
  BY <1>1, <1>2, <1>3, <1>4, <1>5, <1>6, <1>7, <1>8, SumSplits
<1>9. CASE p \notin S
  BY <1>3, <1>4, <1>5, <1>6, <1>7, <1>9
<1> QED
  BY <1>8, <1>9

LEMMA FlightMoves ==
    ASSUME NEW r, NEW s, DeltasOf(r), DeltasOf(s), NEW p \in Procs,
           \A q \in Procs \ {p} : s[q] = r[q], NEW w
    PROVE  /\ FlightOf(r, w) \in Int /\ FlightOf(s, w) \in Int
           /\ FlightOf(s, w) - InTransit(s[p], w) = FlightOf(r, w) - InTransit(r[p], w)
<1>1. FlightBut(s, p, w) = FlightBut(r, p, w)
  <2> DEFINE others(x) == {q \in Procs \ {p} : x[q].at = "movement" /\ x[q].arg.warehouse = w}
             deltas(x) == [q \in others(x) |-> x[q].arg.delta]
  <2>1. others(s) = others(r)
    OBVIOUS
  <2>2. deltas(s) = deltas(r)
    BY <2>1
  <2>3. /\ FlightBut(s, p, w) = SumFunctionOnSet(deltas(s), others(s))
        /\ FlightBut(r, p, w) = SumFunctionOnSet(deltas(r), others(r))
    BY DEF FlightBut
  <2> HIDE DEF others, deltas
  <2> QED
    BY <2>1, <2>2, <2>3
<1>2. /\ FlightBut(r, p, w) \in Int /\ InTransit(r[p], w) \in Int
      /\ FlightOf(r, w) = FlightBut(r, p, w) + InTransit(r[p], w)
  BY FlightSplits
<1>3. /\ FlightBut(s, p, w) \in Int /\ InTransit(s[p], w) \in Int
      /\ FlightOf(s, w) = FlightBut(s, p, w) + InTransit(s[p], w)
  BY FlightSplits
<1> QED
  BY <1>1, <1>2, <1>3

LEMMA FlightIs ==
    ASSUME NEW w \in Warehouses
    PROVE  InFlight(w) = FlightOf(req, w) /\ InFlight(w)' = FlightOf(req', w)
BY DEF InFlight, FlightOf, At

Finals == {"dispatched", "received", "committed", "cancelled"}

Plans ==
    [warehouse : Warehouses \cup {None}, delta : Int, lines : Int, final : Finals \cup {None}]

\* What request p holds at a statement of the ledger.
PlanHeld(p) ==
    /\ req[p].at \in {"level", "movement", "status"} => req[p].arg \in Plans
    /\ req[p].at = "status" => req[p].arg.final \in Finals
    /\ req[p].at \in {"expected", "count"} => req[p].on \in Sessions /\ req[p].arg.counted \in Int
    /\ req[p].at = "expected" => session[req[p].on].warehouse \in Warehouses
    /\ req[p].at = "count" => req[p].got \in Int

TransferRows ==
    [status : TransferStatuses \cup Finals, source : Warehouses \cup {None},
     destination : Warehouses \cup {None}]

SessionRows ==
    [status : SessionStatuses \cup Finals, warehouse : Warehouses \cup {None},
     expected : Int \cup {None}, counted : Int \cup {None}]

LevelTables ==
    /\ level \in [Warehouses -> Int]
    /\ movements \in [Warehouses -> Int]
    /\ lost \in [Warehouses -> Int]
    /\ transfer \in [Transfers -> TransferRows]
    /\ session \in [Sessions -> SessionRows]
    /\ \A s \in Sessions :
        /\ session[s].status = "open" => session[s].warehouse \in Warehouses
        /\ session[s].expected # None => session[s].counted \in Int

LevelInv == LevelTables /\ (\A p \in Procs : PlanHeld(p)) /\ LevelsMatchMovements

\* A counted warehouse is not forgotten.
SessionsKeep ==
    \A s \in Sessions : session[s].warehouse \in Warehouses => session'[s].warehouse \in Warehouses

\* A relative update of one row.
Adds(f, v, d, g) ==
    \A w \in Warehouses : f[w] \in Int /\ g[w] = f[w] + IF v = w THEN d ELSE 0

LEMMA Relative ==
    ASSUME NEW f, f \in [Warehouses -> Int], NEW v, NEW d, d \in Int, NEW g,
           g = [f EXCEPT ![v] = @ + d]
    PROVE  g \in [Warehouses -> Int] /\ Adds(f, v, d, g)
<1>1. \A w \in Warehouses : f[w] \in Int /\ g[w] = IF w = v THEN f[w] + d ELSE f[w]
  OBVIOUS
<1>2. \A w \in Warehouses : g[w] \in Int
  BY <1>1
<1>3. g \in [Warehouses -> Int]
  BY <1>2
<1>4. \A w \in Warehouses : g[w] = f[w] + IF v = w THEN d ELSE 0
  BY <1>1
<1> QED
  BY <1>1, <1>3, <1>4 DEF Adds

LEMMA Accounts ==
    ASSUME NEW a \in Int, NEW b \in Int, NEW c \in Int, NEW f \in Int, NEW t \in Int,
           NEW x \in Int, NEW y \in Int, NEW z \in Int, NEW g \in Int, NEW u \in Int,
           a = b + c + f, g - u = f - t, x - y - z - u = a - b - c - t
    PROVE  x = y + z + g
OBVIOUS

\* A step of p that accounts for what it moves.
LEMMA Balances ==
    ASSUME LevelInv, LevelTables', SessionsKeep, NEW p \in Procs, OthersStay(p), PlanHeld(p)',
           \A w \in Warehouses :
              level'[w] - movements'[w] - lost'[w] - InTransit(req'[p], w) =
                  level[w] - movements[w] - lost[w] - InTransit(req[p], w)
    PROVE  LevelInv'
<1>1. \A q \in Procs : PlanHeld(q)'
  BY DEF LevelInv, PlanHeld, OthersStay, SessionsKeep
<1>2. DeltasOf(req) /\ DeltasOf(req')
  BY <1>1 DEF DeltasOf, LevelInv, PlanHeld, Plans
<1>3. ASSUME NEW w \in Warehouses
      PROVE  level'[w] = movements'[w] + lost'[w] + InFlight(w)'
  <2>1. /\ FlightOf(req, w) \in Int /\ FlightOf(req', w) \in Int
        /\ FlightOf(req', w) - InTransit(req'[p], w) = FlightOf(req, w) - InTransit(req[p], w)
    BY <1>2, FlightMoves DEF OthersStay
  <2>2. InTransit(req[p], w) \in Int /\ InTransit(req'[p], w) \in Int
    BY <1>2 DEF InTransit, DeltasOf
  <2>3. level[w] = movements[w] + lost[w] + FlightOf(req, w)
    BY FlightIs DEF LevelInv, LevelsMatchMovements
  <2>4. /\ level[w] \in Int /\ movements[w] \in Int /\ lost[w] \in Int
        /\ level'[w] \in Int /\ movements'[w] \in Int /\ lost'[w] \in Int
    BY DEF LevelInv, LevelTables
  <2>5. level'[w] - movements'[w] - lost'[w] - InTransit(req'[p], w) =
            level[w] - movements[w] - lost[w] - InTransit(req[p], w)
    OBVIOUS
  <2>6. level'[w] = movements'[w] + lost'[w] + FlightOf(req', w)
    <3>1. PICK f \in Int, t \in Int, g \in Int, u \in Int :
              /\ f = FlightOf(req, w) /\ t = InTransit(req[p], w)
              /\ g = FlightOf(req', w) /\ u = InTransit(req'[p], w)
      BY <2>1, <2>2
    <3>2. PICK a \in Int, b \in Int, c \in Int, x \in Int, y \in Int, z \in Int :
              /\ a = level[w] /\ b = movements[w] /\ c = lost[w]
              /\ x = level'[w] /\ y = movements'[w] /\ z = lost'[w]
      BY <2>4
    <3>3. a = b + c + f /\ g - u = f - t /\ x - y - z - u = a - b - c - t
      BY <2>1, <2>3, <2>5, <3>1, <3>2
    <3>4. x = y + z + g
      BY <3>3, Accounts
    <3> QED
      BY <3>1, <3>2, <3>4
  <2> QED
    BY <2>6, FlightIs
<1> QED
  BY <1>1, <1>3 DEF LevelInv, LevelsMatchMovements

\* A step of p that moves nothing.
LEMMA BalancesStill ==
    ASSUME LevelInv, LevelTables', SessionsKeep, NEW p \in Procs, OthersStay(p), PlanHeld(p)',
           UNCHANGED <<level, movements, lost>>,
           req[p].at # "movement", req'[p].at # "movement"
    PROVE  LevelInv'
<1>1. \A w \in Warehouses :
          level'[w] - movements'[w] - lost'[w] - InTransit(req'[p], w) =
              level[w] - movements[w] - lost[w] - InTransit(req[p], w)
  BY DEF InTransit
<1> QED
  BY <1>1, Balances

\* Nor do the other parts of the store room, and they leave the ledger's
\* requests where they are.
LEMMA LevelFrame ==
    ASSUME LevelInv, UNCHANGED ledger,
           \/ UNCHANGED req
           \/ \E p \in Procs : /\ OthersStay(p)
                               /\ req[p].at # "movement" /\ req'[p].at \notin LedgerStatements
    PROVE  LevelInv'
<1>1. LevelTables' /\ SessionsKeep
  BY DEF LevelInv, LevelTables, SessionsKeep, ledger
<1>2. CASE UNCHANGED req
  <2>1. (\A p \in Procs : PlanHeld(p))'
    BY <1>2 DEF LevelInv, PlanHeld, ledger
  <2>2. LevelsMatchMovements'
    BY <1>2 DEF LevelInv, LevelsMatchMovements, InFlight, At, ledger
  <2> QED
    BY <1>1, <2>1, <2>2 DEF LevelInv
<1>3. ASSUME NEW p \in Procs, OthersStay(p), req[p].at # "movement",
             req'[p].at \notin LedgerStatements
      PROVE  LevelInv'
  <2>1. PlanHeld(p)'
    BY <1>3 DEF PlanHeld, LedgerStatements
  <2> QED
    BY <1>1, <1>3, <2>1, BalancesStill DEF LedgerStatements, ledger
<1> QED
  BY <1>2, <1>3
\* A row is inserted and no request moves.
LEMMA LevelRows ==
    ASSUME LevelInv, (\E t \in Transfers : CreateTransfer(t)) \/ \E s \in Sessions : StartOpname(s)
    PROVE  LevelInv'
<1>1. UNCHANGED <<level, movements, lost, req>>
  BY DEF CreateTransfer, StartOpname
<1>2. SessionsKeep /\ LevelTables'
  <2>1. ASSUME NEW t \in Transfers, CreateTransfer(t) PROVE SessionsKeep /\ LevelTables'
    BY <2>1 DEF CreateTransfer, SessionsKeep, LevelInv, LevelTables, TransferRows, TransferStatuses
  <2>2. ASSUME NEW s \in Sessions, StartOpname(s) PROVE SessionsKeep /\ LevelTables'
    <3>1. PICK w \in Warehouses :
              session' = [session EXCEPT ![s].status = "open", ![s].warehouse = w]
      BY <2>2 DEF StartOpname
    <3> DEFINE m == [session EXCEPT ![s].status = "open"]
    <3>2. /\ m \in [Sessions -> SessionRows] /\ m[s].expected = None
          /\ \A r \in Sessions : r # s => m[r] = session[r]
      BY <2>2 DEF StartOpname, LevelInv, LevelTables, SessionRows, SessionStatuses, NoSession
    <3>3. session' = [m EXCEPT ![s].warehouse = w]
      BY <3>1
    <3> HIDE DEF m
    <3>4. /\ session' \in [Sessions -> SessionRows]
          /\ session'[s].warehouse = w /\ session'[s].expected = None
          /\ \A r \in Sessions : r # s => session'[r] = session[r]
      BY <3>2, <3>3 DEF SessionRows
    <3> QED
      BY <2>2, <3>4 DEF StartOpname, SessionsKeep, LevelInv, LevelTables
  <2> QED
    BY <2>1, <2>2
<1>3. \A p \in Procs : PlanHeld(p)'
  BY <1>1, <1>2 DEF LevelInv, PlanHeld, SessionsKeep
<1>4. LevelsMatchMovements'
  BY <1>1 DEF LevelInv, LevelsMatchMovements, InFlight, At
<1> QED
  BY <1>2, <1>3, <1>4 DEF LevelInv

\* A request that begins, and moves nothing yet.
LEMMA LevelBegins ==
    ASSUME LevelInv, ReqOK, NEW p \in Procs, UNCHANGED ledger,
           \/ Intake(p)
           \/ \E t \in Transfers :
                DispatchTransfer(p, t) \/ ReceiveTransfer(p, t) \/ CancelTransfer(p, t)
           \/ \E s \in Sessions :
                UpsertOpnameCount(p, s) \/ CommitOpname(p, s) \/ CancelOpname(p, s)
    PROVE  LevelInv'
<1>0. LevelTables' /\ SessionsKeep /\ UNCHANGED <<level, movements, lost, session>>
  BY DEF LevelInv, LevelTables, SessionsKeep, ledger
<1>1. ASSUME NEW s \in {"level", "status"}, NEW row, NEW plan, Begin(p, s, row, plan),
             plan \in Plans, s = "status" => plan.final \in Finals
      PROVE  LevelInv'
  <2>1. /\ OthersStay(p) /\ req'[p].at = s /\ req'[p].arg = plan /\ req[p].at = "idle"
    BY <1>1, BeginMoves DEF Begin, Free
  <2>2. PlanHeld(p)'
    BY <1>1, <2>1 DEF PlanHeld
  <2> QED
    BY <1>0, <2>1, <2>2, BalancesStill
<1>2. \A w, delta, lines, final :
          /\ w \in Warehouses \cup {None} /\ delta \in Int /\ lines \in Int
          /\ final \in Finals \cup {None}
          => Plan(w, delta, lines, final) \in Plans /\ Plan(w, delta, lines, final).final = final
  BY DEF Plan, Plans
<1>3. TransferLines \in Int /\ -1 \in Int /\ 1 \in Int /\ 0 \in Int
  BY LedgerAssumption
<1>4. CASE Intake(p)
  <2>1. PICK w \in Warehouses : Begin(p, "level", w, Plan(w, 1, 1, None))
    BY <1>4 DEF Intake
  <2> QED
    BY <1>1, <1>2, <2>1
<1>5. ASSUME NEW t \in Transfers,
             DispatchTransfer(p, t) \/ ReceiveTransfer(p, t) \/ CancelTransfer(p, t)
      PROVE  LevelInv'
  <2>1. transfer[t].source \in Warehouses \cup {None} /\ transfer[t].destination \in Warehouses \cup {None}
    BY DEF LevelInv, LevelTables, TransferRows
  <2>2. CASE DispatchTransfer(p, t)
    <3>1. Plan(transfer[t].source, -1, TransferLines, "dispatched") \in Plans
      BY <1>2, <1>3, <2>1 DEF Finals
    <3> QED
      BY <1>1, <2>2, <3>1 DEF DispatchTransfer
  <2>3. CASE ReceiveTransfer(p, t)
    <3>1. Plan(transfer[t].destination, 1, TransferLines, "received") \in Plans
      BY <1>2, <1>3, <2>1 DEF Finals
    <3> QED
      BY <1>1, <2>3, <3>1 DEF ReceiveTransfer
  <2>4. CASE CancelTransfer(p, t)
    <3>1. /\ Plan(None, 0, 0, "cancelled") \in Plans
          /\ Plan(None, 0, 0, "cancelled").final \in Finals
      BY <1>2, <1>3 DEF Finals
    <3> QED
      BY <1>1, <2>4, <3>1 DEF CancelTransfer
  <2> QED
    BY <1>5, <2>2, <2>3, <2>4
<1>6. ASSUME NEW s \in Sessions, CommitOpname(p, s) \/ CancelOpname(p, s) PROVE LevelInv'
  <2>1. CASE CancelOpname(p, s)
    <3>1. /\ Plan(None, 0, 0, "cancelled") \in Plans
          /\ Plan(None, 0, 0, "cancelled").final \in Finals
      BY <1>2, <1>3 DEF Finals
    <3> QED
      BY <1>1, <2>1, <3>1 DEF CancelOpname
  <2>2. CASE CommitOpname(p, s)
    <3> DEFINE delta == session[s].counted - session[s].expected
               plan == Plan(session[s].warehouse, delta, 1, "committed")
    <3>1. delta \in Int /\ session[s].warehouse \in Warehouses
      BY <2>2 DEF CommitOpname, LevelInv, LevelTables, SessionRows
    <3>2. plan \in Plans /\ plan.final \in Finals
      BY <1>2, <1>3, <3>1 DEF Finals
    <3>3. PICK v \in {"level", "status"} : Begin(p, v, s, plan)
      BY <2>2 DEF CommitOpname
    <3> HIDE DEF plan
    <3> QED
      BY <1>1, <3>2, <3>3
  <2> QED
    BY <1>6, <2>1, <2>2
<1>7. ASSUME NEW s \in Sessions, UpsertOpnameCount(p, s) PROVE LevelInv'
  <2>1. PICK v : Begin(p, "expected", s, v) /\ v.counted \in Int
    BY <1>7 DEF UpsertOpnameCount
  <2>2. /\ OthersStay(p) /\ req'[p].at = "expected" /\ req'[p].on = s /\ req'[p].arg = v
        /\ req[p].at = "idle"
    BY <2>1, BeginMoves DEF Begin, Free
  <2>3. session'[s].warehouse \in Warehouses
    BY <1>0, <1>7 DEF UpsertOpnameCount, LevelInv, LevelTables
  <2>4. PlanHeld(p)'
    BY <2>1, <2>2, <2>3 DEF PlanHeld
  <2> QED
    BY <1>0, <2>2, <2>4, BalancesStill
<1> QED
  BY <1>4, <1>5, <1>6, <1>7
\* The statements that move a level or the movements.
LEMMA LevelMoves ==
    ASSUME LevelInv, ReqOK, NEW p \in Procs, MoveLevel(p) \/ RecordMovement(p)
    PROVE  LevelInv'
<1> DEFINE plan == req[p].arg
<1>0. plan \in Plans /\ plan.delta \in Int /\ plan.lines \in Int /\ UNCHANGED session
  BY DEF LevelInv, PlanHeld, Plans, MoveLevel, RecordMovement, At
<1>1. SessionsKeep
  BY <1>0 DEF SessionsKeep
<1>2. CASE MoveLevel(p)
  <2>1. /\ OthersStay(p) /\ req[p].at = "level" /\ req'[p].at = "movement" /\ req'[p].arg = plan
    BY <1>2, GotoMoves DEF MoveLevel, At
  <2> HIDE DEF plan
  <2>2. PlanHeld(p)'
    BY <1>0, <2>1 DEF PlanHeld
  <2>3. level' = [level EXCEPT ![plan.warehouse] = @ + plan.delta]
        /\ UNCHANGED <<movements, lost, transfer, session>>
    BY <1>2 DEF MoveLevel, UpsertDelta, plan
  <2>a. level' \in [Warehouses -> Int] /\ Adds(level, plan.warehouse, plan.delta, level')
    BY <1>0, <2>3, Relative DEF LevelInv, LevelTables
  <2>4. LevelTables'
    BY <2>3, <2>a DEF LevelInv, LevelTables
  <2>5. ASSUME NEW w \in Warehouses
        PROVE  level'[w] - movements'[w] - lost'[w] - InTransit(req'[p], w) =
                   level[w] - movements[w] - lost[w] - InTransit(req[p], w)
    <3>1. InTransit(req[p], w) = 0
          /\ InTransit(req'[p], w) = IF plan.warehouse = w THEN plan.delta ELSE 0
      BY <2>1 DEF InTransit
    <3>2. level[w] \in Int /\ movements[w] \in Int /\ lost[w] \in Int
          /\ level'[w] = level[w] + IF plan.warehouse = w THEN plan.delta ELSE 0
      BY <2>a DEF Adds, LevelInv, LevelTables
    <3> QED
      BY <1>0, <2>3, <3>1, <3>2
  <2> QED
    BY <1>1, <2>1, <2>2, <2>4, <2>5, Balances
<1>3. CASE RecordMovement(p)
  <2>1. req[p].at = "movement"
    BY <1>3 DEF RecordMovement, At
  <2>2. OthersStay(p) /\ PlanHeld(p)' /\ req'[p].at \in {"level", "status", "idle"}
    <3>1. CASE Return(p)
      BY <3>1, ReturnMoves DEF PlanHeld, Idle
    <3>2. CASE plan.final # None /\ Goto(p, "status")
      <4>1. OthersStay(p) /\ req'[p].at = "status" /\ req'[p].arg = plan
        BY <3>2, GotoMoves
      <4> QED
        BY <1>0, <3>2, <4>1 DEF PlanHeld, Plans
    <3>3. ASSUME NEW rest, rest = [plan EXCEPT !.lines = @ - 1],
                 req' = [req EXCEPT ![p] =
                            [at |-> "level", on |-> @.on, arg |-> rest, got |-> @.got]]
          PROVE  OthersStay(p) /\ PlanHeld(p)' /\ req'[p].at \in {"level", "status", "idle"}
      <4>1. rest \in Plans
        BY <1>0, <3>3 DEF Plans
      <4>2. OthersStay(p) /\ req'[p].at = "level" /\ req'[p].arg = rest
        BY <3>3 DEF ReqOK, OthersStay
      <4> QED
        BY <4>1, <4>2 DEF PlanHeld
    <3> QED
      BY <1>3, <3>1, <3>2, <3>3 DEF RecordMovement
  <2> HIDE DEF plan
  <2>3. movements' = [movements EXCEPT ![plan.warehouse] = @ + plan.delta]
        /\ UNCHANGED <<level, lost, transfer, session>>
    BY <1>3 DEF RecordMovement, plan
  <2>a. movements' \in [Warehouses -> Int] /\ Adds(movements, plan.warehouse, plan.delta, movements')
    BY <1>0, <2>3, Relative DEF LevelInv, LevelTables
  <2>4. LevelTables'
    BY <2>3, <2>a DEF LevelInv, LevelTables
  <2>5. ASSUME NEW w \in Warehouses
        PROVE  level'[w] - movements'[w] - lost'[w] - InTransit(req'[p], w) =
                   level[w] - movements[w] - lost[w] - InTransit(req[p], w)
    <3>1. InTransit(req'[p], w) = 0
          /\ InTransit(req[p], w) = IF plan.warehouse = w THEN plan.delta ELSE 0
      BY <2>1, <2>2 DEF InTransit, plan
    <3>2. level[w] \in Int /\ movements[w] \in Int /\ lost[w] \in Int
          /\ movements'[w] = movements[w] + IF plan.warehouse = w THEN plan.delta ELSE 0
      BY <2>a DEF Adds, LevelInv, LevelTables
    <3> QED
      BY <1>0, <2>3, <3>1, <3>2
  <2> QED
    BY <1>1, <2>2, <2>4, <2>5, Balances
<1> QED
  BY <1>2, <1>3

\* The statements that write a status or a count.
LEMMA LevelStatuses ==
    ASSUME LevelInv, ReqOK, NEW p \in Procs, SetStatus(p) \/ ReadExpected(p) \/ UpsertCount(p)
    PROVE  LevelInv'
<1>0. /\ PlanHeld(p) /\ UNCHANGED <<level, movements, lost>> /\ req[p].at # "movement"
      /\ level \in [Warehouses -> Int] /\ session \in [Sessions -> SessionRows]
      /\ transfer \in [Transfers -> TransferRows]
  BY DEF LevelInv, LevelTables, SetStatus, ReadExpected, UpsertCount, At, ledger
<1>1. CASE SetStatus(p)
  <2> DEFINE row == req[p].on
             final == req[p].arg.final
  <2>1. final \in Finals /\ OthersStay(p) /\ req'[p].at = "idle"
    BY <1>0, <1>1, ReturnMoves DEF SetStatus, At, PlanHeld, Idle
  <2>2. PlanHeld(p)'
    BY <2>1 DEF PlanHeld
  <2>3. \/ row \in Transfers /\ transfer' = [transfer EXCEPT ![row].status = final] /\ UNCHANGED session
        \/ row \in Sessions /\ session' = [session EXCEPT ![row].status = final] /\ UNCHANGED transfer
    BY <1>1 DEF SetStatus
  <2> HIDE DEF row, final
  <2>4. LevelTables' /\ SessionsKeep
    <3>1. CASE row \in Transfers /\ transfer' = [transfer EXCEPT ![row].status = final] /\ UNCHANGED session
      <4>1. transfer' \in [Transfers -> TransferRows]
        BY <1>0, <2>1, <3>1 DEF TransferRows, TransferStatuses, Finals
      <4> QED
        BY <1>0, <3>1, <4>1 DEF LevelInv, LevelTables, SessionsKeep
    <3>2. CASE row \in Sessions /\ session' = [session EXCEPT ![row].status = final] /\ UNCHANGED transfer
      <4>1. /\ session' \in [Sessions -> SessionRows]
            /\ session'[row].status # "open"
            /\ session'[row].warehouse = session[row].warehouse
            /\ session'[row].expected = session[row].expected
            /\ session'[row].counted = session[row].counted
            /\ \A s \in Sessions : s # row => session'[s] = session[s]
        BY <1>0, <2>1, <3>2 DEF SessionRows, Finals
      <4> QED
        BY <1>0, <3>2, <4>1 DEF LevelInv, LevelTables, SessionsKeep
    <3> QED
      BY <2>3, <3>1, <3>2
  <2> QED
    BY <1>0, <2>1, <2>2, <2>4, BalancesStill
<1>2. CASE ReadExpected(p)
  <2> DEFINE n == level[session[req[p].on].warehouse]
  <2>1. n \in Int /\ req[p].on \in Sessions /\ req[p].arg.counted \in Int
    BY <1>0, <1>2 DEF ReadExpected, At, PlanHeld
  <2>2. Hold(p, n, "count") /\ UNCHANGED ledger
    BY <1>2 DEF ReadExpected
  <2> HIDE DEF n
  <2>3. /\ OthersStay(p) /\ req'[p].at = "count" /\ req'[p].got = n
        /\ req'[p].on = req[p].on /\ req'[p].arg = req[p].arg
    BY <2>2 DEF Hold, ReqOK, OthersStay
  <2>4. PlanHeld(p)'
    BY <2>1, <2>3 DEF PlanHeld
  <2>5. LevelTables' /\ SessionsKeep
    BY <2>2 DEF ledger, LevelInv, LevelTables, SessionsKeep
  <2> QED
    BY <1>0, <2>3, <2>4, <2>5, BalancesStill
<1>3. CASE UpsertCount(p)
  <2> DEFINE s == req[p].on
             e == IF session[s].expected = None THEN req[p].got ELSE session[s].expected
             n == req[p].arg.counted
             m == [session EXCEPT ![s].expected = e]
  <2>1. s \in Sessions /\ req[p].got \in Int /\ n \in Int
    BY <1>0, <1>3 DEF UpsertCount, At, PlanHeld
  <2>2. e \in Int \cup {None}
    BY <1>0, <2>1 DEF SessionRows
  <2>3. OthersStay(p) /\ req'[p].at = "idle"
    BY <1>3, ReturnMoves DEF UpsertCount, Idle
  <2>4. session' = [session EXCEPT ![s].expected = e, ![s].counted = n] /\ UNCHANGED transfer
    BY <1>0, <1>3, <2>1 DEF UpsertCount
  <2>5. session' = [m EXCEPT ![s].counted = n]
    BY <2>4
  <2> HIDE DEF s, e, n
  <2>6. /\ m \in [Sessions -> SessionRows]
        /\ m[s].status = session[s].status /\ m[s].warehouse = session[s].warehouse
        /\ \A r \in Sessions : r # s => m[r] = session[r]
    BY <1>0, <2>1, <2>2 DEF SessionRows
  <2> HIDE DEF m
  <2>7. /\ session' \in [Sessions -> SessionRows]
        /\ session'[s].status = session[s].status /\ session'[s].warehouse = session[s].warehouse
        /\ session'[s].counted = n
        /\ \A r \in Sessions : r # s => session'[r] = session[r]
    BY <2>1, <2>5, <2>6 DEF SessionRows
  <2>8. LevelTables' /\ SessionsKeep
    BY <1>0, <2>1, <2>4, <2>7 DEF LevelInv, LevelTables, SessionsKeep
  <2>9. PlanHeld(p)'
    BY <2>3 DEF PlanHeld
  <2> QED
    BY <1>0, <2>3, <2>8, <2>9, BalancesStill
<1> QED
  BY <1>1, <1>2, <1>3
\* A handler that dies between a level and its movement loses the movement.
LEMMA LevelAbandons ==
    ASSUME LevelInv, ReqOK, NEW p \in Procs, AbandonStock(p)
    PROVE  LevelInv'
<1>1. /\ OthersStay(p) /\ req'[p].at = "idle" /\ PlanHeld(p)'
      /\ UNCHANGED <<level, movements, transfer, session>>
  BY ReturnMoves DEF AbandonStock, Abandon, Idle, PlanHeld
<1>2. SessionsKeep
  BY <1>1 DEF SessionsKeep
<1>3. CASE req[p].at # "movement"
  <2>1. UNCHANGED lost
    BY <1>3 DEF AbandonStock, At
  <2>2. LevelTables'
    BY <1>1, <2>1 DEF LevelInv, LevelTables
  <2> QED
    BY <1>1, <1>2, <1>3, <2>1, <2>2, BalancesStill
<1>4. CASE req[p].at = "movement"
  <2> DEFINE plan == req[p].arg
  <2>1. lost' = [lost EXCEPT ![plan.warehouse] = @ + plan.delta] /\ plan.delta \in Int
    BY <1>4 DEF AbandonStock, At, LevelInv, PlanHeld, Plans
  <2>2. \A w \in Warehouses : InTransit(req[p], w) = IF plan.warehouse = w THEN plan.delta ELSE 0
    BY <1>4 DEF InTransit
  <2> HIDE DEF plan
  <2>3. lost' \in [Warehouses -> Int] /\ Adds(lost, plan.warehouse, plan.delta, lost')
    BY <2>1, Relative DEF LevelInv, LevelTables
  <2>4. LevelTables'
    BY <1>1, <2>3 DEF LevelInv, LevelTables
  <2>5. ASSUME NEW w \in Warehouses
        PROVE  level'[w] - movements'[w] - lost'[w] - InTransit(req'[p], w) =
                   level[w] - movements[w] - lost[w] - InTransit(req[p], w)
    <3>1. InTransit(req'[p], w) = 0
      BY <1>1 DEF InTransit
    <3>2. level[w] \in Int /\ movements[w] \in Int
      BY DEF LevelInv, LevelTables
    <3> QED
      BY <1>1, <2>1, <2>2, <2>3, <3>1, <3>2 DEF Adds
  <2> QED
    BY <1>1, <1>2, <2>4, <2>5, Balances
<1> QED
  BY <1>3, <1>4

\* A receipt writes level and movement in one transaction.
LEMMA LevelReceives ==
    ASSUME LevelInv, ReqOK, POInv, NEW p \in Procs, PersistReceipt(p)
    PROVE  LevelInv'
<1> DEFINE v == req[p].arg.warehouse
           n == req[p].arg.units
<1>1. /\ OthersStay(p) /\ req[p].at = "receipt" /\ req'[p].at = "idle" /\ PlanHeld(p)'
      /\ UNCHANGED <<lost, transfer, session>>
  BY ReturnMoves DEF PersistReceipt, At, Idle, PlanHeld
<1>2. n \in Int
  BY <1>1 DEF POInv, POHeld, ReceiptFor
<1>3. level' = [level EXCEPT ![v] = @ + n] /\ movements' = [movements EXCEPT ![v] = @ + n]
  BY DEF PersistReceipt, UpsertDelta
<1> HIDE DEF v, n
<1>4. level' \in [Warehouses -> Int] /\ Adds(level, v, n, level')
  BY <1>2, <1>3, Relative DEF LevelInv, LevelTables
<1>5. movements' \in [Warehouses -> Int] /\ Adds(movements, v, n, movements')
  BY <1>2, <1>3, Relative DEF LevelInv, LevelTables
<1>6. LevelTables' /\ SessionsKeep
  BY <1>1, <1>4, <1>5 DEF LevelInv, LevelTables, SessionsKeep
<1>7. ASSUME NEW w \in Warehouses
      PROVE  level'[w] - movements'[w] - lost'[w] - InTransit(req'[p], w) =
                 level[w] - movements[w] - lost[w] - InTransit(req[p], w)
  <2>1. InTransit(req'[p], w) = 0 /\ InTransit(req[p], w) = 0
    BY <1>1 DEF InTransit
  <2>2. lost[w] \in Int
    BY DEF LevelInv, LevelTables
  <2> QED
    BY <1>1, <1>2, <1>4, <1>5, <2>1, <2>2 DEF Adds
<1> QED
  BY <1>1, <1>6, <1>7, Balances

\* The rest of the store room leaves the ledger alone.
LEMMA OthersBegin ==
    ASSUME ReqOK, NEW p \in Procs, NEW s, NEW row, NEW v, Begin(p, s, row, v),
           s \notin LedgerStatements
    PROVE  OthersStay(p) /\ req[p].at # "movement" /\ req'[p].at \notin LedgerStatements
BY BeginMoves DEF Begin, Free

LEMMA PurchasingLevels ==
    ASSUME LevelInv, ReqOK, POInv, PurchasingNext
    PROVE  LevelInv'
<1>1. CASE \E o \in POs : CreatePurchaseOrder(o)
  BY <1>1, LevelFrame DEF CreatePurchaseOrder
<1>2. ASSUME NEW p \in Procs, SetPOStatus(p) PROVE LevelInv'
  <2>1. OthersStay(p) /\ req[p].at # "movement" /\ req'[p].at \notin LedgerStatements
    BY <1>2, ReturnMoves DEF SetPOStatus, At, Idle, LedgerStatements
  <2> QED
    BY <1>2, <2>1, LevelFrame DEF SetPOStatus
<1>3. ASSUME NEW p \in Procs, NEW o \in POs,
             \/ SubmitPurchaseOrder(p, o) \/ ApprovePurchaseOrder(p, o)
             \/ CancelPurchaseOrder(p, o) \/ CreateGoodsReceipt(p, o)
      PROVE  LevelInv'
  <2>1. PICK s \in {"poStatus", "receipt"}, v \in {req'[p].arg} : Begin(p, s, o, v)
    <3>1. \E s \in {"poStatus", "receipt"} : \E v : Begin(p, s, o, v)
      BY <1>3 DEF SubmitPurchaseOrder, ApprovePurchaseOrder, CancelPurchaseOrder, CreateGoodsReceipt
    <3> QED
      BY <3>1, BeginMoves
  <2>2. OthersStay(p) /\ req[p].at # "movement" /\ req'[p].at \notin LedgerStatements
    BY <2>1, OthersBegin DEF LedgerStatements
  <2>3. UNCHANGED ledger
    BY <1>3 DEF SubmitPurchaseOrder, ApprovePurchaseOrder, CancelPurchaseOrder, CreateGoodsReceipt
  <2> QED
    BY <2>2, <2>3, LevelFrame
<1> QED
  BY <1>1, <1>2, <1>3, LevelReceives DEF PurchasingNext

LEMMA LotsLeaveLevels ==
    ASSUME LevelInv, ReqOK, LotsNext, UNCHANGED ledger
    PROVE  LevelInv'
<1>1. CASE \E l \in Lots : ReceiveLot(l)
  BY <1>1, LevelFrame DEF ReceiveLot
<1>2. ASSUME NEW p \in Procs, PersistTaken(p) \/ SetLotStatus(p) PROVE LevelInv'
  <2>1. OthersStay(p) /\ req[p].at # "movement" /\ req'[p].at \notin LedgerStatements
    BY <1>2, ReturnMoves DEF PersistTaken, SetLotStatus, At, Idle, LedgerStatements
  <2> QED
    BY <2>1, LevelFrame
<1>3. ASSUME NEW p \in Procs, NEW l \in Lots,
             \/ CutSegment(p, l) \/ ConsumeFromBatch(p, l)
             \/ DisposeCableLot(p, l) \/ MarkBatchExpired(p, l)
      PROVE  LevelInv'
  <2>1. PICK s \in LotStatements : \E v : Begin(p, s, l, v)
    BY <1>3 DEF CutSegment, ConsumeFromBatch, DisposeCableLot, MarkBatchExpired, LotStatements
  <2>2. OthersStay(p) /\ req[p].at # "movement" /\ req'[p].at \notin LedgerStatements
    BY <2>1, OthersBegin, PartsApart
  <2> QED
    BY <2>2, LevelFrame
<1> QED
  BY <1>1, <1>2, <1>3 DEF LotsNext

LEMMA GearLeavesLevels ==
    ASSUME LevelInv, ReqOK, GearNext, UNCHANGED ledger
    PROVE  LevelInv'
<1>1. CASE \E d \in Dispatches : CreateDispatch(d)
  BY <1>1, LevelFrame DEF CreateDispatch
<1>2. ASSUME NEW p \in Procs, SetGearStatus(p) \/ UpdateItem(p) \/ ReloadDispatch(p)
      PROVE  LevelInv'
  <2>0. req[p].at # "movement"
    BY <1>2 DEF SetGearStatus, UpdateItem, ReloadDispatch, At
  <2>1. CASE Return(p)
    <3>1. OthersStay(p) /\ req'[p].at \notin LedgerStatements
      BY <2>1, ReturnMoves DEF Idle, LedgerStatements
    <3> QED
      BY <2>0, <3>1, LevelFrame
  <2>2. CASE Goto(p, "reload")
    <3>1. OthersStay(p) /\ req'[p].at \notin LedgerStatements
      BY <2>2, GotoMoves DEF LedgerStatements
    <3> QED
      BY <2>0, <3>1, LevelFrame
  <2>3. ASSUME NEW d, req' = [req EXCEPT ![p] = [Idle EXCEPT !.at = "gearStatus", !.on = d,
                                                   !.arg = [status |-> "returned"]]]
        PROVE  LevelInv'
    <3>1. OthersStay(p) /\ req'[p].at \notin LedgerStatements
      BY <2>3 DEF ReqOK, OthersStay, Idle, LedgerStatements
    <3> QED
      BY <2>0, <3>1, LevelFrame
  <2> QED
    BY <1>2, <2>1, <2>2, <2>3 DEF SetGearStatus, UpdateItem, ReloadDispatch
<1>3. ASSUME NEW p \in Procs, NEW row, NEW s \in GearStatements, NEW v, Begin(p, s, row, v)
      PROVE  LevelInv'
  <2>1. OthersStay(p) /\ req[p].at # "movement" /\ req'[p].at \notin LedgerStatements
    BY <1>3, OthersBegin, PartsApart
  <2> QED
    BY <2>1, LevelFrame
<1>4. ASSUME NEW p \in Procs, NEW d \in Dispatches,
             StageDispatch(p, d) \/ CancelDispatch(p, d) \/ MarkPickedUp(p, d)
      PROVE  LevelInv'
  BY <1>3, <1>4 DEF StageDispatch, CancelDispatch, MarkPickedUp, GearStatements
<1>5. ASSUME NEW p \in Procs, NEW l \in Lines, PickUpItemByScan(p, l) \/ ReturnItem(p, l)
      PROVE  LevelInv'
  <2>1. \E s \in GearStatements : \E v : Begin(p, s, l, v)
    BY <1>5 DEF PickUpItemByScan, ReturnItem, GearStatements
  <2> QED
    BY <1>3, <2>1
<1> QED
  BY <1>1, <1>2, <1>4, <1>5 DEF GearNext

LEMMA LevelInit == WarehouseInit => LevelInv
<1> SUFFICES ASSUME WarehouseInit PROVE LevelInv
  OBVIOUS
<1>1. \A p \in Procs : req[p].at = "idle"
  BY DEF WarehouseInit, Idle
<1>2. LevelTables
  BY DEF WarehouseInit, LedgerInit, LevelTables, TransferRows, SessionRows, NoTransfer, NoSession,
         TransferStatuses, SessionStatuses
<1>3. \A p \in Procs : PlanHeld(p)
  BY <1>1 DEF PlanHeld
<1>4. ASSUME NEW w \in Warehouses PROVE InFlight(w) = 0
  <2> DEFINE writing == {p \in Procs : At(p, "movement") /\ req[p].arg.warehouse = w}
             f == [p \in writing |-> req[p].arg.delta]
  <2>1. writing = {}
    BY <1>1 DEF At
  <2>2. InFlight(w) = SumFunctionOnSet(f, writing)
    BY DEF InFlight
  <2> HIDE DEF f, writing
  <2> QED
    BY <2>1, <2>2, SumOfNone
<1>5. LevelsMatchMovements
  BY <1>4 DEF WarehouseInit, LedgerInit, LevelsMatchMovements
<1> QED
  BY <1>2, <1>3, <1>5 DEF LevelInv

LEMMA LevelStep ==
    ASSUME StoreInv, LevelInv, [WarehouseNext /\ OneRequestPerCopy']_warehouseVars
    PROVE  LevelInv'
<1>0. ReqOK /\ POInv
  BY DEF StoreInv
<1>1. CASE UNCHANGED warehouseVars
  BY <1>1, LevelFrame DEF warehouseVars
<1>2. CASE LedgerNext
  <2>1. ASSUME NEW p \in Procs,
               \/ Intake(p)
               \/ \E t \in Transfers :
                    DispatchTransfer(p, t) \/ ReceiveTransfer(p, t) \/ CancelTransfer(p, t)
               \/ \E s \in Sessions :
                    UpsertOpnameCount(p, s) \/ CommitOpname(p, s) \/ CancelOpname(p, s)
        PROVE  LevelInv'
    <3>1. UNCHANGED ledger
      BY <2>1 DEF Intake, DispatchTransfer, ReceiveTransfer, CancelTransfer, UpsertOpnameCount,
                  CommitOpname, CancelOpname
    <3> QED
      BY <1>0, <2>1, <3>1, LevelBegins
  <2> QED
    BY <1>0, <1>2, <2>1, LevelRows, LevelMoves, LevelStatuses DEF LedgerNext
<1> QED
  BY <1>0, <1>1, <1>2, PurchasingLevels, LotsLeaveLevels, GearLeavesLevels, LevelAbandons DEF WarehouseNext

\* Whatever handlers race, fail and run again, a level is explained by the
\* movements of its warehouse, up to those about to be written and those a
\* handler died before writing, for any number of warehouses and requests:
\* every level moves by a relative update, and so does what explains it.
THEOREM LevelsAlwaysMatchMovements == WarehouseSpec => []LevelsMatchMovements
<1>1. LevelInv => LevelsMatchMovements
  BY DEF LevelInv
<1> QED
  BY <1>1, LevelInit, LevelStep, SpecStoreInv, PTL DEF WarehouseSpec

=============================================================================
