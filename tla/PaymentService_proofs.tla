------------------------ MODULE PaymentService_proofs ------------------------
(***************************************************************************)
(* What payment-svc promises, for any number of intents, requests, events, *)
(* refunds and clerks. First of the intents by themselves, for Spec of     *)
(* PaymentIntents: stored rows stay coherent under every interleaving and  *)
(* fault, a paid intent was confirmed by a gateway, and each event takes   *)
(* effect at most once, as the module Inbox says. Then of the money sent   *)
(* back, for ServiceSpec: the rows and copies of the intent half stay as   *)
(* they were while refunds write intent rows; a refund, and every copy of  *)
(* one, names an intent that a gateway confirmed; and nobody holds a       *)
(* refund on its way to the gateway whose approval was not committed.      *)
(* Without overlap, what a busy request or clerk holds is still what is    *)
(* stored, so that nothing is paid twice, and an intent's total follows    *)
(* its completed refunds.                                                  *)
(***************************************************************************)
EXTENDS PaymentService, Sums, TLAPS

-----------------------------------------------------------------------------
(* The methods of PaymentIntent: what each returns, column by column. *)

\* NULL columns everywhere: the row no INSERT has made is well typed and coherent.
LEMMA NoRowOK == NoRow \in Rows /\ Coherent(NoRow) /\ NoRow.status = "absent"
BY StoreAssumption DEF Rows, NoRow, IntentStatuses, Coherent, Paid

\* NewPaymentIntent changes nothing but the status.
LEMMA NewPaymentIntentOK ==
    /\ NewPaymentIntent \in Rows
    /\ Coherent(NewPaymentIntent)
    /\ NewPaymentIntent.status = "created"
<1>1. /\ NewPaymentIntent \in Rows
      /\ NewPaymentIntent.status = "created"
      /\ NewPaymentIntent.gateway = NoRow.gateway
      /\ NewPaymentIntent.ref = NoRow.ref
      /\ NewPaymentIntent.paid = NoRow.paid
      /\ NewPaymentIntent.expired = NoRow.expired
      /\ NewPaymentIntent.cancelled = NoRow.cancelled
      /\ NewPaymentIntent.refunded = NoRow.refunded
  BY NoRowOK DEF NewPaymentIntent, Rows, IntentStatuses
<1> QED
  BY <1>1, NoRowOK, StoreAssumption DEF NoRow, Coherent, Paid

\* Route sets the gateway and the status and leaves the other columns.
LEMMA RouteColumns ==
    ASSUME NEW r \in Rows, NEW g \in Gateways
    PROVE  /\ Route(r, g) \in Rows
           /\ Route(r, g).status = "routing"
           /\ Route(r, g).gateway = g
           /\ Route(r, g).ref = r.ref
           /\ Route(r, g).paid = r.paid
           /\ Route(r, g).expired = r.expired
           /\ Route(r, g).cancelled = r.cancelled
           /\ Route(r, g).refunded = r.refunded
BY Zenon DEF Route, Rows, IntentStatuses

\* MarkPending sets the reference and the status.
LEMMA MarkPendingColumns ==
    ASSUME NEW r \in Rows, NEW ref \in Gateways
    PROVE  /\ MarkPending(r, ref) \in Rows
           /\ MarkPending(r, ref).status = "pending"
           /\ MarkPending(r, ref).gateway = r.gateway
           /\ MarkPending(r, ref).ref = ref
           /\ MarkPending(r, ref).paid = r.paid
           /\ MarkPending(r, ref).expired = r.expired
           /\ MarkPending(r, ref).cancelled = r.cancelled
           /\ MarkPending(r, ref).refunded = r.refunded
BY Zenon DEF MarkPending, Rows, IntentStatuses

\* MarkFailed sets the status alone.
LEMMA MarkFailedColumns ==
    ASSUME NEW r \in Rows
    PROVE  /\ MarkFailed(r) \in Rows
           /\ MarkFailed(r).status = "failed"
           /\ MarkFailed(r).gateway = r.gateway
           /\ MarkFailed(r).ref = r.ref
           /\ MarkFailed(r).paid = r.paid
           /\ MarkFailed(r).expired = r.expired
           /\ MarkFailed(r).cancelled = r.cancelled
           /\ MarkFailed(r).refunded = r.refunded
BY Zenon DEF MarkFailed, Rows, IntentStatuses

\* MarkExpired sets the expiry time and the status.
LEMMA MarkExpiredColumns ==
    ASSUME NEW r \in Rows
    PROVE  /\ MarkExpired(r) \in Rows
           /\ MarkExpired(r).status = "expired"
           /\ MarkExpired(r).gateway = r.gateway
           /\ MarkExpired(r).ref = r.ref
           /\ MarkExpired(r).paid = r.paid
           /\ MarkExpired(r).expired = TRUE
           /\ MarkExpired(r).cancelled = r.cancelled
           /\ MarkExpired(r).refunded = r.refunded
BY Zenon DEF MarkExpired, Rows, IntentStatuses

\* MarkSucceeded, not already succeeded, sets the payment time and the status.
LEMMA MarkSucceededColumns ==
    ASSUME NEW r \in Rows, r.status # "succeeded"
    PROVE  /\ MarkSucceeded(r) \in Rows
           /\ MarkSucceeded(r).status = "succeeded"
           /\ MarkSucceeded(r).gateway = r.gateway
           /\ MarkSucceeded(r).ref = r.ref
           /\ MarkSucceeded(r).paid = TRUE
           /\ MarkSucceeded(r).expired = r.expired
           /\ MarkSucceeded(r).cancelled = r.cancelled
           /\ MarkSucceeded(r).refunded = r.refunded
BY Zenon DEF MarkSucceeded, Rows, IntentStatuses

\* MarkCancelled, not already cancelled, sets the cancellation time and the status.
LEMMA MarkCancelledColumns ==
    ASSUME NEW r \in Rows, r.status # "cancelled"
    PROVE  /\ MarkCancelled(r) \in Rows
           /\ MarkCancelled(r).status = "cancelled"
           /\ MarkCancelled(r).gateway = r.gateway
           /\ MarkCancelled(r).ref = r.ref
           /\ MarkCancelled(r).paid = r.paid
           /\ MarkCancelled(r).expired = r.expired
           /\ MarkCancelled(r).cancelled = TRUE
           /\ MarkCancelled(r).refunded = r.refunded
BY Zenon DEF MarkCancelled, Rows, IntentStatuses

-----------------------------------------------------------------------------
(* Each method, called where its guard allows, keeps a row coherent. *)

\* routeAndProvision's two outcomes: the copy it writes back is coherent.
LEMMA ProvisionOK ==
    ASSUME NEW r \in Rows, NEW g \in Gateways, Coherent(r), CanRoute(r)
    PROVE  /\ MarkPending(Route(r, g), g) \in Rows
           /\ Coherent(MarkPending(Route(r, g), g))
           /\ MarkPending(Route(r, g), g).status = "pending"
           /\ MarkFailed(Route(r, g)) \in Rows
           /\ Coherent(MarkFailed(Route(r, g)))
           /\ MarkFailed(Route(r, g)).status = "failed"
<1> DEFINE routed == Route(r, g)
<1>1. routed \in Rows
  BY RouteColumns
<1>2. /\ r.paid = FALSE /\ r.expired = FALSE /\ r.cancelled = FALSE
      /\ r.refunded \notin 1..(Amount - 1) /\ r.refunded # Amount
      /\ r.ref = None
  BY DEF Coherent, CanRoute, Paid, Rows
<1>3. Coherent(MarkPending(routed, g))
  BY <1>1, <1>2, RouteColumns, MarkPendingColumns, StoreAssumption DEF Coherent, Paid
<1>4. Coherent(MarkFailed(routed))
  BY <1>1, <1>2, RouteColumns, MarkFailedColumns, StoreAssumption DEF Coherent, Paid
<1> QED
  BY <1>1, <1>3, <1>4, MarkPendingColumns, MarkFailedColumns

\* Cancelling: a repeated call returns the row as it is.
LEMMA MarkCancelledOK ==
    ASSUME NEW r \in Rows, Coherent(r), CanCancel(r)
    PROVE  /\ MarkCancelled(r) \in Rows
           /\ Coherent(MarkCancelled(r))
           /\ MarkCancelled(r).status = "cancelled"
<1>1. CASE r.status = "cancelled"
  BY <1>1 DEF MarkCancelled
<1>2. CASE r.status # "cancelled"
  <2>1. /\ r.paid = FALSE /\ r.expired = FALSE
        /\ r.refunded \notin 1..(Amount - 1) /\ r.refunded # Amount
    BY <1>2 DEF Coherent, CanCancel, Paid, Rows
  <2> QED
    BY <1>2, <2>1, MarkCancelledColumns DEF Coherent, Paid
<1> QED
  BY <1>1, <1>2

\* Expiring, which only a pending row allows.
LEMMA MarkExpiredOK ==
    ASSUME NEW r \in Rows, Coherent(r), CanExpire(r)
    PROVE  /\ MarkExpired(r) \in Rows
           /\ Coherent(MarkExpired(r))
           /\ MarkExpired(r).status = "expired"
BY MarkExpiredColumns DEF Coherent, CanExpire, Paid, Rows

\* Failing, from pending or routing.
LEMMA MarkFailedOK ==
    ASSUME NEW r \in Rows, Coherent(r), CanFail(r)
    PROVE  /\ MarkFailed(r) \in Rows
           /\ Coherent(MarkFailed(r))
           /\ MarkFailed(r).status = "failed"
BY MarkFailedColumns DEF Coherent, CanFail, Paid, Rows

\* Succeeding: a repeated call returns the row as it is.
LEMMA MarkSucceededOK ==
    ASSUME NEW r \in Rows, Coherent(r), CanSucceed(r)
    PROVE  /\ MarkSucceeded(r) \in Rows
           /\ Coherent(MarkSucceeded(r))
           /\ MarkSucceeded(r).status = "succeeded"
<1>1. CASE r.status = "succeeded"
  BY <1>1 DEF MarkSucceeded
<1>2. CASE r.status # "succeeded"
  BY <1>2, MarkSucceededColumns DEF Coherent, CanSucceed, Paid, Rows
<1> QED
  BY <1>1, <1>2

\* applyParsedStatus up to its UPDATE.
LEMMA ApplyToOK ==
    ASSUME NEW r \in Rows, NEW e \in Events, Coherent(r),
           NewStatus(e.kind) # "none", CanApply(r, NewStatus(e.kind))
    PROVE  /\ ApplyTo(r, NewStatus(e.kind)) \in Rows
           /\ Coherent(ApplyTo(r, NewStatus(e.kind)))
           /\ ApplyTo(r, NewStatus(e.kind)).status = NewStatus(e.kind)
<1> DEFINE s == NewStatus(e.kind)
<1>1. s \in {"succeeded", "failed", "expired"}
  BY DEF NewStatus
<1>2. CASE s = "succeeded"
  <2>1. CanSucceed(r) /\ ApplyTo(r, s) = MarkSucceeded(r)
    BY <1>2 DEF CanApply, ApplyTo
  <2> QED
    BY <1>2, <2>1, MarkSucceededOK
<1>3. CASE s = "failed"
  <2>1. CanFail(r) /\ ApplyTo(r, s) = MarkFailed(r)
    BY <1>3 DEF CanApply, ApplyTo
  <2> QED
    BY <1>3, <2>1, MarkFailedOK
<1>4. CASE s = "expired"
  <2>1. CanExpire(r) /\ ApplyTo(r, s) = MarkExpired(r)
    BY <1>4 DEF CanApply, ApplyTo
  <2> QED
    BY <1>4, <2>1, MarkExpiredOK
<1> QED
  BY <1>1, <1>2, <1>3, <1>4

-----------------------------------------------------------------------------
(* The inductive invariant: the copies that requests and the expiry pass    *)
(* hold between two statements are as good as the rows, and each comes from  *)
(* a status from which its owner may go on.                                  *)

Delivering == {"verify", "apply", "finish", "reject"}

RequestOK(x) ==
    /\ Coherent(x.row)
    /\ x.pc \in {"provision", "update"} => x.i \in Intents
    /\ x.pc = "provision" => CanRoute(x.row)
    /\ x.pc \in {"update", "apply"} => x.row.status \notin {"absent", "created"}
    /\ x.pc \in Delivering \cup {"duplicate"} => x.ev \in Events /\ x.i = x.ev.intent

ListedOK(r) == Coherent(r) /\ (r # NoRow => CanExpire(r))

CopiesOK ==
    /\ \A w \in Workers : RequestOK(workers[w])
    /\ \A i \in Intents : ListedOK(cron[i])

IndInv == TypeOK /\ RowsCoherent /\ CopiesOK

\* A worker moved to a good request leaves all workers good.
LEMMA WorkerMoves ==
    ASSUME IndInv, NEW w \in Workers, NEW x \in Worker, RequestOK(x),
           workers' = [workers EXCEPT ![w] = x]
    PROVE  /\ workers' \in [Workers -> Worker]
           /\ \A v \in Workers : RequestOK(workers'[v])
BY DEF IndInv, TypeOK, CopiesOK

\* A worker that serves nothing is a good worker.
LEMMA IdleOK == Idle \in Worker /\ RequestOK(Idle)
BY NoRowOK DEF Idle, Worker, RequestOK, Pcs, Delivering

\* Storing a good row leaves all rows good.
LEMMA RowUpdates ==
    ASSUME IndInv, NEW i, NEW r \in Rows, Coherent(r), Update(i, r)
    PROVE  intents' \in [Intents -> Rows] /\ RowsCoherent'
BY DEF IndInv, TypeOK, RowsCoherent, Update

\* Taking a row off the expiry pass leaves the others as they are.
LEMMA PassAdvances ==
    ASSUME IndInv, NEW i \in Intents, cron' = [cron EXCEPT ![i] = NoRow]
    PROVE  cron' \in [Intents -> Rows] /\ \A j \in Intents : ListedOK(cron'[j])
BY NoRowOK DEF IndInv, TypeOK, CopiesOK, ListedOK

\* The empty database satisfies the invariant.
LEMMA InitInv == Init => IndInv
<1> SUFFICES ASSUME Init PROVE IndInv
  OBVIOUS
<1>1. TypeOK
  BY NoRowOK, IdleOK, IntentsAssumption DEF Init, TypeOK, NoBatch, HookStatuses
<1>2. RowsCoherent
  BY NoRowOK DEF Init, RowsCoherent
<1>3. CopiesOK
  BY NoRowOK, IdleOK DEF Init, CopiesOK, NoBatch, ListedOK
<1> QED
  BY <1>1, <1>2, <1>3 DEF IndInv

\* The steps of requests.
LEMMA RequestInv ==
    ASSUME IndInv, NEW w \in Workers, Request(w)
    PROVE  IndInv'
<1>1. ASSUME NEW i \in Intents, CreateIntent(w, i) PROVE IndInv'
  <2> DEFINE x == [pc |-> "provision", i |-> i, row |-> NewPaymentIntent, ev |-> None]
  <2>1. x \in Worker /\ RequestOK(x)
    BY NewPaymentIntentOK DEF Worker, RequestOK, Pcs, Delivering, CanRoute
  <2>2. workers' = [workers EXCEPT ![w] = x]
    BY <1>1 DEF CreateIntent, Goto
  <2>3. intents' \in [Intents -> Rows] /\ RowsCoherent'
    BY <1>1, NewPaymentIntentOK, RowUpdates DEF CreateIntent
  <2> QED
    BY <1>1, <2>1, <2>2, <2>3, WorkerMoves
       DEF CreateIntent, IndInv, TypeOK, CopiesOK, hookVars, worldVars
<1>2. ASSUME NEW i \in Intents, RouteAndPay(w, i) PROVE IndInv'
  <2> DEFINE x == [pc |-> "provision", i |-> i, row |-> intents[i], ev |-> None]
  <2>1. x \in Worker /\ RequestOK(x)
    BY <1>2 DEF RouteAndPay, IndInv, TypeOK, RowsCoherent, Worker, RequestOK, Pcs, Delivering
  <2>2. workers' = [workers EXCEPT ![w] = x]
    BY <1>2 DEF RouteAndPay, Goto
  <2> QED
    BY <1>2, <2>1, <2>2, WorkerMoves
       DEF RouteAndPay, IndInv, TypeOK, RowsCoherent, CopiesOK, hookVars, worldVars
<1>3. ASSUME NEW i \in Intents, CancelIntent(w, i) PROVE IndInv'
  <2> DEFINE x == [pc |-> "update", i |-> i, row |-> MarkCancelled(intents[i]), ev |-> None]
  <2>1. x \in Worker /\ RequestOK(x)
    BY <1>3, MarkCancelledOK
       DEF CancelIntent, IndInv, TypeOK, RowsCoherent, Worker, RequestOK, Pcs, Delivering
  <2>2. workers' = [workers EXCEPT ![w] = x]
    BY <1>3 DEF CancelIntent, Goto
  <2> QED
    BY <1>3, <2>1, <2>2, WorkerMoves
       DEF CancelIntent, IndInv, TypeOK, RowsCoherent, CopiesOK, hookVars, worldVars
<1>4. ASSUME NEW e \in emitted, Ingest(w, e) PROVE IndInv'
  <2> DEFINE x == [pc |-> "verify", i |-> e.intent, row |-> NoRow, ev |-> e]
  <2>1. x \in Worker /\ RequestOK(x)
    BY NoRowOK DEF IndInv, TypeOK, Events, Worker, RequestOK, Pcs, Delivering
  <2>2. workers' = [workers EXCEPT ![w] = x]
    BY <1>4 DEF Ingest, Goto
  <2> QED
    BY <1>4, <2>1, <2>2, WorkerMoves
       DEF Ingest, IndInv, TypeOK, RowsCoherent, CopiesOK, SetHook, HookStatuses, worldVars
<1>5. ASSUME NEW e \in emitted, IngestDuplicate(w, e) PROVE IndInv'
  <2> DEFINE x == [pc |-> "duplicate", i |-> e.intent, row |-> NoRow, ev |-> e]
  <2>1. x \in Worker /\ RequestOK(x)
    BY NoRowOK DEF IndInv, TypeOK, Events, Worker, RequestOK, Pcs, Delivering
  <2>2. workers' = [workers EXCEPT ![w] = x]
    BY <1>5 DEF IngestDuplicate, Goto
  <2> QED
    BY <1>5, <2>1, <2>2, WorkerMoves
       DEF IngestDuplicate, IndInv, TypeOK, RowsCoherent, CopiesOK, hookVars, worldVars
<1> QED
  BY <1>1, <1>2, <1>3, <1>4, <1>5 DEF Request

\* The steps of a request that has started, faults included.
LEMMA WorkerStepInv ==
    ASSUME IndInv, NEW w \in Workers, WorkerStep(w)
    PROVE  IndInv'
<1> DEFINE x == workers[w]
<1>0. x \in Worker /\ RequestOK(x)
  BY DEF IndInv, TypeOK, CopiesOK
<1>1. CASE NoGateway(w)
  <2>1. workers' = [workers EXCEPT ![w] = Idle]
    BY <1>1 DEF NoGateway, Return
  <2> QED
    BY <1>1, <2>1, IdleOK, WorkerMoves
       DEF NoGateway, IndInv, TypeOK, RowsCoherent, CopiesOK, hookVars, worldVars
<1>2. ASSUME NEW g \in Gateways, Accepted(w, g) PROVE IndInv'
  <2> DEFINE y == [pc |-> "update", i |-> x.i, row |-> MarkPending(Route(x.row, g), g),
                   ev |-> None]
  <2>1. y \in Worker /\ RequestOK(y)
    BY <1>0, <1>2, ProvisionOK DEF Accepted, Worker, RequestOK, Pcs, Delivering
  <2>2. workers' = [workers EXCEPT ![w] = y]
    BY <1>2 DEF Accepted, Goto
  <2>3. x.i \in Intents
    BY <1>0, <1>2 DEF Accepted, RequestOK
  <2> QED
    BY <1>2, <2>1, <2>2, <2>3, WorkerMoves
       DEF Accepted, IndInv, TypeOK, RowsCoherent, CopiesOK, hookVars
<1>3. ASSUME NEW g \in Gateways, Rejected(w, g) PROVE IndInv'
  <2> DEFINE y == [pc |-> "update", i |-> x.i, row |-> MarkFailed(Route(x.row, g)),
                   ev |-> None]
  <2>1. y \in Worker /\ RequestOK(y)
    BY <1>0, <1>3, ProvisionOK DEF Rejected, Worker, RequestOK, Pcs, Delivering
  <2>2. workers' = [workers EXCEPT ![w] = y]
    BY <1>3 DEF Rejected, Goto
  <2>3. x.i \in Intents
    BY <1>0, <1>3 DEF Rejected, RequestOK
  <2> QED
    BY <1>3, <2>1, <2>2, <2>3, WorkerMoves
       DEF Rejected, IndInv, TypeOK, RowsCoherent, CopiesOK, hookVars
<1>4. CASE WriteIntent(w)
  <2>1. workers' = [workers EXCEPT ![w] = Idle]
    BY <1>4 DEF WriteIntent, Return
  <2>2. intents' \in [Intents -> Rows] /\ RowsCoherent'
    BY <1>0, <1>4, RowUpdates DEF WriteIntent, Worker, RequestOK
  <2> QED
    BY <1>4, <2>1, <2>2, IdleOK, WorkerMoves
       DEF WriteIntent, IndInv, TypeOK, CopiesOK, hookVars, worldVars
<1>5. CASE ReplyDuplicate(w)
  <2>1. workers' = [workers EXCEPT ![w] = Idle]
    BY <1>5 DEF ReplyDuplicate, Return
  <2> QED
    BY <1>5, <2>1, IdleOK, WorkerMoves
       DEF ReplyDuplicate, IndInv, TypeOK, RowsCoherent, CopiesOK, hookVars, worldVars
<1>6. CASE Refuse(w)
  <2>1. workers' = [workers EXCEPT ![w] = Idle]
    BY <1>6 DEF Refuse, Return
  <2>2. hooks' \in [Events -> HookStatuses]
    BY <1>6 DEF Refuse, IndInv, TypeOK, SetHook, HookStatuses
  <2> QED
    BY <1>6, <2>1, <2>2, IdleOK, WorkerMoves
       DEF Refuse, IndInv, TypeOK, RowsCoherent, CopiesOK, worldVars
<1>7. CASE LookUp(w)
  <2> DEFINE e == x.ev
             r == intents[e.intent]
             s == NewStatus(e.kind)
  <2>1. e \in Events /\ e.intent \in Intents /\ x.i = e.intent
    BY <1>0, <1>7 DEF LookUp, RequestOK, Delivering, Events
  <2>2. r \in Rows /\ Coherent(r)
    BY <2>1 DEF IndInv, TypeOK, RowsCoherent
  <2>3. PICK y \in Worker : RequestOK(y) /\ workers' = [workers EXCEPT ![w] = y]
    <3>1. CASE Goto(w, "finish", e.intent, NoRow, e)
      BY <2>1, <3>1, NoRowOK DEF Goto, Worker, RequestOK, Pcs, Delivering
    <3>2. CASE Goto(w, "finish", e.intent, r, e)
      BY <2>1, <2>2, <3>2 DEF Goto, Worker, RequestOK, Pcs, Delivering
    <3>3. CASE s # "none" /\ CanApply(r, s) /\ Goto(w, "apply", e.intent, ApplyTo(r, s), e)
      <4>1. /\ ApplyTo(r, s) \in Rows
            /\ Coherent(ApplyTo(r, s))
            /\ ApplyTo(r, s).status = s
        BY <2>1, <2>2, <3>3, ApplyToOK
      <4>2. s \in {"succeeded", "failed", "expired", "none"}
        BY DEF NewStatus
      <4> QED
        BY <2>1, <3>3, <4>1, <4>2 DEF Goto, Worker, RequestOK, Pcs, Delivering
    <3>4. CASE Goto(w, "reject", e.intent, NoRow, e)
      BY <2>1, <3>4, NoRowOK DEF Goto, Worker, RequestOK, Pcs, Delivering
    <3> QED
      BY <1>7, <3>1, <3>2, <3>3, <3>4 DEF LookUp
  <2> QED
    BY <1>7, <2>3, WorkerMoves
       DEF LookUp, IndInv, TypeOK, RowsCoherent, CopiesOK, hookVars, worldVars
<1>8. CASE Apply(w)
  <2> DEFINE y == [pc |-> "finish", i |-> x.i, row |-> x.row, ev |-> x.ev]
  <2>1. y \in Worker /\ RequestOK(y)
    BY <1>0, <1>8 DEF Apply, Worker, RequestOK, Pcs, Delivering
  <2>2. workers' = [workers EXCEPT ![w] = y]
    BY <1>8 DEF Apply, Goto
  <2>3. intents' \in [Intents -> Rows] /\ RowsCoherent'
    BY <1>0, <1>8, RowUpdates DEF Apply, Worker, RequestOK
  <2>4. applied' \in [Events -> Nat]
    <3>1. x.ev \in Events
      BY <1>0, <1>8 DEF Apply, RequestOK, Delivering
    <3> QED
      BY <1>8, <3>1 DEF Apply, IndInv, TypeOK
  <2> QED
    BY <1>8, <2>1, <2>2, <2>3, <2>4, WorkerMoves
       DEF Apply, IndInv, TypeOK, CopiesOK, worldVars
<1>9. CASE Finish(w)
  <2>1. workers' = [workers EXCEPT ![w] = Idle]
    BY <1>9 DEF Finish, Return
  <2>2. x.ev \in Events
    BY <1>0, <1>9 DEF Finish, RequestOK, Delivering
  <2>3. hooks' \in [Events -> HookStatuses] /\ linked' \subseteq Events
    BY <1>9, <2>2 DEF Finish, IndInv, TypeOK, SetHook, HookStatuses
  <2> QED
    BY <1>9, <2>1, <2>3, IdleOK, WorkerMoves
       DEF Finish, IndInv, TypeOK, RowsCoherent, CopiesOK, worldVars
<1>10. CASE FailDelivery(w)
  <2>1. workers' = [workers EXCEPT ![w] = Idle]
    BY <1>10 DEF FailDelivery, Return
  <2>2. hooks' \in [Events -> HookStatuses]
    BY <1>10 DEF FailDelivery, IndInv, TypeOK, SetHook, HookStatuses
  <2> QED
    BY <1>10, <2>1, <2>2, IdleOK, WorkerMoves
       DEF FailDelivery, IndInv, TypeOK, RowsCoherent, CopiesOK, worldVars
<1> QED
  BY <1>1, <1>2, <1>3, <1>4, <1>5, <1>6, <1>7, <1>8, <1>9, <1>10 DEF WorkerStep

\* The expiry pass.
LEMMA ExpireInv ==
    ASSUME IndInv, ExpireStep
    PROVE  IndInv'
<1>1. CASE ExpireTick
  <2>1. PICK batch \in SUBSET Stale :
            cron' = [i \in Intents |-> IF i \in batch THEN intents[i] ELSE NoRow]
    BY <1>1 DEF ExpireTick
  <2>2. \A i \in Intents : cron'[i] \in Rows /\ ListedOK(cron'[i])
    <3> TAKE i \in Intents
    <3>1. CASE i \in batch
      BY <2>1, <3>1 DEF Stale, ListedOK, IndInv, TypeOK, RowsCoherent
    <3>2. CASE i \notin batch
      BY <2>1, <3>2, NoRowOK DEF ListedOK
    <3> QED
      BY <3>1, <3>2
  <2>3. cron' \in [Intents -> Rows]
    BY <2>1, <2>2
  <2> QED
    BY <1>1, <2>2, <2>3 DEF ExpireTick, IndInv, TypeOK, RowsCoherent, CopiesOK, hookVars, worldVars
<1>2. ASSUME NEW i \in Intents, ExpireRow(i) PROVE IndInv'
  <2>1. MarkExpired(cron[i]) \in Rows /\ Coherent(MarkExpired(cron[i]))
    BY <1>2, MarkExpiredOK DEF ExpireRow, IndInv, TypeOK, CopiesOK, ListedOK
  <2>2. intents' \in [Intents -> Rows] /\ RowsCoherent'
    BY <1>2, <2>1, RowUpdates DEF ExpireRow
  <2>3. cron' \in [Intents -> Rows] /\ \A j \in Intents : ListedOK(cron'[j])
    BY <1>2, PassAdvances DEF ExpireRow
  <2> QED
    BY <1>2, <2>2, <2>3 DEF ExpireRow, IndInv, TypeOK, CopiesOK, hookVars, worldVars
<1> QED
  BY <1>1, <1>2 DEF ExpireStep

\* Requests that die, skipped rows, failed statements.
LEMMA FaultInv ==
    ASSUME IndInv, FaultStep
    PROVE  IndInv'
<1>0. faults' \in 0..MaxFaults
  BY IntentsAssumption DEF FaultStep, Abort, LookUpError, ApplyError, SkipRow, Fault, IndInv, TypeOK
<1>1. ASSUME NEW w \in Workers, Abort(w) PROVE IndInv'
  <2>1. workers' = [workers EXCEPT ![w] = Idle]
    BY <1>1 DEF Abort, Return
  <2> QED
    BY <1>0, <1>1, <2>1, IdleOK, WorkerMoves
       DEF Abort, IndInv, TypeOK, RowsCoherent, CopiesOK, hookVars
<1>2. ASSUME NEW w \in Workers, LookUpError(w) PROVE IndInv'
  <2> DEFINE e == workers[w].ev
             y == [pc |-> "finish", i |-> e.intent, row |-> NoRow, ev |-> e]
  <2>1. y \in Worker /\ RequestOK(y)
    BY <1>2, NoRowOK
       DEF LookUpError, IndInv, TypeOK, CopiesOK, Events, Worker, RequestOK, Pcs, Delivering
  <2>2. workers' = [workers EXCEPT ![w] = y]
    BY <1>2 DEF LookUpError, Goto
  <2> QED
    BY <1>0, <1>2, <2>1, <2>2, WorkerMoves
       DEF LookUpError, IndInv, TypeOK, RowsCoherent, CopiesOK, hookVars
<1>3. ASSUME NEW w \in Workers, ApplyError(w) PROVE IndInv'
  <2> DEFINE x == workers[w]
             y == [pc |-> "reject", i |-> x.i, row |-> x.row, ev |-> x.ev]
  <2>1. y \in Worker /\ RequestOK(y)
    BY <1>3 DEF ApplyError, IndInv, TypeOK, CopiesOK, Worker, RequestOK, Pcs, Delivering
  <2>2. workers' = [workers EXCEPT ![w] = y]
    BY <1>3 DEF ApplyError, OnApplyError, Goto
  <2> QED
    BY <1>0, <1>3, <2>1, <2>2, WorkerMoves
       DEF ApplyError, IndInv, TypeOK, RowsCoherent, CopiesOK, hookVars
<1>4. ASSUME NEW i \in Intents, SkipRow(i) PROVE IndInv'
  <2>1. cron' \in [Intents -> Rows] /\ \A j \in Intents : ListedOK(cron'[j])
    BY <1>4, PassAdvances DEF SkipRow
  <2> QED
    BY <1>0, <1>4, <2>1 DEF SkipRow, IndInv, TypeOK, RowsCoherent, CopiesOK, hookVars
<1> QED
  BY <1>1, <1>2, <1>3, <1>4 DEF FaultStep

\* Every step of the service, of the gateways and of time keeps it.
LEMMA NextInv == IndInv /\ [Next]_vars => IndInv'
<1> SUFFICES ASSUME IndInv, [Next]_vars PROVE IndInv'
  OBVIOUS
<1>1. ASSUME NEW w \in Workers, Request(w) PROVE IndInv'
  BY <1>1, RequestInv
<1>2. ASSUME NEW w \in Workers, WorkerStep(w) PROVE IndInv'
  BY <1>2, WorkerStepInv
<1>3. CASE ExpireStep
  BY <1>3, ExpireInv
<1>4. CASE FaultStep
  BY <1>4, FaultInv
<1>5. CASE WorldStep
  BY <1>5 DEF WorldStep, Emit, Age, IndInv, TypeOK, RowsCoherent, CopiesOK, serviceVars, hookVars
<1>6. CASE UNCHANGED vars
  BY <1>6 DEF vars, IndInv, TypeOK, RowsCoherent, CopiesOK, serviceVars, hookVars, worldVars
<1> QED
  BY <1>1, <1>2, <1>3, <1>4, <1>5, <1>6 DEF Next

-----------------------------------------------------------------------------

\* So it always holds.
LEMMA SpecInv == Spec => []IndInv
BY InitInv, NextInv, PTL DEF Spec

\* Every request, expiry pass, webhook and fault keeps the tables and the
\* copies in flight well typed, whatever the number of each.
THEOREM TypeCorrect == Spec => []TypeOK
<1>1. IndInv => TypeOK
  BY DEF IndInv
<1> QED
  BY <1>1, SpecInv, PTL

\* No interleaving of UPDATEs by id, however stale their copies, leaves a row
\* whose columns disagree with its status.
THEOREM RowsStayCoherent == Spec => []RowsCoherent
<1>1. IndInv => RowsCoherent
  BY DEF IndInv
<1> QED
  BY <1>1, SpecInv, PTL

-----------------------------------------------------------------------------
(* Paid intents are confirmed.  The invariant follows the confirmation from *)
(* the emitted event, through the copy a worker holds, into the row.         *)

EventsAreGenuine == \A e \in emitted : <<e.intent, e.gateway>> \in provisioned

EvidenceInFlight ==
    \A w \in Workers :
        /\ workers[w].pc \in Delivering \cup {"duplicate"} => workers[w].ev \in emitted
        /\ workers[w].row.status \in Paid => Confirmed(workers[w].i)

MoneyInv == PaidIsConfirmed /\ EventsAreGenuine /\ EvidenceInFlight

\* What a gateway reported stays reported.
LEMMA ConfirmedStays ==
    ASSUME emitted \subseteq emitted', provisioned \subseteq provisioned'
    PROVE  \A i : Confirmed(i) => Confirmed(i)'
BY DEF Confirmed

\* Only Emit reports anything, and open payments stay open.
LEMMA WorldMoves ==
    ASSUME [Next]_vars
    PROVE  /\ provisioned \subseteq provisioned'
           /\ emitted' = emitted \/ \E e \in Events : Emit(e)
<1> DEFINE Goal == /\ provisioned \subseteq provisioned'
                   /\ emitted' = emitted \/ \E e \in Events : Emit(e)
<1>1. CASE UNCHANGED vars
  BY <1>1 DEF vars, worldVars
<1>2. ASSUME NEW w \in Workers, Request(w) PROVE Goal
  BY <1>2 DEF Request, CreateIntent, RouteAndPay, CancelIntent, Ingest, IngestDuplicate, worldVars
<1>3. ASSUME NEW w \in Workers, WorkerStep(w) PROVE Goal
  BY <1>3 DEF WorkerStep, NoGateway, Accepted, Rejected, WriteIntent, ReplyDuplicate, Refuse,
              LookUp, Apply, Finish, FailDelivery, worldVars
<1>4. CASE ExpireStep
  BY <1>4 DEF ExpireStep, ExpireTick, ExpireRow, worldVars
<1>5. CASE FaultStep
  BY <1>5 DEF FaultStep, Abort, LookUpError, ApplyError, SkipRow
<1>6. CASE WorldStep
  BY <1>6 DEF WorldStep, Emit, Age
<1> QED
  BY <1>1, <1>2, <1>3, <1>4, <1>5, <1>6 DEF Next

\* Events keep coming from payments open at their gateway.
LEMMA GenuineStays ==
    ASSUME EventsAreGenuine, [Next]_vars
    PROVE  EventsAreGenuine' /\ emitted \subseteq emitted'
BY WorldMoves DEF EventsAreGenuine, Emit

\* Where a stored row comes from: a fresh INSERT, the UPDATE of a worker on
\* the intent it serves, or the expiry of a row listed as pending.
LEMMA RowWrites ==
    ASSUME IndInv, [Next]_vars, NEW i \in Intents, intents'[i] # intents[i]
    PROVE  \/ intents[i].status = "absent" /\ intents'[i].status = "created"
           \/ \E w \in Workers : /\ workers[w].pc \in {"update", "apply"}
                                 /\ workers[w].i = i
                                 /\ intents'[i] = workers[w].row
           \/ cron[i] # NoRow /\ intents'[i].status = "expired"
<1> DEFINE Source == \/ intents[i].status = "absent" /\ intents'[i].status = "created"
                     \/ \E w \in Workers : /\ workers[w].pc \in {"update", "apply"}
                                           /\ workers[w].i = i
                                           /\ intents'[i] = workers[w].row
                     \/ cron[i] # NoRow /\ intents'[i].status = "expired"
<1>0. intents \in [Intents -> Rows]
  BY DEF IndInv, TypeOK
<1>1. ASSUME NEW w \in Workers, Request(w) PROVE Source
  BY <1>0, <1>1, NewPaymentIntentOK DEF Request, CreateIntent, RouteAndPay, CancelIntent,
              Ingest, IngestDuplicate, FreshKey, Exists, Update
<1>2. ASSUME NEW w \in Workers, WorkerStep(w) PROVE Source
  BY <1>0, <1>2 DEF WorkerStep, NoGateway, Accepted, Rejected, WriteIntent, ReplyDuplicate,
              Refuse, LookUp, Apply, Finish, FailDelivery, Update
<1>3. CASE ExpireStep
  <2>1. PICK j \in Intents : ExpireRow(j)
    BY <1>3 DEF ExpireStep, ExpireTick
  <2>2. cron[j] \in Rows /\ Coherent(cron[j]) /\ CanExpire(cron[j])
    BY <2>1 DEF ExpireRow, IndInv, TypeOK, CopiesOK, ListedOK
  <2>3. MarkExpired(cron[j]).status = "expired"
    BY <2>2, MarkExpiredOK
  <2> QED
    BY <1>0, <2>1, <2>3 DEF ExpireRow, Update
<1>4. CASE FaultStep
  BY <1>4 DEF FaultStep, Abort, LookUpError, ApplyError, SkipRow
<1>5. CASE WorldStep
  BY <1>5 DEF WorldStep, Emit, Age
<1>6. CASE UNCHANGED vars
  BY <1>6 DEF vars
<1> QED
  BY <1>1, <1>2, <1>3, <1>4, <1>5, <1>6 DEF Next

\* Whichever statement wrote a row, a paid row is confirmed.
LEMMA PaidStaysConfirmed ==
    ASSUME IndInv, MoneyInv, [Next]_vars, IndInv'
    PROVE  PaidIsConfirmed'
<1> SUFFICES ASSUME NEW i \in Intents, (intents[i].status \in Paid)'
             PROVE  Confirmed(i)'
  BY DEF PaidIsConfirmed
<1>1. Confirmed(i) => Confirmed(i)'
  BY ConfirmedStays, WorldMoves, GenuineStays DEF MoneyInv
<1>2. CASE intents'[i] = intents[i]
  BY <1>1, <1>2 DEF MoneyInv, PaidIsConfirmed
<1>3. CASE \E w \in Workers : /\ workers[w].i = i
                              /\ intents'[i] = workers[w].row
  BY <1>1, <1>3 DEF MoneyInv, EvidenceInFlight
<1> QED
  BY <1>2, <1>3, RowWrites DEF Paid

\* Nothing is paid, reported or in flight at first.
LEMMA InitMoney == Init => MoneyInv
BY NoRowOK DEF Init, MoneyInv, PaidIsConfirmed, EventsAreGenuine, EvidenceInFlight, Idle, Paid,
               Delivering

\* A request starts with evidence for whatever it copies.
LEMMA RequestEvidence ==
    ASSUME IndInv, MoneyInv, NEW w \in Workers, Request(w)
    PROVE  EvidenceInFlight'
<1>0. workers \in [Workers -> Worker] /\ intents \in [Intents -> Rows]
  BY DEF IndInv, TypeOK
<1>1. ASSUME NEW i \in Intents, CreateIntent(w, i) PROVE EvidenceInFlight'
  BY <1>0, <1>1, NewPaymentIntentOK
     DEF CreateIntent, MoneyInv, EvidenceInFlight, Goto, Paid, Delivering, Confirmed, worldVars
<1>2. ASSUME NEW i \in Intents, RouteAndPay(w, i) PROVE EvidenceInFlight'
  BY <1>0, <1>2
     DEF RouteAndPay, CanRoute, MoneyInv, EvidenceInFlight, Goto, Paid, Delivering, Confirmed, worldVars
<1>3. ASSUME NEW i \in Intents, CancelIntent(w, i) PROVE EvidenceInFlight'
  <2>1. MarkCancelled(intents[i]).status = "cancelled"
    BY <1>0, <1>3, MarkCancelledOK DEF CancelIntent, IndInv, RowsCoherent
  <2> QED
    BY <1>0, <1>3, <2>1
       DEF CancelIntent, MoneyInv, EvidenceInFlight, Goto, Paid, Delivering, Confirmed, worldVars
<1>4. ASSUME NEW e \in emitted, Ingest(w, e) \/ IngestDuplicate(w, e) PROVE EvidenceInFlight'
  BY <1>0, <1>4, NoRowOK
     DEF Ingest, IngestDuplicate, MoneyInv, EvidenceInFlight, Goto, Paid, Delivering, Confirmed, worldVars
<1> QED
  BY <1>1, <1>2, <1>3, <1>4 DEF Request

\* A webhook that marks its copy as paid has verified an event that says so.
LEMMA LookUpEvidence ==
    ASSUME IndInv, MoneyInv, NEW w \in Workers, LookUp(w)
    PROVE  EvidenceInFlight'
<1> DEFINE e == workers[w].ev
           r == intents[e.intent]
           s == NewStatus(e.kind)
<1>0. workers \in [Workers -> Worker] /\ intents \in [Intents -> Rows]
  BY DEF IndInv, TypeOK
<1>1. e \in emitted /\ e \in Events /\ e.intent \in Intents /\ VerifySignature(e.kind)
  BY DEF LookUp, MoneyInv, EvidenceInFlight, Delivering, IndInv, TypeOK, Events
<1>2. UNCHANGED worldVars
  BY DEF LookUp
<1>3. CASE \/ Goto(w, "finish", e.intent, NoRow, e)
           \/ Goto(w, "reject", e.intent, NoRow, e)
  BY <1>0, <1>1, <1>2, <1>3, NoRowOK
     DEF MoneyInv, EvidenceInFlight, Goto, Paid, Confirmed, worldVars
<1>4. CASE Goto(w, "finish", e.intent, r, e)
  BY <1>0, <1>1, <1>2, <1>4
     DEF MoneyInv, PaidIsConfirmed, EvidenceInFlight, Goto, Confirmed, worldVars
<1>5. CASE s # "none" /\ CanApply(r, s) /\ Goto(w, "apply", e.intent, ApplyTo(r, s), e)
  <2>1. ApplyTo(r, s).status = s
    BY <1>0, <1>1, <1>5, ApplyToOK DEF IndInv, RowsCoherent
  <2>2. s \in Paid => e.kind \in {"paid", "settled"}
    BY <1>1 DEF NewStatus, Paid, VerifySignature
  <2>3. s \in Paid => Confirmed(e.intent)
    BY <1>1, <2>2 DEF Confirmed, MoneyInv, EventsAreGenuine
  <2> QED
    BY <1>0, <1>1, <1>2, <1>5, <2>1, <2>3
       DEF MoneyInv, EvidenceInFlight, Goto, Confirmed, worldVars
<1> QED
  BY <1>3, <1>4, <1>5 DEF LookUp

\* The further steps of a request keep the evidence for its copy.
LEMMA WorkerStepEvidence ==
    ASSUME IndInv, MoneyInv, [Next]_vars, NEW w \in Workers, WorkerStep(w)
    PROVE  EvidenceInFlight'
<1> DEFINE x == workers[w]
<1>0. workers \in [Workers -> Worker] /\ x \in Worker /\ RequestOK(x)
  BY DEF IndInv, TypeOK, CopiesOK
<1>1. emitted \subseteq emitted' /\ \A i : Confirmed(i) => Confirmed(i)'
  BY ConfirmedStays, WorldMoves, GenuineStays DEF MoneyInv
<1>2. CASE workers' = [workers EXCEPT ![w] = Idle]
  BY <1>0, <1>1, <1>2, NoRowOK DEF MoneyInv, EvidenceInFlight, Idle, Paid, Delivering
<1>3. ASSUME NEW g \in Gateways, Accepted(w, g) PROVE EvidenceInFlight'
  <2>1. MarkPending(Route(x.row, g), g).status = "pending"
    BY <1>0, <1>3, ProvisionOK DEF Accepted, RequestOK, Worker
  <2> QED
    BY <1>0, <1>1, <1>3, <2>1
       DEF Accepted, MoneyInv, EvidenceInFlight, Goto, Paid, Delivering
<1>4. ASSUME NEW g \in Gateways, Rejected(w, g) PROVE EvidenceInFlight'
  <2>1. MarkFailed(Route(x.row, g)).status = "failed"
    BY <1>0, <1>4, ProvisionOK DEF Rejected, RequestOK, Worker
  <2> QED
    BY <1>0, <1>1, <1>4, <2>1
       DEF Rejected, MoneyInv, EvidenceInFlight, Goto, Paid, Delivering
<1>5. CASE LookUp(w)
  BY <1>5, LookUpEvidence
<1>6. CASE Apply(w)
  BY <1>0, <1>1, <1>6 DEF Apply, MoneyInv, EvidenceInFlight, Goto, Delivering
<1> QED
  BY <1>2, <1>3, <1>4, <1>5, <1>6
     DEF WorkerStep, NoGateway, WriteIntent, ReplyDuplicate, Refuse, Finish, FailDelivery, Return

\* So does every other step.
LEMMA EvidenceStays ==
    ASSUME IndInv, MoneyInv, [Next]_vars
    PROVE  EvidenceInFlight'
<1>0. workers \in [Workers -> Worker]
  BY DEF IndInv, TypeOK
<1>1. emitted \subseteq emitted' /\ \A i : Confirmed(i) => Confirmed(i)'
  BY ConfirmedStays, WorldMoves, GenuineStays DEF MoneyInv
<1>2. ASSUME NEW w \in Workers, Request(w) PROVE EvidenceInFlight'
  BY <1>2, RequestEvidence
<1>3. ASSUME NEW w \in Workers, WorkerStep(w) PROVE EvidenceInFlight'
  BY <1>3, WorkerStepEvidence
<1>4. ASSUME NEW w \in Workers, Abort(w) \/ LookUpError(w) \/ ApplyError(w)
      PROVE  EvidenceInFlight'
  BY <1>0, <1>1, <1>4, NoRowOK
     DEF Abort, LookUpError, ApplyError, OnApplyError, MoneyInv, EvidenceInFlight, Goto, Return,
         Idle, Paid, Delivering
<1>5. CASE UNCHANGED workers
  BY <1>1, <1>5 DEF MoneyInv, EvidenceInFlight
<1> QED
  BY <1>2, <1>3, <1>4, <1>5
     DEF Next, ExpireStep, ExpireTick, ExpireRow, FaultStep, SkipRow, WorldStep, Emit, Age, vars,
         serviceVars

\* No path of create, retry, cancel, expiry, redelivery or fault makes money
\* appear: an intent counts as paid only if a gateway holding a payment for it
\* said so in an event whose signature verifies.
THEOREM PaidOnlyIfConfirmed == Spec => []PaidIsConfirmed
<1>1. IndInv /\ IndInv' /\ MoneyInv /\ [Next]_vars => MoneyInv'
  BY PaidStaysConfirmed, GenuineStays, EvidenceStays DEF MoneyInv
<1>2. MoneyInv => PaidIsConfirmed
  BY DEF MoneyInv
<1> QED
  BY <1>1, <1>2, InitMoney, SpecInv, PTL DEF Spec

\* No replay, race or retry puts an intent that has moved on back to "created".
THEOREM NeverCreatedTwice == Spec => NeverCreatedAgain
<1>1. IndInv /\ [Next]_vars =>
        \A i \in Intents : intents'[i].status = "created" =>
            intents[i].status \in {"absent", "created"}
  BY RowWrites DEF IndInv, CopiesOK, RequestOK
<1> QED
  BY <1>1, SpecInv, PTL DEF Spec, NeverCreatedAgain

-----------------------------------------------------------------------------
(* Each event takes effect at most once.  The INSERT that wins makes one      *)
(* worker the only one to serve the event, and the row stays "received" until *)
(* that worker closes it, or for good if the worker dies.                     *)

OneServer ==
    /\ \A w \in Workers :
         workers[w].pc \in Delivering => hooks[workers[w].ev] = "received"
    /\ \A v, w \in Workers :
         /\ workers[v].pc \in Delivering
         /\ workers[w].pc \in Delivering
         /\ workers[v].ev = workers[w].ev
         => v = w

NoEffectYet ==
    /\ \A e \in Events : hooks[e] = "absent" => applied[e] = 0
    /\ \A w \in Workers :
         workers[w].pc \in {"verify", "apply", "reject"} => applied[workers[w].ev] = 0

\* A worker that is about to link the event has applied what the event asks for.
LinksFollowEffects ==
    /\ \A w \in Workers :
         workers[w].pc = "finish" /\ workers[w].row # NoRow =>
            NewStatus(workers[w].ev.kind) = "none" \/ applied[workers[w].ev] = 1
    /\ \A e \in linked : /\ hooks[e] = "processed"
                         /\ NewStatus(e.kind) = "none" \/ applied[e] = 1

DeliveryInv == OneServer /\ NoEffectYet /\ LinksFollowEffects

\* No event has been delivered at first.
LEMMA InitDelivery == Init => DeliveryInv
BY DEF Init, DeliveryInv, OneServer, NoEffectYet, LinksFollowEffects, Idle, Delivering

\* Every step keeps each event with the one worker that delivers it.
LEMMA DeliveryStays ==
    ASSUME IndInv, DeliveryInv, [Next]_vars
    PROVE  DeliveryInv'
<1>0. /\ workers \in [Workers -> Worker]
      /\ hooks \in [Events -> HookStatuses]
      /\ applied \in [Events -> Nat]
      /\ linked \subseteq Events
      /\ emitted \subseteq Events
  BY DEF IndInv, TypeOK
<1>1. \A w \in Workers : workers[w].pc \in Delivering => workers[w].ev \in Events
  BY DEF IndInv, CopiesOK, RequestOK
<1>2. ASSUME NEW w \in Workers, NEW i \in Intents,
             CreateIntent(w, i) \/ RouteAndPay(w, i) \/ CancelIntent(w, i)
      PROVE  DeliveryInv'
  BY <1>0, <1>2 DEF CreateIntent, RouteAndPay, CancelIntent, Goto, hookVars,
     DeliveryInv, OneServer, NoEffectYet, LinksFollowEffects, Delivering
<1>3. ASSUME NEW w \in Workers, NEW e \in Events, Ingest(w, e) PROVE DeliveryInv'
  <2>1. OneServer'
    BY <1>0, <1>1, <1>3 DEF Ingest, FreshEvent, SetHook, Goto, DeliveryInv, OneServer, Delivering
  <2>2. NoEffectYet'
    BY <1>0, <1>1, <1>3 DEF Ingest, FreshEvent, SetHook, Goto, DeliveryInv, NoEffectYet, Delivering
  <2>3. LinksFollowEffects'
    BY <1>0, <1>1, <1>3 DEF Ingest, FreshEvent, SetHook, Goto, DeliveryInv, LinksFollowEffects, Delivering
  <2> QED
    BY <2>1, <2>2, <2>3 DEF DeliveryInv
<1>4. ASSUME NEW w \in Workers, NEW e \in Events, IngestDuplicate(w, e) PROVE DeliveryInv'
  BY <1>0, <1>4 DEF IngestDuplicate, Goto, hookVars,
     DeliveryInv, OneServer, NoEffectYet, LinksFollowEffects, Delivering
<1>5. ASSUME NEW w \in Workers, \E g \in Gateways : Accepted(w, g) \/ Rejected(w, g)
      PROVE  DeliveryInv'
  BY <1>0, <1>5 DEF Accepted, Rejected, Goto, hookVars,
     DeliveryInv, OneServer, NoEffectYet, LinksFollowEffects, Delivering
<1>6. ASSUME NEW w \in Workers, workers' = [workers EXCEPT ![w] = Idle], UNCHANGED hookVars
      PROVE  DeliveryInv'
  BY <1>0, <1>6 DEF Idle, hookVars,
     DeliveryInv, OneServer, NoEffectYet, LinksFollowEffects, Delivering
<1>7. ASSUME NEW w \in Workers, Refuse(w) \/ FailDelivery(w) PROVE DeliveryInv'
  BY <1>0, <1>1, <1>7 DEF Refuse, FailDelivery, Return, SetHook, Idle,
     DeliveryInv, OneServer, NoEffectYet, LinksFollowEffects, Delivering
<1>8. ASSUME NEW w \in Workers, LookUp(w) PROVE DeliveryInv'
  <2> DEFINE e == workers[w].ev
             s == NewStatus(e.kind)
  <2>1. e \in Events /\ hooks[e] = "received" /\ applied[e] = 0
    BY <1>1, <1>8 DEF LookUp, Delivering, DeliveryInv, OneServer, NoEffectYet
  <2>2. PICK pc, row :
            /\ pc \in {"finish", "apply", "reject"}
            /\ workers' = [workers EXCEPT ![w] = [pc |-> pc, i |-> e.intent, row |-> row, ev |-> e]]
            /\ pc = "finish" => row = NoRow \/ s = "none"
    BY <1>8 DEF LookUp, Goto
  <2>3. UNCHANGED hookVars
    BY <1>8 DEF LookUp
  <2>4. OneServer'
    BY <1>0, <1>8, <2>1, <2>2, <2>3 DEF LookUp, hookVars, DeliveryInv, OneServer, Delivering
  <2>5. NoEffectYet'
    BY <1>0, <2>1, <2>2, <2>3 DEF hookVars, DeliveryInv, NoEffectYet
  <2>6. LinksFollowEffects'
    BY <1>0, <2>1, <2>2, <2>3 DEF hookVars, DeliveryInv, LinksFollowEffects
  <2> QED
    BY <2>4, <2>5, <2>6 DEF DeliveryInv
<1>9. ASSUME NEW w \in Workers, Apply(w) PROVE DeliveryInv'
  <2>1. workers[w].ev \in Events /\ applied[workers[w].ev] = 0
    BY <1>1, <1>9 DEF Apply, Delivering, DeliveryInv, NoEffectYet
  <2>2. OneServer'
    BY <1>0, <1>9 DEF Apply, Goto, DeliveryInv, OneServer, Delivering
  <2>3. NoEffectYet'
    BY <1>0, <1>1, <1>9, <2>1 DEF Apply, Goto, DeliveryInv, OneServer, NoEffectYet, Delivering
  <2>4. LinksFollowEffects'
    BY <1>0, <1>1, <1>9, <2>1
       DEF Apply, Goto, DeliveryInv, OneServer, LinksFollowEffects, Delivering
  <2> QED
    BY <2>2, <2>3, <2>4 DEF DeliveryInv
<1>10. ASSUME NEW w \in Workers, Finish(w) PROVE DeliveryInv'
  <2>1. workers[w].ev \in Events /\ hooks[workers[w].ev] = "received"
    BY <1>1, <1>10 DEF Finish, Delivering, DeliveryInv, OneServer
  <2>2. OneServer'
    BY <1>0, <1>1, <1>10, <2>1 DEF Finish, Return, SetHook, Idle, DeliveryInv, OneServer, Delivering
  <2>3. NoEffectYet'
    BY <1>0, <1>10, <2>1 DEF Finish, Return, SetHook, Idle, DeliveryInv, NoEffectYet
  <2>4. LinksFollowEffects'
    BY <1>0, <1>10, <2>1 DEF Finish, Return, SetHook, Idle, DeliveryInv, LinksFollowEffects
  <2> QED
    BY <2>2, <2>3, <2>4 DEF DeliveryInv
<1>11. ASSUME NEW w \in Workers, LookUpError(w) \/ ApplyError(w) PROVE DeliveryInv'
  BY <1>0, <1>11 DEF LookUpError, ApplyError, OnApplyError, Goto, hookVars,
     DeliveryInv, OneServer, NoEffectYet, LinksFollowEffects, Delivering
<1>12. CASE UNCHANGED workers /\ UNCHANGED hookVars
  BY <1>12 DEF hookVars, DeliveryInv, OneServer, NoEffectYet, LinksFollowEffects
<1>13. ASSUME NEW w \in Workers, Request(w) PROVE DeliveryInv'
  BY <1>0, <1>2, <1>3, <1>4, <1>13 DEF Request
<1>14. ASSUME NEW w \in Workers, WorkerStep(w) PROVE DeliveryInv'
  BY <1>5, <1>6, <1>7, <1>8, <1>9, <1>10, <1>14
     DEF WorkerStep, NoGateway, WriteIntent, ReplyDuplicate, Return
<1>15. ASSUME NEW w \in Workers, Abort(w) PROVE DeliveryInv'
  BY <1>6, <1>15 DEF Abort, Return
<1> QED
  BY <1>11, <1>12, <1>13, <1>14, <1>15
     DEF Next, ExpireStep, ExpireTick, ExpireRow, FaultStep, SkipRow, WorldStep, Emit, Age, vars,
         serviceVars

\* So deliveries are always accounted for.
LEMMA SpecDelivery == Spec => []DeliveryInv
<1>1. IndInv /\ DeliveryInv /\ [Next]_vars => DeliveryInv'
  BY DeliveryStays
<1> QED
  BY <1>1, InitDelivery, SpecInv, PTL DEF Spec

\* A webhook row that is processed and linked to an intent stands for exactly
\* one committed update of that intent.
THEOREM LinkedMeansApplied == Spec => []LinkedIsApplied
<1>1. DeliveryInv => LinkedIsApplied
  BY DEF DeliveryInv, LinksFollowEffects, LinkedIsApplied
<1> QED
  BY <1>1, SpecDelivery, PTL

-----------------------------------------------------------------------------
(* The refinement: Ingest accepts an event, Apply is its effect, and every    *)
(* statement that ends a delivery closes it.                                  *)

inbox == [e \in Events |-> InboxState(hooks[e])]

\* The empty table is the empty inbox.
LEMMA InitInbox == Init => WebhookInbox!Init
BY DEF Init, WebhookInbox!Init, InboxState

\* Changing one row's status changes one event's state.
LEMMA HookMoves ==
    ASSUME IndInv, NEW e \in Events, NEW status, SetHook(e, status)
    PROVE  inbox' = [inbox EXCEPT ![e] = InboxState(status)]
BY DEF IndInv, TypeOK, SetHook, inbox

\* Every step is a step of the inbox or leaves it alone.
LEMMA StepInbox ==
    ASSUME IndInv, DeliveryInv, [Next]_vars
    PROVE  [WebhookInbox!Next]_(WebhookInbox!vars)
<1> USE DEF inbox
<1>0. /\ hooks \in [Events -> HookStatuses]
      /\ applied \in [Events -> Nat]
      /\ emitted \subseteq Events
      /\ \A w \in Workers : workers[w].pc \in Delivering => workers[w].ev \in Events
  BY DEF IndInv, TypeOK, CopiesOK, RequestOK
<1>1. CASE UNCHANGED <<hooks, applied>>
  BY <1>1 DEF WebhookInbox!vars
<1>2. ASSUME NEW w \in Workers, NEW e \in Events, Ingest(w, e) PROVE WebhookInbox!Accept(e)
  <2>1. inbox[e] = "new"
    BY <1>2 DEF Ingest, FreshEvent, InboxState
  <2>2. inbox' = [inbox EXCEPT ![e] = "open"]
    BY <1>2, HookMoves DEF Ingest, InboxState
  <2> QED
    BY <1>2, <2>1, <2>2 DEF Ingest, WebhookInbox!Accept
<1>3. ASSUME NEW w \in Workers, Refuse(w) \/ Finish(w) \/ FailDelivery(w)
      PROVE  WebhookInbox!Close(workers[w].ev)
  <2> DEFINE e == workers[w].ev
  <2>1. e \in Events /\ hooks[e] = "received"
    BY <1>0, <1>3 DEF Refuse, Finish, FailDelivery, Delivering, DeliveryInv, OneServer
  <2>2. PICK status \in {"suspect", "failed", "processed"} : SetHook(e, status)
    BY <1>3 DEF Refuse, Finish, FailDelivery
  <2>3. inbox[e] = "open" /\ inbox' = [inbox EXCEPT ![e] = "closed"]
    BY <2>1, <2>2, HookMoves DEF InboxState
  <2> QED
    BY <1>3, <2>3 DEF Refuse, Finish, FailDelivery, WebhookInbox!Close
<1>4. ASSUME NEW w \in Workers, Apply(w) PROVE WebhookInbox!TakeEffect(workers[w].ev)
  <2> DEFINE e == workers[w].ev
  <2>1. e \in Events /\ hooks[e] = "received" /\ applied[e] = 0
    BY <1>0, <1>4 DEF Apply, Delivering, DeliveryInv, OneServer, NoEffectYet
  <2>2. inbox[e] = "open"
    BY <2>1 DEF InboxState
  <2>3. applied' = [applied EXCEPT ![e] = 1]
    BY <1>0, <1>4, <2>1 DEF Apply
  <2> QED
    BY <1>4, <2>1, <2>2, <2>3 DEF Apply, WebhookInbox!TakeEffect
<1>5. ASSUME NEW w \in Workers, Request(w) PROVE [WebhookInbox!Next]_(WebhookInbox!vars)
  BY <1>0, <1>1, <1>2, <1>5
     DEF Request, CreateIntent, RouteAndPay, CancelIntent, IngestDuplicate, hookVars, WebhookInbox!Next
<1>6. ASSUME NEW w \in Workers, WorkerStep(w) PROVE [WebhookInbox!Next]_(WebhookInbox!vars)
  <2>1. workers[w].pc \in Delivering => workers[w].ev \in Events
    BY <1>0
  <2>2. CASE Refuse(w) \/ Finish(w) \/ FailDelivery(w)
    BY <1>3, <2>1, <2>2 DEF Refuse, Finish, FailDelivery, Delivering, WebhookInbox!Next
  <2>3. CASE Apply(w)
    BY <1>4, <2>1, <2>3 DEF Apply, Delivering, WebhookInbox!Next
  <2> QED
    BY <1>1, <1>6, <2>2, <2>3
       DEF WorkerStep, NoGateway, Accepted, Rejected, WriteIntent, ReplyDuplicate, LookUp, hookVars
<1> QED
  BY <1>1, <1>5, <1>6
     DEF Next, ExpireStep, ExpireTick, ExpireRow, FaultStep, Abort, LookUpError, ApplyError, SkipRow,
         WorldStep, Emit, Age, vars, hookVars

\* Under any redelivery, concurrency and fault, ingestion behaves as an inbox
\* that takes each event once, lets it act at most once while it is open, and
\* never reopens it.
THEOREM IngestIsAnInbox == Spec => EventsTakeEffectOnce
<1>1. IndInv /\ DeliveryInv /\ [Next]_vars => [WebhookInbox!Next]_(WebhookInbox!vars)
  BY StepInbox
<1> QED
  BY <1>1, InitInbox, SpecInv, SpecDelivery, PTL
     DEF Spec, EventsTakeEffectOnce, WebhookInbox!Spec

-----------------------------------------------------------------------------
(* The methods that refunds call on an intent row. *)

\* The refund half is built from the same store.
LEMMA SameStore == R!Rows = Rows /\ R!NoRow = NoRow
BY DEF R!Rows, R!IntentStatuses, R!NoRow, Rows, IntentStatuses, NoRow

\* The methods set the refunded total and the status and nothing else.
LEMMA RefundColumns ==
    ASSUME NEW r \in Rows, NEW n \in 0..Amount
    PROVE  /\ R!MarkPartiallyRefunded(r, n) \in Rows
           /\ R!MarkPartiallyRefunded(r, n).status = "partially_refunded"
           /\ R!MarkPartiallyRefunded(r, n).refunded = n
           /\ R!MarkPartiallyRefunded(r, n).gateway = r.gateway
           /\ R!MarkPartiallyRefunded(r, n).ref = r.ref
           /\ R!MarkPartiallyRefunded(r, n).paid = r.paid
           /\ R!MarkPartiallyRefunded(r, n).expired = r.expired
           /\ R!MarkPartiallyRefunded(r, n).cancelled = r.cancelled
BY Zenon DEF R!MarkPartiallyRefunded, Rows, IntentStatuses

LEMMA FullRefundColumns ==
    ASSUME NEW r \in Rows
    PROVE  /\ R!MarkFullyRefunded(r) \in Rows
           /\ R!MarkFullyRefunded(r).status = "refunded"
           /\ R!MarkFullyRefunded(r).refunded = Amount
           /\ R!MarkFullyRefunded(r).gateway = r.gateway
           /\ R!MarkFullyRefunded(r).ref = r.ref
           /\ R!MarkFullyRefunded(r).paid = r.paid
           /\ R!MarkFullyRefunded(r).expired = r.expired
           /\ R!MarkFullyRefunded(r).cancelled = r.cancelled
<1>1. Amount \in 0..Amount
  BY StoreAssumption
<1> QED
  BY <1>1, Zenon DEF R!MarkFullyRefunded, Rows, IntentStatuses

\* What a completed refund writes over a coherent copy is coherent, whatever
\* the total it was computed from.
LEMMA AfterRefundOK ==
    ASSUME NEW r \in Rows, Coherent(r), NEW total, R!AfterRefund(r, total) # NoRow
    PROVE  /\ R!AfterRefund(r, total) \in Rows
           /\ Coherent(R!AfterRefund(r, total))
           /\ R!AfterRefund(r, total).status \in {"partially_refunded", "refunded"}
<1>1. R!CanRefund(r) =>
        /\ r.paid = TRUE /\ r.expired = FALSE /\ r.cancelled = FALSE
        /\ r.ref # None /\ r.gateway = r.ref
  BY DEF R!CanRefund, Coherent, Paid, Rows
<1>2. CASE total = Amount
  <2>1. R!CanRefund(r) /\ R!AfterRefund(r, total) = R!MarkFullyRefunded(r)
    BY <1>2, SameStore DEF R!AfterRefund
  <2> QED
    BY <1>1, <2>1, FullRefundColumns, StoreAssumption DEF Coherent, Paid
<1>3. CASE total # Amount
  <2>1. /\ R!CanRefund(r) /\ total \in 1..(Amount - 1)
        /\ R!AfterRefund(r, total) = R!MarkPartiallyRefunded(r, total)
    BY <1>3, SameStore DEF R!AfterRefund, R!CanRefundPartially
  <2>2. total \in 0..Amount
    BY <2>1, StoreAssumption
  <2> QED
    BY <1>1, <2>1, <2>2, RefundColumns, StoreAssumption DEF Coherent, Paid
<1> QED
  BY <1>2, <1>3

-----------------------------------------------------------------------------
(* Refunds of confirmed payments. *)

\* A refund's row, or a copy of it, for a payment that was made.
OfConfirmed(row) ==
    row.status # "absent" /\ row.intent \in Intents /\ Confirmed(row.intent)

RefundsSound ==
    /\ R!TypeOK
    /\ \A r \in RefundIds :
        /\ refunds[r].status # "absent" => OfConfirmed(refunds[r])
        /\ refunded[r] > 0 => refunds[r].status # "absent"

ClerkSound(k) ==
    /\ k.pc # "idle" => k.r \in RefundIds /\ OfConfirmed(k.row)
    /\ k.pc \notin {"idle", "insert"} => refunds[k.r].status # "absent"
    /\ k.pc \in {"sum", "intent"} => Coherent(k.irow)
    /\ k.pc = "intent" => k.irow.status \in {"partially_refunded", "refunded"}

ClerksSound == \A c \in Clerks : ClerkSound(clerks[c])

ServiceInv == IndInv /\ MoneyInv /\ RefundsSound /\ ClerksSound

LEMMA AtRestOK == R!AtRest \in R!Clerk /\ R!AtRest.pc = "idle" /\ ClerkSound(R!AtRest)
<1>1. R!NoRefund \in R!RefundRows
  BY StoreAssumption DEF R!NoRefund, R!RefundRows, R!RefundStatuses
<1> QED
  BY <1>1, SameStore, NoRowOK DEF R!AtRest, R!Clerk, R!ClerkPcs, ClerkSound

LEMMA ServiceInvInit == ServiceInit => ServiceInv
<1> SUFFICES ASSUME ServiceInit PROVE ServiceInv
  OBVIOUS
<1>1. R!TypeOK
  <2>1. R!NoRefund \in R!RefundRows
    BY StoreAssumption DEF R!NoRefund, R!RefundRows, R!RefundStatuses
  <2> QED
    BY <2>1, AtRestOK, ServiceAssumption
       DEF ServiceInit, R!Init, R!TypeOK, R!RefundsAssumption
<1>2. RefundsSound
  BY <1>1 DEF ServiceInit, R!Init, RefundsSound, R!NoRefund
<1>3. ClerksSound
  BY AtRestOK DEF ServiceInit, R!Init, ClerksSound
<1> QED
  BY <1>2, <1>3, InitInv, InitMoney DEF ServiceInit, ServiceInv

\* A step of the intent half confirms more payments at most, and leaves the
\* refunds and the clerks' copies as they are.
LEMMA IntentStepSound ==
    ASSUME ServiceInv, IntentStep
    PROVE  ServiceInv'
<1>1. IndInv' /\ MoneyInv'
  BY NextInv, PaidStaysConfirmed, GenuineStays, EvidenceStays
     DEF ServiceInv, MoneyInv, IntentStep
<1>2. \A i : Confirmed(i) => Confirmed(i)'
  BY ConfirmedStays, WorldMoves, GenuineStays DEF ServiceInv, MoneyInv, IntentStep
<1>3. UNCHANGED refundVars
  BY DEF IntentStep
<1>4. RefundsSound'
  BY <1>2, <1>3 DEF ServiceInv, RefundsSound, refundVars, OfConfirmed, R!TypeOK
<1>5. ClerksSound'
  BY <1>2, <1>3 DEF ServiceInv, ClerksSound, ClerkSound, refundVars, OfConfirmed
<1> QED
  BY <1>1, <1>4, <1>5 DEF ServiceInv

\* A clerk takes up, or goes on with, a copy, and no row is written.
LEMMA CopyTaken ==
    ASSUME ServiceInv, NEW c \in Clerks, NEW k \in R!Clerk, ClerkSound(k),
           clerks' = [clerks EXCEPT ![c] = k],
           UNCHANGED <<intents, intentVars, refunds>>,
           refunded' \in [RefundIds -> Nat],
           \A r \in RefundIds : refunded'[r] > 0 => refunds[r].status # "absent",
           approvals' \subseteq RefundIds, refundFaults' \in 0..MaxRefundFaults
    PROVE  ServiceInv'
<1>1. IndInv' /\ MoneyInv'
  BY DEF ServiceInv, IndInv, TypeOK, RowsCoherent, CopiesOK, MoneyInv, PaidIsConfirmed,
         EventsAreGenuine, EvidenceInFlight, Confirmed, intentVars, serviceVars, hookVars,
         worldVars
<1>2. \A i : Confirmed(i)' = Confirmed(i)
  BY DEF Confirmed, intentVars, worldVars
<1>3. RefundsSound'
  BY <1>2 DEF ServiceInv, RefundsSound, R!TypeOK, OfConfirmed
<1>4. ClerksSound'
  BY <1>2 DEF ServiceInv, RefundsSound, R!TypeOK, ClerksSound, ClerkSound, OfConfirmed
<1> QED
  BY <1>1, <1>3, <1>4 DEF ServiceInv

\* A clerk writes its copy of the refund over the row.
LEMMA CopyWritten ==
    ASSUME ServiceInv, NEW c \in Clerks, clerks[c].pc # "idle",
           NEW k \in R!Clerk,
           k.pc # "idle" =>
                /\ k.pc \in {"call", "recompute"}
                /\ k.r = clerks[c].r /\ k.row = clerks[c].row,
           refunds' = [refunds EXCEPT ![clerks[c].r] = clerks[c].row],
           clerks' = [clerks EXCEPT ![c] = k],
           approvals' \subseteq RefundIds,
           UNCHANGED <<intents, intentVars, refunded, refundFaults>>
    PROVE  ServiceInv'
<1> DEFINE x == clerks[c]
<1>1. IndInv' /\ MoneyInv'
  BY DEF ServiceInv, IndInv, TypeOK, RowsCoherent, CopiesOK, MoneyInv, PaidIsConfirmed,
         EventsAreGenuine, EvidenceInFlight, Confirmed, intentVars, serviceVars, hookVars,
         worldVars
<1>2. \A i : Confirmed(i)' = Confirmed(i)
  BY DEF Confirmed, intentVars, worldVars
<1>3. /\ x \in R!Clerk /\ x.r \in RefundIds /\ OfConfirmed(x.row)
      /\ x.row \in R!RefundRows /\ R!TypeOK
  BY DEF ServiceInv, RefundsSound, R!TypeOK, R!Clerk, ClerksSound, ClerkSound
<1>4. RefundsSound'
  BY <1>2, <1>3 DEF ServiceInv, RefundsSound, R!TypeOK, OfConfirmed
<1>5. \A r \in RefundIds : refunds[r].status # "absent" => refunds'[r].status # "absent"
  BY <1>3 DEF R!TypeOK, OfConfirmed
<1>6. refunds'[x.r].status # "absent"
  BY <1>3 DEF R!TypeOK, OfConfirmed
<1>7. ASSUME NEW d \in Clerks
      PROVE  ClerkSound(clerks[d])'
  <2>1. CASE d = c
    BY <1>2, <1>3, <1>6, <2>1 DEF R!TypeOK, ClerkSound, OfConfirmed
  <2>2. CASE d # c
    <3>1. clerks'[d] = clerks[d] /\ ClerkSound(clerks[d])
      BY <1>3, <2>2 DEF R!TypeOK, ServiceInv, ClerksSound
    <3> QED
      BY <1>2, <1>5, <3>1 DEF ClerkSound, OfConfirmed
  <2> QED
    BY <2>1, <2>2
<1>8. ClerksSound'
  BY <1>7 DEF ClerksSound
<1> QED
  BY <1>1, <1>4, <1>8 DEF ServiceInv

\* Requests read a row, check it, and go on with a copy of it.
LEMMA RequestSound ==
    ASSUME ServiceInv, NEW c \in Clerks, R!Request(c), UNCHANGED intentVars
    PROVE  ServiceInv'
<1>0. /\ R!TypeOK /\ refunded \in [RefundIds -> Nat]
      /\ \A r \in RefundIds : refunded[r] > 0 => refunds[r].status # "absent"
      /\ approvals \subseteq RefundIds /\ refundFaults \in 0..MaxRefundFaults
  BY DEF ServiceInv, RefundsSound, R!TypeOK
<1>1. ASSUME NEW r \in RefundIds, NEW i \in Intents, NEW amount \in 1..Amount,
             R!RequestRefund(c, r, i, amount)
      PROVE  ServiceInv'
  <2> DEFINE row == [status |-> "requested", intent |-> i, amount |-> amount]
             k == [pc |-> "insert", r |-> r, row |-> row, irow |-> R!NoRow]
  <2>1. Confirmed(i)
    BY <1>1 DEF R!RequestRefund, R!Eligible, Paid, ServiceInv, MoneyInv, PaidIsConfirmed
  <2>2. row \in R!RefundRows
    BY StoreAssumption DEF R!RefundRows, R!RefundStatuses
  <2>3. k \in R!Clerk /\ ClerkSound(k)
    BY <2>1, <2>2, SameStore, NoRowOK DEF R!Clerk, R!ClerkPcs, ClerkSound, OfConfirmed
  <2>4. /\ clerks' = [clerks EXCEPT ![c] = k]
        /\ UNCHANGED <<intents, refunds, refunded, approvals, refundFaults>>
    BY <1>1 DEF R!RequestRefund, R!Goto
  <2> HIDE DEF k
  <2> QED
    BY <1>0, <2>3, <2>4, CopyTaken
<1>2. ASSUME NEW r \in RefundIds, NEW status \in R!RefundStatuses,
             NEW pc \in {"update", "start", "complete"}, refunds[r].status # "absent",
             R!Goto(c, pc, r, R!To(refunds[r], status), R!NoRow),
             UNCHANGED <<intents, refunds, refunded, approvals, refundFaults>>
      PROVE  ServiceInv'
  <2> DEFINE row == R!To(refunds[r], status)
             k == [pc |-> pc, r |-> r, row |-> row, irow |-> R!NoRow]
  <2>1. OfConfirmed(refunds[r]) /\ refunds[r] \in R!RefundRows
    BY <1>0, <1>2 DEF ServiceInv, RefundsSound, R!TypeOK
  <2>2. row \in R!RefundRows /\ row.status = status /\ row.intent = refunds[r].intent
    BY <2>1 DEF R!To, R!RefundRows
  <2>3. OfConfirmed(row)
    BY <2>1, <2>2 DEF OfConfirmed, R!RefundStatuses
  <2> HIDE DEF row
  <2>4. k \in R!Clerk /\ ClerkSound(k)
    BY <1>2, <2>2, <2>3, SameStore, NoRowOK DEF R!Clerk, R!ClerkPcs, ClerkSound
  <2>5. clerks' = [clerks EXCEPT ![c] = k]
    BY <1>2 DEF R!Goto, row
  <2> HIDE DEF k
  <2> QED
    BY <1>0, <1>2, <2>4, <2>5, CopyTaken
<1>3. ASSUME NEW r \in RefundIds, R!ApproveRefund(c, r) PROVE ServiceInv'
  BY <1>2, <1>3 DEF R!ApproveRefund, R!CanApprove, R!RefundStatuses
<1>4. ASSUME NEW r \in RefundIds, R!RejectRefund(c, r) PROVE ServiceInv'
  BY <1>2, <1>4 DEF R!RejectRefund, R!CanReject, R!RefundStatuses
<1>5. ASSUME NEW r \in RefundIds, R!ProcessRefund(c, r) PROVE ServiceInv'
  BY <1>2, <1>5 DEF R!ProcessRefund, R!CanStart, R!RefundStatuses
<1>6. ASSUME NEW r \in RefundIds, R!MarkRefundCompleted(c, r) PROVE ServiceInv'
  BY <1>2, <1>6 DEF R!MarkRefundCompleted, R!CanComplete, R!RefundStatuses
<1> QED
  BY <1>1, <1>3, <1>4, <1>5, <1>6 DEF R!Request

\* A completed refund is written over the intent's row.
LEMMA IntentWritten ==
    ASSUME ServiceInv, NEW c \in Clerks, R!WriteRefundedIntent(c), UNCHANGED intentVars
    PROVE  ServiceInv'
<1> DEFINE x == clerks[c]
           i == x.row.intent
<1>1. /\ x \in R!Clerk /\ OfConfirmed(x.row) /\ Coherent(x.irow)
      /\ x.irow.status \in {"partially_refunded", "refunded"}
  BY DEF R!WriteRefundedIntent, R!At, ServiceInv, RefundsSound, R!TypeOK, ClerksSound,
         ClerkSound
<1>2. x.irow \in Rows
  BY <1>1, SameStore DEF R!Clerk
<1>3. Update(i, x.irow)
  BY DEF R!WriteRefundedIntent, R!Update, Update
<1>4. intents' \in [Intents -> Rows] /\ RowsCoherent'
  BY <1>1, <1>2, <1>3, RowUpdates DEF ServiceInv
<1>5. IndInv'
  BY <1>4 DEF ServiceInv, IndInv, TypeOK, CopiesOK, intentVars, serviceVars, hookVars, worldVars
<1>6. \A j : Confirmed(j)' = Confirmed(j)
  BY DEF Confirmed, intentVars, worldVars
<1>7. PaidIsConfirmed'
  BY <1>1, <1>3, <1>6 DEF Update, ServiceInv, IndInv, TypeOK, MoneyInv, PaidIsConfirmed, OfConfirmed
<1>8. MoneyInv'
  BY <1>6, <1>7 DEF ServiceInv, MoneyInv, EventsAreGenuine, EvidenceInFlight, intentVars,
                    serviceVars, worldVars
<1>9. clerks' = [clerks EXCEPT ![c] = R!AtRest] /\ UNCHANGED <<refunds, refunded, approvals, refundFaults>>
  BY DEF R!WriteRefundedIntent, R!Return
<1>10. RefundsSound'
  BY <1>6, <1>9, AtRestOK DEF ServiceInv, RefundsSound, R!TypeOK, OfConfirmed
<1>11. ClerksSound'
  BY <1>6, <1>9, AtRestOK DEF ServiceInv, RefundsSound, R!TypeOK, ClerksSound, ClerkSound, OfConfirmed
<1> QED
  BY <1>5, <1>8, <1>10, <1>11 DEF ServiceInv

\* The further steps of a refund request.
LEMMA ClerkStepSound ==
    ASSUME ServiceInv, NEW c \in Clerks, R!ClerkStep(c) \/ R!Abort(c), UNCHANGED intentVars
    PROVE  ServiceInv'
<1> DEFINE x == clerks[c]
           goesOn(pc, irow) == [pc |-> pc, r |-> x.r, row |-> x.row, irow |-> irow]
<1>0. /\ R!TypeOK /\ refunded \in [RefundIds -> Nat]
      /\ \A r \in RefundIds : refunded[r] > 0 => refunds[r].status # "absent"
      /\ approvals \subseteq RefundIds /\ refundFaults \in 0..MaxRefundFaults
      /\ x \in R!Clerk /\ ClerkSound(x)
  BY DEF ServiceInv, RefundsSound, R!TypeOK, ClerksSound
<1>1. CASE R!InsertRefund(c) \/ R!WriteRefund(c)
  <2>1. /\ x.pc # "idle" /\ clerks' = [clerks EXCEPT ![c] = R!AtRest]
        /\ refunds' = [refunds EXCEPT ![x.r] = x.row]
        /\ UNCHANGED <<intents, refunded, refundFaults>>
    BY <1>1 DEF R!InsertRefund, R!WriteRefund, R!At, R!Return, R!UpdateRefund
  <2>2. approvals' \subseteq RefundIds
    BY <1>0, <1>1, <2>1 DEF R!InsertRefund, R!WriteRefund, ClerkSound
  <2> QED
    BY <2>1, <2>2, AtRestOK, CopyWritten
<1>2. CASE R!StartRefund(c) \/ R!CompleteRefund(c)
  <2>1. PICK pc \in {"call", "recompute"} :
            /\ x.pc # "idle" /\ clerks' = [clerks EXCEPT ![c] = goesOn(pc, R!NoRow)]
            /\ refunds' = [refunds EXCEPT ![x.r] = x.row]
            /\ UNCHANGED <<intents, refunded, approvals, refundFaults>>
    BY <1>2 DEF R!StartRefund, R!CompleteRefund, R!At, R!Goto, R!UpdateRefund
  <2> DEFINE k == goesOn(pc, R!NoRow)
  <2>2. k \in R!Clerk /\ k.pc \in {"call", "recompute"} /\ k.r = x.r /\ k.row = x.row
    BY <1>0, SameStore, NoRowOK DEF R!Clerk, R!ClerkPcs
  <2>3. clerks' = [clerks EXCEPT ![c] = k]
    BY <2>1
  <2> HIDE DEF k
  <2> QED
    BY <1>0, <2>1, <2>2, <2>3, CopyWritten
<1>3. CASE R!RefundAccepted(c) \/ R!RefundRefused(c)
  <2>1. x.pc = "call" /\ x.r \in RefundIds /\ refunds[x.r].status # "absent"
    BY <1>0, <1>3 DEF R!RefundAccepted, R!RefundRefused, R!At, ClerkSound
  <2>2. /\ refunded' \in [RefundIds -> Nat]
        /\ \A r \in RefundIds : refunded'[r] > 0 => refunds[r].status # "absent"
    BY <1>0, <1>3, <2>1 DEF R!RefundAccepted, R!RefundRefused, R!Pay
  <2>3. PICK row \in {x.row, R!To(x.row, "failed")} :
            clerks' = [clerks EXCEPT ![c] = [pc |-> "update", r |-> x.r, row |-> row,
                                             irow |-> R!NoRow]]
    BY <1>3 DEF R!RefundAccepted, R!RefundRefused, R!Goto
  <2>4. row \in R!RefundRows /\ OfConfirmed(row)
    <3>1. x.row \in R!RefundRows /\ OfConfirmed(x.row)
      BY <1>0, <2>1 DEF R!Clerk, ClerkSound
    <3>2. /\ R!To(x.row, "failed") \in R!RefundRows
          /\ R!To(x.row, "failed").status = "failed"
          /\ R!To(x.row, "failed").intent = x.row.intent
      BY <3>1 DEF R!To, R!RefundRows, R!RefundStatuses
    <3> QED
      BY <3>1, <3>2 DEF OfConfirmed
  <2> DEFINE k == [pc |-> "update", r |-> x.r, row |-> row, irow |-> R!NoRow]
  <2>5. k \in R!Clerk /\ ClerkSound(k)
    BY <1>0, <2>1, <2>4, SameStore, NoRowOK DEF R!Clerk, R!ClerkPcs, ClerkSound
  <2>6. UNCHANGED <<intents, refunds, approvals, refundFaults>>
    BY <1>3 DEF R!RefundAccepted, R!RefundRefused
  <2> HIDE DEF k
  <2> QED
    BY <1>0, <2>2, <2>3, <2>5, <2>6, CopyTaken DEF k
<1>4. CASE R!ReadIntent(c)
  <2> DEFINE k == goesOn("sum", intents[x.row.intent])
  <2>1. x.pc = "recompute" /\ OfConfirmed(x.row)
    BY <1>0, <1>4 DEF R!ReadIntent, R!At, ClerkSound
  <2>2. intents[x.row.intent] \in Rows /\ Coherent(intents[x.row.intent])
    BY <2>1 DEF OfConfirmed, ServiceInv, IndInv, TypeOK, RowsCoherent
  <2>3. k \in R!Clerk /\ ClerkSound(k)
    BY <1>0, <2>1, <2>2, SameStore DEF R!Clerk, R!ClerkPcs, ClerkSound
  <2>4. /\ clerks' = [clerks EXCEPT ![c] = k]
        /\ UNCHANGED <<intents, refunds, refunded, approvals, refundFaults>>
    BY <1>4 DEF R!ReadIntent, R!Goto
  <2> HIDE DEF k
  <2> QED
    BY <1>0, <2>3, <2>4, CopyTaken
<1>5. CASE R!SumRefunds(c)
  <2> DEFINE irow == R!AfterRefund(x.irow, R!SumCompleted(x.row.intent))
             k == goesOn("intent", irow)
  <2>1. /\ x.pc = "sum" /\ OfConfirmed(x.row) /\ Coherent(x.irow) /\ x.irow \in Rows
        /\ refunds[x.r].status # "absent" /\ x.r \in RefundIds
    BY <1>0, <1>5, SameStore DEF R!SumRefunds, R!At, ClerkSound, R!Clerk
  <2>2. UNCHANGED <<intents, refunds, refunded, approvals, refundFaults>>
    BY <1>5 DEF R!SumRefunds
  <2>3. CASE irow = NoRow
    <3>1. clerks' = [clerks EXCEPT ![c] = R!AtRest]
      BY <1>5, <2>3, SameStore DEF R!SumRefunds, R!Return
    <3> QED
      BY <1>0, <2>2, <3>1, AtRestOK, CopyTaken
  <2>4. CASE irow # NoRow
    <3>1. /\ irow \in Rows /\ Coherent(irow)
          /\ irow.status \in {"partially_refunded", "refunded"}
      BY <2>1, <2>4, AfterRefundOK
    <3>2. clerks' = [clerks EXCEPT ![c] = k]
      BY <1>5, <2>4, SameStore DEF R!SumRefunds, R!Goto
    <3> HIDE DEF irow
    <3>3. k \in R!Clerk /\ ClerkSound(k)
      BY <1>0, <2>1, <3>1, SameStore DEF R!Clerk, R!ClerkPcs, ClerkSound
    <3> HIDE DEF k
    <3> QED
      BY <1>0, <2>2, <3>2, <3>3, CopyTaken
  <2> QED
    BY <2>3, <2>4
<1>6. CASE R!WriteRefundedIntent(c)
  BY <1>6, IntentWritten
<1>7. CASE R!Abort(c)
  <2>1. /\ clerks' = [clerks EXCEPT ![c] = R!AtRest]
        /\ UNCHANGED <<intents, refunds, refunded, approvals>>
        /\ refundFaults' \in 0..MaxRefundFaults
    BY <1>0, <1>7, ServiceAssumption DEF R!Abort, R!Return, R!RefundsAssumption
  <2> QED
    BY <1>0, <2>1, AtRestOK, CopyTaken
<1> QED
  BY <1>1, <1>2, <1>3, <1>4, <1>5, <1>6, <1>7 DEF R!ClerkStep

LEMMA ServiceInvStep ==
    ASSUME ServiceInv, [ServiceNext]_allVars
    PROVE  ServiceInv'
<1>1. CASE RefundStep
  <2>1. PICK c \in Clerks : R!Request(c) \/ R!ClerkStep(c) \/ R!Abort(c)
    BY <1>1 DEF RefundStep, R!Next
  <2> QED
    BY <1>1, <2>1, RequestSound, ClerkStepSound DEF RefundStep
<1>2. CASE UNCHANGED allVars
  <2>1. [Next]_vars /\ UNCHANGED refundVars
    BY <1>2 DEF allVars, vars, intentVars
  <2>2. IndInv' /\ MoneyInv'
    BY <2>1, NextInv, PaidStaysConfirmed, GenuineStays, EvidenceStays DEF ServiceInv, MoneyInv
  <2>3. UNCHANGED <<emitted, provisioned>>
    BY <1>2 DEF allVars, intentVars, worldVars
  <2> QED
    BY <2>1, <2>2, <2>3
       DEF ServiceInv, RefundsSound, R!TypeOK, ClerksSound, ClerkSound, OfConfirmed, Confirmed,
           refundVars
<1> QED
  BY <1>1, <1>2, IntentStepSound DEF ServiceNext

LEMMA ServiceInvAlways == ServiceSpec => []ServiceInv
BY ServiceInvInit, ServiceInvStep, PTL DEF ServiceSpec

\* Whatever the two halves write over one another, the rows and the copies
\* in flight keep their types.
THEOREM ServiceTypeCorrect == ServiceSpec => [](TypeOK /\ R!TypeOK)
<1>1. ServiceInv => TypeOK /\ R!TypeOK
  BY DEF ServiceInv, IndInv, RefundsSound
<1> QED
  BY <1>1, ServiceInvAlways, PTL

\* Money goes back only for a payment that a gateway confirmed, whatever a
\* stale UPDATE has since made of its row.
THEOREM OnlyConfirmedIsRefundedAlways == ServiceSpec => []OnlyConfirmedIsRefunded
<1>1. ServiceInv => OnlyConfirmedIsRefunded
  BY DEF ServiceInv, RefundsSound, OfConfirmed, Confirmed, OnlyConfirmedIsRefunded
<1> QED
  BY <1>1, ServiceInvAlways, PTL

\* The intent half keeps its promises although refunds write its rows from
\* stale copies too: rows stay coherent, and only confirmed payments count.
THEOREM IntentPromisesSurvive == ServiceSpec => [](RowsCoherent /\ PaidIsConfirmed)
<1>1. ServiceInv => RowsCoherent /\ PaidIsConfirmed
  BY DEF ServiceInv, IndInv, MoneyInv
<1> QED
  BY <1>1, ServiceInvAlways, PTL

-----------------------------------------------------------------------------
(* Approvals: once committed they count for ever, so only the way from the  *)
(* check of the status to the gateway has to be followed.                   *)

HandOK(k) ==
    /\ k.pc \in {"start", "call"} => k.r \in approvals
    /\ k.pc = "insert" => k.row.status = "requested"
    /\ k.pc = "start" => k.row.status = "processing"
    /\ k.pc = "complete" => k.row.status = "completed"

Approved ==
    /\ \A r \in RefundIds :
        refunds[r].status = "approved" \/ refunded[r] > 0 => r \in approvals
    /\ \A c \in Clerks : HandOK(clerks[c])

LEMMA ApprovedInit == ServiceInit => Approved
BY DEF ServiceInit, R!Init, Approved, HandOK, R!AtRest, R!NoRefund

\* A clerk changes hands; the rows stay approved.
LEMMA HandTaken ==
    ASSUME ServiceInv, Approved, NEW c \in Clerks, NEW k, HandOK(k),
           clerks' = [clerks EXCEPT ![c] = k], approvals \subseteq approvals',
           \A r \in RefundIds :
                refunds'[r].status = "approved" \/ refunded'[r] > 0 => r \in approvals'
    PROVE  Approved'
<1>1. clerks \in [Clerks -> R!Clerk]
  BY DEF ServiceInv, RefundsSound, R!TypeOK
<1>2. ASSUME NEW d \in Clerks PROVE HandOK(clerks[d])'
  BY <1>1 DEF Approved, HandOK
<1> QED
  BY <1>2 DEF Approved

\* Requests start from the status they found.
LEMMA RequestApproved ==
    ASSUME ServiceInv, Approved, NEW c \in Clerks, R!Request(c)
    PROVE  Approved'
<1>0. refunds \in [RefundIds -> R!RefundRows]
  BY DEF ServiceInv, RefundsSound, R!TypeOK
<1>1. ASSUME NEW pc, NEW r \in RefundIds, NEW row,
             R!Goto(c, pc, r, row, R!NoRow), pc # "call",
             pc = "start" => r \in approvals /\ row.status = "processing",
             pc = "insert" => row.status = "requested",
             pc = "complete" => row.status = "completed",
             UNCHANGED <<refunds, refunded, approvals>>
      PROVE  Approved'
  <2> DEFINE k == [pc |-> pc, r |-> r, row |-> row, irow |-> R!NoRow]
  <2>1. clerks' = [clerks EXCEPT ![c] = k] /\ HandOK(k)
    BY <1>1 DEF R!Goto, HandOK
  <2> HIDE DEF k
  <2> QED
    BY <1>1, <2>1, HandTaken DEF Approved
<1>2. \A r \in RefundIds : \A status : R!To(refunds[r], status).status = status
  BY <1>0 DEF R!To, R!RefundRows
<1>3. ASSUME NEW r \in RefundIds, NEW i \in Intents, NEW amount \in 1..Amount,
             R!RequestRefund(c, r, i, amount)
      PROVE  Approved'
  BY <1>1, <1>3 DEF R!RequestRefund
<1>4. ASSUME NEW r \in RefundIds, R!ApproveRefund(c, r) \/ R!RejectRefund(c, r)
      PROVE  Approved'
  BY <1>1, <1>4 DEF R!ApproveRefund, R!RejectRefund
<1>5. ASSUME NEW r \in RefundIds, R!ProcessRefund(c, r) PROVE Approved'
  BY <1>1, <1>2, <1>5 DEF R!ProcessRefund, R!CanStart, Approved
<1>6. ASSUME NEW r \in RefundIds, R!MarkRefundCompleted(c, r) PROVE Approved'
  BY <1>1, <1>2, <1>6 DEF R!MarkRefundCompleted
<1> QED
  BY <1>3, <1>4, <1>5, <1>6 DEF R!Request

\* The statements and gateway calls that follow.
LEMMA ClerkStepApproved ==
    ASSUME ServiceInv, Approved, NEW c \in Clerks, R!ClerkStep(c) \/ R!Abort(c)
    PROVE  Approved'
<1> DEFINE x == clerks[c]
           goesOn(pc, row, irow) == [pc |-> pc, r |-> x.r, row |-> row, irow |-> irow]
<1>0. /\ refunds \in [RefundIds -> R!RefundRows] /\ refunded \in [RefundIds -> Nat]
      /\ HandOK(x) /\ ClerkSound(x) /\ R!AtRest.pc = "idle"
  BY AtRestOK DEF ServiceInv, RefundsSound, R!TypeOK, ClerksSound, Approved
<1>1. HandOK(R!AtRest)
  BY <1>0 DEF HandOK
<1>2. \A pc \in {"recompute", "update", "sum", "intent"} :
        \A row, irow : HandOK(goesOn(pc, row, irow))
  BY DEF HandOK
<1>3. CASE R!InsertRefund(c) \/ R!WriteRefund(c)
  <2>1. /\ refunds' = [refunds EXCEPT ![x.r] = x.row] /\ UNCHANGED refunded
        /\ x.r \in RefundIds /\ clerks' = [clerks EXCEPT ![c] = R!AtRest]
        /\ approvals \subseteq approvals'
        /\ x.row.status = "approved" => x.r \in approvals'
    BY <1>0, <1>3
       DEF R!InsertRefund, R!WriteRefund, R!UpdateRefund, R!At, R!Return, HandOK, ClerkSound
  <2>2. \A r \in RefundIds :
            refunds'[r].status = "approved" \/ refunded'[r] > 0 => r \in approvals'
    BY <1>0, <2>1 DEF Approved
  <2> QED
    BY <1>1, <2>1, <2>2, HandTaken
<1>4. CASE R!StartRefund(c) \/ R!CompleteRefund(c)
  <2>1. /\ refunds' = [refunds EXCEPT ![x.r] = x.row] /\ UNCHANGED <<refunded, approvals>>
        /\ x.r \in RefundIds /\ x.row.status # "approved"
    BY <1>0, <1>4
       DEF R!StartRefund, R!CompleteRefund, R!UpdateRefund, R!At, HandOK, ClerkSound
  <2>2. \A r \in RefundIds :
            refunds'[r].status = "approved" \/ refunded'[r] > 0 => r \in approvals'
    BY <1>0, <2>1 DEF Approved
  <2>3. PICK k : clerks' = [clerks EXCEPT ![c] = k] /\ HandOK(k)
    <3>1. CASE R!StartRefund(c)
      <4>1. /\ clerks' = [clerks EXCEPT ![c] = goesOn("call", x.row, R!NoRow)]
            /\ x.r \in approvals
        BY <1>0, <3>1 DEF R!StartRefund, R!Goto, R!At, HandOK
      <4>2. HandOK(goesOn("call", x.row, R!NoRow))
        BY <4>1 DEF HandOK
      <4> QED
        BY <4>1, <4>2
    <3>2. CASE R!CompleteRefund(c)
      BY <1>2, <3>2 DEF R!CompleteRefund, R!Goto
    <3> QED
      BY <1>4, <3>1, <3>2
  <2> QED
    BY <2>1, <2>2, <2>3, HandTaken
<1>5. CASE R!RefundAccepted(c) \/ R!RefundRefused(c)
  <2>1. x.r \in approvals /\ x.r \in RefundIds /\ UNCHANGED <<refunds, approvals>>
    BY <1>0, <1>5 DEF R!RefundAccepted, R!RefundRefused, R!At, HandOK, ClerkSound
  <2>2. \A r \in RefundIds : r # x.r => refunded'[r] = refunded[r]
    BY <1>0, <1>5 DEF R!RefundAccepted, R!RefundRefused, R!Pay
  <2>3. \A r \in RefundIds :
            refunds'[r].status = "approved" \/ refunded'[r] > 0 => r \in approvals'
    BY <2>1, <2>2 DEF Approved
  <2>4. PICK k : clerks' = [clerks EXCEPT ![c] = k] /\ HandOK(k)
    BY <1>2, <1>5 DEF R!RefundAccepted, R!RefundRefused, R!Goto
  <2> QED
    BY <2>1, <2>3, <2>4, HandTaken
<1>6. CASE R!ReadIntent(c) \/ R!SumRefunds(c) \/ R!WriteRefundedIntent(c) \/ R!Abort(c)
  <2>1. UNCHANGED <<refunds, refunded, approvals>>
    BY <1>6 DEF R!ReadIntent, R!SumRefunds, R!WriteRefundedIntent, R!Abort
  <2>2. PICK k : clerks' = [clerks EXCEPT ![c] = k] /\ HandOK(k)
    BY <1>1, <1>2, <1>6
       DEF R!ReadIntent, R!SumRefunds, R!WriteRefundedIntent, R!Abort, R!Goto, R!Return
  <2> QED
    BY <2>1, <2>2, HandTaken DEF Approved
<1> QED
  BY <1>3, <1>4, <1>5, <1>6 DEF R!ClerkStep

\* However approvals, rejections and retries overwrite one another, money goes
\* out only for a refund whose approval was committed.
THEOREM MoneyNeedsApprovalAlways == ServiceSpec => []MoneyNeedsApproval
<1>1. ServiceInv /\ Approved /\ [ServiceNext]_allVars => Approved'
  <2> SUFFICES ASSUME ServiceInv, Approved, [ServiceNext]_allVars PROVE Approved'
    OBVIOUS
  <2>1. CASE RefundStep
    BY <2>1, RequestApproved, ClerkStepApproved DEF RefundStep, R!Next
  <2>2. CASE UNCHANGED refundVars
    BY <2>2 DEF Approved, HandOK, refundVars
  <2> QED
    BY <2>1, <2>2 DEF ServiceNext, IntentStep, allVars
<1>2. Approved => MoneyNeedsApproval
  BY DEF Approved, MoneyNeedsApproval, R!MoneyNeedsApproval
<1> QED
  BY <1>1, <1>2, ApprovedInit, ServiceInvAlways, PTL DEF ServiceSpec

-----------------------------------------------------------------------------
(* Paid once, when requests do not overlap: one clerk at most is busy, and  *)
(* until it calls the gateway its refund has not been paid.                 *)

Unpaid == {"absent", "requested", "approved", "rejected"}

PaidHandOK(k, rows, times) ==
    /\ k.pc \in {"start", "call"} => times[k.r] = 0
    /\ k.pc # "idle" /\ k.row.status \in Unpaid => times[k.r] = 0
    /\ k.pc \in {"start", "call"} => k.row.status = "processing"
    /\ k.pc = "call" => rows[k.r].status \notin Unpaid

PaidInv ==
    /\ \A c, d \in Clerks : clerks[c] # R!AtRest /\ clerks[d] # R!AtRest => c = d
    /\ \A r \in RefundIds :
        /\ refunds[r].status \in Unpaid => refunded[r] = 0
        /\ refunded[r] <= 1
    /\ \A c \in Clerks : PaidHandOK(clerks[c], refunds, refunded)

LEMMA PaidInit == ServiceInit => PaidInv
BY DEF ServiceInit, R!Init, PaidInv, PaidHandOK, R!AtRest, R!NoRefund

\* The only busy clerk moves; no other holds anything.
LEMMA PaidHandTaken ==
    ASSUME ServiceInv, PaidInv, NEW c \in Clerks, NEW k,
           clerks' = [clerks EXCEPT ![c] = k],
           \A d \in Clerks : d # c => clerks[d] = R!AtRest,
           PaidHandOK(k, refunds', refunded'),
           \A r \in RefundIds :
                /\ refunds'[r].status \in Unpaid => refunded'[r] = 0
                /\ refunded'[r] <= 1
    PROVE  PaidInv'
<1>1. clerks \in [Clerks -> R!Clerk]
  BY DEF ServiceInv, RefundsSound, R!TypeOK
<1>2. ASSUME NEW d \in Clerks PROVE PaidHandOK(clerks[d], refunds, refunded)'
  BY <1>1, AtRestOK DEF PaidHandOK
<1>3. \A d \in Clerks : d # c => clerks'[d] = R!AtRest
  BY <1>1
<1> QED
  BY <1>2, <1>3 DEF PaidInv

\* A request starts when every clerk is free, and from an unpaid refund unless
\* it completes one.
LEMMA RequestPaid ==
    ASSUME ~Overlap, ServiceInv, PaidInv, NEW c \in Clerks, R!Request(c)
    PROVE  PaidInv'
<1>0. refunds \in [RefundIds -> R!RefundRows]
  BY DEF ServiceInv, RefundsSound, R!TypeOK
<1>1. ASSUME NEW pc, NEW r \in RefundIds, NEW row,
             R!Free(c), R!Goto(c, pc, r, row, R!NoRow), pc # "call",
             pc = "start" \/ row.status \in Unpaid => refunds[r].status \in Unpaid,
             pc = "start" => row.status = "processing",
             UNCHANGED <<refunds, refunded>>
      PROVE  PaidInv'
  <2> DEFINE k == [pc |-> pc, r |-> r, row |-> row, irow |-> R!NoRow]
  <2>1. \A d \in Clerks : clerks[d] = R!AtRest
    BY <1>1 DEF R!Free, R!Quiet
  <2>2. clerks' = [clerks EXCEPT ![c] = k] /\ PaidHandOK(k, refunds', refunded')
    BY <1>1 DEF R!Goto, PaidHandOK, PaidInv
  <2> HIDE DEF k
  <2> QED
    BY <1>1, <2>1, <2>2, PaidHandTaken DEF PaidInv
<1>2. \A r \in RefundIds : \A status : R!To(refunds[r], status).status = status
  BY <1>0 DEF R!To, R!RefundRows
<1>3. ASSUME NEW r \in RefundIds, NEW i \in Intents, NEW amount \in 1..Amount,
             R!RequestRefund(c, r, i, amount)
      PROVE  PaidInv'
  BY <1>1, <1>3 DEF R!RequestRefund, R!NoRefund, Unpaid
<1>4. ASSUME NEW r \in RefundIds, R!ApproveRefund(c, r) \/ R!RejectRefund(c, r)
      PROVE  PaidInv'
  BY <1>1, <1>4
     DEF R!ApproveRefund, R!RejectRefund, R!CanApprove, R!CanReject, Unpaid
<1>5. ASSUME NEW r \in RefundIds, R!ProcessRefund(c, r) PROVE PaidInv'
  BY <1>1, <1>2, <1>5 DEF R!ProcessRefund, R!CanStart, Unpaid
<1>6. ASSUME NEW r \in RefundIds, R!MarkRefundCompleted(c, r) PROVE PaidInv'
  BY <1>1, <1>2, <1>6 DEF R!MarkRefundCompleted, Unpaid
<1> QED
  BY <1>3, <1>4, <1>5, <1>6 DEF R!Request

\* Who steps is the only one at work.
LEMMA OneClerkBusy ==
    ASSUME PaidInv, NEW c \in Clerks, R!ClerkStep(c) \/ R!Abort(c)
    PROVE  \A d \in Clerks : d # c => clerks[d] = R!AtRest
<1>1. clerks[c].pc # "idle" \/ clerks[c] # R!AtRest
  BY DEF R!ClerkStep, R!InsertRefund, R!WriteRefund, R!StartRefund, R!RefundAccepted,
         R!RefundRefused, R!CompleteRefund, R!ReadIntent, R!SumRefunds,
         R!WriteRefundedIntent, R!At, R!Abort
<1> QED
  BY <1>1, AtRestOK DEF PaidInv

\* The one call of the gateway finds the refund unpaid, and leaves the clerk
\* with a copy that will not put it back where it could be sent again.
LEMMA ClerkStepPaid ==
    ASSUME ServiceInv, PaidInv, NEW c \in Clerks, R!ClerkStep(c) \/ R!Abort(c)
    PROVE  PaidInv'
<1> DEFINE x == clerks[c]
           goesOn(pc, row, irow) == [pc |-> pc, r |-> x.r, row |-> row, irow |-> irow]
<1>0. /\ refunds \in [RefundIds -> R!RefundRows] /\ refunded \in [RefundIds -> Nat]
      /\ x \in R!Clerk /\ PaidHandOK(x, refunds, refunded) /\ ClerkSound(x) /\ R!AtRest.pc = "idle"
  BY AtRestOK DEF ServiceInv, RefundsSound, R!TypeOK, ClerksSound, PaidInv
<1>1. \A d \in Clerks : d # c => clerks[d] = R!AtRest
  BY OneClerkBusy
<1>2. PaidHandOK(R!AtRest, refunds', refunded')
  BY <1>0 DEF PaidHandOK
<1>3. CASE R!InsertRefund(c) \/ R!WriteRefund(c)
  <2>1. /\ refunds' = [refunds EXCEPT ![x.r] = x.row] /\ UNCHANGED refunded
        /\ clerks' = [clerks EXCEPT ![c] = R!AtRest]
        /\ x.row.status \in Unpaid => refunded[x.r] = 0
    BY <1>0, <1>3
       DEF R!InsertRefund, R!WriteRefund, R!UpdateRefund, R!At, R!Return, PaidHandOK
  <2>2. \A r \in RefundIds :
            /\ refunds'[r].status \in Unpaid => refunded'[r] = 0
            /\ refunded'[r] <= 1
    BY <1>0, <2>1 DEF PaidInv
  <2> QED
    BY <1>1, <1>2, <2>1, <2>2, PaidHandTaken
<1>4. CASE R!StartRefund(c) \/ R!CompleteRefund(c)
  <2>1. /\ refunds' = [refunds EXCEPT ![x.r] = x.row] /\ UNCHANGED refunded
        /\ x.r \in RefundIds
        /\ x.row.status \in Unpaid => refunded[x.r] = 0
    BY <1>0, <1>4
       DEF R!StartRefund, R!CompleteRefund, R!UpdateRefund, R!At, PaidHandOK, ClerkSound
  <2>2. \A r \in RefundIds :
            /\ refunds'[r].status \in Unpaid => refunded'[r] = 0
            /\ refunded'[r] <= 1
    BY <1>0, <2>1 DEF PaidInv
  <2>3. CASE R!StartRefund(c)
    <3> DEFINE k == goesOn("call", x.row, R!NoRow)
    <3>1. refunded[x.r] = 0 /\ x.row.status = "processing" /\ x.row.status \notin Unpaid
      BY <1>0, <2>3 DEF R!StartRefund, R!At, PaidHandOK, Unpaid
    <3>2. refunds'[x.r] = x.row
      BY <1>0, <2>1
    <3>3. PaidHandOK(k, refunds', refunded')
      BY <2>1, <3>1, <3>2, <2>3 DEF PaidHandOK, R!StartRefund
    <3>4. clerks' = [clerks EXCEPT ![c] = k]
      BY <2>3 DEF R!StartRefund, R!Goto
    <3> HIDE DEF k
    <3> QED
      BY <1>1, <2>2, <3>3, <3>4, PaidHandTaken
  <2>4. CASE R!CompleteRefund(c)
    <3> DEFINE k == goesOn("recompute", x.row, R!NoRow)
    <3>1. PaidHandOK(k, refunds', refunded')
      BY <2>1 DEF PaidHandOK
    <3>2. clerks' = [clerks EXCEPT ![c] = k]
      BY <2>4 DEF R!CompleteRefund, R!Goto
    <3> HIDE DEF k
    <3> QED
      BY <1>1, <2>2, <3>1, <3>2, PaidHandTaken
  <2> QED
    BY <1>4, <2>3, <2>4
<1>5. CASE R!RefundAccepted(c) \/ R!RefundRefused(c)
  <2>1. /\ x.r \in RefundIds /\ refunded[x.r] = 0 /\ refunds[x.r].status \notin Unpaid
        /\ x.row.status = "processing" /\ x.row \in R!RefundRows
        /\ UNCHANGED refunds
    BY <1>0, <1>5
       DEF R!RefundAccepted, R!RefundRefused, R!At, PaidHandOK, ClerkSound, R!Clerk
  <2>2. /\ refunded'[x.r] <= 1
        /\ \A r \in RefundIds : r # x.r => refunded'[r] = refunded[r]
    BY <1>0, <1>5, <2>1 DEF R!RefundAccepted, R!RefundRefused, R!Pay
  <2>3. \A r \in RefundIds :
            /\ refunds'[r].status \in Unpaid => refunded'[r] = 0
            /\ refunded'[r] <= 1
    BY <2>1, <2>2 DEF PaidInv
  <2>4. PICK row \in {x.row, R!To(x.row, "failed")} :
            clerks' = [clerks EXCEPT ![c] = goesOn("update", row, R!NoRow)]
    BY <1>5 DEF R!RefundAccepted, R!RefundRefused, R!Goto
  <2>5. row.status \notin Unpaid
    BY <2>1, <2>4 DEF R!To, R!RefundRows, Unpaid
  <2> DEFINE k == goesOn("update", row, R!NoRow)
  <2>6. PaidHandOK(k, refunds', refunded') /\ clerks' = [clerks EXCEPT ![c] = k]
    BY <2>4, <2>5 DEF PaidHandOK
  <2> HIDE DEF k
  <2> QED
    BY <1>1, <2>3, <2>6, PaidHandTaken
<1>6. CASE R!ReadIntent(c) \/ R!SumRefunds(c) \/ R!WriteRefundedIntent(c) \/ R!Abort(c)
  <2>1. UNCHANGED <<refunds, refunded>>
    BY <1>6 DEF R!ReadIntent, R!SumRefunds, R!WriteRefundedIntent, R!Abort
  <2>2. x.pc # "idle" /\ x.row.status \in Unpaid => refunded'[x.r] = 0
    BY <1>0, <2>1 DEF PaidHandOK
  <2>3. ASSUME NEW pc \in {"sum", "intent"}, NEW irow, x.pc # "idle"
        PROVE  PaidHandOK(goesOn(pc, x.row, irow), refunds', refunded')
    BY <2>1, <2>2, <2>3 DEF PaidHandOK
  <2>4. PICK k : clerks' = [clerks EXCEPT ![c] = k] /\ PaidHandOK(k, refunds', refunded')
    BY <1>2, <1>6, <2>3
       DEF R!ReadIntent, R!SumRefunds, R!WriteRefundedIntent, R!Abort, R!Goto, R!Return, R!At
  <2> QED
    BY <1>1, <2>1, <2>4, PaidHandTaken DEF PaidInv
<1> QED
  BY <1>3, <1>4, <1>5, <1>6 DEF R!ClerkStep

LEMMA PaidStays ==
    ASSUME ~Overlap, ServiceInv, PaidInv, [ServiceNext]_allVars
    PROVE  PaidInv'
<1>1. CASE RefundStep
  BY <1>1, RequestPaid, ClerkStepPaid DEF RefundStep, R!Next
<1>2. CASE UNCHANGED refundVars
  BY <1>2 DEF PaidInv, PaidHandOK, refundVars
<1> QED
  BY <1>1, <1>2 DEF ServiceNext, IntentStep, allVars

\* When requests do not overlap, a gateway pays a refund at most once, however
\* many requests die half-way and are tried again.
THEOREM PaidOnceAlways == ~Overlap => (ServiceSpec => []PaidOnce)
<1> SUFFICES ASSUME ~Overlap PROVE ServiceSpec => []PaidOnce
  OBVIOUS
<1>1. ServiceInv /\ PaidInv /\ [ServiceNext]_allVars => PaidInv'
  BY PaidStays
<1>2. PaidInv => PaidOnce
  BY DEF PaidInv, PaidOnce, R!PaidOnce
<1> QED
  BY <1>1, <1>2, PaidInit, ServiceInvAlways, PTL DEF ServiceSpec

-----------------------------------------------------------------------------
(* The refunded total, when requests do not overlap. First the intent half: *)
(* what its one busy request would write over a row is about that row as it *)
(* still is, so no payment that was taken is lost.                          *)

Repaid == {"partially_refunded", "refunded"}

\* Who works: one worker, or the expiry pass, or the clerks.
OneAtWork ==
    /\ Quiet \/ R!Quiet
    /\ cron = NoBatch \/ \A w \in Workers : workers[w] = Idle
    /\ \A v, w \in Workers : workers[v] # Idle /\ workers[w] # Idle => v = w

\* The copy of request x neither takes nor loses a payment when written.
FreshCopy(x, rows) ==
    x.pc \in {"provision", "update", "apply"} =>
        /\ rows[x.i].status \notin Repaid
        /\ x.row.status \notin Repaid
        /\ rows[x.i].status = "succeeded" => x.row.status = "succeeded"

Fresh ==
    /\ OneAtWork
    /\ \A w \in Workers : FreshCopy(workers[w], intents)
    /\ \A i \in Intents : cron[i] # NoRow => intents[i].status \notin Paid

LEMMA FreshInit == ServiceInit => Fresh
BY DEF ServiceInit, Init, Fresh, OneAtWork, Quiet, FreshCopy, NoBatch, Idle

\* A row on which nothing was refunded has no total.
LEMMA NotRepaid ==
    ASSUME NEW r \in Rows, Coherent(r), r.status \notin Repaid
    PROVE  r.refunded = 0
<1>1. r.refunded \in 0..Amount /\ r.refunded # Amount /\ r.refunded \notin 1..(Amount - 1)
  BY DEF Coherent, Rows, Repaid
<1> QED
  BY <1>1, StoreAssumption

\* What the intent half writes keeps payments and totals.
RowsKeep ==
    \A i \in Intents :
        /\ intents'[i].refunded = intents[i].refunded
        /\ intents[i].status \in Paid => intents'[i].status \in Paid

LEMMA IntentStepKeeps ==
    ASSUME ServiceInv, Fresh, IntentStep, ServiceInv'
    PROVE  RowsKeep
<1> SUFFICES ASSUME NEW i \in Intents, intents'[i] # intents[i]
             PROVE  /\ intents'[i].refunded = intents[i].refunded
                    /\ intents[i].status \in Paid => intents'[i].status \in Paid
  BY DEF RowsKeep
<1>0. /\ IndInv /\ [Next]_vars /\ MoneyInv
      /\ intents[i] \in Rows /\ Coherent(intents[i])
      /\ intents'[i] \in Rows /\ Coherent(intents'[i])
  BY DEF IntentStep, ServiceInv, IndInv, TypeOK, RowsCoherent
<1>1. /\ intents[i].status \notin Repaid /\ intents'[i].status \notin Repaid
      /\ intents[i].status = "succeeded" => intents'[i].status = "succeeded"
  <2>1. CASE intents[i].status = "absent" /\ intents'[i].status = "created"
    BY <2>1 DEF Repaid
  <2>2. CASE \E w \in Workers : /\ workers[w].pc \in {"update", "apply"}
                                /\ workers[w].i = i
                                /\ intents'[i] = workers[w].row
    BY <2>2 DEF Fresh, FreshCopy
  <2>3. CASE cron[i] # NoRow /\ intents'[i].status = "expired"
    BY <2>3 DEF Fresh, Paid, Repaid
  <2> QED
    BY <1>0, <2>1, <2>2, <2>3, RowWrites
<1>2. intents[i].refunded = 0 /\ intents'[i].refunded = 0
  BY <1>0, <1>1, NotRepaid
<1> QED
  BY <1>1, <1>2 DEF Paid, Repaid

\* The one busy worker moves, and the pass is at rest.
LEMMA WorkerFresh ==
    ASSUME ~Overlap, ServiceInv, Fresh, R!Quiet, UNCHANGED refundVars, NEW w \in Workers,
           workers[w] # Idle \/ Quiet, UNCHANGED cron,
           NEW x \in Worker, workers' = [workers EXCEPT ![w] = x], FreshCopy(x, intents')
    PROVE  Fresh'
<1>1. workers \in [Workers -> Worker]
  BY DEF ServiceInv, IndInv, TypeOK
<1>2. cron = NoBatch /\ cron' = NoBatch
  BY DEF Fresh, OneAtWork, Quiet
<1>3. \A v \in Workers \ {w} : workers'[v] = Idle
  BY <1>1 DEF Fresh, OneAtWork, Quiet
<1>4. \A v \in Workers : FreshCopy(workers'[v], intents')
  BY <1>1, <1>3 DEF FreshCopy, Idle
<1>5. R!Quiet'
  BY DEF R!Quiet, R!AtRest, R!NoRow, R!NoRefund, refundVars
<1>6. OneAtWork'
  BY <1>2, <1>3, <1>5 DEF OneAtWork
<1>7. \A i \in Intents : cron'[i] = NoRow
  BY <1>2 DEF NoBatch
<1> QED
  BY <1>4, <1>6, <1>7 DEF Fresh
\* What a method makes of a status, for the copies that requests take up.
LEMMA TakenCopies ==
    ASSUME NEW r \in Rows, Coherent(r)
    PROVE  /\ CanCancel(r) => MarkCancelled(r) \in Rows /\ MarkCancelled(r).status = "cancelled"
           /\ \A g \in Gateways : CanRoute(r) =>
                /\ MarkPending(Route(r, g), g) \in Rows /\ MarkFailed(Route(r, g)) \in Rows
                /\ MarkPending(Route(r, g), g).status = "pending"
                /\ MarkFailed(Route(r, g)).status = "failed"
<1>1. \A g \in Gateways : CanRoute(r) => MarkFailed(Route(r, g)).status = "failed"
  BY RouteColumns, MarkFailedColumns
<1> QED
  BY <1>1, MarkCancelledOK, ProvisionOK

LEMMA RequestFresh ==
    ASSUME ~Overlap, ServiceInv, Fresh, R!Quiet, UNCHANGED refundVars,
           NEW w \in Workers, Request(w)
    PROVE  Fresh'
<1>0. /\ workers \in [Workers -> Worker] /\ intents \in [Intents -> Rows]
      /\ \A i \in Intents : Coherent(intents[i])
  BY DEF ServiceInv, IndInv, TypeOK, RowsCoherent
<1>1. Quiet /\ UNCHANGED cron
  BY DEF Request, CreateIntent, RouteAndPay, CancelIntent, Ingest, IngestDuplicate, MayStart
<1>2. ASSUME NEW i \in Intents, CreateIntent(w, i) PROVE Fresh'
  <2> DEFINE x == [pc |-> "provision", i |-> i, row |-> NewPaymentIntent, ev |-> None]
  <2>1. x \in Worker /\ workers' = [workers EXCEPT ![w] = x]
    BY <1>2, NewPaymentIntentOK DEF CreateIntent, Goto, Worker, Pcs
  <2>2. FreshCopy(x, intents')
    BY <1>0, <1>2, NewPaymentIntentOK DEF CreateIntent, Update, FreshCopy, Repaid
  <2> HIDE DEF x
  <2> QED
    BY <1>1, <2>1, <2>2, WorkerFresh
<1>3. ASSUME NEW i \in Intents, NEW pc \in {"provision", "update"}, NEW row \in Rows,
             Goto(w, pc, i, row, None), UNCHANGED intents,
             intents[i].status \notin Paid, row.status \notin Paid
      PROVE  Fresh'
  <2> DEFINE x == [pc |-> pc, i |-> i, row |-> row, ev |-> None]
  <2>1. x \in Worker /\ workers' = [workers EXCEPT ![w] = x]
    BY <1>3 DEF Goto, Worker, Pcs
  <2>2. FreshCopy(x, intents')
    BY <1>3 DEF FreshCopy, Repaid, Paid
  <2> HIDE DEF x
  <2> QED
    BY <1>1, <2>1, <2>2, WorkerFresh
<1>4. ASSUME NEW i \in Intents, RouteAndPay(w, i) PROVE Fresh'
  BY <1>0, <1>3, <1>4 DEF RouteAndPay, CanRoute, Paid
<1>5. ASSUME NEW i \in Intents, CancelIntent(w, i) PROVE Fresh'
  BY <1>0, <1>3, <1>5, TakenCopies DEF CancelIntent, CanCancel, Paid
<1>6. ASSUME NEW e \in emitted, Ingest(w, e) \/ IngestDuplicate(w, e) PROVE Fresh'
  <2>1. e \in Events
    BY DEF ServiceInv, IndInv, TypeOK
  <2>2. PICK pc \in {"verify", "duplicate"} : Goto(w, pc, e.intent, NoRow, e)
    BY <1>6 DEF Ingest, IngestDuplicate
  <2> DEFINE x == [pc |-> pc, i |-> e.intent, row |-> NoRow, ev |-> e]
  <2>3. x \in Worker /\ workers' = [workers EXCEPT ![w] = x]
    BY <2>1, <2>2, NoRowOK DEF Goto, Worker, Pcs, Events
  <2>4. FreshCopy(x, intents')
    BY <2>2 DEF FreshCopy
  <2> HIDE DEF x
  <2> QED
    BY <1>1, <2>3, <2>4, WorkerFresh
<1> QED
  BY <1>2, <1>4, <1>5, <1>6 DEF Request

LEMMA WorkerStepFresh ==
    ASSUME ~Overlap, ServiceInv, Fresh, R!Quiet, UNCHANGED refundVars, NEW w \in Workers,
           WorkerStep(w) \/ Abort(w) \/ LookUpError(w) \/ ApplyError(w)
    PROVE  Fresh'
<1> DEFINE x == workers[w]
<1>0. /\ workers \in [Workers -> Worker] /\ intents \in [Intents -> Rows]
      /\ \A i \in Intents : Coherent(intents[i])
      /\ x \in Worker /\ x.row \in Rows /\ RequestOK(x) /\ FreshCopy(x, intents)
  BY DEF ServiceInv, IndInv, TypeOK, RowsCoherent, CopiesOK, Worker, Fresh
<1>1. x # Idle /\ UNCHANGED cron
  BY DEF WorkerStep, NoGateway, Accepted, Rejected, WriteIntent, ReplyDuplicate, Refuse,
         LookUp, Apply, Finish, FailDelivery, Abort, LookUpError, ApplyError, Idle
<1>2. ASSUME NEW k \in Worker, workers' = [workers EXCEPT ![w] = k],
             k.pc \notin {"provision", "update", "apply"}
      PROVE  Fresh'
  <2>1. FreshCopy(k, intents')
    BY <1>2 DEF FreshCopy
  <2> QED
    BY <1>1, <1>2, <2>1, WorkerFresh
<1>3. CASE \/ NoGateway(w) \/ WriteIntent(w) \/ ReplyDuplicate(w) \/ Refuse(w)
           \/ Finish(w) \/ FailDelivery(w) \/ Abort(w)
  <2>1. workers' = [workers EXCEPT ![w] = Idle]
    BY <1>3 DEF NoGateway, WriteIntent, ReplyDuplicate, Refuse, Finish, FailDelivery, Abort,
                Return
  <2> QED
    BY <1>2, <2>1, IdleOK DEF Idle
<1>4. ASSUME NEW g \in Gateways, Accepted(w, g) \/ Rejected(w, g) PROVE Fresh'
  <2>1. /\ x.i \in Intents /\ CanRoute(x.row) /\ Coherent(x.row)
        /\ UNCHANGED intents /\ intents[x.i].status \notin Paid
    BY <1>0, <1>4 DEF Accepted, Rejected, RequestOK, FreshCopy, CanRoute, Paid, Repaid
  <2>2. PICK row \in {MarkPending(Route(x.row, g), g), MarkFailed(Route(x.row, g))} :
            Goto(w, "update", x.i, row, None)
    BY <1>4 DEF Accepted, Rejected
  <2>3. row \in Rows /\ row.status \in {"pending", "failed"}
    BY <1>0, <2>1, <2>2, TakenCopies
  <2> DEFINE k == [pc |-> "update", i |-> x.i, row |-> row, ev |-> None]
  <2>4. k \in Worker /\ workers' = [workers EXCEPT ![w] = k]
    BY <2>1, <2>2, <2>3 DEF Goto, Worker, Pcs
  <2>5. FreshCopy(k, intents')
    BY <2>1, <2>3 DEF FreshCopy, Paid, Repaid
  <2> HIDE DEF k
  <2> QED
    BY <1>1, <2>4, <2>5, WorkerFresh
<1>5. CASE LookUp(w)
  <2> DEFINE e == x.ev
             r == intents[e.intent]
             s == NewStatus(e.kind)
  <2>1. /\ e \in Events /\ e.intent \in Intents /\ r \in Rows /\ Coherent(r)
        /\ UNCHANGED intents
    BY <1>0, <1>5 DEF LookUp, RequestOK, Delivering, Events
  <2>2. CASE \E pc \in {"finish", "reject"}, row \in Rows : Goto(w, pc, e.intent, row, e)
    <3>1. PICK pc \in {"finish", "reject"}, row \in Rows : Goto(w, pc, e.intent, row, e)
      BY <2>2
    <3> DEFINE k == [pc |-> pc, i |-> e.intent, row |-> row, ev |-> e]
    <3>2. k \in Worker /\ workers' = [workers EXCEPT ![w] = k] /\ k.pc = pc
      BY <2>1, <3>1 DEF Goto, Worker, Pcs
    <3> HIDE DEF k
    <3> QED
      BY <1>2, <3>1, <3>2
  <2>3. CASE s # "none" /\ CanApply(r, s) /\ Goto(w, "apply", e.intent, ApplyTo(r, s), e)
    <3>1. ApplyTo(r, s) \in Rows /\ ApplyTo(r, s).status = s
      BY <2>1, <2>3, ApplyToOK
    <3>2. /\ s \in {"succeeded", "failed", "expired"} /\ r.status \notin Repaid
          /\ r.status = "succeeded" => s = "succeeded"
      BY <2>1, <2>3 DEF NewStatus, CanApply, CanSucceed, CanFail, CanExpire, Repaid
    <3> DEFINE k == [pc |-> "apply", i |-> e.intent, row |-> ApplyTo(r, s), ev |-> e]
    <3>3. k \in Worker /\ workers' = [workers EXCEPT ![w] = k]
      BY <2>1, <2>3, <3>1 DEF Goto, Worker, Pcs
    <3>4. FreshCopy(k, intents')
      BY <2>1, <3>1, <3>2 DEF FreshCopy, Repaid
    <3> HIDE DEF k
    <3> QED
      BY <1>1, <3>3, <3>4, WorkerFresh
  <2> QED
    BY <1>5, <2>1, <2>2, <2>3, NoRowOK DEF LookUp
<1>6. CASE Apply(w) \/ LookUpError(w) \/ ApplyError(w)
  <2>1. PICK pc \in {"finish", "reject"}, row \in {x.row, NoRow} :
            Goto(w, pc, x.i, row, x.ev)
    BY <1>0, <1>6 DEF Apply, LookUpError, ApplyError, OnApplyError, RequestOK, Delivering
  <2> DEFINE k == [pc |-> pc, i |-> x.i, row |-> row, ev |-> x.ev]
  <2>2. k \in Worker /\ workers' = [workers EXCEPT ![w] = k] /\ k.pc = pc
    BY <1>0, <2>1, NoRowOK DEF Goto, Worker, Pcs
  <2> HIDE DEF k
  <2> QED
    BY <1>2, <2>1, <2>2
<1> QED
  BY <1>3, <1>4, <1>5, <1>6 DEF WorkerStep

\* The pass lists rows that no one else is about to write.
LEMMA PassFresh ==
    ASSUME ~Overlap, ServiceInv, Fresh, R!Quiet, UNCHANGED refundVars,
           ExpireStep \/ \E i \in Intents : SkipRow(i)
    PROVE  Fresh'
<1>0. intents \in [Intents -> Rows] /\ cron \in [Intents -> Rows]
  BY DEF ServiceInv, IndInv, TypeOK
<1>1. UNCHANGED workers /\ \A w \in Workers : workers[w] = Idle
  <2>1. CASE ExpireTick
    BY <2>1 DEF ExpireTick, Quiet
  <2>2. CASE \E i \in Intents : ExpireRow(i) \/ SkipRow(i)
    BY <2>2 DEF ExpireRow, SkipRow, Fresh, OneAtWork, NoBatch
  <2> QED
    BY <2>1, <2>2 DEF ExpireStep
<1>2. \A i \in Intents : cron'[i] # NoRow => intents'[i].status \notin Paid
  <2>1. CASE ExpireTick
    BY <2>1 DEF ExpireTick, Stale, CanExpire, Paid
  <2>2. ASSUME NEW i \in Intents, ExpireRow(i) \/ SkipRow(i)
        PROVE  \A j \in Intents : cron'[j] # NoRow => intents'[j].status \notin Paid
    BY <1>0, <2>2 DEF ExpireRow, SkipRow, Update, Fresh
  <2> QED
    BY <2>1, <2>2 DEF ExpireStep
<1>3. R!Quiet'
  BY DEF R!Quiet, R!AtRest, R!NoRow, R!NoRefund, refundVars
<1> QED
  BY <1>1, <1>2, <1>3 DEF Fresh, OneAtWork, FreshCopy, Idle

LEMMA FreshStays ==
    ASSUME ~Overlap, ServiceInv, Fresh, [ServiceNext]_allVars
    PROVE  Fresh'
<1>1. CASE RefundStep
  <2>1. Quiet /\ UNCHANGED intentVars
    BY <1>1 DEF RefundStep
  <2>2. Quiet' /\ UNCHANGED workers /\ UNCHANGED cron
    BY <2>1 DEF intentVars, serviceVars, Quiet, NoBatch, NoRow, Idle
  <2> QED
    BY <2>1, <2>2 DEF Fresh, OneAtWork, FreshCopy, Idle, Quiet, NoBatch
<1>2. CASE IntentStep
  <2>1. R!Quiet /\ Next /\ UNCHANGED refundVars
    BY <1>2 DEF IntentStep
  <2>2. CASE WorldStep
    BY <2>1, <2>2 DEF WorldStep, Emit, Age, serviceVars, refundVars, Fresh, OneAtWork, Quiet,
                      R!Quiet
  <2> QED
    BY <2>1, <2>2, RequestFresh, WorkerStepFresh, PassFresh DEF Next, FaultStep
<1>3. CASE UNCHANGED allVars
  BY <1>3 DEF allVars, intentVars, serviceVars, refundVars, Fresh, OneAtWork, Quiet, R!Quiet
<1> QED
  BY <1>1, <1>2, <1>3 DEF ServiceNext
-----------------------------------------------------------------------------
(* Then the totals: an intent's total is the sum of its completed refunds,  *)
(* or the clerk that completed the last of them is about to write it.       *)

SumOf(i, rows) ==
    SumFunctionOnSet([r \in RefundIds |-> rows[r].amount],
                     {r \in RefundIds : rows[r].intent = i /\ rows[r].status = "completed"})

Agrees(i, rows, table) == SumOf(i, rows) <= Amount => table[i].refunded = SumOf(i, rows)

\* A refund, or a copy of one, of a payment that is still there.
OfPaid(row, table) == table[row.intent].status \in Paid /\ row.amount > 0

\* Only the completion of a refund changes a sum.
HandSound(k, rows, table) ==
    /\ k.pc # "idle" => OfPaid(k.row, table)
    /\ k.pc \in {"insert", "update", "start", "call", "complete"} =>
        /\ rows[k.r].status # "completed"
        /\ k.row.status = "completed" <=> k.pc = "complete"

Totalling == {"recompute", "sum", "intent"}

\* What the clerk that completed a refund of i will write is the new sum.
Carries(k, i, rows, table) ==
    k.row.intent = i /\ SumOf(i, rows) <= Amount =>
        /\ k.pc = "recompute" => SumOf(i, rows) >= 1 /\ R!CanRefund(table[i])
        /\ k.pc = "sum" => SumOf(i, rows) >= 1 /\ R!CanRefund(k.irow)
        /\ k.pc = "intent" => k.irow.refunded = SumOf(i, rows)

TotalInv ==
    /\ \A r \in RefundIds : refunds[r].status # "absent" => OfPaid(refunds[r], intents)
    /\ \A c \in Clerks : HandSound(clerks[c], refunds, intents)
    /\ refundFaults = 0 =>
        \A i \in Intents :
            /\ \A c \in Clerks : Carries(clerks[c], i, refunds, intents)
            /\ \/ Agrees(i, refunds, intents)
               \/ \E c \in Clerks : clerks[c].pc \in Totalling /\ clerks[c].row.intent = i

LEMMA SumIsNumber ==
    ASSUME NEW rows \in [RefundIds -> R!RefundRows], NEW i
    PROVE  SumOf(i, rows) \in Int
<1> DEFINE S == {q \in RefundIds : rows[q].intent = i /\ rows[q].status = "completed"}
           f == [q \in RefundIds |-> rows[q].amount]
<1>1. IsFiniteSet(S)
  BY ServiceAssumption, FS_Subset DEF R!RefundsAssumption, R!IsFiniteSet, IsFiniteSet
<1>2. Numbers(f, S)
  BY StoreAssumption DEF Numbers, R!RefundRows
<1> HIDE DEF f, S
<1>3. SumFunctionOnSet(f, S) \in Int
  BY <1>1, <1>2, SumType
<1> QED
  BY <1>3 DEF SumOf, f, S

\* One row of the refunds table is written that was not completed before.
LEMMA SumMoves ==
    ASSUME NEW rows \in [RefundIds -> R!RefundRows], NEW r \in RefundIds,
           NEW row \in R!RefundRows, rows[r].status # "completed", NEW i
    PROVE  /\ SumOf(i, rows) \in Int
           /\ SumOf(i, [rows EXCEPT ![r] = row]) =
                  SumOf(i, rows)
                  + IF row.status = "completed" /\ row.intent = i THEN row.amount ELSE 0
<1> DEFINE new == [rows EXCEPT ![r] = row]
           done(t) == {q \in RefundIds : t[q].intent = i /\ t[q].status = "completed"}
           amounts(t) == [q \in RefundIds |-> t[q].amount]
<1>1. /\ new \in [RefundIds -> R!RefundRows] /\ new[r] = row
      /\ \A q \in RefundIds \ {r} : new[q] = rows[q]
  OBVIOUS
<1> HIDE DEF new
<1>2. \A q \in R!RefundRows : q.amount \in Int
  BY StoreAssumption DEF R!RefundRows
<1>3. IsFiniteSet(done(rows)) /\ Numbers(amounts(rows), done(rows))
  <2>1. done(rows) \subseteq RefundIds /\ IsFiniteSet(RefundIds)
    BY ServiceAssumption DEF R!RefundsAssumption, R!IsFiniteSet, IsFiniteSet
  <2> QED
    BY <1>2, <2>1, FS_Subset DEF Numbers
<1>4. \A q \in done(rows) : amounts(new)[q] = amounts(rows)[q]
  BY <1>1
<1>5. r \notin done(rows)
  OBVIOUS
<1>6. SumOf(i, rows) \in Int
  BY SumIsNumber
<1>7. CASE row.status = "completed" /\ row.intent = i
  <2>1. done(new) = done(rows) \cup {r}
    BY <1>1, <1>7
  <2> DEFINE f == amounts(rows)
             g == amounts(new)
             S == done(rows)
  <2>2. g[r] = row.amount /\ g[r] \in Int
    BY <1>1, <1>2
  <2>3. SumOf(i, rows) = SumFunctionOnSet(f, S) /\ SumOf(i, new) = SumFunctionOnSet(g, S \cup {r})
    BY <2>1 DEF SumOf
  <2> HIDE DEF f, g, S
  <2>4. SumFunctionOnSet(g, S \cup {r}) = SumFunctionOnSet(f, S) + g[r]
    <3>1. IsFiniteSet(S) /\ Numbers(f, S) /\ r \notin S /\ \A x \in S : g[x] = f[x]
      BY <1>3, <1>4, <1>5 DEF f, g, S
    <3>2. g[r] \in Int
      BY <2>2
    <3> QED
      BY <3>1, <3>2, SumAdds
  <2> QED
    BY <1>6, <1>7, <2>2, <2>3, <2>4 DEF new
<1>8. CASE ~(row.status = "completed" /\ row.intent = i)
  <2>1. done(new) = done(rows)
    BY <1>1, <1>5, <1>8
  <2> HIDE DEF done, amounts
  <2>2. SumFunctionOnSet(amounts(rows), done(rows)) = SumFunctionOnSet(amounts(new), done(rows))
    BY <1>3, <1>4, SumAgrees
  <2>3. SumOf(i, new) = SumOf(i, rows)
    BY <2>1, <2>2 DEF SumOf, done, amounts
  <2> QED
    BY <1>6, <1>8, <2>3 DEF new
<1> QED
  BY <1>7, <1>8

LEMMA TotalInit == ServiceInit => TotalInv
<1> SUFFICES ASSUME ServiceInit PROVE TotalInv
  OBVIOUS
<1>1. \A r \in RefundIds : refunds[r].status = "absent"
  BY DEF ServiceInit, R!Init, R!NoRefund
<1>2. \A c \in Clerks : clerks[c] = R!AtRest /\ clerks[c].pc = "idle"
  BY DEF ServiceInit, R!Init, R!AtRest
<1>3. ASSUME NEW i \in Intents PROVE Agrees(i, refunds, intents)
  <2> DEFINE done == {r \in RefundIds : refunds[r].intent = i /\ refunds[r].status = "completed"}
  <2>1. done = {}
    BY <1>1
  <2>2. SumOf(i, refunds) = 0
    BY <2>1, SumOfNone DEF SumOf
  <2>3. intents[i].refunded = 0
    BY DEF ServiceInit, Init, NoRow
  <2> QED
    BY <2>2, <2>3 DEF Agrees
<1> QED
  BY <1>1, <1>2, <1>3 DEF TotalInv, HandSound, Carries

\* The only busy clerk moves; the others hold nothing.
LEMMA TotalHandTaken ==
    ASSUME ServiceInv, NEW c \in Clerks, NEW k, clerks' = [clerks EXCEPT ![c] = k],
           \A d \in Clerks : d # c => clerks[d] = R!AtRest,
           \A r \in RefundIds : refunds'[r].status # "absent" => OfPaid(refunds'[r], intents'),
           HandSound(k, refunds', intents'),
           refundFaults' = 0 =>
               \A i \in Intents :
                   /\ Carries(k, i, refunds', intents')
                   /\ \/ Agrees(i, refunds', intents')
                      \/ k.pc \in Totalling /\ k.row.intent = i
    PROVE  TotalInv'
<1>1. clerks \in [Clerks -> R!Clerk]
  BY DEF ServiceInv, RefundsSound, R!TypeOK
<1>2. clerks'[c] = k /\ \A d \in Clerks : d # c => clerks'[d] = R!AtRest
  BY <1>1
<1>3. R!AtRest.pc = "idle"
  BY AtRestOK
<1>4. \A d \in Clerks : HandSound(clerks'[d], refunds', intents')
  BY <1>2, <1>3 DEF HandSound
<1>5. refundFaults' = 0 =>
        \A i \in Intents : \A d \in Clerks : Carries(clerks'[d], i, refunds', intents')
  BY <1>2, <1>3 DEF Carries
<1> QED
  BY <1>2, <1>4, <1>5 DEF TotalInv
\* The sum of the refund half is the one of the library.
LEMMA SameSum ==
    /\ \A i : R!SumCompleted(i) = SumOf(i, refunds)
    /\ \A i : R!SumCompleted(i)' = SumOf(i, refunds')
<1>1. ASSUME NEW f, NEW S
      PROVE  R!SumFunctionOnSet(f, S) = SumFunctionOnSet(f, S)
  <2>1. R!SumFunctionOnSet(f, S) = Chosen(f, S)[S]
    BY DEF R!SumFunctionOnSet, R!FoldFunctionOnSet, R!MapThenFoldSet, Chosen, HoldsSums, Fold,
           Pick
  <2> QED
    BY <2>1, SumIsChosen
<1> QED
  BY <1>1 DEF R!SumCompleted, SumOf
\* A copy that is not about to total anything.
LEMMA PlainHandTaken ==
    ASSUME ServiceInv, TotalInv, NEW c \in Clerks, NEW k, clerks' = [clerks EXCEPT ![c] = k],
           \A d \in Clerks : d # c => clerks[d] = R!AtRest,
           clerks[c].pc \notin Totalling, k.pc \notin Totalling,
           HandSound(k, refunds', intents),
           \A r \in RefundIds : refunds'[r].status # "absent" => OfPaid(refunds'[r], intents),
           \A i \in Intents : SumOf(i, refunds') = SumOf(i, refunds),
           UNCHANGED <<intents, refundFaults>>
    PROVE  TotalInv'
<1>1. \A d \in Clerks : clerks[d].pc \notin Totalling
  BY AtRestOK DEF Totalling
<1>2. refundFaults = 0 => \A i \in Intents : Agrees(i, refunds', intents)
  BY <1>1 DEF TotalInv, Agrees
<1>3. \A i \in Intents : Carries(k, i, refunds', intents)
  BY DEF Carries, Totalling
<1> QED
  BY <1>2, <1>3, TotalHandTaken

LEMMA RequestTotal ==
    ASSUME ~Overlap, ServiceInv, TotalInv, NEW c \in Clerks, R!Request(c)
    PROVE  TotalInv'
<1>0. /\ refunds \in [RefundIds -> R!RefundRows] /\ intents \in [Intents -> Rows]
      /\ \A r \in RefundIds : refunds[r].status # "absent" => OfPaid(refunds[r], intents)
  BY DEF ServiceInv, IndInv, TypeOK, RefundsSound, R!TypeOK, TotalInv
<1>1. ASSUME NEW pc \in {"insert", "update", "start", "complete"}, NEW r \in RefundIds, NEW row,
             R!Free(c), R!Goto(c, pc, r, row, R!NoRow), OfPaid(row, intents),
             refunds[r].status # "completed",
             row.status = "completed" <=> pc = "complete",
             UNCHANGED <<intents, refunds, refundFaults>>
      PROVE  TotalInv'
  <2> DEFINE k == [pc |-> pc, r |-> r, row |-> row, irow |-> R!NoRow]
  <2>1. \A d \in Clerks : clerks[d] = R!AtRest
    BY <1>1 DEF R!Free, R!Quiet
  <2>2. /\ clerks' = [clerks EXCEPT ![c] = k] /\ k.pc \notin Totalling
        /\ HandSound(k, refunds', intents)
    BY <1>1 DEF R!Goto, HandSound, Totalling
  <2>3. clerks[c].pc \notin Totalling
    BY <2>1, AtRestOK DEF Totalling
  <2> HIDE DEF k
  <2> QED
    BY <1>0, <1>1, <2>1, <2>2, <2>3, PlainHandTaken
<1>2. \A r \in RefundIds : \A status :
        /\ R!To(refunds[r], status).status = status
        /\ R!To(refunds[r], status).intent = refunds[r].intent
        /\ R!To(refunds[r], status).amount = refunds[r].amount
  BY <1>0 DEF R!To, R!RefundRows
<1>3. ASSUME NEW r \in RefundIds, NEW i \in Intents, NEW amount \in 1..Amount,
             R!RequestRefund(c, r, i, amount)
      PROVE  TotalInv'
  <2> DEFINE row == [status |-> "requested", intent |-> i, amount |-> amount]
  <2>1. OfPaid(row, intents) /\ row.status = "requested"
    BY <1>3, StoreAssumption DEF R!RequestRefund, R!Eligible, OfPaid, Paid
  <2>2. refunds[r].status # "completed"
    BY <1>3 DEF R!RequestRefund, R!NoRefund
  <2>3. /\ R!Free(c) /\ R!Goto(c, "insert", r, row, R!NoRow)
        /\ UNCHANGED <<intents, refunds, refundFaults>>
    BY <1>3 DEF R!RequestRefund
  <2> HIDE DEF row
  <2> QED
    BY <1>1, <2>1, <2>2, <2>3
<1>4. ASSUME NEW r \in RefundIds, NEW status, NEW pc \in {"update", "start", "complete"},
             R!Free(c), R!Goto(c, pc, r, R!To(refunds[r], status), R!NoRow),
             refunds[r].status \in {"requested", "approved", "processing"},
             status = "completed" <=> pc = "complete",
             UNCHANGED <<intents, refunds, refundFaults>>
      PROVE  TotalInv'
  <2> DEFINE row == R!To(refunds[r], status)
  <2>1. OfPaid(row, intents) /\ row.status = status
    BY <1>0, <1>2, <1>4 DEF OfPaid
  <2> HIDE DEF row
  <2>2. R!Goto(c, pc, r, row, R!NoRow)
    BY <1>4 DEF row
  <2> QED
    BY <1>1, <1>4, <2>1, <2>2
<1>5. ASSUME NEW r \in RefundIds, R!ApproveRefund(c, r) PROVE TotalInv'
  BY <1>4, <1>5 DEF R!ApproveRefund, R!CanApprove
<1>6. ASSUME NEW r \in RefundIds, R!RejectRefund(c, r) PROVE TotalInv'
  BY <1>4, <1>6 DEF R!RejectRefund, R!CanReject
<1>7. ASSUME NEW r \in RefundIds, R!ProcessRefund(c, r) PROVE TotalInv'
  BY <1>4, <1>7 DEF R!ProcessRefund, R!CanStart
<1>8. ASSUME NEW r \in RefundIds, R!MarkRefundCompleted(c, r) PROVE TotalInv'
  BY <1>4, <1>8 DEF R!MarkRefundCompleted, R!CanComplete
<1> QED
  BY <1>3, <1>5, <1>6, <1>7, <1>8 DEF R!Request

\* The statements before the completion write rows that count for no sum.
LEMMA PlainStepTotal ==
    ASSUME ServiceInv, PaidInv, TotalInv, NEW c \in Clerks,
           \/ R!InsertRefund(c) \/ R!WriteRefund(c) \/ R!StartRefund(c)
           \/ R!RefundAccepted(c) \/ R!RefundRefused(c)
    PROVE  TotalInv'
<1> DEFINE x == clerks[c]
           goesOn(pc, row) == [pc |-> pc, r |-> x.r, row |-> row, irow |-> R!NoRow]
<1>0. /\ refunds \in [RefundIds -> R!RefundRows] /\ x \in R!Clerk /\ x.row \in R!RefundRows
      /\ HandSound(x, refunds, intents)
      /\ \A r \in RefundIds : refunds[r].status # "absent" => OfPaid(refunds[r], intents)
  BY DEF ServiceInv, RefundsSound, R!TypeOK, R!Clerk, TotalInv
<1>1. /\ x.pc \in {"insert", "update", "start", "call"} /\ x.pc \notin Totalling
      /\ x.r \in RefundIds /\ UNCHANGED <<intents, refundFaults>>
  <2>1. x.pc \in {"insert", "update", "start", "call"}
    BY DEF R!InsertRefund, R!WriteRefund, R!StartRefund, R!RefundAccepted, R!RefundRefused, R!At
  <2>2. x.r \in RefundIds
    BY <2>1 DEF ServiceInv, ClerksSound, ClerkSound
  <2>3. UNCHANGED <<intents, refundFaults>>
    BY DEF R!InsertRefund, R!WriteRefund, R!StartRefund, R!RefundAccepted, R!RefundRefused
  <2> QED
    BY <2>1, <2>2, <2>3 DEF Totalling
<1>2. /\ OfPaid(x.row, intents) /\ x.row.status # "completed"
      /\ refunds[x.r].status # "completed"
  BY <1>0, <1>1 DEF HandSound
<1>3. \A d \in Clerks : d # c => clerks[d] = R!AtRest
  BY OneClerkBusy DEF R!ClerkStep
<1>4. HandSound(R!AtRest, refunds', intents) /\ R!AtRest.pc \notin Totalling
  BY AtRestOK DEF HandSound, Totalling
<1>5. CASE R!InsertRefund(c) \/ R!WriteRefund(c) \/ R!StartRefund(c)
  <2>1. refunds' = [refunds EXCEPT ![x.r] = x.row]
    BY <1>5 DEF R!InsertRefund, R!WriteRefund, R!StartRefund, R!UpdateRefund
  <2>2. ASSUME NEW i \in Intents PROVE SumOf(i, refunds') = SumOf(i, refunds)
    <3>1. SumOf(i, refunds) \in Int /\ SumOf(i, refunds') = SumOf(i, refunds) + 0
      BY <1>0, <1>1, <1>2, <2>1, SumMoves
    <3> QED
      BY <3>1
  <2>3. \A r \in RefundIds : refunds'[r].status # "absent" => OfPaid(refunds'[r], intents)
    BY <1>0, <1>1, <1>2, <2>1
  <2>4. PICK k \in {R!AtRest, goesOn("call", x.row)} : clerks' = [clerks EXCEPT ![c] = k]
    BY <1>5 DEF R!InsertRefund, R!WriteRefund, R!StartRefund, R!Goto, R!Return
  <2>5. HandSound(k, refunds', intents) /\ k.pc \notin Totalling
    <3>1. CASE k = R!AtRest
      BY <1>4, <3>1
    <3>2. CASE k = goesOn("call", x.row)
      <4>1. refunds'[x.r] = x.row
        BY <1>0, <1>1, <2>1
      <4> QED
        BY <1>2, <3>2, <4>1 DEF HandSound, Totalling
    <3> QED
      BY <2>4, <3>1, <3>2
  <2> QED
    BY <1>1, <1>3, <2>2, <2>3, <2>4, <2>5, PlainHandTaken
<1>6. CASE R!RefundAccepted(c) \/ R!RefundRefused(c)
  <2>1. UNCHANGED refunds
    BY <1>6 DEF R!RefundAccepted, R!RefundRefused
  <2>2. PICK row \in {x.row, R!To(x.row, "failed")} :
            clerks' = [clerks EXCEPT ![c] = goesOn("update", row)]
    BY <1>6 DEF R!RefundAccepted, R!RefundRefused, R!Goto
  <2>3. OfPaid(row, intents) /\ row.status # "completed"
    <3>1. /\ R!To(x.row, "failed").status = "failed"
          /\ R!To(x.row, "failed").intent = x.row.intent
          /\ R!To(x.row, "failed").amount = x.row.amount
      BY <1>0 DEF R!To, R!RefundRows
    <3> QED
      BY <1>2, <2>2, <3>1 DEF OfPaid
  <2> DEFINE k == goesOn("update", row)
  <2>4. HandSound(k, refunds', intents) /\ k.pc \notin Totalling
    BY <1>2, <2>1, <2>3 DEF HandSound, Totalling
  <2>5. clerks' = [clerks EXCEPT ![c] = k]
    BY <2>2
  <2> HIDE DEF k
  <2> QED
    BY <1>0, <1>1, <1>3, <2>1, <2>4, <2>5, PlainHandTaken
<1> QED
  BY <1>5, <1>6
\* A row that may be refunded further, or has just been refunded.
LEMMA RefundableRows ==
    ASSUME NEW r \in Rows, Coherent(r), NEW sum \in 1..Amount
    PROVE  /\ r.status \in Paid /\ r.refunded # Amount => R!CanRefund(r)
           /\ R!CanRefund(r) => /\ R!AfterRefund(r, sum) # NoRow
                                /\ R!AfterRefund(r, sum).refunded = sum
<1>1. r.status \in Paid /\ r.refunded # Amount => R!CanRefund(r)
  BY DEF Paid, Coherent, R!CanRefund
<1>2. ASSUME R!CanRefund(r)
      PROVE  R!AfterRefund(r, sum) # NoRow /\ R!AfterRefund(r, sum).refunded = sum
  <2>1. CASE sum = Amount
    <3>1. R!AfterRefund(r, sum) = R!MarkFullyRefunded(r)
      BY <1>2, <2>1 DEF R!AfterRefund
    <3> QED
      BY <2>1, <3>1, FullRefundColumns, NoRowOK
  <2>2. CASE sum # Amount
    <3>1. sum \in 1..(Amount - 1) /\ sum \in 0..Amount
      BY <2>2, StoreAssumption
    <3>2. R!AfterRefund(r, sum) = R!MarkPartiallyRefunded(r, sum)
      BY <1>2, <2>2, <3>1 DEF R!AfterRefund, R!CanRefundPartially
    <3> QED
      BY <3>1, <3>2, RefundColumns, NoRowOK
  <2> QED
    BY <2>1, <2>2
<1> QED
  BY <1>1, <1>2

\* The completion of a refund adds its amount to one sum, which the clerk
\* goes on to write.
LEMMA CompleteTotal ==
    ASSUME ServiceInv, PaidInv, TotalInv, NEW c \in Clerks, R!CompleteRefund(c)
    PROVE  TotalInv'
<1> DEFINE x == clerks[c]
<1>0. /\ refunds \in [RefundIds -> R!RefundRows] /\ x \in R!Clerk /\ x.row \in R!RefundRows
      /\ intents \in [Intents -> Rows] /\ HandSound(x, refunds, intents)
      /\ \A r \in RefundIds : refunds[r].status # "absent" => OfPaid(refunds[r], intents)
  BY DEF ServiceInv, IndInv, TypeOK, RefundsSound, R!TypeOK, R!Clerk, TotalInv
<1>1. /\ x.pc = "complete" /\ x.r \in RefundIds /\ x.row.intent \in Intents
      /\ UNCHANGED <<intents, refundFaults>>
      /\ refunds' = [refunds EXCEPT ![x.r] = x.row]
  BY DEF R!CompleteRefund, R!At, R!UpdateRefund, ServiceInv, ClerksSound, ClerkSound, OfConfirmed
<1>2. /\ OfPaid(x.row, intents) /\ x.row.status = "completed"
      /\ refunds[x.r].status # "completed"
  BY <1>0, <1>1 DEF HandSound
<1>3. \A d \in Clerks : d # c => clerks[d] = R!AtRest
  BY OneClerkBusy DEF R!ClerkStep
<1>4. \A d \in Clerks : clerks[d].pc \notin Totalling
  BY <1>1, <1>3, AtRestOK DEF Totalling
<1>5. refundFaults = 0 => \A i \in Intents : Agrees(i, refunds, intents)
  BY <1>4 DEF TotalInv
<1> DEFINE k == [pc |-> "recompute", r |-> x.r, row |-> x.row, irow |-> R!NoRow]
<1>6. clerks' = [clerks EXCEPT ![c] = k]
  BY DEF R!CompleteRefund, R!Goto
<1>7. HandSound(k, refunds', intents')
  BY <1>1, <1>2 DEF HandSound
<1>8. \A r \in RefundIds : refunds'[r].status # "absent" => OfPaid(refunds'[r], intents')
  BY <1>0, <1>1, <1>2
<1>9. ASSUME NEW i \in Intents, refundFaults = 0
      PROVE  /\ Carries(k, i, refunds', intents')
             /\ \/ Agrees(i, refunds', intents')
                \/ k.pc \in Totalling /\ k.row.intent = i
  <2>1. CASE x.row.intent = i
    <3>1. /\ SumOf(i, refunds) \in Int
          /\ SumOf(i, refunds') = SumOf(i, refunds) + x.row.amount
      BY <1>0, <1>1, <1>2, <2>1, SumMoves
    <3>2. PICK n \in Int, m \in Int : n = SumOf(i, refunds) /\ m = SumOf(i, refunds')
                                      /\ m > n
      <4>1. x.row.amount \in Nat /\ x.row.amount > 0
        BY <1>0, <1>2, StoreAssumption DEF OfPaid, R!RefundRows
      <4> QED
        BY <3>1, <4>1
    <3>3. ASSUME m <= Amount
          PROVE  m >= 1 /\ R!CanRefund(intents[i])
      <4>1. intents[i].refunded = n
        BY <1>5, <1>9, <3>2, <3>3, StoreAssumption DEF Agrees
      <4>2. intents[i] \in Rows /\ Coherent(intents[i]) /\ intents[i].refunded \in Nat
        BY <1>0, StoreAssumption DEF ServiceInv, IndInv, RowsCoherent, Rows
      <4>3. m >= 1 /\ intents[i].refunded # Amount
        BY <3>2, <3>3, <4>1, <4>2, StoreAssumption
      <4>4. intents[i].status \in Paid
        BY <1>2, <2>1 DEF OfPaid
      <4>5. 1 \in 1..Amount
        BY StoreAssumption
      <4> QED
        BY <4>2, <4>3, <4>4, <4>5, RefundableRows
    <3>4. Carries(k, i, refunds', intents')
      BY <1>1, <3>2, <3>3 DEF Carries
    <3> QED
      BY <2>1, <3>4 DEF Totalling
  <2>2. CASE x.row.intent # i
    <3>1. SumOf(i, refunds) \in Int /\ SumOf(i, refunds') = SumOf(i, refunds) + 0
      BY <1>0, <1>1, <1>2, <2>2, SumMoves
    <3>2. SumOf(i, refunds') = SumOf(i, refunds)
      BY <3>1
    <3>3. Agrees(i, refunds', intents')
      BY <1>1, <1>5, <1>9, <3>2 DEF Agrees
    <3> QED
      BY <2>2, <3>3 DEF Carries
  <2> QED
    BY <2>1, <2>2
<1> HIDE DEF k
<1> QED
  BY <1>1, <1>3, <1>6, <1>7, <1>8, <1>9, TotalHandTaken

\* The recomputation reads the row and the sum, and writes the row; a total
\* it cannot carry is given up without a write.
LEMMA RecomputeTotal ==
    ASSUME ServiceInv, PaidInv, TotalInv, NEW c \in Clerks,
           R!ReadIntent(c) \/ R!SumRefunds(c) \/ R!WriteRefundedIntent(c)
    PROVE  TotalInv'
<1> DEFINE x == clerks[c]
           goesOn(pc, irow) == [pc |-> pc, r |-> x.r, row |-> x.row, irow |-> irow]
<1>0. /\ refunds \in [RefundIds -> R!RefundRows] /\ x \in R!Clerk
      /\ intents \in [Intents -> Rows] /\ \A i \in Intents : Coherent(intents[i])
      /\ HandSound(x, refunds, intents) /\ ClerkSound(x)
      /\ \A r \in RefundIds : /\ refunds[r].status # "absent" => OfPaid(refunds[r], intents)
                              /\ refunds[r].status # "absent" => refunds[r].intent \in Intents
  BY DEF ServiceInv, IndInv, TypeOK, RowsCoherent, RefundsSound, R!TypeOK, ClerksSound,
         OfConfirmed, TotalInv
<1>1. x.pc \in Totalling /\ x.row.intent \in Intents /\ UNCHANGED <<refunds, refundFaults>>
  BY <1>0 DEF R!ReadIntent, R!SumRefunds, R!WriteRefundedIntent, R!At, Totalling, ClerkSound,
              OfConfirmed
<1>2. OfPaid(x.row, intents)
  BY <1>0, <1>1 DEF HandSound, Totalling
<1>3. \A d \in Clerks : d # c => clerks[d] = R!AtRest
  BY OneClerkBusy DEF R!ClerkStep
<1>4. refundFaults = 0 =>
        \A i \in Intents : /\ Carries(x, i, refunds, intents)
                           /\ x.row.intent # i => Agrees(i, refunds, intents)
  BY <1>3, AtRestOK DEF TotalInv, Totalling
<1>5. HandSound(R!AtRest, refunds', intents')
      /\ \A i \in Intents : Carries(R!AtRest, i, refunds', intents')
  BY AtRestOK DEF HandSound, Carries
<1>6. ASSUME NEW pc \in {"sum", "intent"}, NEW irow, NEW k, k = goesOn(pc, irow),
             clerks' = [clerks EXCEPT ![c] = k], UNCHANGED intents,
             refundFaults = 0 => Carries(k, x.row.intent, refunds, intents)
      PROVE  TotalInv'
  <2>1. HandSound(k, refunds', intents') /\ k.pc \in Totalling /\ k.row.intent = x.row.intent
    BY <1>1, <1>2, <1>6 DEF HandSound, Totalling
  <2>2. refundFaults = 0 =>
          \A i \in Intents :
              /\ Carries(k, i, refunds, intents)
              /\ Agrees(i, refunds, intents) \/ k.row.intent = i
    BY <1>4, <1>6, <2>1 DEF Carries
  <2> QED
    BY <1>0, <1>1, <1>3, <1>6, <2>1, <2>2, TotalHandTaken
<1>7. CASE R!ReadIntent(c)
  <2> DEFINE i == x.row.intent
             k == goesOn("sum", intents[i])
  <2>1. x.pc = "recompute" /\ UNCHANGED intents /\ clerks' = [clerks EXCEPT ![c] = k]
    BY <1>7 DEF R!ReadIntent, R!At, R!Goto
  <2>2. refundFaults = 0 => Carries(k, i, refunds, intents)
    <3>1. refundFaults = 0 => Carries(x, i, refunds, intents)
      BY <1>1, <1>4
    <3> QED
      BY <2>1, <3>1 DEF Carries
  <2> HIDE DEF k
  <2> QED
    BY <1>6, <2>1, <2>2 DEF k
<1>8. CASE R!SumRefunds(c)
  <2>0. PICK i \in Intents : i = x.row.intent
    BY <1>1
  <2> DEFINE irow == R!AfterRefund(x.irow, SumOf(i, refunds))
             k == goesOn("intent", irow)
  <2>1. /\ x.pc = "sum" /\ UNCHANGED intents /\ x.irow \in Rows /\ Coherent(x.irow)
    BY <1>0, <1>8, SameStore DEF R!SumRefunds, R!At, ClerkSound, R!Clerk
  <2>2. refundFaults = 0 /\ SumOf(i, refunds) <= Amount =>
            irow # NoRow /\ irow.refunded = SumOf(i, refunds)
    <3> SUFFICES ASSUME refundFaults = 0, SumOf(i, refunds) <= Amount
                 PROVE  irow # NoRow /\ irow.refunded = SumOf(i, refunds)
      OBVIOUS
    <3>1. SumOf(i, refunds) >= 1 /\ R!CanRefund(x.irow)
      BY <1>4, <2>0, <2>1 DEF Carries
    <3>2. SumOf(i, refunds) \in Int
      BY <1>0, SumIsNumber
    <3>3. SumOf(i, refunds) \in 1..Amount
      BY <3>1, <3>2, StoreAssumption
    <3> QED
      BY <2>1, <3>1, <3>3, RefundableRows
  <2>3. CASE irow = NoRow
    <3>1. clerks' = [clerks EXCEPT ![c] = R!AtRest]
      BY <1>8, <2>0, <2>3, SameStore, SameSum DEF R!SumRefunds, R!Return
    <3>2. refundFaults = 0 => \A j \in Intents : Agrees(j, refunds, intents)
      BY <1>4, <2>0, <2>2, <2>3 DEF Agrees
    <3> QED
      BY <1>0, <1>1, <1>3, <1>5, <2>1, <3>1, <3>2, TotalHandTaken
  <2>4. CASE irow # NoRow
    <3>1. clerks' = [clerks EXCEPT ![c] = k]
      BY <1>8, <2>0, <2>4, SameStore, SameSum DEF R!SumRefunds, R!Goto
    <3>2. refundFaults = 0 => Carries(k, i, refunds, intents)
      BY <2>2 DEF Carries
    <3> HIDE DEF k, irow
    <3> QED
      BY <1>6, <2>0, <2>1, <3>1, <3>2 DEF k
  <2> QED
    BY <2>3, <2>4
<1>9. CASE R!WriteRefundedIntent(c)
  <2>0. PICK i \in Intents : i = x.row.intent
    BY <1>1
  <2>1. /\ x.pc = "intent" /\ clerks' = [clerks EXCEPT ![c] = R!AtRest]
        /\ intents' = [intents EXCEPT ![i] = x.irow]
        /\ x.irow.status \in Paid
    BY <1>0, <1>9, <2>0
       DEF R!WriteRefundedIntent, R!At, R!Return, R!Update, ClerkSound, Paid
  <2>2. \A r \in RefundIds : refunds'[r].status # "absent" => OfPaid(refunds'[r], intents')
    BY <1>0, <1>1, <2>1 DEF OfPaid
  <2>3. ASSUME refundFaults = 0, NEW j \in Intents PROVE Agrees(j, refunds', intents')
    <3>1. CASE j = i
      <4>1. SumOf(j, refunds) <= Amount => x.irow.refunded = SumOf(j, refunds)
        BY <1>4, <2>0, <2>1, <2>3, <3>1 DEF Carries
      <4> QED
        BY <1>0, <1>1, <2>1, <3>1, <4>1 DEF Agrees
    <3>2. CASE j # i
      BY <1>0, <1>1, <1>4, <2>0, <2>1, <2>3, <3>2 DEF Agrees
    <3> QED
      BY <3>1, <3>2
  <2> QED
    BY <1>1, <1>3, <1>5, <2>1, <2>2, <2>3, TotalHandTaken
<1> QED
  BY <1>7, <1>8, <1>9
LEMMA TotalStays ==
    ASSUME ~Overlap, ServiceInv, PaidInv, Fresh, TotalInv, [ServiceNext]_allVars, ServiceInv'
    PROVE  TotalInv'
<1>1. CASE RefundStep
  <2>1. PICK c \in Clerks : R!Request(c) \/ R!ClerkStep(c) \/ R!Abort(c)
    BY <1>1 DEF RefundStep, R!Next
  <2>2. CASE R!Abort(c)
    <3>1. /\ clerks' = [clerks EXCEPT ![c] = R!AtRest] /\ UNCHANGED <<refunds, intents>>
          /\ refundFaults' # 0
      BY <2>2, ServiceAssumption DEF R!Abort, R!Return, ServiceInv, RefundsSound, R!TypeOK
    <3>2. HandSound(R!AtRest, refunds', intents')
      BY AtRestOK DEF HandSound
    <3>3. \A d \in Clerks : d # c => clerks[d] = R!AtRest
      BY <2>2, OneClerkBusy
    <3> QED
      BY <3>1, <3>2, <3>3, TotalHandTaken DEF TotalInv
  <2> QED
    BY <2>1, <2>2, RequestTotal, PlainStepTotal, CompleteTotal, RecomputeTotal
       DEF R!ClerkStep
<1>2. CASE IntentStep
  <2>1. /\ RowsKeep /\ UNCHANGED refundVars
        /\ \A c \in Clerks : clerks[c] = R!AtRest /\ clerks[c].pc = "idle"
    BY <1>2, IntentStepKeeps, AtRestOK DEF IntentStep, R!Quiet
  <2>2. ASSUME NEW r \in RefundIds, refunds[r].status # "absent"
        PROVE  OfPaid(refunds[r], intents')
    <3>1. refunds[r].intent \in Intents /\ OfPaid(refunds[r], intents)
      BY <2>2 DEF ServiceInv, RefundsSound, OfConfirmed, TotalInv
    <3> QED
      BY <2>1, <3>1 DEF RowsKeep, OfPaid
  <2>3. ASSUME refundFaults = 0, NEW i \in Intents PROVE Agrees(i, refunds, intents')
    BY <2>1, <2>3 DEF TotalInv, Totalling, Agrees, RowsKeep
  <2>4. \A c \in Clerks : /\ HandSound(clerks[c], refunds, intents')
                          /\ \A i : Carries(clerks[c], i, refunds, intents')
    BY <2>1 DEF HandSound, Carries
  <2>5. UNCHANGED <<refunds, clerks, refundFaults>>
    BY <2>1 DEF refundVars
  <2> QED
    BY <2>2, <2>3, <2>4, <2>5 DEF TotalInv
<1>3. CASE UNCHANGED allVars
  BY <1>3 DEF allVars, refundVars, TotalInv
<1> QED
  BY <1>1, <1>2, <1>3 DEF ServiceNext

\* When requests do not overlap and no refund request has died, an intent's
\* refunded total is the sum of its completed refunds as often as no refund is
\* being worked on, whatever webhooks, retries and expiry did to the row since.
THEOREM TotalIsSumAlways == ~Overlap => (ServiceSpec => []TotalIsSumOfCompleted)
<1> SUFFICES ASSUME ~Overlap PROVE ServiceSpec => []TotalIsSumOfCompleted
  OBVIOUS
<1>1. ServiceInv /\ PaidInv /\ Fresh /\ TotalInv /\ ServiceInv' /\ [ServiceNext]_allVars
        => Fresh' /\ TotalInv'
  BY FreshStays, TotalStays
<1>2. TotalInv => TotalIsSumOfCompleted
  <2> SUFFICES ASSUME TotalInv, R!Quiet, refundFaults = 0, NEW i \in Intents,
                      SumOf(i, refunds) <= Amount
               PROVE  intents[i].refunded = SumOf(i, refunds)
    BY SameSum DEF TotalIsSumOfCompleted, R!TotalIsSumOfCompleted
  <2>1. \A c \in Clerks : clerks[c].pc \notin Totalling
    BY AtRestOK DEF R!Quiet, Totalling
  <2> QED
    BY <2>1 DEF TotalInv, Agrees
<1>3. ServiceInv /\ PaidInv /\ [ServiceNext]_allVars => PaidInv'
  BY PaidStays
<1> QED
  BY <1>1, <1>2, <1>3, FreshInit, TotalInit, PaidInit, ServiceInvAlways, PTL DEF ServiceSpec

=============================================================================
