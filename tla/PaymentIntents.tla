--------------------------- MODULE PaymentIntents ---------------------------
(***************************************************************************)
(* The intent side of payment-svc: IntentService (create, route, cancel,   *)
(* expire) and WebhookService.Ingest, running concurrently against one     *)
(* database and the payment gateways.                                      *)
(*                                                                         *)
(* A request is a worker.  Its steps are the code's database statements:   *)
(* a SELECT leaves a copy of the row in the worker, the Mark... methods    *)
(* change the copy, and the UPDATE writes the copy back.  Nothing holds a  *)
(* lock or a transaction across two statements, so the requests of other   *)
(* workers and the expiry pass fall between any two of them.               *)
(***************************************************************************)
EXTENDS PaymentStore, FiniteSets

CONSTANTS
    Workers,      \* requests that may be in progress at the same time
    Kinds,        \* kinds of event the gateways send
    BatchLimit,   \* rows one expiry pass lists (500 in the code)
    MaxFaults,    \* bound on crashes, lost connections and failed statements
    Overlap       \* FALSE: a request starts only when no other is in progress

AllKinds == {"paid", "settled", "failed", "expired", "other", "unsigned", "garbled"}

Events == [intent : Intents, gateway : Gateways, kind : Kinds]

ASSUME IntentsAssumption ==
    /\ Kinds \subseteq AllKinds
    /\ BatchLimit \in Nat \ {0}
    /\ MaxFaults \in Nat
    /\ Overlap \in BOOLEAN
    /\ None \notin Events

VARIABLES
    workers,      \* worker -> the request it serves
    cron,         \* intent -> row listed by the current expiry pass, or NoRow
    hooks,        \* event -> status of its payment_webhooks row
    linked,       \* events whose row carries a payment_intent_id
    applied,      \* event -> number of intent updates it committed
    provisioned,  \* <<intent, gateway>>: payments open at a gateway
    emitted,      \* events the gateways have sent, deliverable any number of times
    old,          \* intents created before the expiry cutoff
    faults        \* faults so far

serviceVars == <<workers, cron>>
hookVars    == <<hooks, linked, applied>>
worldVars   == <<provisioned, emitted, old, faults>>
vars        == <<intents, serviceVars, hookVars, worldVars>>

Pcs == {"idle", "provision", "update", "verify", "apply", "finish", "reject",
        "duplicate"}

HookStatuses == {"absent", "received", "processed", "failed", "suspect"}

Worker == [pc : Pcs, i : Intents \cup {None}, row : Rows, ev : Events \cup {None}]

Idle == [pc |-> "idle", i |-> None, row |-> NoRow, ev |-> None]

NoBatch == [i \in Intents |-> NoRow]

Init ==
    /\ intents = [i \in Intents |-> NoRow]
    /\ workers = [w \in Workers |-> Idle]
    /\ cron = NoBatch
    /\ hooks = [e \in Events |-> "absent"]
    /\ linked = {}
    /\ applied = [e \in Events |-> 0]
    /\ provisioned = {}
    /\ emitted = {}
    /\ old = {}
    /\ faults = 0

Quiet == cron = NoBatch /\ \A w \in Workers : workers[w] = Idle

\* A request may start.
MayStart(w) == workers[w] = Idle /\ (Overlap \/ Quiet)

Goto(w, pc, i, row, ev) ==
    workers' = [workers EXCEPT ![w] = [pc |-> pc, i |-> i, row |-> row, ev |-> ev]]

Return(w) == workers' = [workers EXCEPT ![w] = Idle]

-----------------------------------------------------------------------------
(* IntentService *)

\* (defect) inserts whatever the key
FreshKeyAlways(i) == TRUE

\* INSERT ... ON CONFLICT (idempotency_key) DO NOTHING inserts a row.
FreshKey(i) == ~Exists(i)

\* A replay finds the row and returns it unchanged, so only the fresh case is
\* a step.
CreateIntent(w, i) ==
    /\ MayStart(w)
    /\ FreshKey(i)
    /\ Update(i, NewPaymentIntent)
    /\ Goto(w, "provision", i, NewPaymentIntent, None)
    /\ UNCHANGED <<cron, hookVars, worldVars>>

RouteAndPay(w, i) ==
    /\ MayStart(w)
    /\ CanRoute(intents[i])
    /\ Goto(w, "provision", i, intents[i], None)
    /\ UNCHANGED <<intents, cron, hookVars, worldVars>>

\* routeAndProvision: no active gateway takes the amount and method.
NoGateway(w) ==
    /\ workers[w].pc = "provision"
    /\ Return(w)
    /\ UNCHANGED <<intents, cron, hookVars, worldVars>>

\* routeAndProvision: the policy picks g and CreatePayment returns a reference.
Accepted(w, g) ==
    /\ workers[w].pc = "provision"
    /\ LET i == workers[w].i IN
       /\ provisioned' = provisioned \cup {<<i, g>>}
       /\ Goto(w, "update", i, MarkPending(Route(workers[w].row, g), g), None)
    /\ UNCHANGED <<intents, cron, hookVars, emitted, old, faults>>

\* routeAndProvision: CreatePayment returns an error, either because the
\* gateway refused or because its answer was lost after it accepted.
Rejected(w, g) ==
    /\ workers[w].pc = "provision"
    /\ LET i == workers[w].i IN
       /\ provisioned' \in {provisioned, provisioned \cup {<<i, g>>}}
       /\ Goto(w, "update", i, MarkFailed(Route(workers[w].row, g)), None)
    /\ UNCHANGED <<intents, cron, hookVars, emitted, old, faults>>

CancelIntent(w, i) ==
    /\ MayStart(w)
    /\ CanCancel(intents[i])
    /\ Goto(w, "update", i, MarkCancelled(intents[i]), None)
    /\ UNCHANGED <<intents, cron, hookVars, worldVars>>

\* The UPDATE that ends a routing or cancellation request.
WriteIntent(w) ==
    /\ workers[w].pc = "update"
    /\ Update(workers[w].i, workers[w].row)
    /\ Return(w)
    /\ UNCHANGED <<cron, hookVars, worldVars>>

-----------------------------------------------------------------------------
(* ExpireStaleIntents, run by ExpireStaleIntentsWorker *)

\* (defect) lists the wrong status
StaleRouting == {i \in old : intents[i].status = "routing"}

Stale == {i \in old : CanExpire(intents[i])}

\* ListPendingOlderThan: one SELECT of at most BatchLimit rows.
ExpireTick ==
    /\ cron = NoBatch
    /\ Overlap \/ Quiet
    /\ \E batch \in SUBSET Stale :
         /\ batch # {}
         /\ Cardinality(batch) <= BatchLimit
         /\ batch = Stale \/ Cardinality(batch) = BatchLimit
         /\ cron' = [i \in Intents |-> IF i \in batch THEN intents[i] ELSE NoRow]
    /\ UNCHANGED <<intents, workers, hookVars, worldVars>>

\* One row of the pass: MarkExpired on the copy listed, then the UPDATE.
ExpireRow(i) ==
    /\ cron[i] # NoRow
    /\ Update(i, MarkExpired(cron[i]))
    /\ cron' = [cron EXCEPT ![i] = NoRow]
    /\ UNCHANGED <<workers, hookVars, worldVars>>

-----------------------------------------------------------------------------
(* WebhookService.Ingest *)

\* The status a parsed event asks for; "none" is an unrecognised status.
NewStatus(kind) ==
    CASE kind \in {"paid", "settled", "unsigned"} -> "succeeded"
      [] kind = "failed"  -> "failed"
      [] kind = "expired" -> "expired"
      [] OTHER -> "none"

\* (defect) trusts every signature, as the stubs do without a secret
VerifyNothing(kind) == TRUE

VerifySignature(kind) == kind # "unsigned"
Parses(kind) == kind # "garbled"

\* (defect) inserts whatever the event id
FreshEventAlways(e) == TRUE

\* INSERT ... ON CONFLICT (gateway_id, external_event_id) DO NOTHING inserts.
FreshEvent(e) == hooks[e] = "absent"

SetHook(e, status) == hooks' = [hooks EXCEPT ![e] = status]

Ingest(w, e) ==
    /\ MayStart(w)
    /\ FreshEvent(e)
    /\ SetHook(e, "received")
    /\ Goto(w, "verify", e.intent, NoRow, e)
    /\ UNCHANGED <<intents, cron, linked, applied, worldVars>>

\* A conflicting INSERT: the worker answers "duplicate" and writes nothing.
IngestDuplicate(w, e) ==
    /\ MayStart(w)
    /\ ~FreshEvent(e)
    /\ Goto(w, "duplicate", e.intent, NoRow, e)
    /\ UNCHANGED <<intents, cron, hookVars, worldVars>>

ReplyDuplicate(w) ==
    /\ workers[w].pc = "duplicate"
    /\ Return(w)
    /\ UNCHANGED <<intents, cron, hookVars, worldVars>>

\* Signature or payload refused: the row becomes suspect or failed.
Refuse(w) ==
    /\ workers[w].pc = "verify"
    /\ LET e == workers[w].ev IN
       \/ ~VerifySignature(e.kind) /\ SetHook(e, "suspect")
       \/ VerifySignature(e.kind) /\ ~Parses(e.kind) /\ SetHook(e, "failed")
    /\ Return(w)
    /\ UNCHANGED <<intents, cron, linked, applied, worldVars>>

CanApply(r, status) ==
    CASE status = "succeeded" -> CanSucceed(r)
      [] status = "failed"    -> CanFail(r)
      [] status = "expired"   -> CanExpire(r)

ApplyTo(r, status) ==
    CASE status = "succeeded" -> MarkSucceeded(r)
      [] status = "failed"    -> MarkFailed(r)
      [] status = "expired"   -> MarkExpired(r)

\* FindByExternalRef finds the row that carries the event's reference.
Finds(e) == Exists(e.intent) /\ intents[e.intent].ref = e.gateway

\* FindByExternalRef, then applyParsedStatus up to its UPDATE.
LookUp(w) ==
    /\ workers[w].pc = "verify"
    /\ LET e == workers[w].ev
           r == intents[e.intent]
           s == NewStatus(e.kind)
       IN
       /\ VerifySignature(e.kind) /\ Parses(e.kind)
       /\ \/ ~Finds(e) /\ Goto(w, "finish", e.intent, NoRow, e)
          \/ Finds(e) /\ s = "none" /\ Goto(w, "finish", e.intent, r, e)
          \/ /\ Finds(e) /\ s # "none" /\ CanApply(r, s)
             /\ Goto(w, "apply", e.intent, ApplyTo(r, s), e)
          \/ /\ Finds(e) /\ s # "none" /\ ~CanApply(r, s)
             /\ Goto(w, "reject", e.intent, NoRow, e)
    /\ UNCHANGED <<intents, cron, hookVars, worldVars>>

\* The UPDATE of applyParsedStatus.
Apply(w) ==
    /\ workers[w].pc = "apply"
    /\ Update(workers[w].i, workers[w].row)
    /\ applied' = [applied EXCEPT ![workers[w].ev] = @ + 1]
    /\ Goto(w, "finish", workers[w].i, workers[w].row, workers[w].ev)
    /\ UNCHANGED <<cron, hooks, linked, worldVars>>

\* MarkProcessed with the intent found, if any, and the last UPDATE.
Finish(w) ==
    /\ workers[w].pc = "finish"
    /\ SetHook(workers[w].ev, "processed")
    /\ linked' = IF workers[w].row = NoRow THEN linked ELSE linked \cup {workers[w].ev}
    /\ Return(w)
    /\ UNCHANGED <<intents, cron, applied, worldVars>>

\* MarkFailed("intent_apply_error") and its UPDATE.
FailDelivery(w) ==
    /\ workers[w].pc = "reject"
    /\ SetHook(workers[w].ev, "failed")
    /\ Return(w)
    /\ UNCHANGED <<intents, cron, linked, applied, worldVars>>

-----------------------------------------------------------------------------
(* Faults: the process or the connection dies, or a statement errors *)

Fault == faults < MaxFaults /\ faults' = faults + 1

\* The request stops where it is and nothing it did is undone.
Abort(w) ==
    /\ workers[w] # Idle
    /\ Fault
    /\ Return(w)
    /\ UNCHANGED <<intents, cron, hookVars, provisioned, emitted, old>>

\* The pass skips the row whose UPDATE errored.
SkipRow(i) ==
    /\ cron[i] # NoRow
    /\ Fault
    /\ cron' = [cron EXCEPT ![i] = NoRow]
    /\ UNCHANGED <<intents, workers, hookVars, provisioned, emitted, old>>

\* (defect) ignores the error
OnApplyErrorIgnored == "finish"

\* Where Ingest goes when applyParsedStatus returns the error of its UPDATE.
OnApplyError == "reject"

\* FindByExternalRef errors: Ingest carries on as if no intent had the reference.
LookUpError(w) ==
    /\ workers[w].pc = "verify"
    /\ LET e == workers[w].ev IN
       /\ VerifySignature(e.kind) /\ Parses(e.kind)
       /\ Goto(w, "finish", e.intent, NoRow, e)
    /\ Fault
    /\ UNCHANGED <<intents, cron, hookVars, provisioned, emitted, old>>

\* The UPDATE of applyParsedStatus errors: the webhook is marked failed.
ApplyError(w) ==
    /\ workers[w].pc = "apply"
    /\ Goto(w, OnApplyError, workers[w].i, workers[w].row, workers[w].ev)
    /\ Fault
    /\ UNCHANGED <<intents, cron, hookVars, provisioned, emitted, old>>

-----------------------------------------------------------------------------
(* The world: gateways and time *)

\* Final outcomes of one gateway payment exclude each other.
Verdict(kind) == CASE kind \in {"paid", "settled"} -> "paid"
                   [] kind \in {"failed", "expired"} -> kind
                   [] OTHER -> "none"

\* A gateway sends an event about a payment open with it.  An "unsigned" event
\* claims a payment but carries a signature that does not verify.
Emit(e) ==
    /\ <<e.intent, e.gateway>> \in provisioned
    /\ e \notin emitted
    /\ \A f \in emitted :
         /\ f.intent = e.intent
         /\ f.gateway = e.gateway
         => Verdict(e.kind) = "none" \/ Verdict(f.kind) \in {"none", Verdict(e.kind)}
    /\ emitted' = emitted \cup {e}
    /\ UNCHANGED <<intents, serviceVars, hookVars, provisioned, old, faults>>

\* The intent's creation time passes the expiry cutoff.
Age(i) ==
    /\ Exists(i)
    /\ i \notin old
    /\ old' = old \cup {i}
    /\ UNCHANGED <<intents, serviceVars, hookVars, provisioned, emitted, faults>>

-----------------------------------------------------------------------------

WorkerStep(w) ==
    \/ NoGateway(w)
    \/ \E g \in Gateways : Accepted(w, g) \/ Rejected(w, g)
    \/ WriteIntent(w)
    \/ ReplyDuplicate(w)
    \/ Refuse(w)
    \/ LookUp(w)
    \/ Apply(w)
    \/ Finish(w)
    \/ FailDelivery(w)

Request(w) ==
    \/ \E i \in Intents : CreateIntent(w, i) \/ RouteAndPay(w, i) \/ CancelIntent(w, i)
    \/ \E e \in emitted : Ingest(w, e) \/ IngestDuplicate(w, e)

ExpireStep == ExpireTick \/ \E i \in Intents : ExpireRow(i)

FaultStep ==
    \/ \E w \in Workers : Abort(w) \/ LookUpError(w) \/ ApplyError(w)
    \/ \E i \in Intents : SkipRow(i)

WorldStep == (\E e \in Events : Emit(e)) \/ (\E i \in Intents : Age(i))

Next ==
    \/ \E w \in Workers : Request(w) \/ WorkerStep(w)
    \/ ExpireStep
    \/ FaultStep
    \/ WorldStep

Spec == Init /\ [][Next]_vars

\* A request that has started keeps running, and the expiry goroutine keeps
\* ticking.  Nothing makes clients, gateways or faults act.
Fairness ==
    /\ \A w \in Workers : WF_vars(WorkerStep(w))
    /\ WF_vars(ExpireTick)
    /\ \A i \in Intents : WF_vars(ExpireRow(i))

FairSpec == Spec /\ Fairness

-----------------------------------------------------------------------------
(* Properties *)

\* The tables and the requests in progress are well formed.
TypeOK ==
    /\ intents \in [Intents -> Rows]
    /\ workers \in [Workers -> Worker]
    /\ cron \in [Intents -> Rows]
    /\ hooks \in [Events -> HookStatuses]
    /\ linked \subseteq Events
    /\ applied \in [Events -> Nat]
    /\ provisioned \subseteq Intents \X Gateways
    /\ emitted \subseteq Events
    /\ old \subseteq Intents
    /\ faults \in 0..MaxFaults

\* Whatever requests, expiry passes and webhooks overwrite one another's
\* updates, and wherever they die, every stored row stays coherent: no mix of
\* two writers' columns survives, because Update writes all of them.
RowsCoherent == \A i \in Intents : Coherent(intents[i])

Confirmed(i) ==
    \E e \in emitted : /\ e.intent = i
                       /\ e.kind \in {"paid", "settled"}
                       /\ <<i, e.gateway>> \in provisioned

\* An intent counts as paid only if a gateway at which it was opened reported
\* the payment in an event whose signature verifies: no path of create, retry,
\* cancel, expiry or redelivery makes money appear.
PaidIsConfirmed == \A i \in Intents : intents[i].status \in Paid => Confirmed(i)

\* A webhook row that is processed and linked to an intent stands for an
\* update of that intent that was committed (unless its status asks for none).
LinkedIsApplied ==
    \A e \in linked : hooks[e] = "processed" /\ NewStatus(e.kind) # "none"
                        => applied[e] = 1

\* A replayed or racing CreateIntent never resets a row: once an intent has
\* left "created" it does not become "created" again.
NeverCreatedAgain ==
    [][\A i \in Intents : intents'[i].status = "created" =>
            intents[i].status \in {"absent", "created"}]_vars

InboxState(status) == IF status = "absent" THEN "new"
                      ELSE IF status = "received" THEN "open"
                      ELSE "closed"

\* At-most-once effect of each event under redelivery, concurrency and faults.
WebhookInbox ==
    INSTANCE Inbox WITH
        Messages <- Events,
        state    <- [e \in Events |-> InboxState(hooks[e])],
        effects  <- applied

EventsTakeEffectOnce == WebhookInbox!Spec

\* ExpireStaleIntents does its job: an intent that is pending past the cutoff
\* does not stay pending, whatever the other requests write meanwhile.
StaleIntentsExpire ==
    \A i \in Intents :
        (i \in old /\ intents[i].status = "pending") ~> intents[i].status # "pending"

-----------------------------------------------------------------------------
(* Statements of the source that the interleavings of the code contradict: *)
(* they do not hold, and no run assumes them.                              *)

\* domain/payment_intent.go on MarkCancelled: "once an intent is succeeded the
\* only way back is via Refund".
OnlyRefundLeavesSucceeded ==
    [][\A i \in Intents : intents[i].status = "succeeded" =>
            intents'[i].status \in Paid]_vars

\* domain/payment_webhook.go on MarkProcessed: a row becomes processed "once
\* the side effect (intent status flip, refund completion, ...) is committed".
ProcessedIsCommitted ==
    \A e \in Events : hooks[e] = "processed" /\ NewStatus(e.kind) # "none"
                        => applied[e] = 1

=============================================================================
