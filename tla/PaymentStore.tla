---------------------------- MODULE PaymentStore ----------------------------
(***************************************************************************)
(* The payment_intents table and the intent state machine of               *)
(* internal/payment/domain/payment_intent.go.  Every operation of the      *)
(* payment service reads one whole row, applies one of the Mark... methods *)
(* to its copy and writes the whole row back by id, so a row is a record   *)
(* and a method is a function of rows; CanX(r) is the method's guard.      *)
(*                                                                         *)
(* Abstraction: an external reference is the gateway that issued it (the   *)
(* stubs derive it from the gateway and the intent id), a timestamp is     *)
(* whether it is set, and amounts are whole currency units.                *)
(***************************************************************************)
EXTENDS Naturals

CONSTANTS
    Intents,    \* idempotency keys, each naming at most one intent row
    Gateways,   \* configured gateways
    Amount,     \* amount of every intent
    None        \* NULL

ASSUME StoreAssumption ==
    /\ Amount \in Nat \ {0}
    /\ None \notin Gateways
    /\ None \notin Intents

VARIABLE intents    \* the table: key -> row, NoRow before the INSERT

IntentStatuses ==
    {"created", "routing", "pending", "succeeded", "failed", "expired",
     "cancelled", "partially_refunded", "refunded"}

Terminal == {"failed", "expired", "cancelled", "refunded"}

\* The statuses that only a confirmed payment leads to.
Paid == {"succeeded", "partially_refunded", "refunded"}

Rows == [status    : IntentStatuses \cup {"absent"},
         gateway   : Gateways \cup {None},
         ref       : Gateways \cup {None},
         paid      : BOOLEAN,
         expired   : BOOLEAN,
         cancelled : BOOLEAN,
         refunded  : 0..Amount]

NoRow == [status |-> "absent", gateway |-> None, ref |-> None, paid |-> FALSE,
          expired |-> FALSE, cancelled |-> FALSE, refunded |-> 0]

NewPaymentIntent == [NoRow EXCEPT !.status = "created"]

-----------------------------------------------------------------------------
(* The methods of PaymentIntent. *)

CanRoute(r) == r.status \in {"created", "routing"}
Route(r, g) == [r EXCEPT !.gateway = g, !.status = "routing"]

MarkPending(r, ref) == [r EXCEPT !.ref = ref, !.status = "pending"]

CanSucceed(r) == r.status \in {"pending", "succeeded"}
MarkSucceeded(r) ==
    IF r.status = "succeeded" THEN r
                              ELSE [r EXCEPT !.paid = TRUE, !.status = "succeeded"]

CanFail(r) == r.status \in {"pending", "routing"}
MarkFailed(r) == [r EXCEPT !.status = "failed"]

CanExpire(r) == r.status = "pending"
MarkExpired(r) == [r EXCEPT !.expired = TRUE, !.status = "expired"]

CanCancel(r) == r.status \in {"created", "routing", "pending", "cancelled"}
MarkCancelled(r) ==
    IF r.status = "cancelled" THEN r
                              ELSE [r EXCEPT !.cancelled = TRUE, !.status = "cancelled"]

CanRefund(r) == r.status \in {"succeeded", "partially_refunded"}
CanRefundPartially(r, cumulative) == CanRefund(r) /\ cumulative \in 1..(Amount - 1)
MarkPartiallyRefunded(r, cumulative) ==
    [r EXCEPT !.refunded = cumulative, !.status = "partially_refunded"]
MarkFullyRefunded(r) ==
    [r EXCEPT !.refunded = Amount, !.status = "refunded"]

-----------------------------------------------------------------------------
(* The statements of PaymentIntentRepository. *)

Exists(i) == intents[i].status # "absent"

\* Update: every mutable column of the row, WHERE id = $1 and nothing else.
Update(i, r) == intents' = [intents EXCEPT ![i] = r]

-----------------------------------------------------------------------------

\* A row's columns agree with its status: the payment time is set exactly on
\* paid rows, the expiry and cancellation times exactly on expired and
\* cancelled ones, the refunded total is strictly inside (0, Amount) exactly
\* on partially refunded rows and the whole amount on refunded ones, a row not
\* yet provisioned has no reference, and a row awaiting or past payment knows
\* the gateway that issued its reference.
Coherent(r) ==
    /\ r.paid <=> r.status \in Paid
    /\ r.expired <=> r.status = "expired"
    /\ r.cancelled <=> r.status = "cancelled"
    /\ r.status = "partially_refunded" <=> r.refunded \in 1..(Amount - 1)
    /\ r.status = "refunded" <=> r.refunded = Amount
    /\ r.ref # None => r.gateway = r.ref
    /\ r.status \in {"absent", "created", "routing"} => r.ref = None
    /\ r.status \in Paid \cup {"pending", "expired"} => r.ref # None

=============================================================================
