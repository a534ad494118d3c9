--------------------------- MODULE Checkout_proofs ---------------------------
(***************************************************************************)
(* What Checkout promises for any number of invoices, receipts, links and  *)
(* requests.  The receiver of the gateway's callbacks refines the inbox:   *)
(* its transaction looks neither at the link nor at the delivery, so what  *)
(* makes it run once is the insert before it.  An invoice that is paid, or *)
(* whose installation was approved, was paid for.  Where payments overlap  *)
(* only each other and nobody dies, the last of them settles the invoice   *)
(* and its commission.                                                     *)
(***************************************************************************)
EXTENDS Checkout, Sums

\* A handler runs for a delivery that was recorded and had no effect yet.
HandledOnce ==
    /\ deliveries \in [Events -> {"absent", "recorded", "processed"}]
    /\ applied \in [Events -> Nat]
    /\ handling \subseteq Events
    /\ \A e \in Events : deliveries[e] = "absent" => applied[e] = 0 /\ e \notin handling
    /\ \A e \in handling : applied[e] = 0

LEMMA HandledOnceInit == CheckoutInit => HandledOnce
BY DEF CheckoutInit, HandledOnce

LEMMA HandledOnceStep ==
    ASSUME HandledOnce, [CheckoutNext]_<<vars, checkout>>
    PROVE  HandledOnce'
<1>1. ASSUME NEW e \in Events, recordDelivery(e)
      PROVE  HandledOnce'
  BY <1>1 DEF recordDelivery, FreshDelivery, HandledOnce
<1>2. ASSUME NEW e \in Events, handleXenditWebhook(e)
      PROVE  HandledOnce'
  BY <1>2 DEF handleXenditWebhook, HandledOnce
<1>3. ASSUME NEW e \in Events, LoseDelivery(e)
      PROVE  HandledOnce'
  BY <1>3 DEF LoseDelivery, HandledOnce
<1>4. ASSUME UNCHANGED <<deliveries, applied, handling>>
      PROVE  HandledOnce'
  BY <1>4 DEF HandledOnce
<1> QED
  BY <1>1, <1>2, <1>3, <1>4
     DEF CheckoutNext, CustomerStep, payInvoice, InsertLink, AbandonLink, checkout

LEMMA SpecHandledOnce == CheckoutSpec => []HandledOnce
<1>1. HandledOnce /\ [CheckoutNext]_<<vars, checkout>> => HandledOnce'
  BY HandledOnceStep
<1> QED
  BY <1>1, HandledOnceInit, PTL DEF CheckoutSpec

LEMMA ReceiverInit == CheckoutInit => Receiver!Init
BY DEF CheckoutInit, Receiver!Init

\* Recording is accepting, the transaction is the effect, and the rest of
\* the system does not show.
LEMMA ReceiverStep ==
    ASSUME HandledOnce, [CheckoutNext]_<<vars, checkout>>
    PROVE  [Receiver!Next]_(Receiver!vars)
<1>1. ASSUME NEW e \in Events, recordDelivery(e)
      PROVE  Receiver!Accept(e)
  BY <1>1 DEF recordDelivery, FreshDelivery, HandledOnce, Receiver!Accept
<1>2. ASSUME NEW e \in Events, handleXenditWebhook(e)
      PROVE  Receiver!TakeEffect(e)
  <2>1. e \in handling /\ applied[e] = 0 /\ deliveries[e] # "absent"
    BY <1>2 DEF handleXenditWebhook, HandledOnce
  <2>2. applied' = [applied EXCEPT ![e] = 1]
    BY <1>2, <2>1 DEF handleXenditWebhook
  <2>3. \A x \in Events : deliveries'[x] = "absent" <=> deliveries[x] = "absent"
    BY <1>2, <2>1 DEF handleXenditWebhook, HandledOnce
  <2> QED
    BY <2>1, <2>2, <2>3 DEF Receiver!TakeEffect
<1>3. ASSUME UNCHANGED <<deliveries, applied>>
      PROVE  UNCHANGED Receiver!vars
  BY <1>3 DEF Receiver!vars
<1> QED
  BY <1>1, <1>2, <1>3
     DEF CheckoutNext, CustomerStep, payInvoice, InsertLink, AbandonLink, LoseDelivery,
         checkout, Receiver!Next

\* webhookx's promise: a callback changes link and invoice at most once, for
\* any number of redeliveries, failures and concurrent handlers.
THEOREM CallbackIsAnInbox == CheckoutSpec => DeliveriesTakeEffectOnce
<1>1. HandledOnce /\ [CheckoutNext]_<<vars, checkout>> => [Receiver!Next]_(Receiver!vars)
  BY ReceiverStep
<1> QED
  BY <1>1, ReceiverInit, SpecHandledOnce, PTL
     DEF CheckoutSpec, DeliveriesTakeEffectOnce, Receiver!Spec

-----------------------------------------------------------------------------
(* What a request and a table hold *)

RequestRows ==
    [op : Requests, invoice : Invoices \cup {None}, receipt : Receipts \cup {None},
     amount : 0..Total, share : 0..Shares]

\* A request k at each of its statements.
Holds(k) ==
    /\ k \in ClerkStates
    /\ k.pc = "idle" => k = Idle
    /\ k.pc \in {"issue", "cancel"} => k.req.op = k.pc /\ k.req.invoice \in Invoices
    /\ k.pc \in {"insert", "sum", "flip", "reload"} =>
          k.req.invoice \in Invoices
    /\ k.pc \in {"commission", "share", "reward"} => k.req.invoice \in Otc
    /\ k.pc \in {"insert", "sum", "flip", "reload", "commission", "share", "reward"} =>
          /\ k.req.op = "pay" /\ k.req.receipt \in Receipts /\ k.req.amount \in 1..Total
    /\ k.pc = "share" => k.req.share \in 1..Shares
    /\ k.pc \in {"approve", "approveFree"} => k.req.op = "verify" /\ k.req.invoice \in Otc

PaymentRows == [invoice : Invoices, amount : 1..Total]

LinkRows == [invoice : Invoices, status : Verdicts \cup {"pending"}, confirmed : BOOLEAN]

\* A link is inserted once; a handler runs for a link that was.
LinksSound ==
    /\ links \in [Links -> LinkRows \cup {NoLink}]
    /\ opening \in [Links -> Invoices \cup {None}]
    /\ \A l \in Links : opening[l] # None => links[l] = NoLink
    /\ \A e \in handling : links[e[1]] # NoLink

TablesOK ==
    /\ status \in [Invoices -> Statuses \cup {"absent"}]
    /\ payments \in [Receipts -> PaymentRows \cup {NoPayment}]
    /\ commissions \in [Otc -> [1..Shares -> Receipts \cup {None}]]
    /\ rewarded \subseteq Otc
    /\ installed \in [Otc -> {"no", "free", "charged"}]
    /\ deaths \in 0..MaxDeaths

RequestsOK ==
    /\ clerks \in [Clerks -> ClerkStates]
    /\ \A c \in Clerks : Holds(clerks[c])

Sound == TablesOK /\ RequestsOK /\ LinksSound /\ HandledOnce

\* Clerk c goes on with k, which it may hold.
Moves(c, k) == Holds(k) /\ clerks' = [clerks EXCEPT ![c] = k]

LEMMA IdleHolds == Holds(Idle)
BY InvoicesAssumption DEF Holds, Idle, ClerkStates, Pcs, Request, Requests

LEMMA MoveKeeps ==
    ASSUME RequestsOK, NEW c \in Clerks, NEW k, Moves(c, k)
    PROVE  RequestsOK' /\ \A d \in Clerks : clerks'[d] = IF d = c THEN k ELSE clerks[d]
BY DEF RequestsOK, Moves, Holds

\* A clerk's record with another statement.
LEMMA GotoIs ==
    ASSUME RequestsOK, NEW c \in Clerks, NEW pc \in Pcs, Goto(c, pc)
    PROVE  \E k \in ClerkStates : /\ clerks' = [clerks EXCEPT ![c] = k]
                                  /\ k.pc = pc /\ k.req = clerks[c].req
<1> DEFINE k == [clerks[c] EXCEPT !.pc = pc]
<1>1. clerks[c] \in ClerkStates
  BY DEF RequestsOK
<1>2. k \in ClerkStates /\ k.pc = pc /\ k.req = clerks[c].req
  BY <1>1 DEF ClerkStates
<1>3. clerks' = [clerks EXCEPT ![c] = k]
  BY <1>1 DEF Goto
<1> QED
  BY <1>2, <1>3

\* Each statement of a request leaves it with what its next one needs.
LEMMA RequestsStep ==
    ASSUME TablesOK, RequestsOK, NEW c \in Clerks, Start(c) \/ Step(c) \/ Die(c)
    PROVE  RequestsOK'
<1> DEFINE req == clerks[c].req
<1>0. clerks[c] \in ClerkStates /\ Holds(clerks[c])
  BY DEF RequestsOK
<1>1. ASSUME UNCHANGED clerks PROVE RequestsOK'
  BY <1>1 DEF RequestsOK
<1>2. ASSUME \E k : Moves(c, k) PROVE RequestsOK'
  BY <1>2, MoveKeeps
<1>3. ASSUME Return(c) PROVE RequestsOK'
  BY <1>2, <1>3, IdleHolds DEF Moves, Return
<1>4. ASSUME NEW pc, NEW k, Begin(c, pc, k), Holds([pc |-> pc, req |-> k]) PROVE RequestsOK'
  BY <1>2, <1>4 DEF Moves, Begin
<1>5. ASSUME NEW pc \in Pcs \ {"idle", "issue", "cancel", "share", "approve", "approveFree"},
             Goto(c, pc),
             req.op = "pay" /\ req.receipt \in Receipts /\ req.amount \in 1..Total,
             req.invoice \in IF pc \in {"commission", "reward"} THEN Otc ELSE Invoices
      PROVE  RequestsOK'
  BY <1>2, <1>5, GotoIs DEF Moves, Holds, Pcs
<1> HIDE DEF req
<1>6. CASE Start(c)
  <2>1. PICK i \in Invoices :
          \/ CreateInvoice(c, i) \/ IssueInvoice(c, i) \/ CancelInvoice(c, i)
          \/ \E r \in Receipts, amount \in 1..Total : RecordPayment(c, i, r, amount)
          \/ i \in Otc /\ VerifyBAST(c, i)
    BY <1>6 DEF Start
  <2>2. ASSUME NEW pc \in Pcs, NEW op \in Requests,
               \/ pc \in {"issue", "cancel"} /\ op = pc
               \/ pc \in {"approve", "approveFree"} /\ op = "verify" /\ i \in Otc
        PROVE  Holds([pc |-> pc, req |-> Request(op, i)])
    BY <2>2, InvoicesAssumption DEF Holds, ClerkStates, Request
  <2>3. CASE CreateInvoice(c, i)
    BY <1>1, <2>3 DEF CreateInvoice
  <2>4. CASE IssueInvoice(c, i) \/ CancelInvoice(c, i)
    <3>1. Begin(c, "issue", Request("issue", i)) \/ Begin(c, "cancel", Request("cancel", i))
      BY <2>4 DEF IssueInvoice, CancelInvoice
    <3>2. /\ Holds([pc |-> "issue", req |-> Request("issue", i)])
          /\ Holds([pc |-> "cancel", req |-> Request("cancel", i)])
      BY <2>2 DEF Pcs, Requests
    <3> QED
      BY <1>4, <3>1, <3>2
  <2>5. ASSUME NEW r \in Receipts, NEW amount \in 1..Total, RecordPayment(c, i, r, amount)
        PROVE  RequestsOK'
    <3> DEFINE q == [Request("pay", i) EXCEPT !.receipt = r, !.amount = amount]
    <3>0. Request("pay", i) \in RequestRows
      BY InvoicesAssumption DEF Request, Requests, RequestRows
    <3>a. amount \in 0..Total
      BY InvoicesAssumption
    <3>1. /\ q.op = "pay" /\ q.invoice = i /\ q.receipt = r /\ q.amount = amount
          /\ q \in RequestRows
      <4> DEFINE a == Request("pay", i)
                 b == [a EXCEPT !.receipt = r]
      <4>1. a \in RequestRows /\ a.op = "pay" /\ a.invoice = i
        BY <3>0 DEF Request
      <4> HIDE DEF a
      <4>2. b \in RequestRows /\ b.op = "pay" /\ b.invoice = i /\ b.receipt = r
        BY <4>1 DEF RequestRows
      <4> HIDE DEF b
      <4>3. [b EXCEPT !.amount = amount] \in RequestRows
        BY <3>a, <4>2 DEF RequestRows
      <4> QED
        BY <4>1, <4>2, <4>3 DEF a, b, RequestRows
    <3>2. Begin(c, "insert", q)
      BY <2>5 DEF RecordPayment
    <3> HIDE DEF q
    <3>3. Holds([pc |-> "insert", req |-> q])
      BY <3>1 DEF Holds, ClerkStates, RequestRows, Pcs
    <3> QED
      BY <1>4, <3>2, <3>3
  <2>6. CASE i \in Otc /\ VerifyBAST(c, i)
    BY <1>4, <2>2, <2>6 DEF VerifyBAST, Pcs, Requests
  <2> QED
    BY <2>1, <2>3, <2>4, <2>5, <2>6
<1>7. CASE Step(c)
  <2>1. CASE WriteIssued(c) \/ WriteCancelled(c) \/ Reward(c) \/ ApproveInstall(c)
    BY <1>3, <2>1 DEF WriteIssued, WriteCancelled, Reward, ApproveInstall
  <2>2. CASE InsertPayment(c) \/ SumPayments(c) \/ FlipPaid(c)
    <3>1. /\ req.op = "pay" /\ req.receipt \in Receipts /\ req.amount \in 1..Total
          /\ req.invoice \in Invoices
      BY <1>0, <2>2 DEF InsertPayment, SumPayments, FlipPaid, At, Holds, req
    <3> QED
      BY <1>3, <1>5, <2>2, <3>1 DEF InsertPayment, SumPayments, FlipPaid, Pcs
  <2>3. CASE Reload(c)
    <3>1. req.op = "pay" /\ req.receipt \in Receipts /\ req.amount \in 1..Total
      BY <1>0, <2>3 DEF Reload, At, Holds, req
    <3>2. Return(c) \/ (Goto(c, "commission") /\ req.invoice \in Otc)
      BY <2>3 DEF Reload, req
    <3> QED
      BY <1>3, <1>5, <3>1, <3>2 DEF Pcs
  <2>4. CASE CheckCommission(c) \/ InsertShare(c)
    <3>1. /\ req.op = "pay" /\ req.receipt \in Receipts /\ req.amount \in 1..Total
          /\ req.invoice \in Otc
      BY <1>0, <2>4 DEF CheckCommission, InsertShare, At, Holds, req
    <3>2. ASSUME NEW n \in 1..Shares,
                 clerks' = [clerks EXCEPT ![c].pc = "share", ![c].req.share = n]
          PROVE  RequestsOK'
      <4> DEFINE k == clerks'[c]
      <4>1. /\ clerks' = [clerks EXCEPT ![c] = k] /\ k \in ClerkStates
            /\ k.pc = "share" /\ k.req.share = n
            /\ k.req.op = req.op /\ k.req.receipt = req.receipt
            /\ k.req.amount = req.amount /\ k.req.invoice = req.invoice
        <5> DEFINE m == [clerks EXCEPT ![c].pc = "share"]
        <5>1. m \in [Clerks -> ClerkStates] /\ m[c].pc = "share" /\ m[c].req = req
          BY <1>0 DEF RequestsOK, ClerkStates, Pcs, req
        <5>2. clerks' = [m EXCEPT ![c].req.share = n]
          BY <3>2
        <5>3. \A d \in Clerks : d # c => clerks'[d] = clerks[d]
          BY <3>2 DEF RequestsOK
        <5> HIDE DEF m
        <5>4. /\ clerks'[c] \in ClerkStates
              /\ k.pc = "share" /\ k.req.share = n
              /\ k.req.op = req.op /\ k.req.receipt = req.receipt
              /\ k.req.amount = req.amount /\ k.req.invoice = req.invoice
          <6> DEFINE x == m[c]
                     y == [x.req EXCEPT !.share = n]
          <6>1. x \in ClerkStates /\ x.pc = "share" /\ x.req = req /\ x.req \in RequestRows
            BY <5>1 DEF ClerkStates, RequestRows
          <6>2. k = [x EXCEPT !.req = y]
            BY <5>1, <5>2
          <6> HIDE DEF x
          <6>3. y \in RequestRows /\ y.share = n /\ y.op = req.op /\ y.receipt = req.receipt
                /\ y.amount = req.amount /\ y.invoice = req.invoice
            BY <6>1, InvoicesAssumption DEF RequestRows
          <6> HIDE DEF y, k
          <6>4. k \in ClerkStates /\ k.pc = "share" /\ k.req = y
            BY <6>1, <6>2, <6>3 DEF ClerkStates, RequestRows
          <6> QED
            BY <6>3, <6>4 DEF k
        <5>5. clerks' = [clerks EXCEPT ![c] = k]
          BY <3>2, <5>3 DEF RequestsOK
        <5> QED
          BY <5>4, <5>5
      <4>3. Holds(k)
        BY <3>1, <4>1 DEF Holds
      <4> HIDE DEF k
      <4> QED
        BY <1>2, <4>1, <4>3 DEF Moves
    <3>3. CASE Goto(c, "reward")
      BY <1>5, <3>1, <3>3 DEF Pcs
    <3>4. CASE CheckCommission(c)
      BY <3>2, <3>3, <3>4, InvoicesAssumption DEF CheckCommission
    <3>5. CASE InsertShare(c) /\ ~Goto(c, "reward")
      <4>1. /\ At(c, "share") /\ req.share \in 1..Shares
            /\ clerks' = [clerks EXCEPT ![c].req.share = @ + 1] /\ req.share # Shares
        BY <1>0, <3>5 DEF InsertShare, NextShare, At, Holds, req
      <4>2. req.share + 1 \in 1..Shares
        BY <4>1, InvoicesAssumption
      <4>3. clerks' = [clerks EXCEPT ![c].pc = "share", ![c].req.share = req.share + 1]
        BY <1>0, <4>1 DEF At, req, ClerkStates, RequestsOK
      <4> QED
        BY <3>2, <4>2, <4>3
    <3> QED
      BY <2>4, <3>3, <3>4, <3>5
  <2> QED
    BY <1>7, <2>1, <2>2, <2>3, <2>4 DEF Step
<1>8. CASE Die(c)
  BY <1>3, <1>8 DEF Die
<1> QED
  BY <1>6, <1>7, <1>8

-----------------------------------------------------------------------------
(* The tables *)

LEMMA TablesStep ==
    ASSUME TablesOK, RequestsOK, NEW c \in Clerks, Start(c) \/ Step(c) \/ Die(c)
    PROVE  TablesOK'
<1> USE DEF TablesOK, At
<1>0. Holds(clerks[c])
  BY DEF RequestsOK
<1>1. CASE UNCHANGED ledger
  <2>0. Start(c) \/ Step(c) => UNCHANGED deaths
    BY DEF Start, Step, CreateInvoice, IssueInvoice, CancelInvoice,
       RecordPayment, VerifyBAST, WriteIssued, WriteCancelled, InsertPayment, SumPayments, FlipPaid,
       Reload, CheckCommission, InsertShare, Reward, ApproveInstall
  <2>1. deaths' \in 0..MaxDeaths
    BY <2>0, InvoicesAssumption DEF Die
  <2> QED
    BY <1>1, <2>1 DEF ledger
<1>2. ASSUME NEW i \in Invoices, CreateInvoice(c, i) PROVE TablesOK'
  BY <1>2 DEF CreateInvoice, UpdateStatus, Statuses
<1>3. CASE WriteIssued(c) \/ WriteCancelled(c) \/ FlipPaid(c)
  BY <1>3 DEF WriteIssued, WriteCancelled, FlipPaid, UpdateStatus, Statuses
<1>4. CASE InsertPayment(c)
  <2> DEFINE row == [invoice |-> clerks[c].req.invoice, amount |-> clerks[c].req.amount]
  <2>1. row \in PaymentRows
    BY <1>0, <1>4 DEF InsertPayment, Holds, PaymentRows
  <2>2. UNCHANGED payments \/ payments' = [payments EXCEPT ![clerks[c].req.receipt] = row]
    BY <1>4 DEF InsertPayment
  <2> HIDE DEF row
  <2>3. payments' \in [Receipts -> PaymentRows \cup {NoPayment}]
    BY <2>1, <2>2
  <2> QED
    BY <1>4, <2>3 DEF InsertPayment
<1>5. CASE InsertShare(c)
  <2> DEFINE i == clerks[c].req.invoice
             s == clerks[c].req.share
             r == clerks[c].req.receipt
  <2>1. i \in Otc /\ s \in 1..Shares /\ r \in Receipts
    BY <1>0, <1>5 DEF InsertShare, Holds
  <2>2. commissions' \in [Otc -> [1..Shares -> Receipts \cup {None}]]
    BY <1>5, <2>1 DEF InsertShare
  <2> QED
    BY <1>5, <2>2 DEF InsertShare
<1>6. CASE Reward(c)
  BY <1>0, <1>6 DEF Reward, Holds
<1>7. CASE ApproveInstall(c)
  BY <1>7 DEF ApproveInstall
<1> QED
  BY <1>1, <1>2, <1>3, <1>4, <1>5, <1>6, <1>7
  DEF Start, Step, Die, IssueInvoice, CancelInvoice, RecordPayment, VerifyBAST, SumPayments,
      Reload, CheckCommission

LEMMA NoLinkIsNoRow == NoLink \notin LinkRows
BY CheckoutAssumption DEF NoLink, LinkRows

LEMMA CustomerMoves ==
    ASSUME TablesOK, LinksSound, HandledOnce, CustomerStep
    PROVE  LinksSound' /\ status' \in [Invoices -> Statuses \cup {"absent"}]
<1>0. /\ status \in [Invoices -> Statuses \cup {"absent"}] /\ handling \subseteq Links \X Verdicts
      /\ links \in [Links -> LinkRows \cup {NoLink}] /\ opening \in [Links -> Invoices \cup {None}]
  BY DEF TablesOK, LinksSound, HandledOnce, Events
<1>1. ASSUME NEW l \in Links, NEW i \in Invoices, payInvoice(l, i)
      PROVE  LinksSound' /\ status' \in [Invoices -> Statuses \cup {"absent"}]
  BY <1>0, <1>1 DEF payInvoice, LinksSound
<1>2. ASSUME NEW l \in Links, InsertLink(l) \/ AbandonLink(l)
      PROVE  LinksSound' /\ status' \in [Invoices -> Statuses \cup {"absent"}]
  <2> DEFINE row == [invoice |-> opening[l], status |-> "pending", confirmed |-> FALSE]
  <2>1. opening[l] # None => row \in LinkRows
    BY <1>0 DEF LinkRows
  <2>2. /\ opening[l] # None /\ opening' = [opening EXCEPT ![l] = None]
        /\ UNCHANGED links \/ links' = [links EXCEPT ![l] = row]
        /\ UNCHANGED <<handling, status>>
    BY <1>2 DEF InsertLink, AbandonLink
  <2> HIDE DEF row
  <2>3. links' \in [Links -> LinkRows \cup {NoLink}]
    BY <1>0, <2>1, <2>2
  <2>4. \A x \in Links : opening'[x] # None => links'[x] = NoLink
    BY <1>0, <2>2 DEF LinksSound
  <2>5. \A e \in handling' : links'[e[1]] # NoLink
    BY <1>0, <2>1, <2>2, NoLinkIsNoRow DEF LinksSound
  <2>6. opening' \in [Links -> Invoices \cup {None}]
    BY <1>0, <2>2
  <2> QED
    BY <1>0, <2>2, <2>3, <2>4, <2>5, <2>6 DEF LinksSound
<1>3. ASSUME NEW e \in Events, recordDelivery(e) \/ LoseDelivery(e)
      PROVE  LinksSound' /\ status' \in [Invoices -> Statuses \cup {"absent"}]
  BY <1>0, <1>3 DEF recordDelivery, LoseDelivery, LinksSound
<1>4. ASSUME NEW e \in Events, handleXenditWebhook(e)
      PROVE  LinksSound' /\ status' \in [Invoices -> Statuses \cup {"absent"}]
  <2> DEFINE l == e[1]
             m == [links EXCEPT ![l].status = e[2]]
  <2>0. l \in Links /\ e[2] \in Verdicts /\ links[l] \in LinkRows
    BY <1>0, <1>4 DEF Events, handleXenditWebhook, LinksSound
  <2>1. m \in [Links -> LinkRows \cup {NoLink}] /\ m[l] \in LinkRows
        /\ \A x \in Links : x # l => m[x] = links[x]
    BY <1>0, <2>0 DEF LinkRows
  <2>2. links' = [m EXCEPT ![l].confirmed = @ \/ e[2] = "succeeded"]
        /\ UNCHANGED opening /\ handling' \subseteq handling
    BY <1>4 DEF handleXenditWebhook
  <2> HIDE DEF m, l
  <2>3. links' \in [Links -> LinkRows \cup {NoLink}] /\ links'[l] \in LinkRows
        /\ \A x \in Links : x # l => links'[x] = links[x]
    <3> DEFINE z == m[l].confirmed \/ e[2] = "succeeded"
    <3>1. z \in BOOLEAN
      OBVIOUS
    <3>2. links' = [m EXCEPT ![l].confirmed = z]
      BY <2>2
    <3> HIDE DEF z
    <3> QED
      BY <2>0, <2>1, <3>1, <3>2 DEF LinkRows
  <2>4. \A x \in Links : opening'[x] # None => links'[x] = NoLink
    BY <1>0, <2>0, <2>2, <2>3, NoLinkIsNoRow DEF LinksSound
  <2>5. \A x \in handling' : links'[x[1]] # NoLink
    BY <1>0, <2>0, <2>2, <2>3, NoLinkIsNoRow DEF LinksSound
  <2>6. status' \in [Invoices -> Statuses \cup {"absent"}]
    BY <1>0, <1>4 DEF handleXenditWebhook, UpdateStatus, Statuses
  <2> QED
    BY <1>0, <2>2, <2>3, <2>4, <2>5, <2>6 DEF LinksSound
<1> QED
  BY <1>1, <1>2, <1>3, <1>4 DEF CustomerStep

LEMMA SoundInit == CheckoutInit => Sound
<1> SUFFICES ASSUME CheckoutInit PROVE Sound
  OBVIOUS
<1>1. TablesOK
  BY InvoicesAssumption DEF CheckoutInit, Init, TablesOK
<1>2. RequestsOK
  BY IdleHolds DEF CheckoutInit, Init, RequestsOK, Holds
<1>3. LinksSound
  BY DEF CheckoutInit, LinksSound
<1> QED
  BY <1>1, <1>2, <1>3, HandledOnceInit DEF Sound

LEMMA SoundStep ==
    ASSUME Sound, [CheckoutNext]_<<vars, checkout>>
    PROVE  Sound'
<1> USE DEF Sound
<1>1. HandledOnce'
  BY HandledOnceStep
<1>2. CASE UNCHANGED <<vars, checkout>>
  BY <1>1, <1>2 DEF vars, ledger, checkout, TablesOK, RequestsOK, LinksSound
<1>3. CASE Next /\ UNCHANGED checkout
  <2>1. LinksSound'
    BY <1>3 DEF LinksSound, checkout
  <2> QED
    BY <1>1, <1>3, <2>1, TablesStep, RequestsStep DEF Next
<1>4. CASE CustomerStep /\ UNCHANGED <<payments, commissions, rewarded, installed, clerks, deaths>>
  <2>1. RequestsOK' /\ TablesOK'
    BY <1>4, CustomerMoves DEF TablesOK, RequestsOK
  <2> QED
    BY <1>1, <1>4, <2>1, CustomerMoves
<1> QED
  BY <1>2, <1>3, <1>4 DEF CheckoutNext

LEMMA Soundness == CheckoutSpec => []Sound
BY SoundInit, SoundStep, PTL DEF CheckoutSpec

\* Every row and every request in progress keeps to its type.
THEOREM TypeCorrect == CheckoutSpec => []TypeOK
<1>1. Sound => TypeOK
  <2> SUFFICES ASSUME Sound PROVE TypeOK
    OBVIOUS
  <2>1. PaymentRows \cup {NoPayment} \subseteq [invoice : Invoices \cup {None}, amount : 0..Total]
    BY InvoicesAssumption DEF PaymentRows, NoPayment
  <2>2. payments \in [Receipts -> [invoice : Invoices \cup {None}, amount : 0..Total]]
    BY <2>1 DEF Sound, TablesOK
  <2> QED
    BY <2>2 DEF Sound, TablesOK, RequestsOK, TypeOK
<1> QED
  BY <1>1, Soundness, PTL

-----------------------------------------------------------------------------
(* What has been paid for an invoice: a sum only grows, by the payment that  *)
(* is inserted, and the gateway takes back nothing it confirmed              *)

SumOf(rows, i) ==
    SumFunctionOnSet([r \in Receipts |-> rows[r].amount],
                     {r \in Receipts : rows[r].invoice = i})

LEMMA SumOfType ==
    ASSUME NEW rows \in [Receipts -> PaymentRows \cup {NoPayment}], NEW i
    PROVE  SumOf(rows, i) \in Int
<1> DEFINE f == [r \in Receipts |-> rows[r].amount]
           S == {r \in Receipts : rows[r].invoice = i}
<1>1. IsFiniteSet(S)
  BY InvoicesAssumption, FS_Subset
<1>2. Numbers(f, S)
  BY InvoicesAssumption DEF Numbers, PaymentRows, NoPayment
<1> HIDE DEF f, S
<1>3. SumFunctionOnSet(f, S) \in Int
  BY <1>1, <1>2, SumType
<1> QED
  BY <1>3 DEF SumOf, f, S

\* An INSERT adds its amount to the sum of its invoice and to no other.
LEMMA SumOfInsert ==
    ASSUME NEW rows \in [Receipts -> PaymentRows \cup {NoPayment}],
           NEW r \in Receipts, rows[r] = NoPayment,
           NEW row \in PaymentRows, NEW i \in Invoices
    PROVE  SumOf([rows EXCEPT ![r] = row], i) =
               SumOf(rows, i) + IF row.invoice = i THEN row.amount ELSE 0
<1> DEFINE new == [rows EXCEPT ![r] = row]
           f == [x \in Receipts |-> rows[x].amount]
           k == [x \in Receipts |-> new[x].amount]
           S == {x \in Receipts : rows[x].invoice = i}
           T == {x \in Receipts : new[x].invoice = i}
<1>0. row.invoice \in Invoices /\ row.amount \in Int /\ NoPayment.invoice \notin Invoices
  BY InvoicesAssumption DEF PaymentRows, NoPayment
<1>1. IsFiniteSet(S) /\ IsFiniteSet(T)
  BY InvoicesAssumption, FS_Subset
<1>2. Numbers(f, S) /\ Numbers(k, T)
  BY InvoicesAssumption DEF Numbers, PaymentRows, NoPayment
<1>3. r \notin S /\ (\A x \in S : k[x] = f[x]) /\ k[r] = row.amount
  BY <1>0
<1>4. T = IF row.invoice = i THEN S \cup {r} ELSE S
  BY <1>0
<1>5. SumOf(rows, i) = SumFunctionOnSet(f, S) /\ SumOf(new, i) = SumFunctionOnSet(k, T)
  BY DEF SumOf
<1> HIDE DEF f, k, S, T
<1>6. CASE row.invoice = i
  <2>1. SumFunctionOnSet(k, S \cup {r}) = SumFunctionOnSet(f, S) + k[r]
    <3>1. k[r] \in Int
      BY <1>0, <1>3
    <3>2. IsFiniteSet(S) /\ Numbers(f, S) /\ r \notin S /\ \A x \in S : k[x] = f[x]
      BY <1>1, <1>2, <1>3
    <3> QED
      BY <3>1, <3>2, SumAdds
  <2> QED
    BY <1>3, <1>4, <1>5, <1>6, <2>1
<1>7. CASE row.invoice # i
  <2>1. SumFunctionOnSet(f, S) = SumFunctionOnSet(k, S) /\ SumFunctionOnSet(f, S) \in Int
    BY <1>1, <1>2, <1>3, SumAgrees, SumType
  <2> QED
    BY <1>4, <1>5, <1>7, <2>1
<1> QED
  BY <1>6, <1>7

\* Payments are only ever inserted.
LEMMA PaymentWrites ==
    ASSUME Sound, [CheckoutNext]_<<vars, checkout>>
    PROVE  \/ UNCHANGED payments
           \/ \E c \in Clerks : /\ InsertPayment(c) /\ Goto(c, "sum") /\ UNCHANGED checkout
                                /\ payments[clerks[c].req.receipt] = NoPayment
                                /\ payments' = [payments EXCEPT ![clerks[c].req.receipt] =
                                       [invoice |-> clerks[c].req.invoice,
                                        amount |-> clerks[c].req.amount]]
BY DEF CheckoutNext, vars, ledger, Next, Start, Step, Die, CreateInvoice, IssueInvoice,
   CancelInvoice, RecordPayment, VerifyBAST, WriteIssued, WriteCancelled, InsertPayment,
   SumPayments, FlipPaid, Reload, CheckCommission, InsertShare, Reward, ApproveInstall

LEMMA SumsGrow ==
    ASSUME Sound, [CheckoutNext]_<<vars, checkout>>, NEW i \in Invoices
    PROVE  /\ SumConfirmed(i) \in Int /\ SumConfirmed(i)' \in Int
           /\ SumConfirmed(i)' >= SumConfirmed(i)
           /\ SumConfirmed(i)' # SumConfirmed(i) =>
                  \E c \in Clerks : /\ InsertPayment(c) /\ Goto(c, "sum") /\ UNCHANGED checkout
                                    /\ clerks[c].req.invoice = i
<1>0. SumConfirmed(i) = SumOf(payments, i) /\ SumConfirmed(i)' = SumOf(payments', i)
  BY DEF SumConfirmed, SumOf
<1>1. /\ payments \in [Receipts -> PaymentRows \cup {NoPayment}]
      /\ payments' \in [Receipts -> PaymentRows \cup {NoPayment}]
  BY SoundStep DEF Sound, TablesOK
<1>2. SumOf(payments, i) \in Int /\ SumOf(payments', i) \in Int
  BY <1>1, SumOfType
<1>3. CASE UNCHANGED payments
  BY <1>0, <1>2, <1>3
<1>4. ASSUME NEW c \in Clerks, InsertPayment(c), Goto(c, "sum"), UNCHANGED checkout,
             payments[clerks[c].req.receipt] = NoPayment,
             payments' = [payments EXCEPT ![clerks[c].req.receipt] =
                             [invoice |-> clerks[c].req.invoice, amount |-> clerks[c].req.amount]]
      PROVE  /\ SumOf(payments', i) >= SumOf(payments, i)
             /\ SumOf(payments', i) # SumOf(payments, i) => clerks[c].req.invoice = i
  <2> DEFINE r == clerks[c].req.receipt
             row == [invoice |-> clerks[c].req.invoice, amount |-> clerks[c].req.amount]
  <2>0. Holds(clerks[c]) /\ clerks[c].pc = "insert"
    BY <1>4 DEF Sound, RequestsOK, InsertPayment, At
  <2>1. r \in Receipts /\ row \in PaymentRows /\ row.invoice = clerks[c].req.invoice
    BY <2>0 DEF Holds, PaymentRows
  <2>2. row.amount \in Nat
    BY <2>1, InvoicesAssumption DEF PaymentRows
  <2> HIDE DEF r, row
  <2>3. SumOf(payments', i) = SumOf(payments, i) + IF row.invoice = i THEN row.amount ELSE 0
    <3>1. payments[r] = NoPayment /\ payments' = [payments EXCEPT ![r] = row]
      BY <1>4 DEF r, row
    <3> QED
      BY <1>1, <2>1, <3>1, SumOfInsert
  <2> QED
    BY <1>2, <2>1, <2>2, <2>3
<1> QED
  BY <1>0, <1>2, <1>3, <1>4, PaymentWrites

PaidFor(i) == SumConfirmed(i) >= Total \/ ConfirmedByGateway(i)

\* Who holds a claim that an invoice is paid for, between reading and writing.
MoneySound ==
    /\ PaidIsPaidFor
    /\ InstalledIsPaidFor
    /\ \A c \in Clerks :
          /\ At(c, "flip") => SumConfirmed(clerks[c].req.invoice) >= Total
          /\ At(c, "approve") => PaidFor(clerks[c].req.invoice)

LEMMA PaidForStays ==
    ASSUME Sound, [CheckoutNext]_<<vars, checkout>>, NEW i \in Invoices
    PROVE  /\ SumConfirmed(i) >= Total => SumConfirmed(i)' >= Total
           /\ PaidFor(i) => PaidFor(i)'
<1>1. SumConfirmed(i) >= Total => SumConfirmed(i)' >= Total
  BY SumsGrow, InvoicesAssumption
<1>2. ASSUME NEW l \in Links, links[l].invoice = i, links[l].confirmed
      PROVE  links'[l].invoice = i /\ links'[l].confirmed
  <2>0. links[l] \in LinkRows /\ links \in [Links -> LinkRows \cup {NoLink}]
    BY <1>2, InvoicesAssumption DEF Sound, LinksSound, NoLink
  <2>1. opening[l] = None
    BY <2>0, NoLinkIsNoRow DEF Sound, LinksSound
  <2>2. ASSUME NEW m \in Links, InsertLink(m) PROVE links'[l] = links[l]
    BY <2>0, <2>1, <2>2 DEF InsertLink
  <2>3. ASSUME NEW e \in Events, handleXenditWebhook(e)
        PROVE  links'[l].invoice = i /\ links'[l].confirmed
    <3> DEFINE m == [links EXCEPT ![e[1]].status = e[2]]
    <3>1. e[1] \in Links /\ links[e[1]] \in LinkRows
      BY <2>3 DEF Events, handleXenditWebhook, Sound, LinksSound
    <3>2. m[l].invoice = i /\ m[l].confirmed /\ m \in [Links -> LinkRows \cup {NoLink}]
          /\ m[l] \in LinkRows
      BY <1>2, <2>0, <2>3, <3>1 DEF LinkRows, Events
    <3>3. links' = [m EXCEPT ![e[1]].confirmed = @ \/ e[2] = "succeeded"]
      BY <2>3 DEF handleXenditWebhook
    <3> HIDE DEF m
    <3> QED
      BY <3>1, <3>2, <3>3 DEF LinkRows
  <2> QED
    BY <1>2, <2>2, <2>3
    DEF CheckoutNext, CustomerStep, payInvoice, AbandonLink, recordDelivery, LoseDelivery, checkout
<1> QED
  BY <1>1, <1>2 DEF PaidFor, ConfirmedByGateway

\* An invoice becomes paid by a payment that saw it covered, or by a
\* callback that reports success.
LEMMA PaidWrites ==
    ASSUME Sound, MoneySound, [CheckoutNext]_<<vars, checkout>>,
           NEW i \in Invoices, status'[i] = "paid"
    PROVE  PaidFor(i)'
<1>0. status \in [Invoices -> Statuses \cup {"absent"}]
  BY DEF Sound, TablesOK
<1>1. CASE status[i] = "paid"
  BY <1>1, PaidForStays DEF MoneySound, PaidIsPaidFor, PaidFor
<1> SUFFICES ASSUME status[i] # "paid" PROVE PaidFor(i)'
  BY <1>1
<1>2. ASSUME NEW c \in Clerks, FlipPaid(c) PROVE PaidFor(i)'
  <2>1. i = clerks[c].req.invoice /\ At(c, "flip")
    BY <1>0, <1>2 DEF FlipPaid, UpdateStatus
  <2>2. SumConfirmed(i) >= Total
    BY <2>1 DEF MoneySound
  <2> QED
    BY <2>2, PaidForStays DEF PaidFor
<1>3. ASSUME NEW e \in Events, handleXenditWebhook(e) PROVE PaidFor(i)'
  <2> DEFINE l == e[1]
             m == [links EXCEPT ![l].status = e[2]]
  <2>0. l \in Links /\ links[l] \in LinkRows /\ links \in [Links -> LinkRows \cup {NoLink}]
    BY <1>3 DEF Events, handleXenditWebhook, Sound, LinksSound
  <2>1. e[2] = "succeeded" /\ i = links[l].invoice
    BY <1>0, <1>3 DEF handleXenditWebhook, Settles, UpdateStatus
  <2>2. m[l].invoice = i /\ m[l] \in LinkRows /\ m \in [Links -> LinkRows \cup {NoLink}]
    <3>1. e[2] \in Verdicts
      BY DEF Events
    <3> QED
      BY <2>0, <2>1, <3>1 DEF LinkRows
  <2>3. links' = [m EXCEPT ![l].confirmed = TRUE]
    BY <1>3, <2>1 DEF handleXenditWebhook
  <2> HIDE DEF m
  <2>4. links'[l].invoice = i /\ links'[l].confirmed
    BY <2>0, <2>2, <2>3 DEF LinkRows
  <2> QED
    BY <2>0, <2>4 DEF PaidFor, ConfirmedByGateway
<1>4. CustomerStep => \/ UNCHANGED status
                      \/ \E e \in Events : handleXenditWebhook(e)
  BY DEF CustomerStep, payInvoice, InsertLink, AbandonLink, recordDelivery, LoseDelivery
<1>5. ASSUME NEW c \in Clerks, Start(c) \/ Step(c) \/ Die(c) PROVE FlipPaid(c)
  BY <1>0, <1>5 DEF Start, Step, Die, CreateInvoice, IssueInvoice, ledger,
     CancelInvoice, RecordPayment, VerifyBAST, WriteIssued, WriteCancelled, InsertPayment,
     SumPayments, Reload, CheckCommission, InsertShare, Reward, ApproveInstall, UpdateStatus
<1> QED
  BY <1>2, <1>3, <1>4, <1>5 DEF CheckoutNext, Next, vars, ledger

\* Who comes to hold such a claim has just seen it true.
LEMMA ClaimWrites ==
    ASSUME Sound, [CheckoutNext]_<<vars, checkout>>, NEW c \in Clerks,
           clerks'[c] # clerks[c], clerks'[c].pc \in {"flip", "approve"}
    PROVE  \/ SumPayments(c) /\ clerks'[c].pc = "flip" /\ UNCHANGED payments
              /\ SumConfirmed(clerks[c].req.invoice) >= Total
              /\ clerks'[c].req.invoice = clerks[c].req.invoice
           \/ clerks'[c].pc = "approve" /\ status[clerks'[c].req.invoice] = "paid"
<1> DEFINE Goal ==
           \/ SumPayments(c) /\ clerks'[c].pc = "flip" /\ UNCHANGED payments
              /\ SumConfirmed(clerks[c].req.invoice) >= Total
              /\ clerks'[c].req.invoice = clerks[c].req.invoice
           \/ clerks'[c].pc = "approve" /\ status[clerks'[c].req.invoice] = "paid"
<1>0. clerks \in [Clerks -> ClerkStates]
  BY DEF Sound, RequestsOK
<1> SUFFICES ASSUME NEW d \in Clerks, Start(d) \/ Step(d) \/ Die(d) PROVE Goal
  BY DEF CheckoutNext, Next, vars
<1> HIDE DEF Goal
<1>1. ASSUME Return(d) PROVE Goal
  BY <1>0, <1>1 DEF Return, Idle
<1>2. ASSUME NEW pc, Goto(d, pc), pc \notin {"flip", "approve"} PROVE Goal
  BY <1>0, <1>2 DEF Goto, ClerkStates
<1>3. ASSUME NEW pc, NEW k, Begin(d, pc, k), pc # "approve", pc # "flip" PROVE Goal
  BY <1>0, <1>3 DEF Begin
<1>4. ASSUME UNCHANGED clerks PROVE Goal
  BY <1>4
<1>5. CASE Start(d)
  <2>1. PICK i \in Invoices :
          \/ CreateInvoice(d, i) \/ IssueInvoice(d, i) \/ CancelInvoice(d, i)
          \/ \E r \in Receipts, amount \in 1..Total : RecordPayment(d, i, r, amount)
          \/ i \in Otc /\ VerifyBAST(d, i)
    BY <1>5 DEF Start
  <2>2. CASE VerifyBAST(d, i)
    <3>1. CASE status[i] = "absent"
      BY <1>3, <2>2, <3>1 DEF VerifyBAST
    <3>2. CASE status[i] # "absent"
      <4>1. Begin(d, "approve", Request("verify", i)) /\ status[i] = "paid"
        BY <2>2, <3>2 DEF VerifyBAST, GateOpen
      <4>2. c = d /\ clerks'[c] = [pc |-> "approve", req |-> Request("verify", i)]
        BY <1>0, <4>1 DEF Begin
      <4> QED
        BY <4>1, <4>2 DEF Request, Goal
    <3> QED
      BY <3>1, <3>2
  <2> QED
    BY <1>3, <1>4, <2>1, <2>2 DEF CreateInvoice, IssueInvoice, CancelInvoice, RecordPayment
<1>6. CASE SumPayments(d)
  <2>1. CASE Covers(clerks[d].req.invoice, clerks[d].req.amount)
    <3>1. Goto(d, "flip") /\ SumConfirmed(clerks[d].req.invoice) >= Total /\ UNCHANGED payments
      BY <1>6, <2>1 DEF SumPayments, Covers, ledger
    <3>2. c = d
      BY <1>0, <3>1 DEF Goto
    <3>3. clerks'[c].pc = "flip" /\ clerks'[c].req = clerks[c].req
      BY <1>0, <3>1, <3>2 DEF Goto, ClerkStates
    <3> QED
      BY <1>6, <3>1, <3>2, <3>3 DEF Goal
  <2>2. CASE ~Covers(clerks[d].req.invoice, clerks[d].req.amount)
    BY <1>1, <1>6, <2>2 DEF SumPayments
  <2> QED
    BY <2>1, <2>2
<1>7. ASSUME NEW n, clerks' = [clerks EXCEPT ![d].pc = "share", ![d].req.share = n] PROVE Goal
  BY <1>0, <1>7 DEF ClerkStates
<1>8. CASE InsertShare(d)
  <2>1. CASE Goto(d, "reward")
    BY <1>2, <2>1
  <2>2. CASE clerks' = [clerks EXCEPT ![d].req.share = @ + 1]
    BY <1>0, <1>8, <2>2 DEF InsertShare, At, ClerkStates
  <2> QED
    BY <1>8, <2>1, <2>2 DEF InsertShare, NextShare
<1>9. CASE CheckCommission(d)
  <2>1. Goto(d, "reward") \/ clerks' = [clerks EXCEPT ![d].pc = "share", ![d].req.share = 1]
    BY <1>9 DEF CheckCommission
  <2> QED
    BY <1>2, <1>7, <2>1
<1>10. CASE \/ WriteIssued(d) \/ WriteCancelled(d) \/ InsertPayment(d) \/ FlipPaid(d) \/ Reload(d)
            \/ Reward(d) \/ ApproveInstall(d) \/ Die(d)
  <2>1. Return(d) \/ Goto(d, "sum") \/ Goto(d, "reload") \/ Goto(d, "commission")
    BY <1>10 DEF WriteIssued, WriteCancelled, InsertPayment, FlipPaid, Reload, Reward,
       ApproveInstall, Die
  <2> QED
    BY <1>1, <1>2, <2>1
<1> QED
  BY <1>5, <1>6, <1>8, <1>9, <1>10 DEF Step, Goal

LEMMA MoneyStep ==
    ASSUME Sound, MoneySound, [CheckoutNext]_<<vars, checkout>>
    PROVE  MoneySound'
<1>0. Sound'
  BY SoundStep
<1>1. PaidIsPaidFor'
  BY PaidWrites DEF PaidIsPaidFor, PaidFor
<1>2. InstalledIsPaidFor'
  <2> SUFFICES ASSUME NEW i \in Otc, installed'[i] = "charged" PROVE PaidFor(i)'
    BY DEF InstalledIsPaidFor, PaidFor
  <2>0. i \in Invoices /\ installed \in [Otc -> {"no", "free", "charged"}]
    BY InvoicesAssumption DEF Sound, TablesOK
  <2>1. CASE installed[i] = "charged"
    BY <2>0, <2>1, PaidForStays DEF MoneySound, InstalledIsPaidFor, PaidFor
  <2>2. CASE installed[i] # "charged"
    <3>1. PICK c \in Clerks : ApproveInstall(c)
      BY <2>2 DEF CheckoutNext, Next, vars, ledger, Start, Step, Die, CreateInvoice, IssueInvoice,
         CancelInvoice, RecordPayment, VerifyBAST, WriteIssued, WriteCancelled, InsertPayment,
         SumPayments, FlipPaid, Reload, CheckCommission, InsertShare, Reward
    <3>2. At(c, "approve") /\ clerks[c].req.invoice = i
      BY <2>0, <2>2, <3>1 DEF ApproveInstall
    <3> QED
      BY <2>0, <3>2, PaidForStays DEF MoneySound
  <2> QED
    BY <2>1, <2>2
<1>3. ASSUME NEW c \in Clerks, clerks'[c].pc \in {"flip", "approve"}
      PROVE  /\ clerks'[c].pc = "flip" => (SumConfirmed(clerks[c].req.invoice) >= Total)'
             /\ clerks'[c].pc = "approve" => PaidFor(clerks[c].req.invoice)'
  <2>0. clerks'[c].req.invoice \in Invoices
    BY <1>0, <1>3, InvoicesAssumption DEF Sound, RequestsOK, Holds
  <2>1. PICK i \in Invoices : i = clerks'[c].req.invoice
    BY <2>0
  <2>2. /\ clerks'[c].pc = "flip" => SumConfirmed(i)' >= Total
        /\ clerks'[c].pc = "approve" => PaidFor(i)'
    <3>1. CASE clerks'[c] = clerks[c]
      BY <2>1, <3>1, PaidForStays DEF MoneySound, At
    <3>2. CASE clerks'[c] # clerks[c]
      BY <1>1, <1>3, <2>1, <3>2, ClaimWrites, PaidForStays
      DEF MoneySound, PaidIsPaidFor, PaidFor
    <3> QED
      BY <3>1, <3>2
  <2> QED
    BY <2>1, <2>2 DEF SumConfirmed, PaidFor, ConfirmedByGateway
<1> QED
  BY <1>1, <1>2, <1>3 DEF MoneySound, At

\* An invoice is paid only if recorded payments cover it or the gateway took
\* the money, for any number of links, callbacks, requests and deaths.
THEOREM PaidIsPaidForAlways == CheckoutSpec => []PaidIsPaidFor
<1>1. CheckoutInit => MoneySound
  BY DEF CheckoutInit, Init, MoneySound, PaidIsPaidFor, InstalledIsPaidFor, At, Idle
<1>2. MoneySound => PaidIsPaidFor
  BY DEF MoneySound
<1> QED
  BY <1>1, <1>2, MoneyStep, Soundness, PTL DEF CheckoutSpec

\* Nor is an installation approved at the gate before its one-time charge
\* was paid for, whatever happens to the invoice afterwards.
THEOREM InstalledIsPaidForAlways == CheckoutSpec => []InstalledIsPaidFor
<1>1. CheckoutInit => MoneySound
  BY DEF CheckoutInit, Init, MoneySound, PaidIsPaidFor, InstalledIsPaidFor, At, Idle
<1>2. MoneySound => InstalledIsPaidFor
  BY DEF MoneySound
<1> QED
  BY <1>1, <1>2, MoneyStep, Soundness, PTL DEF CheckoutSpec

-----------------------------------------------------------------------------
(* Where payments overlap only each other and nobody dies, an invoice that   *)
(* is covered is paid, or some payment is about to see to it; and so for its *)
(* commission rows                                                           *)

OnlyPaymentsOverlap == MayOverlap \subseteq {"pay"}

Covered(i) == SumConfirmed(i) >= Total

Complete(i) == \A s \in 1..Shares : commissions[i][s] # None

\* Some clerk is at one of these statements for the invoice.
SeenTo(i, statements) ==
    \E c \in Clerks : clerks[c].pc \in statements /\ clerks[c].req.invoice = i

Alone ==
    \A c, d \in Clerks :
        c # d /\ clerks[c] # Idle /\ clerks[d] # Idle =>
            clerks[c].req.op = "pay" /\ clerks[d].req.op = "pay"

\* A split in progress has written the rows before the one it is at.
SharesDone ==
    \A c \in Clerks :
        At(c, "share") =>
            \A s \in 1..Shares :
                s < clerks[c].req.share => commissions[clerks[c].req.invoice][s] # None

Settling ==
    /\ \A i \in Invoices : Covered(i) => status[i] = "paid" \/ SeenTo(i, {"sum", "flip"})
    /\ \A c \in Clerks :
          /\ clerks[c].pc \in {"issue", "cancel"} => ~Covered(clerks[c].req.invoice)
          /\ At(c, "reload") => status[clerks[c].req.invoice] = "paid"

Splitting ==
    \A i \in Otc :
        /\ Covered(i) =>
              Complete(i) \/ SeenTo(i, {"sum", "flip", "reload", "commission", "share"})
        /\ ExistsForOrder(i) => Complete(i) \/ SeenTo(i, {"share"})

SettleInv == Alone /\ SharesDone /\ (deaths = 0 => Settling /\ Splitting)

\* A request's step leaves the others where they are, and keeps to its own
\* kind of request.
LEMMA OthersStay ==
    ASSUME Sound, NEW c \in Clerks, Start(c) \/ Step(c) \/ Die(c)
    PROVE  /\ \A d \in Clerks : d # c => clerks'[d] = clerks[d]
           /\ \/ UNCHANGED clerks
              \/ clerks'[c] = Idle
              \/ clerks[c] # Idle /\ clerks'[c].req.op = clerks[c].req.op
              \/ Free(c, clerks'[c].req.op)
<1> DEFINE Goal == /\ \A d \in Clerks : d # c => clerks'[d] = clerks[d]
                   /\ \/ UNCHANGED clerks
                      \/ clerks'[c] = Idle
                      \/ clerks[c] # Idle /\ clerks'[c].req.op = clerks[c].req.op
                      \/ Free(c, clerks'[c].req.op)
<1>0. clerks \in [Clerks -> ClerkStates] /\ Holds(clerks[c])
  BY DEF Sound, RequestsOK
<1>1. ASSUME NEW pc, NEW k, Begin(c, pc, k), Free(c, k.op) PROVE Goal
  <2>1. clerks'[c] = [pc |-> pc, req |-> k] /\ \A d \in Clerks : d # c => clerks'[d] = clerks[d]
    BY <1>0, <1>1 DEF Begin
  <2> QED
    BY <1>1, <2>1 DEF Free
<1>2. CASE Start(c)
  <2>1. PICK i \in Invoices :
          \/ CreateInvoice(c, i) \/ IssueInvoice(c, i) \/ CancelInvoice(c, i)
          \/ \E r \in Receipts, amount \in 1..Total : RecordPayment(c, i, r, amount)
          \/ i \in Otc /\ VerifyBAST(c, i)
    BY <1>2 DEF Start
  <2>2. CASE CreateInvoice(c, i)
    BY <2>2 DEF CreateInvoice
  <2>3. CASE IssueInvoice(c, i) \/ CancelInvoice(c, i) \/ VerifyBAST(c, i)
    <3>1. \E op, pc : Begin(c, pc, Request(op, i)) /\ Free(c, op) /\ Request(op, i).op = op
      BY <2>3 DEF IssueInvoice, CancelInvoice, VerifyBAST, Request
    <3> QED
      BY <1>1, <3>1
  <2>4. ASSUME NEW r \in Receipts, NEW amount \in 1..Total, RecordPayment(c, i, r, amount)
        PROVE  Goal
    <3> DEFINE k == [Request("pay", i) EXCEPT !.receipt = r, !.amount = amount]
    <3>1. Begin(c, "insert", k) /\ Free(c, "pay") /\ k.op = "pay"
      BY <2>4 DEF RecordPayment, Request
    <3> HIDE DEF k
    <3> QED
      BY <1>1, <3>1
  <2> QED
    BY <2>1, <2>2, <2>3, <2>4
<1>3. CASE Step(c) \/ Die(c)
  <2>0. ASSUME Return(c) PROVE Goal
    BY <1>0, <2>0 DEF Return
  <2>1. ASSUME clerks[c].pc # "idle", NEW pc \in Pcs, Goto(c, pc) PROVE Goal
    <3>1. PICK k \in ClerkStates : clerks' = [clerks EXCEPT ![c] = k] /\ k.req = clerks[c].req
      BY <2>1, GotoIs DEF Sound
    <3> QED
      BY <1>0, <2>1, <3>1 DEF Idle
  <2>2. ASSUME clerks[c].pc # "idle", NEW n,
               clerks' = [clerks EXCEPT ![c].pc = "share", ![c].req.share = n]
               \/ clerks' = [clerks EXCEPT ![c].req.share = n]
        PROVE  Goal
    BY <1>0, <2>2 DEF ClerkStates, Idle
  <2>3. CASE \/ WriteIssued(c) \/ WriteCancelled(c) \/ Reward(c) \/ ApproveInstall(c) \/ Die(c)
    BY <2>0, <2>3 DEF WriteIssued, WriteCancelled, Reward, ApproveInstall, Die
  <2>4. CASE \/ InsertPayment(c) \/ SumPayments(c) \/ FlipPaid(c) \/ Reload(c)
    <3>1. /\ clerks[c].pc # "idle"
          /\ \/ Return(c) \/ Goto(c, "sum") \/ Goto(c, "flip") \/ Goto(c, "reload")
             \/ Goto(c, "commission")
      BY <2>4 DEF InsertPayment, SumPayments, FlipPaid, Reload, At
    <3> QED
      BY <2>0, <2>1, <3>1 DEF Pcs
  <2>5. CASE CheckCommission(c) \/ InsertShare(c)
    <3>1. /\ clerks[c].pc # "idle"
          /\ \/ Goto(c, "reward")
             \/ clerks' = [clerks EXCEPT ![c].pc = "share", ![c].req.share = 1]
             \/ clerks' = [clerks EXCEPT ![c].req.share = clerks[c].req.share + 1]
      BY <1>0, <2>5 DEF CheckCommission, InsertShare, NextShare, At
    <3> QED
      BY <2>1, <2>2, <3>1 DEF Pcs
  <2> QED
    BY <1>3, <2>3, <2>4, <2>5 DEF Step
<1> QED
  BY <1>2, <1>3

LEMMA AloneStep ==
    ASSUME OnlyPaymentsOverlap, Sound, Alone, [CheckoutNext]_<<vars, checkout>>
    PROVE  Alone'
<1>1. ASSUME UNCHANGED clerks PROVE Alone'
  BY <1>1 DEF Alone
<1>2. ASSUME NEW c \in Clerks, Start(c) \/ Step(c) \/ Die(c) PROVE Alone'
  <2>1. \A d \in Clerks : d # c => clerks'[d] = clerks[d]
    BY <1>2, OthersStay
  <2>2. CASE clerks'[c] = Idle
    BY <2>1, <2>2 DEF Alone
  <2>3. CASE clerks[c] # Idle /\ clerks'[c].req.op = clerks[c].req.op
    BY <2>1, <2>3 DEF Alone
  <2>4. CASE Free(c, clerks'[c].req.op)
    BY <2>1, <2>4 DEF Alone, Free, OnlyPaymentsOverlap
  <2> QED
    BY <1>1, <1>2, <2>2, <2>3, <2>4, OthersStay
<1> QED
  BY <1>1, <1>2 DEF CheckoutNext, Next, vars
\* A row of a split is written once.
LEMMA CommissionsKept ==
    ASSUME Sound, [CheckoutNext]_<<vars, checkout>>,
           NEW i \in Otc, NEW s \in 1..Shares, commissions[i][s] # None
    PROVE  commissions'[i][s] # None
<1>0. commissions \in [Otc -> [1..Shares -> Receipts \cup {None}]]
  BY DEF Sound, TablesOK
<1>1. ASSUME NEW c \in Clerks, InsertShare(c) PROVE commissions'[i][s] # None
  <2> DEFINE j == clerks[c].req.invoice
             n == clerks[c].req.share
             r == clerks[c].req.receipt
  <2>1. \/ UNCHANGED commissions
        \/ /\ commissions[j][n] = None
           /\ commissions' = [commissions EXCEPT ![j][n] = r]
    BY <1>1 DEF InsertShare
  <2> HIDE DEF j, n, r
  <2> QED
    BY <1>0, <2>1
<1> QED
  BY <1>1 DEF CheckoutNext, vars, ledger, Next, Start, Step, Die, CreateInvoice, IssueInvoice,
     CancelInvoice, RecordPayment, VerifyBAST, WriteIssued, WriteCancelled, InsertPayment,
     SumPayments, FlipPaid, Reload, CheckCommission, Reward, ApproveInstall

LEMMA GotoGives ==
    ASSUME Sound, NEW c \in Clerks, NEW pc \in Pcs, Goto(c, pc)
    PROVE  clerks'[c].pc = pc /\ clerks'[c].req = clerks[c].req
<1>1. clerks \in [Clerks -> ClerkStates]
  BY DEF Sound, RequestsOK
<1>2. PICK k \in ClerkStates :
        clerks' = [clerks EXCEPT ![c] = k] /\ k.pc = pc /\ k.req = clerks[c].req
  BY GotoIs DEF Sound
<1> QED
  BY <1>1, <1>2

\* A clerk at its first row, or at the next one.
LEMMA AtShare ==
    ASSUME Sound, NEW c \in Clerks, NEW n \in 1..Shares,
           \/ clerks' = [clerks EXCEPT ![c].pc = "share", ![c].req.share = n]
           \/ /\ At(c, "share")
              /\ clerks' = [clerks EXCEPT ![c].req.share = n]
    PROVE  /\ clerks'[c].pc = "share" /\ clerks'[c].req.share = n
           /\ clerks'[c].req.invoice = clerks[c].req.invoice
<1>1. clerks \in [Clerks -> ClerkStates]
  BY DEF Sound, RequestsOK
<1> QED
  BY <1>1 DEF ClerkStates, At

\* A split goes from row to row until it has written them all.
LEMMA ShareEnds ==
    ASSUME Sound, SharesDone, [CheckoutNext]_<<vars, checkout>>,
           NEW c \in Clerks, InsertShare(c), NEW i \in Otc, clerks[c].req.invoice = i
    PROVE  \/ /\ clerks'[c].pc = "share" /\ clerks'[c].req.invoice = i
              /\ \A s \in 1..Shares : s < clerks'[c].req.share => commissions'[i][s] # None
           \/ clerks'[c].pc = "reward" /\ Complete(i)'
<1> DEFINE n == clerks[c].req.share
           r == clerks[c].req.receipt
<1>0. commissions \in [Otc -> [1..Shares -> Receipts \cup {None}]] /\ At(c, "share")
  BY DEF Sound, TablesOK, InsertShare
<1>1. n \in 1..Shares /\ r \in Receipts /\ Shares \in Nat
  BY <1>0, InvoicesAssumption DEF Sound, RequestsOK, Holds, At
<1>2. \A s \in 1..Shares : s < n => commissions'[i][s] # None
  BY <1>0, CommissionsKept DEF SharesDone
<1>3. commissions'[i][n] # None
  <2>1. commissions' = IF commissions[i][n] = None
                       THEN [commissions EXCEPT ![i][n] = r] ELSE commissions
    BY DEF InsertShare
  <2> HIDE DEF n, r
  <2> QED
    BY <1>0, <1>1, <2>1, InvoicesAssumption
<1>4. \A s \in 1..Shares : s < n + 1 => commissions'[i][s] # None
  <2> HIDE DEF n
  <2> QED
    BY <1>1, <1>2, <1>3
<1>5. CASE n = Shares
  <2>1. clerks'[c].pc = "reward"
    BY <1>5, GotoGives DEF InsertShare, NextShare, Pcs
  <2>2. \A s \in 1..Shares : commissions'[i][s] # None
    <3> HIDE DEF n
    <3> QED
      BY <1>1, <1>4, <1>5
  <2> QED
    BY <2>1, <2>2 DEF Complete
<1>6. CASE n # Shares
  <2>1. clerks' = [clerks EXCEPT ![c].req.share = n + 1]
    BY <1>6 DEF InsertShare, NextShare
  <2> HIDE DEF n
  <2>2. n + 1 \in 1..Shares
    BY <1>1, <1>6
  <2>3. clerks'[c].pc = "share" /\ clerks'[c].req.share = n + 1
        /\ clerks'[c].req.invoice = clerks[c].req.invoice
    BY <1>0, <2>1, <2>2, AtShare
  <2> QED
    BY <1>4, <2>3
<1> QED
  BY <1>5, <1>6

\* Who comes to a statement of the split.
LEMMA ShareBegins ==
    ASSUME Sound, NEW c \in Clerks, Start(c) \/ Step(c) \/ Die(c),
           clerks'[c] # clerks[c], clerks'[c].pc = "share"
    PROVE  InsertShare(c) \/ (CheckCommission(c) /\ clerks'[c].req.share = 1)
<1>0. clerks \in [Clerks -> ClerkStates]
  BY DEF Sound, RequestsOK
<1>1. ASSUME Return(c) PROVE FALSE
  BY <1>0, <1>1 DEF Return, Idle
<1>2. ASSUME NEW pc \in Pcs, Goto(c, pc), pc # "share" PROVE FALSE
  BY <1>2, GotoGives
<1>3. ASSUME NEW pc, NEW k, Begin(c, pc, k), pc # "share" PROVE FALSE
  BY <1>0, <1>3 DEF Begin
<1>4. CASE Start(c)
  <2>1. PICK i \in Invoices :
          \/ CreateInvoice(c, i) \/ IssueInvoice(c, i) \/ CancelInvoice(c, i)
          \/ \E r \in Receipts, amount \in 1..Total : RecordPayment(c, i, r, amount)
          \/ i \in Otc /\ VerifyBAST(c, i)
    BY <1>4 DEF Start
  <2>2. CASE VerifyBAST(c, i)
    BY <1>3, <2>2 DEF VerifyBAST
  <2> QED
    BY <1>3, <2>1, <2>2 DEF CreateInvoice, IssueInvoice, CancelInvoice, RecordPayment
<1>5. CASE CheckCommission(c)
  <2>1. CASE Goto(c, "reward")
    BY <1>2, <2>1 DEF Pcs
  <2>2. CASE clerks' = [clerks EXCEPT ![c].pc = "share", ![c].req.share = 1]
    <3>1. 1 \in 1..Shares
      BY InvoicesAssumption
    <3>2. clerks'[c].req.share = 1
      BY <2>2, <3>1, AtShare
    <3> QED
      BY <1>5, <3>2
  <2> QED
    BY <1>5, <2>1, <2>2 DEF CheckCommission
<1>6. CASE \/ WriteIssued(c) \/ WriteCancelled(c) \/ InsertPayment(c) \/ SumPayments(c)
           \/ FlipPaid(c) \/ Reload(c) \/ Reward(c) \/ ApproveInstall(c) \/ Die(c)
  <2>1. \/ Return(c) \/ Goto(c, "sum") \/ Goto(c, "flip") \/ Goto(c, "reload")
        \/ Goto(c, "commission")
    BY <1>6 DEF WriteIssued, WriteCancelled, InsertPayment, SumPayments, FlipPaid, Reload,
       Reward, ApproveInstall, Die
  <2> QED
    BY <1>1, <1>2, <2>1 DEF Pcs
<1> QED
  BY <1>4, <1>5, <1>6 DEF Step

LEMMA SharesDoneStep ==
    ASSUME Sound, SharesDone, [CheckoutNext]_<<vars, checkout>>
    PROVE  SharesDone'
<1>0. \A c \in Clerks : At(c, "share") => clerks[c].req.invoice \in Otc
  BY DEF Sound, RequestsOK, Holds, At
<1> SUFFICES ASSUME NEW c \in Clerks, clerks'[c].pc = "share",
                    NEW s \in 1..Shares, s < clerks'[c].req.share
             PROVE  commissions'[clerks'[c].req.invoice][s] # None
  BY DEF SharesDone, At
<1>1. CASE clerks'[c] = clerks[c]
  BY <1>0, <1>1, CommissionsKept DEF SharesDone, At
<1>2. CASE clerks'[c] # clerks[c]
  <2>1. Start(c) \/ Step(c) \/ Die(c)
    BY <1>2, OthersStay DEF CheckoutNext, Next, vars
  <2>2. CASE InsertShare(c)
    <3>1. PICK i \in Otc : clerks[c].req.invoice = i
      BY <1>0, <2>2 DEF InsertShare
    <3>2. clerks'[c].req.invoice = i /\ \A x \in 1..Shares : x < clerks'[c].req.share => commissions'[i][x] # None
      BY <2>2, <3>1, ShareEnds
    <3> QED
      BY <3>2
  <2>3. CASE clerks'[c].req.share = 1
    BY <2>3
  <2> QED
    BY <1>2, <2>1, <2>2, <2>3, ShareBegins
<1> QED
  BY <1>1, <1>2
\* A clerk elsewhere stays where it sees to the invoice.
LEMMA SeenToStays ==
    ASSUME Sound, NEW c \in Clerks, Start(c) \/ Step(c) \/ Die(c), NEW i, NEW statements,
           SeenTo(i, statements),
           clerks[c].pc \in statements /\ clerks[c].req.invoice = i =>
               clerks'[c].pc \in statements /\ clerks'[c].req.invoice = i
    PROVE  SeenTo(i, statements)'
<1>1. PICK d \in Clerks : clerks[d].pc \in statements /\ clerks[d].req.invoice = i
  BY DEF SeenTo
<1>2. clerks'[d].pc \in statements /\ clerks'[d].req.invoice = i
  BY <1>1, OthersStay
<1> QED
  BY <1>2 DEF SeenTo

\* Nobody else is at work beside a request that runs alone.
LEMMA AloneIs ==
    ASSUME Sound, Alone, NEW c \in Clerks, NEW d \in Clerks, c # d,
           clerks[c].pc \in {"issue", "cancel"}
    PROVE  clerks[d] = Idle
<1>1. clerks[c] # Idle /\ clerks[c].req.op # "pay"
  BY DEF Sound, RequestsOK, Holds, Idle
<1> QED
  BY <1>1 DEF Alone

LEMMA StartsAlone ==
    ASSUME OnlyPaymentsOverlap, NEW c \in Clerks, NEW op, op # "pay", Free(c, op)
    PROVE  \A d \in Clerks : clerks[d] = Idle
BY DEF OnlyPaymentsOverlap, Free

\* What a step makes of the status of a covered invoice.
LEMMA CoveredStatus ==
    ASSUME OnlyPaymentsOverlap, Sound, Settling, NEW c \in Clerks, Start(c) \/ Step(c),
           NEW i \in Invoices, Covered(i), status[i] = "paid"
    PROVE  status'[i] = "paid"
<1>0. status \in [Invoices -> Statuses \cup {"absent"}]
  BY DEF Sound, TablesOK
<1>1. ASSUME NEW j \in Invoices, CreateInvoice(c, j) PROVE status'[i] = "paid"
  BY <1>0, <1>1 DEF CreateInvoice, UpdateStatus
<1>2. CASE WriteIssued(c) \/ WriteCancelled(c)
  <2>1. clerks[c].req.invoice # i
    BY <1>2 DEF Settling, WriteIssued, WriteCancelled, At
  <2> QED
    BY <1>0, <1>2, <2>1 DEF WriteIssued, WriteCancelled, UpdateStatus
<1>3. CASE FlipPaid(c)
  BY <1>0, <1>3 DEF FlipPaid, UpdateStatus
<1> QED
  BY <1>1, <1>2, <1>3 DEF Start, Step, IssueInvoice, CancelInvoice, RecordPayment, VerifyBAST,
     InsertPayment, SumPayments, Reload, CheckCommission, InsertShare, Reward, ApproveInstall, ledger

\* A clerk at a statement that sees to its invoice can take no other action.
LEMMA AtWork ==
    ASSUME NEW c \in Clerks, Start(c) \/ Step(c)
    PROVE  /\ At(c, "sum") => SumPayments(c)
           /\ At(c, "flip") => FlipPaid(c)
           /\ At(c, "reload") => Reload(c)
           /\ At(c, "commission") => CheckCommission(c)
           /\ At(c, "share") => InsertShare(c)
<1>1. CASE Start(c)
  <2>1. clerks[c] = Idle
    BY <1>1 DEF Start, Free, CreateInvoice, IssueInvoice, CancelInvoice, RecordPayment, VerifyBAST
  <2> QED
    BY <2>1 DEF Idle, At
<1>2. CASE Step(c)
  BY <1>2 DEF Step, At, WriteIssued, WriteCancelled, InsertPayment, SumPayments, FlipPaid, Reload,
     CheckCommission, InsertShare, Reward, ApproveInstall
<1> QED
  BY <1>1, <1>2

LEMMA SumSees ==
    ASSUME Sound, NEW c \in Clerks, SumPayments(c), NEW i \in Invoices,
           clerks[c].req.invoice = i, Covered(i)
    PROVE  clerks'[c].pc = "flip" /\ clerks'[c].req.invoice = i
<1>1. Goto(c, "flip")
  BY DEF SumPayments, Covers, Covered
<1> QED
  BY <1>1, GotoGives DEF Pcs

\* An invoice whose sum changed is one whose payment is about to sum.
LEMMA InsertSees ==
    ASSUME Sound, [CheckoutNext]_<<vars, checkout>>, NEW i \in Invoices,
           NEW statements, "sum" \in statements, Covered(i)'
    PROVE  Covered(i) \/ SeenTo(i, statements)'
<1>1. CASE SumConfirmed(i)' = SumConfirmed(i)
  BY <1>1 DEF Covered
<1>2. ASSUME NEW c \in Clerks, Goto(c, "sum"), clerks[c].req.invoice = i
      PROVE  SeenTo(i, statements)'
  <2>1. clerks'[c].pc = "sum" /\ clerks'[c].req = clerks[c].req
    BY <1>2, GotoGives DEF Pcs
  <2> QED
    BY <1>2, <2>1 DEF SeenTo
<1> QED
  BY <1>1, <1>2, SumsGrow

LEMMA PaidOrSeenTo ==
    ASSUME OnlyPaymentsOverlap, Sound, Settling, [CheckoutNext]_<<vars, checkout>>,
           NEW c \in Clerks, Start(c) \/ Step(c), NEW i \in Invoices, Covered(i)'
    PROVE  status'[i] = "paid" \/ SeenTo(i, {"sum", "flip"})'
<1> SUFFICES ASSUME Covered(i) PROVE status'[i] = "paid" \/ SeenTo(i, {"sum", "flip"})'
  BY InsertSees
<1>0. status \in [Invoices -> Statuses \cup {"absent"}]
  BY DEF Sound, TablesOK
<1>1. CASE status[i] = "paid"
  BY <1>1, CoveredStatus
<1>2. CASE SeenTo(i, {"sum", "flip"})
  <2>1. CASE At(c, "sum") /\ clerks[c].req.invoice = i
    BY <1>2, <2>1, AtWork, SumSees, SeenToStays
  <2>2. CASE At(c, "flip") /\ clerks[c].req.invoice = i
    BY <1>0, <2>2, AtWork DEF FlipPaid, UpdateStatus
  <2>3. CASE ~(clerks[c].pc \in {"sum", "flip"} /\ clerks[c].req.invoice = i)
    BY <1>2, <2>3, SeenToStays
  <2> QED
    BY <2>1, <2>2, <2>3 DEF At
<1> QED
  BY <1>1, <1>2 DEF Settling
\* Who comes to write a status, and who to reload it.
LEMMA StatusBegins ==
    ASSUME Sound, NEW c \in Clerks, Start(c) \/ Step(c), clerks'[c] # clerks[c]
    PROVE  /\ clerks'[c].pc \in {"issue", "cancel"} =>
                  \E i \in Invoices : /\ IssueInvoice(c, i) \/ CancelInvoice(c, i)
                                      /\ clerks'[c].req.invoice = i
           /\ clerks'[c].pc = "reload" =>
                  FlipPaid(c) /\ clerks'[c].req.invoice = clerks[c].req.invoice
<1> DEFINE Goal ==
           /\ clerks'[c].pc \in {"issue", "cancel"} =>
                  \E i \in Invoices : /\ IssueInvoice(c, i) \/ CancelInvoice(c, i)
                                      /\ clerks'[c].req.invoice = i
           /\ clerks'[c].pc = "reload" =>
                  FlipPaid(c) /\ clerks'[c].req.invoice = clerks[c].req.invoice
<1>0. clerks \in [Clerks -> ClerkStates]
  BY DEF Sound, RequestsOK
<1>1. ASSUME Return(c) PROVE Goal
  BY <1>0, <1>1 DEF Return, Idle
<1>2. ASSUME NEW pc \in Pcs, Goto(c, pc), pc \notin {"issue", "cancel", "reload"} PROVE Goal
  BY <1>2, GotoGives
<1>3. ASSUME NEW pc, NEW k, Begin(c, pc, k), pc \notin {"issue", "cancel", "reload"} PROVE Goal
  BY <1>0, <1>3 DEF Begin
<1>4. CASE Start(c)
  <2>1. PICK i \in Invoices :
          \/ CreateInvoice(c, i) \/ IssueInvoice(c, i) \/ CancelInvoice(c, i)
          \/ \E r \in Receipts, amount \in 1..Total : RecordPayment(c, i, r, amount)
          \/ i \in Otc /\ VerifyBAST(c, i)
    BY <1>4 DEF Start
  <2>2. CASE VerifyBAST(c, i)
    BY <1>3, <2>2 DEF VerifyBAST
  <2>3. CASE IssueInvoice(c, i) \/ CancelInvoice(c, i)
    <3>1. PICK op \in {"issue", "cancel"} : Begin(c, op, Request(op, i))
      BY <2>3 DEF IssueInvoice, CancelInvoice
    <3>2. clerks'[c].pc = op /\ clerks'[c].req.invoice = i
      BY <1>0, <3>1 DEF Begin, Request
    <3> QED
      BY <2>3, <3>2
  <2>4. CASE CreateInvoice(c, i)
    BY <2>4 DEF CreateInvoice
  <2>5. CASE \E r \in Receipts, amount \in 1..Total : RecordPayment(c, i, r, amount)
    BY <1>3, <2>5 DEF RecordPayment
  <2> QED
    BY <2>1, <2>2, <2>3, <2>4, <2>5
<1>5. CASE FlipPaid(c)
  BY <1>5, GotoGives DEF FlipPaid, Pcs
<1>6. CASE CheckCommission(c) \/ InsertShare(c)
  <2>1. CASE Goto(c, "reward")
    BY <1>2, <2>1 DEF Pcs
  <2>2. CASE clerks' = [clerks EXCEPT ![c].pc = "share", ![c].req.share = 1]
    BY <1>0, <2>2 DEF ClerkStates
  <2>3. CASE At(c, "share") /\ clerks' = [clerks EXCEPT ![c].req.share = @ + 1]
    BY <1>0, <2>3 DEF ClerkStates, At
  <2> QED
    BY <1>6, <2>1, <2>2, <2>3 DEF CheckCommission, InsertShare, NextShare
<1>7. CASE \/ WriteIssued(c) \/ WriteCancelled(c) \/ InsertPayment(c) \/ SumPayments(c)
           \/ Reload(c) \/ Reward(c) \/ ApproveInstall(c)
  <2>1. Return(c) \/ Goto(c, "sum") \/ Goto(c, "flip") \/ Goto(c, "commission")
    BY <1>7 DEF WriteIssued, WriteCancelled, InsertPayment, SumPayments, Reload, Reward,
       ApproveInstall
  <2> QED
    BY <1>1, <1>2, <2>1 DEF Pcs
<1> QED
  BY <1>4, <1>5, <1>6, <1>7 DEF Step

\* A status is written for an invoice that is not covered, by a request that
\* checked it while no payment was under way.
LEMMA WritersUncovered ==
    ASSUME OnlyPaymentsOverlap, Sound, Alone, Settling, [CheckoutNext]_<<vars, checkout>>,
           NEW c \in Clerks, Start(c) \/ Step(c),
           NEW d \in Clerks, clerks'[d].pc \in {"issue", "cancel"},
           NEW i \in Invoices, clerks'[d].req.invoice = i
    PROVE  ~Covered(i)'
<1> SUFFICES ~Covered(i) /\ SumConfirmed(i)' = SumConfirmed(i)
  BY DEF Covered
<1>1. CASE clerks'[d] = clerks[d]
  <2>1. ~Covered(i)
    BY <1>1 DEF Settling
  <2>2. ASSUME NEW e \in Clerks, InsertPayment(e) PROVE FALSE
    <3>1. e # d /\ clerks[e] # Idle
      BY <1>1, <2>2 DEF InsertPayment, At, Idle
    <3> QED
      BY <1>1, <3>1, AloneIs
  <2> QED
    BY <2>1, <2>2, SumsGrow
<1>2. CASE clerks'[d] # clerks[d]
  <2>1. d = c
    BY <1>2, OthersStay
  <2>2. IssueInvoice(c, i) \/ CancelInvoice(c, i)
    BY <1>2, <2>1, StatusBegins
  <2>3. (\A e \in Clerks : clerks[e] = Idle) /\ UNCHANGED payments /\ status[i] # "paid"
    <3>1. Free(c, "issue") \/ Free(c, "cancel")
      BY <2>2 DEF IssueInvoice, CancelInvoice
    <3>2. \A e \in Clerks : clerks[e] = Idle
      BY <3>1, StartsAlone
    <3> QED
      BY <2>2, <3>2 DEF IssueInvoice, CancelInvoice, MayCancel, ledger
  <2>4. ~Covered(i)
    BY <2>3 DEF Settling, SeenTo, Idle
  <2> QED
    BY <2>3, <2>4 DEF SumConfirmed
<1> QED
  BY <1>1, <1>2

\* A reloaded invoice is still paid: nobody writes its status meanwhile.
LEMMA ReloadsPaid ==
    ASSUME OnlyPaymentsOverlap, Sound, Alone, Settling, NEW c \in Clerks, Start(c) \/ Step(c),
           NEW d \in Clerks, clerks'[d].pc = "reload",
           NEW i \in Invoices, clerks'[d].req.invoice = i
    PROVE  status'[i] = "paid"
<1>0. status \in [Invoices -> Statuses \cup {"absent"}]
  BY DEF Sound, TablesOK
<1>1. CASE clerks'[d] = clerks[d]
  <2>1. status[i] = "paid" /\ clerks[d] # Idle
    BY <1>1 DEF Settling, At, Idle
  <2>2. ASSUME WriteIssued(c) \/ WriteCancelled(c) PROVE FALSE
    <3>1. c # d /\ clerks[c].pc \in {"issue", "cancel"}
      BY <1>1, <2>2 DEF WriteIssued, WriteCancelled, At
    <3> QED
      BY <2>1, <3>1, AloneIs
  <2>3. ASSUME NEW j \in Invoices, CreateInvoice(c, j) PROVE status'[i] = "paid"
    BY <1>0, <2>1, <2>3 DEF CreateInvoice, UpdateStatus
  <2>4. CASE FlipPaid(c)
    BY <1>0, <2>1, <2>4 DEF FlipPaid, UpdateStatus
  <2> QED
    BY <2>1, <2>2, <2>3, <2>4 DEF Start, Step, IssueInvoice, CancelInvoice, RecordPayment,
       VerifyBAST, InsertPayment, SumPayments, Reload, CheckCommission, InsertShare, Reward,
       ApproveInstall, ledger
<1>2. CASE clerks'[d] # clerks[d]
  <2>1. d = c
    BY <1>2, OthersStay
  <2>2. FlipPaid(c) /\ clerks[c].req.invoice = i
    BY <1>2, <2>1, StatusBegins
  <2> QED
    BY <1>0, <2>2 DEF FlipPaid, UpdateStatus
<1> QED
  BY <1>1, <1>2

LEMMA SettlingStep ==
    ASSUME OnlyPaymentsOverlap, Sound, Alone, Settling, [CheckoutNext]_<<vars, checkout>>,
           NEW c \in Clerks, Start(c) \/ Step(c)
    PROVE  Settling'
<1>0. \A d \in Clerks : clerks'[d].pc \in {"issue", "cancel", "reload"} =>
                            clerks'[d].req.invoice \in Invoices
  BY SoundStep DEF Sound, RequestsOK, Holds
<1>1. ASSUME NEW i \in Invoices, Covered(i)'
      PROVE  status'[i] = "paid" \/ SeenTo(i, {"sum", "flip"})'
  BY <1>1, PaidOrSeenTo
<1>2. ASSUME NEW d \in Clerks, clerks'[d].pc \in {"issue", "cancel"}
      PROVE  ~Covered(clerks[d].req.invoice)'
  <2>1. PICK i \in Invoices : clerks'[d].req.invoice = i
    BY <1>0, <1>2
  <2>2. ~Covered(i)'
    BY <1>2, <2>1, WritersUncovered
  <2> QED
    BY <2>1, <2>2 DEF Covered, SumConfirmed
<1>3. ASSUME NEW d \in Clerks, clerks'[d].pc = "reload"
      PROVE  status'[clerks'[d].req.invoice] = "paid"
  BY <1>0, <1>3, ReloadsPaid
<1> QED
  BY <1>1, <1>2, <1>3 DEF Settling, At
\* Once a row of a split exists, the split is complete or going on.
LEMMA SplitGoesOn ==
    ASSUME Sound, SharesDone, Splitting, [CheckoutNext]_<<vars, checkout>>,
           NEW c \in Clerks, Start(c) \/ Step(c), NEW i \in Otc, ExistsForOrder(i)'
    PROVE  Complete(i)' \/ SeenTo(i, {"share"})'
<1>0. commissions \in [Otc -> [1..Shares -> Receipts \cup {None}]]
  BY DEF Sound, TablesOK
<1>1. CASE InsertShare(c) /\ clerks[c].req.invoice = i
  <2>1. \/ clerks'[c].pc = "share" /\ clerks'[c].req.invoice = i
        \/ Complete(i)'
    BY <1>1, ShareEnds
  <2> QED
    BY <2>1 DEF SeenTo
<1>2. CASE ~(InsertShare(c) /\ clerks[c].req.invoice = i)
  <2>1. commissions'[i] = commissions[i]
    BY <1>0, <1>2 DEF Start, Step, CreateInvoice, IssueInvoice, CancelInvoice, RecordPayment,
       VerifyBAST, WriteIssued, WriteCancelled, InsertPayment, SumPayments, FlipPaid, Reload,
       CheckCommission, InsertShare, Reward, ApproveInstall, ledger
  <2>2. ~(clerks[c].pc = "share" /\ clerks[c].req.invoice = i)
    BY <1>2, AtWork DEF At
  <2>3. SeenTo(i, {"share"}) => SeenTo(i, {"share"})'
    BY <2>2, SeenToStays
  <2> QED
    BY <2>1, <2>3 DEF Splitting, ExistsForOrder, Complete
<1> QED
  BY <1>1, <1>2

\* A covered one-time charge has its split written, or some payment is on its
\* way to it.
LEMMA SplitIsSeenTo ==
    ASSUME Sound, SharesDone, Settling, Splitting, [CheckoutNext]_<<vars, checkout>>,
           NEW c \in Clerks, Start(c) \/ Step(c), NEW i \in Otc, Covered(i)'
    PROVE  Complete(i)' \/ SeenTo(i, {"sum", "flip", "reload", "commission", "share"})'
<1> DEFINE Ways == {"sum", "flip", "reload", "commission", "share"}
<1>0. i \in Invoices /\ "sum" \in Ways
  BY InvoicesAssumption
<1>a. Complete(i) => Complete(i)'
  BY CommissionsKept DEF Complete
<1>b. SeenTo(i, {"share"})' => SeenTo(i, Ways)'
  BY DEF SeenTo
<1> SUFFICES ASSUME Covered(i) PROVE Complete(i)' \/ SeenTo(i, Ways)'
  BY <1>0, InsertSees
<1>c. ASSUME clerks'[c].pc \in Ways, clerks'[c].req.invoice = i PROVE SeenTo(i, Ways)'
  BY <1>c DEF SeenTo
<1>1. CASE Complete(i)
  BY <1>1, <1>a
<1>2. CASE SeenTo(i, Ways) /\ ~(clerks[c].pc \in Ways /\ clerks[c].req.invoice = i)
  BY <1>2, SeenToStays
<1>3. CASE At(c, "sum") /\ clerks[c].req.invoice = i
  BY <1>0, <1>3, <1>c, AtWork, SumSees
<1>4. CASE At(c, "flip") /\ clerks[c].req.invoice = i
  BY <1>4, <1>c, AtWork, GotoGives DEF FlipPaid, Pcs
<1>5. CASE At(c, "reload") /\ clerks[c].req.invoice = i
  <2>1. Goto(c, "commission")
    BY <1>5, AtWork DEF Settling, Reload
  <2> QED
    BY <1>5, <1>c, <2>1, GotoGives DEF Pcs
<1>6. CASE At(c, "commission") /\ clerks[c].req.invoice = i
  <2>0. CheckCommission(c)
    BY <1>6, AtWork
  <2>1. CASE ExistsForOrder(i)
    <3>1. Complete(i) \/ SeenTo(i, {"share"})
      BY <2>1 DEF Splitting
    <3>2. SeenTo(i, {"share"}) => SeenTo(i, {"share"})'
      BY <1>6, SeenToStays DEF At
    <3> QED
      BY <1>a, <1>b, <3>1, <3>2
  <2>2. CASE ~ExistsForOrder(i)
    <3>1. 1 \in 1..Shares
      BY InvoicesAssumption
    <3>2. clerks' = [clerks EXCEPT ![c].pc = "share", ![c].req.share = 1]
      BY <1>6, <2>0, <2>2 DEF CheckCommission
    <3>3. clerks'[c].pc = "share" /\ clerks'[c].req.invoice = i
      BY <1>6, <3>1, <3>2, AtShare
    <3> QED
      BY <1>c, <3>3
  <2> QED
    BY <2>1, <2>2
<1>7. CASE At(c, "share") /\ clerks[c].req.invoice = i
  <2>1. InsertShare(c)
    BY <1>7, AtWork
  <2>2. \/ clerks'[c].pc = "share" /\ clerks'[c].req.invoice = i
        \/ Complete(i)'
    BY <1>7, <2>1, ShareEnds
  <2> QED
    BY <1>c, <2>2
<1>8. Complete(i) \/ SeenTo(i, Ways)
  BY DEF Splitting
<1> QED
  BY <1>1, <1>2, <1>3, <1>4, <1>5, <1>6, <1>7, <1>8 DEF At

\* A customer touches no request and no payment, and makes an invoice only paid.
LEMMA CustomerSettles ==
    ASSUME Sound, SettleInv, deaths = 0, CustomerStep,
           UNCHANGED <<payments, commissions, rewarded, installed, clerks, deaths>>
    PROVE  Settling' /\ Splitting'
<1>0. status \in [Invoices -> Statuses \cup {"absent"}] /\ Settling /\ Splitting
  BY DEF Sound, TablesOK, SettleInv
<1>1. \A i \in Invoices : status[i] = "paid" => status'[i] = "paid"
  <2>1. ASSUME NEW e \in Events, handleXenditWebhook(e)
        PROVE  \A i \in Invoices : status[i] = "paid" => status'[i] = "paid"
    BY <1>0, <2>1 DEF handleXenditWebhook, UpdateStatus
  <2> QED
    BY <2>1 DEF CustomerStep, payInvoice, InsertLink, AbandonLink, recordDelivery, LoseDelivery
<1>2. \A c \in Clerks : At(c, "reload") => clerks[c].req.invoice \in Invoices
  BY DEF Sound, RequestsOK, Holds, At
<1>3. Settling'
  <2>1. \A i : Covered(i)' = Covered(i)
    BY DEF Covered, SumConfirmed
  <2>2. \A i, statements : SeenTo(i, statements)' = SeenTo(i, statements)
    BY DEF SeenTo
  <2>3. \A i \in Invoices : Covered(i)' => status'[i] = "paid" \/ SeenTo(i, {"sum", "flip"})'
    BY <1>0, <1>1, <2>1, <2>2 DEF Settling
  <2>4. ASSUME NEW c \in Clerks
        PROVE  /\ clerks'[c].pc \in {"issue", "cancel"} => ~Covered(clerks[c].req.invoice)'
               /\ clerks'[c].pc = "reload" => status'[clerks'[c].req.invoice] = "paid"
    BY <1>0, <1>1, <1>2 DEF Settling, At, Covered, SumConfirmed
  <2> QED
    BY <2>3, <2>4 DEF Settling, At
<1>4. Splitting'
  BY <1>0 DEF Splitting, Covered, SumConfirmed, Complete, SeenTo, ExistsForOrder
<1> QED
  BY <1>3, <1>4

LEMMA SettleStep ==
    ASSUME OnlyPaymentsOverlap, Sound, SettleInv, [CheckoutNext]_<<vars, checkout>>
    PROVE  SettleInv'
<1>1. Alone' /\ SharesDone'
  BY AloneStep, SharesDoneStep DEF SettleInv
<1> SUFFICES ASSUME deaths' = 0 PROVE Settling' /\ Splitting'
  BY <1>1 DEF SettleInv
<1>2. CASE UNCHANGED <<vars, checkout>>
  <2>1. Settling /\ Splitting /\ UNCHANGED <<status, payments, commissions, clerks>>
    BY <1>2 DEF SettleInv, vars, ledger
  <2>2. Settling'
    BY <2>1 DEF Settling, Covered, SumConfirmed, SeenTo, At
  <2>3. Splitting'
    BY <2>1 DEF Splitting, Covered, SumConfirmed, Complete, SeenTo, ExistsForOrder
  <2> QED
    BY <2>2, <2>3
<1>3. CASE CustomerStep /\ UNCHANGED <<payments, commissions, rewarded, installed, clerks, deaths>>
  BY <1>3, CustomerSettles
<1>4. ASSUME NEW c \in Clerks, Start(c) \/ Step(c) \/ Die(c) PROVE Settling' /\ Splitting'
  <2>1. Start(c) \/ Step(c)
    BY <1>4, InvoicesAssumption DEF Die, Sound, TablesOK
  <2>2. deaths = 0
    BY <2>1 DEF Start, Step, CreateInvoice, IssueInvoice, CancelInvoice, RecordPayment, VerifyBAST,
       WriteIssued, WriteCancelled, InsertPayment, SumPayments, FlipPaid, Reload, CheckCommission,
       InsertShare, Reward, ApproveInstall
  <2>3. Settling /\ Splitting /\ Alone /\ SharesDone
    BY <2>2 DEF SettleInv
  <2>4. Settling'
    BY <2>1, <2>3, SettlingStep
  <2>5. \A i \in Otc : /\ Covered(i)' => \/ Complete(i)'
                                         \/ SeenTo(i, {"sum", "flip", "reload", "commission", "share"})'
                       /\ ExistsForOrder(i)' => Complete(i)' \/ SeenTo(i, {"share"})'
    BY <2>1, <2>3, SplitIsSeenTo, SplitGoesOn
  <2> QED
    BY <2>4, <2>5 DEF Splitting
<1> QED
  BY <1>2, <1>3, <1>4 DEF CheckoutNext, Next

LEMMA NothingIsCovered ==
    ASSUME CheckoutInit, NEW i \in Invoices PROVE ~Covered(i)
<1> DEFINE f == [r \in Receipts |-> payments[r].amount]
           S == {r \in Receipts : payments[r].invoice = i}
<1>1. S = {}
  BY InvoicesAssumption DEF CheckoutInit, Init, NoPayment
<1>2. SumConfirmed(i) = SumFunctionOnSet(f, {})
  BY <1>1 DEF SumConfirmed
<1> HIDE DEF f
<1> QED
  BY <1>2, SumOfNone, InvoicesAssumption DEF Covered

LEMMA SettleInit == CheckoutInit => SettleInv
<1> SUFFICES ASSUME CheckoutInit PROVE SettleInv
  OBVIOUS
<1>1. \A c \in Clerks : clerks[c] = Idle /\ clerks[c].pc = "idle"
  BY DEF CheckoutInit, Init, Idle
<1>2. \A i \in Invoices : ~Covered(i)
  BY NothingIsCovered
<1>3. \A i \in Otc : ~ExistsForOrder(i) /\ i \in Invoices
  BY InvoicesAssumption DEF CheckoutInit, Init, ExistsForOrder
<1> QED
  BY <1>1, <1>2, <1>3 DEF SettleInv, Alone, SharesDone, Settling, Splitting, At

LEMMA Settlement == OnlyPaymentsOverlap => (CheckoutSpec => []SettleInv)
<1> SUFFICES ASSUME OnlyPaymentsOverlap PROVE CheckoutSpec => []SettleInv
  OBVIOUS
<1>1. Sound /\ SettleInv /\ [CheckoutNext]_<<vars, checkout>> => SettleInv'
  BY SettleStep
<1> QED
  BY <1>1, SettleInit, Soundness, PTL DEF CheckoutSpec

\* Where only payments overlap, an invoice whose recorded payments cover it
\* is paid once all requests have ended and none has died, whatever the
\* callbacks do meanwhile.
THEOREM CoveredIsSettledAlways == OnlyPaymentsOverlap => (CheckoutSpec => []CoveredIsSettled)
<1>1. SettleInv => CoveredIsSettled
  BY DEF SettleInv, Settling, CoveredIsSettled, Covered, SeenTo, Quiet, Idle
<1> QED
  BY <1>1, Settlement, PTL

\* And the split of a covered one-time charge is complete, though each of
\* the payments that settle it skips the rows it finds.
THEOREM CommissionIsCompleteAlways == OnlyPaymentsOverlap => (CheckoutSpec => []CommissionIsComplete)
<1>1. SettleInv => CommissionIsComplete
  BY DEF SettleInv, Splitting, CommissionIsComplete, Covered, Complete, SeenTo, Quiet, Idle
<1> QED
  BY <1>1, Settlement, PTL

=============================================================================
