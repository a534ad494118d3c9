-------------------------------- MODULE Sales --------------------------------
(***************************************************************************)
(* crm: leads, their required documents, and the conversion of a lead into *)
(* a customer and an order, with the one-time charge (OTC) billing holds   *)
(* for the order.                                                          *)
(*                                                                         *)
(* Abstraction: a conversion inserts a customer and then its order; both   *)
(* are known here by the customer's id. A lead's documents are in or not.  *)
(***************************************************************************)
EXTENDS Requests

CONSTANTS Leads, Customers

VARIABLES
    lead,           \* lead -> status, "absent" before it is captured
    docs,           \* lead -> every required document is submitted
    converted,      \* lead -> converted_customer_id (and _order_id)
    customer,       \* customer -> status, "absent" before the INSERT
    order,          \* customer -> OTC type of its order, None without one
    otc             \* customer -> status of the order's OTC invoice

sales == <<lead, docs, converted, customer, order, otc>>

LeadStatuses ==
    {"new", "active", "warm", "hot", "potential", "converted", "lost"}

CustomerStatuses == {"pending_install", "active", "terminated"}

OTCTypes == {"free", "prepaid", "postpaid"}

SalesTypeOK ==
    /\ lead \in [Leads -> LeadStatuses \cup {"absent"}]
    /\ docs \in [Leads -> BOOLEAN]
    /\ converted \in [Leads -> Customers \cup {None}]
    /\ customer \in [Customers -> CustomerStatuses \cup {"absent"}]
    /\ order \in [Customers -> OTCTypes \cup {None}]
    /\ otc \in [Customers -> {"absent", "issued", "paid"}]

SalesInit ==
    /\ lead = [l \in Leads |-> "absent"]
    /\ docs = [l \in Leads |-> FALSE]
    /\ converted = [l \in Leads |-> None]
    /\ customer = [c \in Customers |-> "absent"]
    /\ order = [c \in Customers |-> None]
    /\ otc = [c \in Customers |-> "absent"]

-----------------------------------------------------------------------------
(* Leads and documents *)

ValidLeadTransitions ==
    LET onward == {"hot", "lost", "potential"}
    IN  ({"new"} \X (onward \cup {"active", "warm"}))
            \cup ({"active"} \X (onward \cup {"warm"}))
            \cup ({"warm"} \X onward)
            \cup ({"hot"} \X {"converted", "lost", "potential"})
            \cup ({"potential"} \X {"hot", "lost"})

CanTransitionTo(from, to) == from = to \/ <<from, to>> \in ValidLeadTransitions

CanConvert(status) == status \in {"hot", "potential"}

\* The lead and its unsubmitted checklist are inserted in one transaction.
CreateLead(l) ==
    /\ lead[l] = "absent"
    /\ lead' = [lead EXCEPT ![l] = "new"]
    /\ UNCHANGED <<docs, converted, customer, order, otc, req>>

\* One document of the checklist, read and written under its row lock.
UpdateDocument(l) ==
    /\ lead[l] # "absent"
    /\ \E complete \in BOOLEAN : docs' = [docs EXCEPT ![l] = complete]
    /\ UNCHANGED <<lead, converted, customer, order, otc, req>>

\* The transition is checked on the copy; any PATCH, of the status or of a
\* name, writes the whole row back.
UpdateLead(p, l) ==
    /\ lead[l] # "absent"
    /\ \E s \in LeadStatuses :
        CanTransitionTo(lead[l], s) /\ Begin(p, "writeLead", l, s)
    /\ UNCHANGED sales

WriteLead(p) ==
    /\ At(p, "writeLead")
    /\ lead' = [lead EXCEPT ![req[p].on] = req[p].arg]
    /\ Return(p)
    /\ UNCHANGED <<docs, converted, customer, order, otc>>

-----------------------------------------------------------------------------
(* ConvertLead *)

\* The product's price decides the OTC type of the order to come: no route
\* leads to "prepaid".
ConvertLead(p, l) ==
    /\ CanConvert(lead[l])
    /\ docs[l]
    /\ \E type \in {"free", "postpaid"} : Begin(p, "createCustomer", l, type)
    /\ UNCHANGED sales

CreateCustomer(p) ==
    /\ At(p, "createCustomer")
    /\ \E c \in Customers :
        /\ customer[c] = "absent"
        /\ customer' = [customer EXCEPT ![c] = "pending_install"]
        /\ Hold(p, c, "createOrder")
    /\ UNCHANGED <<lead, docs, converted, order, otc>>

CreateOrder(p) ==
    /\ At(p, "createOrder")
    /\ order' = [order EXCEPT ![req[p].got] = req[p].arg]
    /\ Goto(p, "markConverted")
    /\ UNCHANGED <<lead, docs, converted, customer, otc>>

MarkConverted(p) ==
    /\ At(p, "markConverted")
    /\ lead' = [lead EXCEPT ![req[p].on] = "converted"]
    /\ converted' = [converted EXCEPT ![req[p].on] = req[p].got]
    /\ Goto(p, "createOTC")
    /\ UNCHANGED <<docs, customer, order, otc>>

\* Only a prepaid charge is invoiced at conversion; a postpaid one is left
\* to whoever activates the order.
CreateOTCForOrder(p) ==
    /\ At(p, "createOTC")
    /\ otc' = IF req[p].arg = "prepaid"
              THEN [otc EXCEPT ![req[p].got] = "issued"] ELSE otc
    /\ Return(p)
    /\ UNCHANGED <<lead, docs, converted, customer, order>>

-----------------------------------------------------------------------------
(* The one-time charge in billing *)

\* Finance creates the OTC invoice by hand and issues it at once; an order
\* has one at most.
IssueOTC(c) ==
    /\ order[c] # None
    /\ otc[c] = "absent"
    /\ otc' = [otc EXCEPT ![c] = "issued"]
    /\ UNCHANGED <<lead, docs, converted, customer, order, req>>

PayOTC(c) ==
    /\ otc[c] = "issued"
    /\ otc' = [otc EXCEPT ![c] = "paid"]
    /\ UNCHANGED <<lead, docs, converted, customer, order, req>>

\* An order without an OTC invoice owes nothing.
IsOrderOTCPaid(c) == otc[c] \in {"absent", "paid"}

LeadNext ==
    \/ \E l \in Leads : CreateLead(l) \/ UpdateDocument(l)
    \/ \E p \in Procs, l \in Leads : UpdateLead(p, l) \/ ConvertLead(p, l)

ConversionNext ==
    \E p \in Procs :
        \/ WriteLead(p)
        \/ CreateCustomer(p)
        \/ CreateOrder(p)
        \/ MarkConverted(p)
        \/ CreateOTCForOrder(p)

OTCNext == \E c \in Customers : IssueOTC(c) \/ PayOTC(c)

=============================================================================
