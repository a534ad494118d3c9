----------------------------- MODULE Fulfilment -----------------------------
(***************************************************************************)
(* From lead to service and back: crm sells, field installs and takes      *)
(* down, network holds the account, billing the charge and the termination *)
(* request.  The handlers of all four run concurrently and fail half way.  *)
(***************************************************************************)
EXTENDS FieldWork

vars == <<sales, radius, field, history, req>>

Init == SalesInit /\ RadiusInit /\ FieldInit /\ req = [p \in Procs |-> Idle]

\* A bound: leads rest once an order exists, as no WO, BAST or account reads
\* one.
LeadsRest == \E c \in Customers : order[c] # None

Next ==
    \/ LeadNext /\ ~LeadsRest /\ UNCHANGED <<radius, field, history>>
    \/ ConversionNext /\ UNCHANGED <<radius, field, history>>
    \/ OTCNext /\ UNCHANGED <<radius, field, history>>
    \/ FieldNext

Spec == Init /\ [][Next]_vars

-----------------------------------------------------------------------------

Statements ==
    {"idle", "writeLead", "createCustomer", "createOrder", "markConverted", "createOTC",
     "writeWO", "createBAST", "awaitNOC", "paymentGate", "markVerified", "driveWO",
     "provision", "promote", "setActive", "completeRequest", "terminate", "deactivate"}

Held == Leads \cup WOs \cup Basts \cup Customers \cup {None}

Requests ==
    [at : Statements, on : Held, got : Held,
     arg : LeadStatuses \cup OTCTypes \cup WOStatuses \cup NOCStatuses \cup {None}]

\* Every row of crm, field and network holds a value its columns admit.
TypeOK ==
    /\ SalesTypeOK
    /\ RadiusTypeOK
    /\ FieldTypeOK
    /\ req \in [Procs -> Requests]

\* However submissions and verdicts interleave, a WO has at most one BAST
\* that is not rejected: SubmitBAST checks before it inserts and a verdict
\* is written whatever became of the BAST, so only the index stands.
OneLiveSignOff ==
    \A a, b \in Basts :
        (\E w \in WOs : {a, b} \subseteq ActiveBasts(w)) => a = b

InstalledFor(c) ==
    \E w \in signed : wo[w].type = "install" /\ wo[w].of = c

\* A customer is in service, or its account permanent, only when the NOC
\* has approved an installation of its order, in whatever order WOs are
\* opened, routed, retried and terminated around it.
ServiceIsEarned ==
    \A c \in Customers :
        customer[c] = "active" \/ radius[c] = "permanent_active" => InstalledFor(c)

Verifying(w) ==
    \E p \in Procs :
        /\ req[p].at \in {"driveWO", "provision", "promote", "setActive"}
        /\ bast[req[p].on].on = w

\* Once an approval's hooks have run to the end the customer is active, or
\* was terminated meanwhile: no concurrent verdict, re-routing or second WO
\* takes the activation back.
ApprovedIsActivated ==
    \A w \in signed \ cut :
        wo[w].type = "install" /\ ~Verifying(w)
            => customer[wo[w].of] \in {"active", "terminated"}

TerminationOf(c) ==
    \E w \in WOs : request[w] = "completed" /\ wo[w].of = c

\* An active customer has a permanent account, unless a termination of it
\* went through whose customer update failed.
ActiveHasAccount ==
    \A c \in Customers :
        customer[c] = "active" =>
            radius[c] = "permanent_active" \/ TerminationOf(c)

\* No approval that was under way brings a terminated customer back.
TerminatedStaysTerminated ==
    [][\A c \in Customers : customer[c] = "terminated" => customer'[c] = "terminated"]_vars

\* What crm's gateway says of a postpaid order: its one-time invoice is
\* created by the activation hook when the installation is approved.
PostpaidIsBilled ==
    \A w \in signed \ cut :
        wo[w].type = "install" /\ ~Verifying(w) /\ order[wo[w].of] = "postpaid"
            => otc[wo[w].of] # "absent"

=============================================================================
