----------------------------- MODULE SystemReset -----------------------------
(***************************************************************************)
(* SystemResetService: asking for the inventory ledger to be wiped, the    *)
(* two signatures it takes (Finance Director; MD or CEO), and the wiping.  *)
(*                                                                         *)
(* approve, reject and execute read the request, check it and then update  *)
(* it by its id alone, with values computed from what was read, so a call  *)
(* of the server is a Begin, which reads, and a commit.  The signatures    *)
(* are in the columns financeApprovedById and mdApprovedById.              *)
(***************************************************************************)
EXTENDS Integers, Sequences

CONSTANTS
    Reset,          \* reset requests that may be made
    User,
    Request,        \* HTTP requests in flight
    Nobody,
    Asker,          \* users with the permission reset.request
    FinanceDirector,    \* users with that role, who hold reset.approve
    Executive,      \* users with the role MD or CEO, likewise
    Executor        \* users with the permission reset.execute

ASSUME PeopleAssumption ==
    /\ Nobody \notin User
    /\ Asker \subseteq User /\ FinanceDirector \subseteq User
    /\ Executive \subseteq User /\ Executor \subseteq User

VARIABLES
    status,         \* ResetRequest.status; "NONE" until it is made
    requestedBy,
    executable,     \* every affected table is on ALLOWED_EXECUTION_TABLES
    finance, md,    \* the two signatures
    call,           \* what each HTTP request is doing and what it has read
    trail,          \* history: what was done to each reset request
    crossed         \* history: two calls about it were in flight at once

row == <<status, requestedBy, executable, finance, md>>
history == <<trail, crossed>>
vars == <<row, call, history>>

Terminal == {"APPROVED", "REJECTED", "EXECUTED", "CANCELLED"}
Status == {"NONE", "REQUESTED", "FINANCE_APPROVED", "MD_APPROVED"} \cup Terminal
Act == {"approve", "reject", "execute"}
Idle == [op |-> "none"]
\* What a call remembers of the request that it has read.
Memory == [op : Act, by : User, reset : Reset,
           finance : FinanceDirector \cup {Nobody}, md : Executive \cup {Nobody}]

Init ==
    /\ status = [q \in Reset |-> "NONE"]
    /\ requestedBy = [q \in Reset |-> Nobody]
    /\ executable = [q \in Reset |-> FALSE]
    /\ finance = [q \in Reset |-> Nobody]
    /\ md = [q \in Reset |-> Nobody]
    /\ call = [r \in Request |-> Idle]
    /\ trail = [q \in Reset |-> <<>>]
    /\ crossed = [q \in Reset |-> FALSE]

\* create: the affected tables are fixed here, once and for all.
Create(q, u, ok) ==
    /\ status[q] = "NONE"
    /\ u \in Asker
    /\ status' = [status EXCEPT ![q] = "REQUESTED"]
    /\ requestedBy' = [requestedBy EXCEPT ![q] = u]
    /\ executable' = [executable EXCEPT ![q] = ok]
    /\ UNCHANGED <<finance, md, call, history>>

-----------------------------------------------------------------------------
(* The conditions, on the request as it is read. *)

MaySignClosed(u, q) ==      \* seeded mistake: the status is not looked at
    /\ status[q] # "NONE"
    /\ requestedBy[q] # u
    /\ u \in FinanceDirector \cup Executive
    /\ u \in FinanceDirector => finance[q] = Nobody
    /\ u \in Executive => md[q] = Nobody

\* A slot that is filled refuses another signature.
MaySign(u, q) ==
    /\ status[q] \notin Terminal \cup {"NONE"}
    /\ requestedBy[q] # u
    /\ u \in FinanceDirector \cup Executive
    /\ u \in FinanceDirector => finance[q] = Nobody
    /\ u \in Executive => md[q] = Nobody

MayReject(u, q) ==
    /\ status[q] \notin Terminal \cup {"NONE"}
    /\ requestedBy[q] # u
    /\ u \in FinanceDirector \cup Executive

MayExecute(u, q) == u \in Executor /\ status[q] = "APPROVED" /\ executable[q]

\* Some call about the request has read it and not yet written.
Busy(q) == \E r \in Request : call[r] # Idle /\ call[r].reset = q

Begin(r, op, u, q) ==
    /\ call[r] = Idle
    /\ \/ op = "approve" /\ MaySign(u, q)
       \/ op = "reject" /\ MayReject(u, q)
       \/ op = "execute" /\ MayExecute(u, q)
    /\ call' = [call EXCEPT ![r] =
          [op |-> op, by |-> u, reset |-> q, finance |-> finance[q], md |-> md[q]]]
    /\ crossed' = [crossed EXCEPT ![q] = @ \/ Busy(q)]
    /\ UNCHANGED <<row, trail>>

-----------------------------------------------------------------------------
(* The updates. *)

Finish(r, what) ==
    /\ trail' = [trail EXCEPT ![call[r].reset] = Append(@, [what |-> what, by |-> call[r].by])]
    /\ call' = [call EXCEPT ![r] = Idle]

FillsFinance(u) == u \in FinanceDirector
FillsMd(u) == u \in Executive

StatusAfterStale(c) ==      \* seeded mistake: the new signature is not counted
    IF c.finance # Nobody /\ c.md # Nobody THEN "APPROVED"
    ELSE IF FillsFinance(c.by) THEN "FINANCE_APPROVED" ELSE "MD_APPROVED"
StatusOnOne(c) == "APPROVED"        \* seeded mistake: one signature is enough

\* The status approve writes: the signatures it read, with the caller's own.
StatusAfter(c) ==
    IF (FillsFinance(c.by) \/ c.finance # Nobody) /\ (FillsMd(c.by) \/ c.md # Nobody)
    THEN "APPROVED"
    ELSE IF FillsFinance(c.by) THEN "FINANCE_APPROVED" ELSE "MD_APPROVED"

\* Only the columns of the slots that the caller fills are written.
Approve(r) ==
    LET c == call[r]  q == c.reset IN
    /\ c.op = "approve"
    /\ finance' = [finance EXCEPT ![q] = IF FillsFinance(c.by) THEN c.by ELSE @]
    /\ md' = [md EXCEPT ![q] = IF FillsMd(c.by) THEN c.by ELSE @]
    /\ status' = [status EXCEPT ![q] = StatusAfter(c)]
    /\ Finish(r, "approve")
    /\ UNCHANGED <<requestedBy, executable, crossed>>

Reject(r) ==
    /\ call[r].op = "reject"
    /\ status' = [status EXCEPT ![call[r].reset] = "REJECTED"]
    /\ Finish(r, "reject")
    /\ UNCHANGED <<requestedBy, executable, finance, md, crossed>>

\* execute's transaction: the rows of the ledger go, whoever wrote them.
Execute(r) ==
    /\ call[r].op = "execute"
    /\ status' = [status EXCEPT ![call[r].reset] = "EXECUTED"]
    /\ Finish(r, "wipe")
    /\ UNCHANGED <<requestedBy, executable, finance, md, crossed>>

\* A crash, a timeout, a lost connection: the update never happens.
Fail(r) ==
    /\ call[r] # Idle
    /\ call' = [call EXCEPT ![r] = Idle]
    /\ UNCHANGED <<row, history>>

Next ==
    \/ \E q \in Reset, u \in User, ok \in BOOLEAN : Create(q, u, ok)
    \/ \E r \in Request :
          \/ \E op \in Act, u \in User, q \in Reset : Begin(r, op, u, q)
          \/ Approve(r) \/ Reject(r) \/ Execute(r) \/ Fail(r)

Spec == Init /\ [][Next]_vars

-----------------------------------------------------------------------------
(* Properties. *)

Deed == [what : {"approve", "reject", "wipe"}, by : User]
Did(q, what) == {i \in DOMAIN trail[q] : trail[q][i].what = what}

\* Every variable keeps its type: a signature is that of somebody with the
\* role it stands for, and what a call has read is a signature too.
TypeOK ==
    /\ status \in [Reset -> Status]
    /\ requestedBy \in [Reset -> User \cup {Nobody}]
    /\ executable \in [Reset -> BOOLEAN]
    /\ finance \in [Reset -> FinanceDirector \cup {Nobody}]
    /\ md \in [Reset -> Executive \cup {Nobody}]
    /\ trail \in [Reset -> Seq(Deed)]
    /\ crossed \in [Reset -> BOOLEAN]
    /\ call \in [Request -> {Idle} \cup Memory]

\* RESET_WORKFLOW.md, 3 and 4, and approve's comment: nothing is wiped
\* unless both signatures are on the request, neither of them that of its
\* maker, however approvals, rejections and executions race.
WipedOnlyWithBoth ==
    \A q \in Reset : Did(q, "wipe") # {} =>
        /\ executable[q]
        /\ Nobody \notin {finance[q], md[q]}
        /\ requestedBy[q] \notin {finance[q], md[q]}

\* RESET_WORKFLOW.md, 3: "either one rejecting at any point sets status to
\* REJECTED and stops the process entirely".  Nothing is wiped for a request
\* after it was rejected.
RejectedStops ==
    \A q \in Reset : \A i \in Did(q, "reject"), j \in Did(q, "wipe") : j < i

\* RESET_WORKFLOW.md, 3 again, of requests whose calls never overlapped: a
\* rejection is the last thing that is done to one.
RejectionIsLast ==
    \A q \in Reset : ~crossed[q] =>
        \A i \in Did(q, "reject") : i = Len(trail[q]) /\ status[q] = "REJECTED"

\* RESET_WORKFLOW.md, 3: the status "becomes APPROVED only once both Finance
\* Director and MD have signed off".  Once they have, a request whose calls
\* never overlapped is not left short of it, where every further signature is
\* refused and nobody can go on.
BothSignaturesCount ==
    \A q \in Reset : Nobody \notin {finance[q], md[q]} /\ ~crossed[q]
                        => status[q] \in Terminal

-----------------------------------------------------------------------------
(* WipedOnlyWithBoth is not inductive: it needs what approvals and          *)
(* executions in flight have read to be still true when they write.         *)

Signed(q) == Nobody \notin {finance[q], md[q]}

\* A signature is never taken back, so one that was read is still there;
\* who signs is not who asked; an execution in flight was seen APPROVED.
StillHolds(c) ==
    LET q == c.reset IN
    /\ status[q] # "NONE"
    /\ c.finance # Nobody => finance[q] # Nobody
    /\ c.md # Nobody => md[q] # Nobody
    /\ c.op = "approve" => c.by # requestedBy[q]
    /\ c.op = "approve" => c.by \in FinanceDirector \cup Executive
    /\ c.op = "execute" => Signed(q) /\ executable[q]

ReadHolds == \A r \in Request : call[r] # Idle => StillHolds(call[r])

\* A request that is approved or executed has both signatures, and no
\* signature of its maker.
SignaturesHold ==
    \A q \in Reset :
        /\ status[q] \in {"APPROVED", "EXECUTED"} => Signed(q)
        /\ requestedBy[q] = Nobody \/ requestedBy[q] \notin {finance[q], md[q]}
        /\ status[q] # "NONE" => requestedBy[q] # Nobody
        /\ status[q] = "NONE" => finance[q] = Nobody /\ md[q] = Nobody

\* However calls race, a wiped ledger was agreed to by both, and every
\* decision in flight still rests on what is there.
IInv == TypeOK /\ ReadHolds /\ SignaturesHold /\ WipedOnlyWithBoth

(* RejectionIsLast and BothSignaturesCount need more: as long as the calls  *)
(* about a request never overlapped, what the one in flight has read is    *)
(* not only still true, it is still all there is.                          *)

About(r, q) == call[r] # Idle /\ call[r].reset = q

OneAtATime ==
    \A q \in Reset : ~crossed[q] =>
        \A r, s \in Request : About(r, q) /\ About(s, q) => r = s

ReadIsCurrent ==
    \A q \in Reset : ~crossed[q] => \A r \in Request : About(r, q) =>
        /\ call[r].finance = finance[q] /\ call[r].md = md[q]
        /\ call[r].op # "execute" => status[q] \notin Terminal
        /\ call[r].op = "execute" => status[q] = "APPROVED"

\* A request handled one call at a time.
AloneInv == OneAtATime /\ ReadIsCurrent /\ RejectionIsLast /\ BothSignaturesCount
=============================================================================
