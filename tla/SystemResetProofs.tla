-------------------------- MODULE SystemResetProofs --------------------------
(***************************************************************************)
(* Proofs about SystemReset.tla, for every number of people, of reset      *)
(* requests and of calls in flight.                                        *)
(***************************************************************************)
EXTENDS SystemReset, TLAPS

USE PeopleAssumption

\* A call that is at work remembers a request; one that is not, does not.
LEMMA Remembers ==
  ASSUME TypeOK, NEW r \in Request
  PROVE  /\ call[r].op \in Act => call[r] \in Memory
         /\ call[r] # Idle => call[r] \in Memory
         /\ Idle \notin Memory
<1>1. Idle.op \notin Act
  BY DEF Idle, Act
<1>2. \A c \in Memory : c.op \in Act
  BY DEF Memory
<1>3. call[r] \in {Idle} \cup Memory
  BY DEF TypeOK
<1> QED  BY <1>1, <1>2, <1>3

\* A wipe in a longer trail is in the shorter one, or is the deed added.
LEMMA WipeAppended ==
  ASSUME NEW s \in Seq(Deed), NEW e \in Deed,
         NEW i \in DOMAIN Append(s, e), Append(s, e)[i].what = "wipe"
  PROVE  e.what = "wipe" \/ \E j \in DOMAIN s : s[j].what = "wipe"
<1>1. CASE i = Len(s) + 1
  BY <1>1
<1>2. CASE i # Len(s) + 1
  <2>1. i \in DOMAIN s /\ Append(s, e)[i] = s[i]
    BY <1>2
  <2> QED  BY <2>1
<1> QED  BY <1>1, <1>2

-----------------------------------------------------------------------------
(* Types. *)

LEMMA InitInv == Init => IInv
<1> SUFFICES ASSUME Init PROVE IInv
  OBVIOUS
<1>1. TypeOK
  <2>1. trail \in [Reset -> Seq(Deed)]
    BY DEF Init
  <2> QED  BY <2>1 DEF Init, TypeOK, Status
<1>2. ReadHolds
  BY DEF Init, ReadHolds
<1>3. SignaturesHold
  BY DEF Init, SignaturesHold
<1>4. WipedOnlyWithBoth
  BY DEF Init, WipedOnlyWithBoth, Did
<1> QED  BY <1>1, <1>2, <1>3, <1>4 DEF IInv

\* What the last step of a call leaves of the trail and of the calls.
LEMMA FinishType ==
  ASSUME TypeOK, NEW r \in Request, call[r] \in Memory,
         NEW what \in {"approve", "reject", "wipe"}, Finish(r, what)
  PROVE  /\ trail' \in [Reset -> Seq(Deed)]
         /\ call' \in [Request -> {Idle} \cup Memory]
<1>1. [what |-> what, by |-> call[r].by] \in Deed /\ call[r].reset \in Reset
  BY DEF Memory, Deed
<1>2. trail' \in [Reset -> Seq(Deed)]
  <2>1. trail[call[r].reset] \in Seq(Deed)
    BY <1>1 DEF TypeOK
  <2>2. Append(trail[call[r].reset], [what |-> what, by |-> call[r].by]) \in Seq(Deed)
    BY <1>1, <2>1
  <2> QED  BY <2>2 DEF Finish, TypeOK
<1>3. call' \in [Request -> {Idle} \cup Memory]
  BY DEF Finish, TypeOK
<1> QED  BY <1>2, <1>3

LEMMA TypeStep ==
  ASSUME TypeOK, [Next]_vars
  PROVE  TypeOK'
<1>1. ASSUME NEW q \in Reset, NEW u \in User, NEW ok \in BOOLEAN, Create(q, u, ok)
      PROVE TypeOK'
  BY <1>1 DEF Create, TypeOK, Status, history
<1>2. ASSUME NEW r \in Request, NEW op \in Act, NEW u \in User, NEW q \in Reset,
             Begin(r, op, u, q)
      PROVE TypeOK'
  <2>1. [op |-> op, by |-> u, reset |-> q, finance |-> finance[q], md |-> md[q]] \in Memory
    BY DEF TypeOK, Memory
  <2>2. call' \in [Request -> {Idle} \cup Memory]
    BY <1>2, <2>1 DEF Begin, TypeOK
  <2>3. crossed' \in [Reset -> BOOLEAN]
    BY <1>2 DEF Begin, TypeOK, Busy
  <2> QED  BY <1>2, <2>2, <2>3 DEF Begin, TypeOK, row
<1>3. ASSUME NEW r \in Request, Approve(r)
      PROVE TypeOK'
  <2>1. call[r] \in Memory
    BY <1>3, Remembers DEF Approve, Act
  <2>2. trail' \in [Reset -> Seq(Deed)] /\ call' \in [Request -> {Idle} \cup Memory]
    BY <1>3, <2>1, FinishType DEF Approve
  <2>3. finance' \in [Reset -> FinanceDirector \cup {Nobody}]
    BY <1>3, <2>1 DEF Approve, TypeOK, Memory, FillsFinance
  <2>4. md' \in [Reset -> Executive \cup {Nobody}]
    BY <1>3, <2>1 DEF Approve, TypeOK, Memory, FillsMd
  <2>5. status' \in [Reset -> Status]
    BY <1>3, <2>1 DEF Approve, TypeOK, Memory, StatusAfter, Status, Terminal
  <2> QED  BY <1>3, <2>2, <2>3, <2>4, <2>5 DEF Approve, TypeOK
<1>4. ASSUME NEW r \in Request, Reject(r)
      PROVE TypeOK'
  <2>1. call[r] \in Memory
    BY <1>4, Remembers DEF Reject, Act
  <2>2. trail' \in [Reset -> Seq(Deed)] /\ call' \in [Request -> {Idle} \cup Memory]
    BY <1>4, <2>1, FinishType DEF Reject
  <2>3. status' \in [Reset -> Status]
    BY <1>4, <2>1 DEF Reject, TypeOK, Memory, Status, Terminal
  <2> QED  BY <1>4, <2>2, <2>3 DEF Reject, TypeOK
<1>5. ASSUME NEW r \in Request, Execute(r)
      PROVE TypeOK'
  <2>1. call[r] \in Memory
    BY <1>5, Remembers DEF Execute, Act
  <2>2. trail' \in [Reset -> Seq(Deed)] /\ call' \in [Request -> {Idle} \cup Memory]
    BY <1>5, <2>1, FinishType DEF Execute
  <2>3. status' \in [Reset -> Status]
    BY <1>5, <2>1 DEF Execute, TypeOK, Memory, Status, Terminal
  <2> QED  BY <1>5, <2>2, <2>3 DEF Execute, TypeOK
<1>6. ASSUME NEW r \in Request, Fail(r)
      PROVE TypeOK'
  BY <1>6 DEF Fail, TypeOK, row, history
<1>7. CASE UNCHANGED vars
  BY <1>7 DEF vars, history, row, TypeOK
<1> QED  BY <1>1, <1>2, <1>3, <1>4, <1>5, <1>6, <1>7 DEF Next

-----------------------------------------------------------------------------
(* Signatures and what is read of them. *)

\* A step that leaves the request's row as it was keeps what its calls rest
\* on, if the calls are those that were, or no longer are.
LEMMA RowKept ==
  ASSUME IInv, TypeOK', UNCHANGED row,
         \A r \in Request : call'[r] = call[r] \/ call'[r] = Idle
  PROVE  ReadHolds' /\ SignaturesHold'
<1>1. ReadHolds'
  BY DEF IInv, ReadHolds, StillHolds, row, Signed
<1>2. SignaturesHold'
  BY DEF IInv, SignaturesHold, row, Signed
<1> QED  BY <1>1, <1>2

\* An update writes the call's request only: the columns it leaves alone keep
\* what the other calls rest on.
LEMMA StatusWritten ==
  ASSUME IInv, NEW r \in Request, call[r] \in Memory,
         NEW new \in {"REJECTED", "EXECUTED"},
         new = "EXECUTED" => Signed(call[r].reset),
         status' = [status EXCEPT ![call[r].reset] = new],
         call' = [call EXCEPT ![r] = Idle],
         UNCHANGED <<requestedBy, executable, finance, md>>
  PROVE  ReadHolds' /\ SignaturesHold'
<1>1. call[r].reset \in Reset /\ status[call[r].reset] # "NONE"
  BY Remembers DEF IInv, ReadHolds, StillHolds, Memory
<1>2. \A q \in Reset : status'[q] = IF q = call[r].reset THEN new ELSE status[q]
  BY <1>1 DEF IInv, TypeOK
<1>3. ReadHolds'
  <2> SUFFICES ASSUME NEW x \in Request, call'[x] # Idle
               PROVE  /\ call'[x] = call[x] /\ call[x].reset \in Reset
                      /\ status'[call[x].reset] # "NONE"
    BY DEF IInv, ReadHolds, StillHolds, Signed
  <2>1. call'[x] = call[x] /\ call[x] # Idle
    BY DEF IInv, TypeOK
  <2>2. call[x].reset \in Reset /\ status[call[x].reset] # "NONE"
    BY <2>1, Remembers DEF IInv, ReadHolds, StillHolds, Memory
  <2> QED  BY <2>1, <2>2, <1>2
<1>4. SignaturesHold'
  BY <1>1, <1>2 DEF IInv, SignaturesHold, Signed
<1> QED  BY <1>3, <1>4

\* A signature is added where the slot is the caller's, and is not its maker's.
LEMMA SignatureWritten ==
  ASSUME IInv, NEW r \in Request, Approve(r)
  PROVE  /\ ReadHolds' /\ SignaturesHold'
         /\ \A q \in Reset : Signed(q) => Signed(q)'
         /\ \A q \in Reset : Signed(q) =>
              (requestedBy[q] \notin {finance'[q], md'[q]})
<1>0. call[r] \in Memory /\ call[r] # Idle
  BY Remembers DEF Approve, Act, IInv
<1>1. PICK c \in Memory : c = call[r]
  BY <1>0
<1> DEFINE p == c.reset
<1>2. p \in Reset /\ c.by \in User /\ c.by # Nobody
  BY <1>1 DEF Memory
<1>3. /\ status[p] # "NONE"
      /\ c.finance # Nobody => finance[p] # Nobody
      /\ c.md # Nobody => md[p] # Nobody
      /\ c.by # requestedBy[p]
      /\ c.by \in FinanceDirector \cup Executive
  BY <1>0, <1>1 DEF IInv, ReadHolds, StillHolds, Approve
<1>4. /\ \A q \in Reset : finance'[q] = IF q = p /\ FillsFinance(c.by) THEN c.by ELSE finance[q]
      /\ \A q \in Reset : md'[q] = IF q = p /\ FillsMd(c.by) THEN c.by ELSE md[q]
      /\ \A q \in Reset : status'[q] = IF q = p THEN StatusAfter(c) ELSE status[q]
      /\ requestedBy' = requestedBy /\ executable' = executable
      /\ \A x \in Request : call'[x] = IF x = r THEN Idle ELSE call[x]
  BY <1>1, <1>2 DEF Approve, IInv, TypeOK, Finish
<1> HIDE DEF p
<1>5. \A q \in Reset : (finance[q] # Nobody => finance'[q] # Nobody)
                       /\ (md[q] # Nobody => md'[q] # Nobody)
  BY <1>2, <1>4 DEF FillsFinance, FillsMd
<1>6. \A q \in Reset : Signed(q) => Signed(q)'
  BY <1>5 DEF Signed
<1>7. StatusAfter(c) # "NONE" /\ StatusAfter(c) # "EXECUTED"
  BY DEF StatusAfter
<1>8. StatusAfter(c) = "APPROVED" => Signed(p)'
  BY <1>2, <1>3, <1>4 DEF StatusAfter, Signed, FillsFinance, FillsMd
<1>9. ASSUME NEW x \in Request, call'[x] # Idle
      PROVE  StillHolds(call[x])'
  <2>1. call'[x] = call[x] /\ call[x] # Idle
    BY <1>4, <1>9
  <2>2. PICK d \in Memory : d = call[x]
    BY <2>1, Remembers DEF IInv
  <2>3. StillHolds(d) /\ d.reset \in Reset
    BY <2>1, <2>2 DEF IInv, ReadHolds, Memory
  <2>4. status'[d.reset] # "NONE"
    BY <2>3, <1>4, <1>7 DEF StillHolds
  <2>5. Signed(d.reset) => Signed(d.reset)'
    BY <2>3, <1>6
  <2>6. StillHolds(d)'
    BY <2>3, <2>4, <2>5, <1>4, <1>5 DEF StillHolds
  <2> QED  BY <2>1, <2>2, <2>6 DEF StillHolds, Signed
<1>10. ASSUME NEW q \in Reset
       PROVE  requestedBy[q] = Nobody \/ requestedBy[q] \notin {finance'[q], md'[q]}
  <2>1. requestedBy[q] = Nobody \/ requestedBy[q] \notin {finance[q], md[q]}
    BY DEF IInv, SignaturesHold
  <2> QED  BY <2>1, <1>3, <1>4
<1>11. SignaturesHold'
  <2> SUFFICES ASSUME NEW q \in Reset
               PROVE  /\ status'[q] \in {"APPROVED", "EXECUTED"} => Signed(q)'
                      /\ requestedBy'[q] = Nobody \/ requestedBy'[q] \notin {finance'[q], md'[q]}
                      /\ status'[q] # "NONE" => requestedBy'[q] # Nobody
                      /\ status'[q] = "NONE" => finance'[q] = Nobody /\ md'[q] = Nobody
    BY DEF SignaturesHold, Signed
  <2>1. /\ status[q] \in {"APPROVED", "EXECUTED"} => Signed(q)
        /\ status[q] # "NONE" => requestedBy[q] # Nobody
        /\ status[q] = "NONE" => finance[q] = Nobody /\ md[q] = Nobody
    BY DEF IInv, SignaturesHold
  <2>2. CASE q = p
    BY <2>1, <2>2, <1>3, <1>4, <1>7, <1>8, <1>10 DEF Signed
  <2>3. CASE q # p
    BY <2>1, <2>3, <1>4, <1>6, <1>10
  <2> QED  BY <2>2, <2>3
<1>12. ASSUME NEW q \in Reset, Signed(q)
       PROVE  requestedBy[q] \notin {finance'[q], md'[q]}
  <2>1. requestedBy[q] # Nobody
    BY <1>12 DEF IInv, SignaturesHold, TypeOK, Signed
  <2> QED  BY <2>1, <1>10
<1>13. ReadHolds'
  BY <1>9 DEF ReadHolds
<1> QED  BY <1>6, <1>11, <1>12, <1>13

-----------------------------------------------------------------------------
(* What has been wiped was signed by both. *)

\* What Finish adds to the trail is a wipe or is none.
LEMMA FinishWipe ==
  ASSUME IInv, NEW r \in Request, call[r] \in Memory,
         NEW what \in {"approve", "reject", "wipe"}, Finish(r, what)
  PROVE  \A q \in Reset : Did(q, "wipe")' # {} =>
            Did(q, "wipe") # {} \/ (what = "wipe" /\ q = call[r].reset)
<1> SUFFICES ASSUME NEW q \in Reset, NEW i \in DOMAIN trail'[q], trail'[q][i].what = "wipe"
             PROVE  (\E j \in DOMAIN trail[q] : trail[q][j].what = "wipe")
                    \/ (what = "wipe" /\ q = call[r].reset)
  BY DEF Did
<1> DEFINE e == [what |-> what, by |-> call[r].by]
<1>1. e \in Deed /\ call[r].reset \in Reset /\ trail[q] \in Seq(Deed) /\ e.what = what
  BY DEF Memory, Deed, IInv, TypeOK
<1>2. trail'[q] = IF q = call[r].reset THEN Append(trail[q], e) ELSE trail[q]
  BY <1>1 DEF Finish, IInv, TypeOK
<1> HIDE DEF e
<1>3. CASE q = call[r].reset
  <2>1. i \in DOMAIN Append(trail[q], e) /\ Append(trail[q], e)[i].what = "wipe"
    BY <1>2, <1>3
  <2> QED  BY <2>1, <1>1, <1>3, WipeAppended
<1>4. CASE q # call[r].reset
  BY <1>2, <1>4
<1> QED  BY <1>3, <1>4

LEMMA InvStep ==
  ASSUME IInv, [Next]_vars
  PROVE  IInv'
<1>0. TypeOK'
  BY TypeStep DEF IInv
<1>1. ASSUME NEW q \in Reset, NEW u \in User, NEW ok \in BOOLEAN, Create(q, u, ok)
      PROVE IInv'
  <2>1. /\ status[q] = "NONE" /\ u # Nobody /\ UNCHANGED <<finance, md, call, trail>>
        /\ \A p \in Reset : status'[p] = IF p = q THEN "REQUESTED" ELSE status[p]
        /\ \A p \in Reset : requestedBy'[p] = IF p = q THEN u ELSE requestedBy[p]
        /\ \A p \in Reset : executable'[p] = IF p = q THEN ok ELSE executable[p]
    BY <1>1 DEF Create, IInv, TypeOK, history
  <2>2. SignaturesHold'
    BY <2>1 DEF IInv, SignaturesHold, Signed
  <2>3. ASSUME NEW x \in Request, call[x] # Idle
        PROVE  StillHolds(call[x])'
    <3>1. PICK d \in Memory : d = call[x]
      BY <2>3, Remembers DEF IInv
    <3>2. StillHolds(d) /\ d.reset \in Reset
      BY <2>3, <3>1 DEF IInv, ReadHolds, Memory
    <3>3. d.reset # q
      BY <3>2, <2>1 DEF StillHolds
    <3>4. StillHolds(d)'
      BY <3>2, <3>3, <2>1 DEF StillHolds, Signed
    <3> QED  BY <3>1, <3>4, <2>1 DEF StillHolds, Signed
  <2>4. ReadHolds'
    BY <2>1, <2>3 DEF ReadHolds
  <2>5. ASSUME NEW p \in Reset, Did(p, "wipe") # {}
        PROVE  /\ executable[p] /\ Nobody \notin {finance[p], md[p]}
               /\ requestedBy[p] \notin {finance[p], md[p]} /\ p # q
    BY <2>1, <2>5 DEF IInv, WipedOnlyWithBoth, SignaturesHold
  <2>6. \A p \in Reset : Did(p, "wipe")' = Did(p, "wipe")
    BY <2>1 DEF Did
  <2>7. WipedOnlyWithBoth'
    BY <2>1, <2>5, <2>6 DEF WipedOnlyWithBoth
  <2> QED  BY <1>0, <2>2, <2>4, <2>7 DEF IInv
<1>2. ASSUME NEW r \in Request, NEW op \in Act, NEW u \in User, NEW q \in Reset,
             Begin(r, op, u, q)
      PROVE IInv'
  <2>1. UNCHANGED row /\ trail' = trail
    BY <1>2 DEF Begin
  <2>2. SignaturesHold' /\ WipedOnlyWithBoth'
    BY <2>1 DEF IInv, row, SignaturesHold, WipedOnlyWithBoth, Did, Signed
  <2>3. PICK d \in Memory : d = [op |-> op, by |-> u, reset |-> q,
                                 finance |-> finance[q], md |-> md[q]]
    BY DEF Memory, IInv, TypeOK
  <2>4. \A x \in Request : call'[x] = IF x = r THEN d ELSE call[x]
    BY <1>2, <2>3 DEF Begin, IInv, TypeOK
  <2>5. StillHolds(d)
    <3>1. /\ status[q] # "NONE"
          /\ op = "approve" => u # requestedBy[q] /\ u \in FinanceDirector \cup Executive
          /\ op = "execute" => status[q] = "APPROVED" /\ executable[q]
      BY <1>2 DEF Begin, MaySign, MayReject, MayExecute
    <3>2. op = "execute" => Signed(q)
      BY <3>1 DEF IInv, SignaturesHold
    <3> QED  BY <2>3, <3>1, <3>2 DEF StillHolds
  <2>6. ReadHolds'
    BY <2>1, <2>4, <2>5 DEF IInv, ReadHolds, StillHolds, Signed, row
  <2> QED  BY <1>0, <2>2, <2>6 DEF IInv
<1>3. ASSUME NEW r \in Request, Approve(r)
      PROVE IInv'
  <2>1. call[r] \in Memory /\ Finish(r, "approve") /\ UNCHANGED <<requestedBy, executable>>
    BY <1>3, Remembers DEF Approve, Act, IInv
  <2>2. \A q \in Reset : Did(q, "wipe")' # {} => Did(q, "wipe") # {}
    BY <2>1, FinishWipe
  <2>3. ASSUME NEW q \in Reset, Did(q, "wipe") # {}
        PROVE  executable[q] /\ Signed(q)
    BY <2>3 DEF IInv, WipedOnlyWithBoth, Signed
  <2>4. \A q \in Reset : Signed(q) =>
          Nobody \notin {finance'[q], md'[q]} /\ requestedBy[q] \notin {finance'[q], md'[q]}
    BY <1>3, SignatureWritten DEF Signed
  <2>5. WipedOnlyWithBoth'
    BY <2>1, <2>2, <2>3, <2>4 DEF WipedOnlyWithBoth
  <2> QED  BY <1>0, <1>3, <2>5, SignatureWritten DEF IInv
<1>4. ASSUME NEW r \in Request, Reject(r)
      PROVE IInv'
  <2>1. /\ call[r] \in Memory /\ Finish(r, "reject")
        /\ UNCHANGED <<requestedBy, executable, finance, md>>
        /\ status' = [status EXCEPT ![call[r].reset] = "REJECTED"]
        /\ call' = [call EXCEPT ![r] = Idle]
    BY <1>4, Remembers DEF Reject, Act, IInv, Finish
  <2>2. ReadHolds' /\ SignaturesHold'
    BY <2>1, StatusWritten
  <2>3. \A q \in Reset : Did(q, "wipe")' # {} => Did(q, "wipe") # {}
    BY <2>1, FinishWipe
  <2>4. WipedOnlyWithBoth'
    BY <2>1, <2>3 DEF IInv, WipedOnlyWithBoth
  <2> QED  BY <1>0, <2>2, <2>4 DEF IInv
<1>5. ASSUME NEW r \in Request, Execute(r)
      PROVE IInv'
  <2>1. /\ call[r] \in Memory /\ call[r] # Idle /\ call[r].op = "execute" /\ Finish(r, "wipe")
        /\ UNCHANGED <<requestedBy, executable, finance, md>>
        /\ status' = [status EXCEPT ![call[r].reset] = "EXECUTED"]
        /\ call' = [call EXCEPT ![r] = Idle]
    BY <1>5, Remembers DEF Execute, Act, IInv, Finish
  <2>2. Signed(call[r].reset) /\ executable[call[r].reset] /\ call[r].reset \in Reset
    BY <2>1 DEF IInv, ReadHolds, StillHolds, Memory
  <2>3. ReadHolds' /\ SignaturesHold'
    BY <2>1, <2>2, StatusWritten
  <2>4. \A q \in Reset : Did(q, "wipe")' # {} => Did(q, "wipe") # {} \/ q = call[r].reset
    BY <2>1, FinishWipe
  <2>5. requestedBy[call[r].reset] \notin {finance[call[r].reset], md[call[r].reset]}
    BY <2>2 DEF IInv, SignaturesHold, TypeOK, Signed
  <2>6. WipedOnlyWithBoth'
    BY <2>1, <2>2, <2>4, <2>5 DEF IInv, WipedOnlyWithBoth, Signed
  <2> QED  BY <1>0, <2>3, <2>6 DEF IInv
<1>6. ASSUME NEW r \in Request, Fail(r)
      PROVE IInv'
  <2>1. UNCHANGED row /\ trail' = trail /\ \A x \in Request : call'[x] = call[x] \/ call'[x] = Idle
    BY <1>6 DEF Fail, IInv, TypeOK, history
  <2>2. WipedOnlyWithBoth'
    BY <2>1 DEF IInv, WipedOnlyWithBoth, Did, row
  <2> QED  BY <1>0, <2>1, <2>2, RowKept DEF IInv
<1>7. CASE UNCHANGED vars
  BY <1>7 DEF vars, history, row, IInv, TypeOK, ReadHolds, StillHolds, SignaturesHold, Signed,
              WipedOnlyWithBoth, Did
<1> QED  BY <1>1, <1>2, <1>3, <1>4, <1>5, <1>6, <1>7 DEF Next

-----------------------------------------------------------------------------
(* Requests whose calls never overlapped. *)

\* Whoever works on a request alone found it undecided, or approved.
LEMMA NotRejected ==
  ASSUME IInv, AloneInv, NEW r \in Request, call[r] \in Memory, ~crossed[call[r].reset]
  PROVE  /\ status[call[r].reset] # "REJECTED"
         /\ Did(call[r].reset, "reject") = {}
<1>1. PICK c \in Memory : c = call[r]
  OBVIOUS
<1>2. c.reset \in Reset /\ About(r, c.reset)
  BY <1>1, Remembers DEF Memory, About, IInv
<1>3. status[c.reset] # "REJECTED"
  BY <1>1, <1>2 DEF AloneInv, ReadIsCurrent, Terminal
<1>4. Did(c.reset, "reject") = {}
  BY <1>1, <1>2, <1>3 DEF AloneInv, RejectionIsLast, Did
<1> QED  BY <1>1, <1>3, <1>4

\* After the update of a call that was alone, a rejection is the last deed.
LEMMA RejectionAppended ==
  ASSUME IInv, AloneInv, NEW r \in Request, call[r] \in Memory,
         NEW what \in {"approve", "reject", "wipe"}, Finish(r, what),
         what = "reject" => status'[call[r].reset] = "REJECTED",
         \A q \in Reset : q # call[r].reset => status'[q] = status[q],
         crossed' = crossed
  PROVE  RejectionIsLast'
<1> SUFFICES ASSUME NEW q \in Reset, ~crossed[q], NEW i \in DOMAIN trail'[q],
                    trail'[q][i].what = "reject"
             PROVE  i = Len(trail'[q]) /\ status'[q] = "REJECTED"
  BY DEF RejectionIsLast, Did
<1> DEFINE e == [what |-> what, by |-> call[r].by]
<1>1. e \in Deed /\ call[r].reset \in Reset /\ trail[q] \in Seq(Deed) /\ e.what = what
  BY DEF Memory, Deed, IInv, TypeOK
<1>2. trail'[q] = IF q = call[r].reset THEN Append(trail[q], e) ELSE trail[q]
  BY <1>1 DEF Finish, IInv, TypeOK
<1> HIDE DEF e
<1>3. CASE q = call[r].reset
  <2>1. trail'[q] = Append(trail[q], e) /\ Len(trail'[q]) = Len(trail[q]) + 1
    BY <1>1, <1>2, <1>3
  <2>2. CASE i = Len(trail[q]) + 1
    <3>1. trail'[q][i] = e
      BY <1>1, <2>1, <2>2
    <3> QED  BY <1>1, <1>3, <2>1, <2>2, <3>1
  <2>3. CASE i # Len(trail[q]) + 1
    <3>1. i \in DOMAIN trail[q] /\ trail'[q][i] = trail[q][i]
      BY <1>1, <2>1, <2>3
    <3>2. i \in Did(q, "reject")
      BY <3>1 DEF Did
    <3> QED  BY <1>3, <3>2, NotRejected
  <2> QED  BY <2>2, <2>3
<1>4. CASE q # call[r].reset
  BY <1>2, <1>4 DEF AloneInv, RejectionIsLast, Did
<1> QED  BY <1>3, <1>4

\* A call that writes and is done leaves what the others have read alone.
LEMMA AloneFinished ==
  ASSUME IInv, AloneInv, NEW r \in Request, call[r] \in Memory,
         NEW what \in {"approve", "reject", "wipe"}, Finish(r, what),
         what = "reject" => status'[call[r].reset] = "REJECTED",
         \A q \in Reset : q # call[r].reset =>
            status'[q] = status[q] /\ finance'[q] = finance[q] /\ md'[q] = md[q],
         crossed' = crossed,
         ~crossed[call[r].reset] /\ Nobody \notin {finance'[call[r].reset], md'[call[r].reset]}
            => status'[call[r].reset] \in Terminal
  PROVE  AloneInv'
<1>1. PICK c \in Memory : c = call[r]
  OBVIOUS
<1>2. c.reset \in Reset /\ About(r, c.reset)
  BY <1>1, Remembers DEF Memory, About, IInv
<1>3. \A x \in Request : call'[x] = IF x = r THEN Idle ELSE call[x]
  BY DEF Finish, IInv, TypeOK
<1>4. ASSUME NEW x \in Request, NEW q \in Reset, About(x, q)'
      PROVE  call'[x] = call[x] /\ About(x, q) /\ x # r
  BY <1>3, <1>4 DEF About
<1>5. OneAtATime'
  BY <1>4 DEF AloneInv, OneAtATime
<1>6. ASSUME NEW x \in Request, NEW q \in Reset, About(x, q)', ~crossed[q]
      PROVE  q # c.reset
  BY <1>2, <1>4, <1>6 DEF AloneInv, OneAtATime
<1>7. ReadIsCurrent'
  BY <1>1, <1>4, <1>6 DEF AloneInv, ReadIsCurrent
<1>8. RejectionIsLast'
  BY RejectionAppended
<1>9. BothSignaturesCount'
  BY DEF AloneInv, BothSignaturesCount
<1> QED  BY <1>5, <1>7, <1>8, <1>9 DEF AloneInv

\* A call that begins alone reads the request as it stands.
LEMMA AloneBegun ==
  ASSUME IInv, AloneInv, NEW r \in Request, NEW op \in Act, NEW u \in User, NEW q \in Reset,
         Begin(r, op, u, q)
  PROVE  AloneInv'
<1>1. PICK d \in Memory : d = [op |-> op, by |-> u, reset |-> q,
                               finance |-> finance[q], md |-> md[q]]
  BY DEF Memory, IInv, TypeOK
<1>2. /\ \A x \in Request : call'[x] = IF x = r THEN d ELSE call[x]
      /\ \A p \in Reset : ~crossed'[p] => ~crossed[p] /\ (p = q => ~Busy(p))
      /\ UNCHANGED <<status, finance, md, trail>> /\ call[r] = Idle
  BY <1>1 DEF Begin, IInv, TypeOK, row
<1>3. d # Idle
  BY Remembers DEF IInv
<1>4. ASSUME NEW x \in Request, NEW p \in Reset, About(x, p)', ~crossed'[p]
      PROVE  /\ ~crossed[p]
             /\ x = r => p = q /\ ~Busy(p)
             /\ x # r => About(x, p)
  BY <1>1, <1>2, <1>4 DEF About
<1>5. \A x \in Request, p \in Reset : About(x, p) => Busy(p)
  BY DEF About, Busy
<1>6. OneAtATime'
  BY <1>4, <1>5 DEF AloneInv, OneAtATime
<1>7. /\ op # "execute" => status[q] \notin Terminal
      /\ op = "execute" => status[q] = "APPROVED"
  BY DEF Begin, MaySign, MayReject, MayExecute
<1>8. ReadIsCurrent'
  <2> SUFFICES ASSUME NEW p \in Reset, ~crossed'[p], NEW x \in Request, About(x, p)'
               PROVE  /\ call'[x].finance = finance[p] /\ call'[x].md = md[p]
                      /\ call'[x].op # "execute" => status[p] \notin Terminal
                      /\ call'[x].op = "execute" => status[p] = "APPROVED"
    BY <1>2 DEF ReadIsCurrent
  <2>1. CASE x = r
    BY <1>1, <1>2, <1>4, <1>7, <2>1
  <2>2. CASE x # r
    BY <1>2, <1>4, <2>2 DEF AloneInv, ReadIsCurrent
  <2> QED  BY <2>1, <2>2
<1>9. RejectionIsLast' /\ BothSignaturesCount'
  <2>1. \A p \in Reset : ~crossed'[p] => ~crossed[p]
    BY <1>2
  <2> QED  BY <1>2, <2>1 DEF AloneInv, RejectionIsLast, BothSignaturesCount, Did
<1> QED  BY <1>6, <1>8, <1>9 DEF AloneInv

LEMMA AloneStep ==
  ASSUME IInv, AloneInv, [Next]_vars
  PROVE  AloneInv'
<1>1. ASSUME NEW q \in Reset, NEW u \in User, NEW ok \in BOOLEAN, Create(q, u, ok)
      PROVE AloneInv'
  <2>1. /\ status[q] = "NONE" /\ UNCHANGED <<finance, md, call, trail, crossed>>
        /\ \A p \in Reset : status'[p] = IF p = q THEN "REQUESTED" ELSE status[p]
    BY <1>1 DEF Create, IInv, TypeOK, history
  <2>2. finance[q] = Nobody
    BY <2>1 DEF IInv, SignaturesHold
  <2>3. ASSUME NEW x \in Request, NEW p \in Reset, About(x, p)
        PROVE  p # q
    BY <2>1, <2>3 DEF IInv, ReadHolds, StillHolds, About
  <2>4. OneAtATime' /\ ReadIsCurrent'
    BY <2>1, <2>3 DEF AloneInv, OneAtATime, ReadIsCurrent, About
  <2>5. RejectionIsLast' /\ BothSignaturesCount'
    BY <2>1, <2>2 DEF AloneInv, RejectionIsLast, BothSignaturesCount, Did
  <2> QED  BY <2>4, <2>5 DEF AloneInv
<1>2. ASSUME NEW r \in Request, NEW op \in Act, NEW u \in User, NEW q \in Reset,
             Begin(r, op, u, q)
      PROVE AloneInv'
  BY <1>2, AloneBegun
<1>3. ASSUME NEW r \in Request, Approve(r)
      PROVE AloneInv'
  <2>1. PICK c \in Memory : c = call[r]
    BY <1>3, Remembers DEF Approve, Act, IInv
  <2>2. c.reset \in Reset /\ About(r, c.reset) /\ c.by # Nobody /\ c.by \in User
    BY <2>1, Remembers DEF Memory, About, IInv
  <2>3. /\ finance'[c.reset] = IF FillsFinance(c.by) THEN c.by ELSE finance[c.reset]
        /\ md'[c.reset] = IF FillsMd(c.by) THEN c.by ELSE md[c.reset]
        /\ status'[c.reset] = StatusAfter(c)
        /\ \A q \in Reset : q # c.reset =>
              status'[q] = status[q] /\ finance'[q] = finance[q] /\ md'[q] = md[q]
        /\ Finish(r, "approve") /\ crossed' = crossed
    BY <1>3, <2>1, <2>2 DEF Approve, IInv, TypeOK
  <2>4. ASSUME ~crossed[c.reset], Nobody \notin {finance'[c.reset], md'[c.reset]}
        PROVE  status'[c.reset] \in Terminal
    <3>1. c.finance = finance[c.reset] /\ c.md = md[c.reset]
      BY <2>1, <2>2, <2>4 DEF AloneInv, ReadIsCurrent
    <3> QED  BY <2>3, <2>4, <3>1 DEF StatusAfter, Terminal
  <2> QED  BY <2>1, <2>3, <2>4, AloneFinished
<1>4. ASSUME NEW r \in Request, Reject(r)
      PROVE AloneInv'
  <2>1. PICK c \in Memory : c = call[r]
    BY <1>4, Remembers DEF Reject, Act, IInv
  <2>2. /\ status'[c.reset] = "REJECTED" /\ UNCHANGED <<finance, md>>
        /\ \A q \in Reset : q # c.reset => status'[q] = status[q]
        /\ Finish(r, "reject") /\ crossed' = crossed
    BY <1>4, <2>1 DEF Reject, IInv, TypeOK, Memory
  <2> QED  BY <2>1, <2>2, AloneFinished DEF Terminal
<1>5. ASSUME NEW r \in Request, Execute(r)
      PROVE AloneInv'
  <2>1. PICK c \in Memory : c = call[r]
    BY <1>5, Remembers DEF Execute, Act, IInv
  <2>2. /\ status'[c.reset] = "EXECUTED" /\ UNCHANGED <<finance, md>>
        /\ \A q \in Reset : q # c.reset => status'[q] = status[q]
        /\ Finish(r, "wipe") /\ crossed' = crossed
    BY <1>5, <2>1 DEF Execute, IInv, TypeOK, Memory
  <2> QED  BY <2>1, <2>2, AloneFinished DEF Terminal
<1>6. ASSUME NEW r \in Request, Fail(r)
      PROVE AloneInv'
  <2>1. /\ UNCHANGED <<status, finance, md, trail, crossed>>
        /\ \A x \in Request : call'[x] = IF x = r THEN Idle ELSE call[x]
    BY <1>6 DEF Fail, IInv, TypeOK, history, row
  <2>2. \A x \in Request, q \in Reset : About(x, q)' => About(x, q) /\ call'[x] = call[x]
    BY <2>1 DEF About
  <2> QED  BY <2>1, <2>2 DEF AloneInv, OneAtATime, ReadIsCurrent, RejectionIsLast,
                            BothSignaturesCount, Did
<1>7. CASE UNCHANGED vars
  BY <1>7 DEF vars, history, row, AloneInv, OneAtATime, ReadIsCurrent, RejectionIsLast,
              BothSignaturesCount, Did, About
<1> QED  BY <1>1, <1>2, <1>3, <1>4, <1>5, <1>6, <1>7 DEF Next

-----------------------------------------------------------------------------
(* The theorems. *)

\* Every variable keeps its type: in particular the finance signature is
\* always that of a finance director, the other that of an MD or CEO.
THEOREM ResetTypeCorrect == Spec => []TypeOK
<1>1. Init => TypeOK
  BY InitInv DEF IInv
<1>2. TypeOK /\ [Next]_vars => TypeOK'
  BY TypeStep
<1> QED  BY <1>1, <1>2, PTL DEF Spec

\* The inductive invariant: every decision in flight rests on what is there.
THEOREM ResetInductive == Spec => []IInv
<1>1. IInv /\ [Next]_vars => IInv'
  BY InvStep
<1> QED  BY <1>1, InitInv, PTL DEF Spec

\* However approvals, rejections and executions race, nothing is wiped
\* unless both signatures are on the request, neither that of its maker.
THEOREM WipeNeedsBoth == Spec => []WipedOnlyWithBoth
<1>1. IInv => WipedOnlyWithBoth
  BY DEF IInv
<1> QED  BY <1>1, ResetInductive, PTL

\* A request handled one call at a time: what its call has read is all there is.
THEOREM ResetAlone == Spec => []AloneInv
<1>1. Init => AloneInv
  BY DEF Init, AloneInv, OneAtATime, ReadIsCurrent, RejectionIsLast, BothSignaturesCount,
         Did, About
<1>2. IInv /\ AloneInv /\ [Next]_vars => AloneInv'
  BY AloneStep
<1> QED  BY <1>1, <1>2, ResetInductive, PTL DEF Spec

\* A rejection is the last thing that is done to a request whose calls never
\* overlapped.
THEOREM RejectionEndsIt == Spec => []RejectionIsLast
<1>1. AloneInv => RejectionIsLast
  BY DEF AloneInv
<1> QED  BY <1>1, ResetAlone, PTL

\* A request whose calls never overlapped and that both have signed is decided:
\* it is never left where every further signature is refused.
THEOREM BothSignaturesDecide == Spec => []BothSignaturesCount
<1>1. AloneInv => BothSignaturesCount
  BY DEF AloneInv
<1> QED  BY <1>1, ResetAlone, PTL
=============================================================================
