------------------------------- MODULE Calls --------------------------------
(***************************************************************************)
(* Voice calls: the rows that CallsService keeps, the relay of CallsGateway *)
(* and one browser tab for each person (useCallManager).  Posts to the     *)
(* service go over HTTP; rings and signals reach a tab over its socket, in *)
(* the order in which the relay took them.  A tab has one post under way.  *)
(*                                                                         *)
(* External: RTCPeerConnection.  A connection carries sound when one end   *)
(* made the offer, the other answered it, and the answer came back.        *)
(***************************************************************************)
EXTENDS Integers, SequencesExt

CONSTANTS
    User,
    Top,            \* the Managing Director and the CEO
    Call,           \* calls that may be made
    CallRequest,    \* requests for a call that may be made
    None,
    MaxParty,       \* bound: people called at once
    MaxGone         \* bound: people who hang up

ASSUME CallsAssumption == Top \subseteq User /\ None \notin User \cup Call

VARIABLES
    session,        \* the status of each call
    member,         \* [Call -> [User -> status of the participant, or "NONE"]]
    asked,          \* call_requests
    post,           \* what each tab has posted, and how far it has come
    inbox,          \* rings and signals on their way to each tab
    incoming,       \* the call that rings on each screen
    active,         \* the call on each screen
    peer,           \* [User -> [User -> the connection in peersRef]]
    mixed           \* history: a signal met a connection it was not meant for

tabs == <<incoming, active, peer>>
rows == <<session, member, asked>>
vars == <<rows, post, inbox, tabs, mixed>>

Closed == [at |-> "closed"]
Idle == [op |-> "none"]
Made(k) == session[k] # "NONE"
Members(k) == {u \in User : member[k][u] # "NONE"}
Joined(k) == {u \in User : member[k][u] = "JOINED"}

Init ==
    /\ session = [k \in Call |-> "NONE"]
    /\ member = [k \in Call |-> [u \in User |-> "NONE"]]
    /\ asked = [q \in CallRequest |-> [status |-> "NONE"]]
    /\ post = [u \in User |-> Idle]
    /\ inbox = [u \in User |-> <<>>]
    /\ incoming = [u \in User |-> None]
    /\ active = [u \in User |-> None]
    /\ peer = [u \in User |-> [v \in User |-> Closed]]
    /\ mixed = FALSE

-----------------------------------------------------------------------------
(* Making a call. *)

\* One message to each of some tabs.
Emit(to, message) ==
    inbox' = [u \in User |-> IF u \in to THEN Append(inbox[u], message) ELSE inbox[u]]
Post(u, p) == post' = [post EXCEPT ![u] = p]

\* The call's row, its participants, and the ring.
NewCall(k, by, to) ==
    /\ ~Made(k)
    /\ session' = [session EXCEPT ![k] = "RINGING"]
    /\ member' = [member EXCEPT ![k] = [u \in User |->
           IF u = by THEN "JOINED" ELSE IF u \in to THEN "INVITED" ELSE "NONE"]]
    /\ Emit(to, [type |-> "incoming", call |-> k])

\* startCall, initiateCall: only the top calls the top.  A group call, which
\* only the top starts, differs from a direct one to several in its title.
Start(u, k, to) ==
    /\ post[u] = Idle
    /\ u \notin to /\ to # {} /\ Cardinality(to) <= MaxParty
    /\ u \notin Top => to \cap Top = {}
    /\ NewCall(k, u, to)
    /\ Post(u, [op |-> "start", call |-> k])
    /\ UNCHANGED <<asked, tabs, mixed>>

Started(u) ==
    /\ post[u].op = "start"
    /\ active' = [active EXCEPT ![u] = post[u].call]
    /\ Post(u, Idle)
    /\ UNCHANGED <<rows, inbox, incoming, peer, mixed>>

\* requestCall: everybody else asks the top for one.
RequestCall(u, q, v) ==
    /\ asked[q].status = "NONE"
    /\ u \notin Top /\ v \in Top
    /\ asked' = [asked EXCEPT ![q] = [status |-> "PENDING", from |-> u, to |-> v]]
    /\ UNCHANGED <<session, member, post, inbox, tabs, mixed>>

\* respondToCallRequest: read outside the transaction that answers.  The
\* screen of who approves does not show the call that this makes.
AskRespond(u, q, k) ==
    /\ post[u] = Idle
    /\ asked[q].status = "PENDING" /\ asked[q].to = u
    /\ Post(u, [op |-> "respond", request |-> q, call |-> k])
    /\ UNCHANGED <<rows, inbox, tabs, mixed>>

Respond(u) ==
    /\ post[u].op = "respond"
    /\ LET q == post[u].request
           k == post[u].call
       IN \/ /\ k = None
             /\ asked' = [asked EXCEPT ![q].status = "DECLINED"]
             /\ UNCHANGED <<session, member, inbox>>
          \/ /\ k # None /\ NewCall(k, u, {asked[q].from})
             /\ asked' = [asked EXCEPT ![q].status = "APPROVED"]
    /\ Post(u, Idle)
    /\ UNCHANGED <<tabs, mixed>>

-----------------------------------------------------------------------------
(* Answering, declining and leaving. *)

PostAbout(u, op, k) ==
    /\ post[u] = Idle /\ k # None
    /\ Post(u, [op |-> op, call |-> k])
    /\ UNCHANGED <<rows, inbox, tabs, mixed>>

Accept(u) == PostAbout(u, "join", incoming[u])
Decline(u) == PostAbout(u, "decline", incoming[u])
Leaving == {u \in User : post[u].op = "leave" \/ \E k \in Call : member[k][u] = "LEFT"}
HangUp(u) == Cardinality(Leaving \ {u}) < MaxGone /\ PostAbout(u, "leave", active[u])

\* A handler writes the caller's own row of the call and goes on.
Write(u, op, status, next) ==
    /\ post[u].op = op
    /\ member' = [member EXCEPT ![post[u].call][u] = status]
    /\ Post(u, [post[u] EXCEPT !.op = next])
    /\ UNCHANGED <<asked, inbox, tabs, mixed>>

Join(u) ==
    /\ Write(u, "join", "JOINED", "joined")
    /\ session' = [session EXCEPT ![post[u].call] = "ACTIVE"]

\* The answer lists who is in the call; the tab tells them it is ready.
ReadyToOne(u, k) ==     \* seeded mistake: the first participant only
    IF Joined(k) \ {u} = {} THEN {} ELSE {CHOOSE v \in Joined(k) \ {u} : TRUE}
ReadyTo(u, k) == Joined(k) \ {u}
NowIn(u) ==
    /\ post[u].op = "joined"
    /\ LET k == post[u].call
       IN /\ active' = [active EXCEPT ![u] = k]
          /\ Emit(ReadyTo(u, k), [type |-> "ready", from |-> u, call |-> k])
    /\ incoming' = [incoming EXCEPT ![u] = None]
    /\ Post(u, Idle)
    /\ UNCHANGED <<rows, peer, mixed>>

Declined(u) ==
    /\ post[u].op = "decline"
    /\ member' = [member EXCEPT ![post[u].call][u] = "DECLINED"]
    /\ incoming' = [incoming EXCEPT ![u] = None]
    /\ Post(u, Idle)
    /\ UNCHANGED <<session, asked, inbox, active, peer, mixed>>

\* leaveCall: the row, and then a count of who is left.
StillInUndeclined(k) == {v \in User : member[k][v] \in {"INVITED", "JOINED", "LEFT"}}  \* seeded mistake
StillIn(k) == {v \in User : member[k][v] \in {"INVITED", "JOINED"}}
Leave(u) == Write(u, "leave", "LEFT", "left") /\ UNCHANGED session
Count(u) ==
    /\ post[u].op = "left"
    /\ LET k == post[u].call
       IN IF StillIn(k) = {}
          THEN /\ session' = [session EXCEPT ![k] = "ENDED"]
               /\ Emit(Members(k), [type |-> "ended", call |-> k])
          ELSE UNCHANGED <<session, inbox>>
    /\ Post(u, [post[u] EXCEPT !.op = "gone"])
    /\ UNCHANGED <<member, asked, tabs, mixed>>

CloseAll(u) == peer' = [peer EXCEPT ![u] = [v \in User |-> Closed]]

\* hangUp: the tab forgets the call when the answer comes.
HungUp(u) ==
    /\ post[u].op = "gone"
    /\ active' = [active EXCEPT ![u] = None]
    /\ CloseAll(u)
    /\ Post(u, Idle)
    /\ UNCHANGED <<rows, inbox, incoming, mixed>>

-----------------------------------------------------------------------------
(* What a tab does with what its socket brings. *)

\* Bound: nothing is heard once a signal met a connection not meant for it.
Hear(u, type) == ~mixed /\ inbox[u] # <<>> /\ Head(inbox[u]).type = type

\* The message is taken and another one may be sent.
Take(u, to, message) ==
    inbox' = [v \in User |->
        LET rest == IF v = u THEN Tail(inbox[v]) ELSE inbox[v]
        IN IF v \in to THEN Append(rest, message) ELSE rest]

Ring(u) ==
    /\ Hear(u, "incoming")
    /\ incoming' = [incoming EXCEPT ![u] = Head(inbox[u]).call]
    /\ Take(u, {}, None)
    /\ UNCHANGED <<rows, post, active, peer, mixed>>

Ended(u) ==
    /\ Hear(u, "ended")
    /\ LET k == Head(inbox[u]).call
       IN /\ IF active[u] = k THEN active' = [active EXCEPT ![u] = None] /\ CloseAll(u)
             ELSE UNCHANGED <<active, peer>>
          /\ incoming' = [incoming EXCEPT ![u] = IF @ = k THEN None ELSE @]
    /\ Take(u, {}, None)
    /\ UNCHANGED <<rows, post, mixed>>

\* No handler asks which call a signal belongs to.
Stray(u, k) == active[u] # k /\ ~(post[u].op \in {"joined", "start"} /\ post[u].call = k)
Signal(u, message, to, answer, connection) ==
    /\ peer' = [peer EXCEPT ![u][message.from] = connection]
    /\ Take(u, to, answer)
    /\ UNCHANGED <<rows, post, incoming, active>>

\* Whoever hears "ready" makes a new connection and the offer.
HearReady(u) ==
    /\ Hear(u, "ready")
    /\ LET m == Head(inbox[u])
       IN /\ Signal(u, m, {m.from}, [type |-> "offer", from |-> u, call |-> m.call],
                    [at |-> "offering", call |-> m.call])
          /\ mixed' = (mixed \/ Stray(u, m.call))

\* An offer is answered on the connection there is, or on a new one; one
\* that was offering gives its own offer up.
HearOffer(u) ==
    /\ Hear(u, "offer")
    /\ LET m == Head(inbox[u])
       IN /\ Signal(u, m, {m.from}, [type |-> "answer", from |-> u, call |-> m.call],
                    [at |-> "answered", call |-> m.call])
          /\ mixed' = (mixed \/ Stray(u, m.call) \/ peer[u][m.from] # Closed)

\* An answer that nobody waits for is an error that nobody sees.
HearAnswer(u) ==
    /\ Hear(u, "answer")
    /\ LET m == Head(inbox[u])
           c == peer[u][m.from]
       IN /\ Signal(u, m, {}, None, IF c.at = "offering" THEN [c EXCEPT !.at = "accepted"] ELSE c)
          /\ mixed' = (mixed \/ Stray(u, m.call) \/ c.at # "offering" \/ c.call # m.call)

Serves(u) ==
    \/ Started(u) \/ Respond(u)
    \/ Join(u) \/ NowIn(u)
    \/ Declined(u)
    \/ Leave(u) \/ Count(u) \/ HungUp(u)
Hears(u) ==
    \/ Ring(u) \/ Ended(u) \/ HearReady(u) \/ HearOffer(u) \/ HearAnswer(u)

Next ==
    \/ \E u \in User, k \in Call : \E to \in SUBSET User : Start(u, k, to)
    \/ \E u, v \in User, q \in CallRequest : RequestCall(u, q, v)
    \/ \E u \in User, q \in CallRequest, k \in Call \cup {None} : AskRespond(u, q, k)
    \/ \E u \in User : Accept(u) \/ Decline(u) \/ HangUp(u) \/ Serves(u) \/ Hears(u)

\* The server answers every post and every tab's event loop runs on; people
\* need not do anything.  As calls come to an end, this weak form is enough.
Fairness == WF_vars(\E u \in User : Serves(u) \/ Hears(u))
Spec == Init /\ [][Next]_vars /\ Fairness

-----------------------------------------------------------------------------
(* Properties. *)

\* A call that everybody in it left is ended, whichever of them leave at the
\* same time: each writes the own row before counting the others'.
LastOneOutEndsIt ==
    \A k \in Call :
        (Made(k) /\ \A u \in Members(k) : member[k][u] = "LEFT") ~> session[k] = "ENDED"

\* Once all posts are answered and all signals heard, two people with the
\* same call on their screens hear each other: one of them made the offer.
Quiet == \A u \in User : post[u] = Idle /\ inbox[u] = <<>>
Connected(u, v) == {peer[u][v].at, peer[v][u].at} = {"accepted", "answered"}
BothHear ==
    Quiet /\ ~mixed => \A u, v \in User :
        u # v /\ active[u] # None /\ active[u] = active[v] => Connected(u, v)

\* "This one-directional rule is what avoids both sides racing to offer each
\* other at once (glare)."
NoGlare == \A u, v \in User : ~(peer[u][v].at = "offering" /\ peer[v][u].at = "offering")
=============================================================================
