------------------------------ MODULE Tickets -------------------------------
(***************************************************************************)
(* Support tickets: internal/handlers/support.go.                          *)
(*                                                                         *)
(* A ticket has a status and a thread of messages.  Each handler reads the *)
(* ticket, decides, and then writes the message and the status in separate *)
(* statements, none of which looks at the status again.  A user's requests *)
(* are those of the ticket's owner; of anybody else the handlers answer    *)
(* 403 and change nothing.                                                 *)
(***************************************************************************)
EXTENDS Integers, Requests

CONSTANTS
    Ticket,      \* rows of support_tickets, in use or still free
    NoTicket

ASSUME TicketsAssumption == NoTicket \notin Ticket

VARIABLES
    status,      \* support_tickets.status
    reply,       \* what each worker is doing
    newest,      \* history: who wrote the ticket's newest message
    late         \* history: messages a closed ticket got since it was closed

ticketVars == <<status, reply, newest, late>>

\* "opening": nobody replied yet; "unclear": statuses were not written in the order
\* of the messages, or not at all.
Author == {"opening", "owner", "admin", "unclear"}

(***************************************************************************)
(* A request in progress.  stage says which statement comes next:          *)
(*   first    insert the ticket's first message (CreateTicket)             *)
(*   message  insert the reply (ReplyTicket)                               *)
(*   status   write the status that goes with it (ReplyTicket)             *)
(***************************************************************************)
Reply == [stage : {"idle", "first", "message", "status"},
          ticket : Ticket \cup {NoTicket}, isAdmin : BOOLEAN]

NoReply == [stage |-> "idle", ticket |-> NoTicket, isAdmin |-> FALSE]

At(stages, t) == {w \in Worker : reply[w].stage \in stages /\ reply[w].ticket = t}

Begin(w, s, t, admin) ==
    /\ reply[w].stage = "idle"
    /\ reply' = [reply EXCEPT ![w] = [stage |-> s, ticket |-> t, isAdmin |-> admin]]
EndReply(w) == reply' = [reply EXCEPT ![w] = NoReply]

TicketInit ==
    /\ status = [t \in Ticket |-> "none"]
    /\ reply = [w \in Worker |-> NoReply]
    /\ newest = [t \in Ticket |-> "opening"]
    /\ late = [t \in Ticket |-> 0]

-----------------------------------------------------------------------------
\* The row is in the table, for lists and replies, before its first message is.
CreateTicket(w, t) ==
    /\ status[t] = "none"
    /\ Begin(w, "first", t, FALSE)
    /\ status' = [status EXCEPT ![t] = "open"]
    /\ UNCHANGED <<newest, late>>

\* A message's insert.  History: it is late in a closed ticket.
InsertMessage(t, author) ==
    /\ newest' = [newest EXCEPT ![t] = author]
    /\ late' = [late EXCEPT ![t] = IF status[t] = "closed" THEN @ + 1 ELSE @]

\* An error of the insert is ignored: a ticket without a message.
FirstMessage(w) ==
    LET t == reply[w].ticket IN
    /\ reply[w].stage = "first"
    /\ \/ InsertMessage(t, IF newest[t] = "opening" THEN "opening" ELSE "unclear")
       \/ UNCHANGED <<newest, late>>
    /\ EndReply(w)
    /\ UNCHANGED status

\* Mutant: the status of the ticket is not looked at.
ReplyTicket_Closed(w, t, admin) ==
    /\ status[t] # "none"
    /\ Begin(w, "message", t, admin)
    /\ UNCHANGED <<status, newest, late>>

\* Mutant: the ticket that is not found is taken for an open one.
ReplyTicket_NotFound(w, t, admin) ==
    /\ status[t] # "closed"
    /\ Begin(w, "message", t, admin)
    /\ UNCHANGED <<status, newest, late>>

\* The ticket is read; "ticket is closed" ends the request.
ReplyTicket(w, t, admin) ==
    /\ status[t] \notin {"none", "closed"}
    /\ Begin(w, "message", t, admin)
    /\ UNCHANGED <<status, newest, late>>

CreateMessage(w) ==
    LET t == reply[w].ticket IN
    /\ reply[w].stage = "message"
    /\ InsertMessage(t, IF At({"status"}, t) # {} THEN "unclear"
                        ELSE IF reply[w].isAdmin THEN "admin" ELSE "owner")
    /\ reply' = [reply EXCEPT ![w] = [@ EXCEPT !.stage = "status"]]
    /\ UNCHANGED status

\* Mutant: a user's reply leaves the status alone.
StatusFor_Open(admin) == "open"

\* An admin's reply opens the ticket, its owner's makes it wait for an admin.
StatusFor(admin) == IF admin THEN "open" ELSE "pending"

\* The UPDATE writes by id whatever the status is by now; its error is ignored.
UpdateStatus(w) ==
    LET t == reply[w].ticket IN
    /\ reply[w].stage = "status"
    /\ \/ /\ status' = [status EXCEPT ![t] = StatusFor(reply[w].isAdmin)]
          /\ late' = [late EXCEPT ![t] = 0]
          /\ UNCHANGED newest
       \/ /\ newest' = [newest EXCEPT ![t] = "unclear"]
          /\ UNCHANGED <<status, late>>
    /\ EndReply(w)

\* The handler looks for the ticket, which stays once it is there, and its owner; then
\* one UPDATE by id, of a closed ticket too.
CloseTicket(w, t) ==
    /\ reply[w].stage = "idle"
    /\ status[t] # "none"
    /\ status' = [status EXCEPT ![t] = "closed"]
    /\ UNCHANGED <<reply, newest, late>>

\* A statement fails where that ends the request, or the client goes away.
AbortReply(w) ==
    /\ reply[w].stage # "idle"
    /\ newest' = [t \in Ticket |-> IF w \in At({"status"}, t) THEN "unclear" ELSE newest[t]]
    /\ EndReply(w)
    /\ UNCHANGED <<status, late>>

\* The API stops: all requests in progress are gone.
TicketCrash ==
    /\ newest' = [t \in Ticket |-> IF At({"status"}, t) # {} THEN "unclear" ELSE newest[t]]
    /\ reply' = [w \in Worker |-> NoReply]
    /\ UNCHANGED <<status, late>>

TicketStep(w) ==
    \/ \E t \in Ticket : CreateTicket(w, t) \/ CloseTicket(w, t)
    \/ \E t \in Ticket, admin \in BOOLEAN : ReplyTicket(w, t, admin)
    \/ FirstMessage(w) \/ CreateMessage(w) \/ UpdateStatus(w) \/ AbortReply(w)

TicketNext == (\E w \in Worker : TicketStep(w)) \/ TicketCrash

TicketSpec == TicketInit /\ [][TicketNext]_ticketVars

-----------------------------------------------------------------------------
(***************************************************************************)
(* Properties.                                                             *)
(***************************************************************************)

TicketsOK ==
    /\ status \in [Ticket -> {"none", "open", "pending", "closed"}]
    /\ newest \in [Ticket -> Author]
    /\ reply \in [Worker -> Reply]
    /\ \A w \in Worker : reply[w].stage # "idle" =>
          reply[w].ticket \in Ticket /\ status[reply[w].ticket] # "none"
    /\ late \in [Ticket -> Nat]

\* A closed ticket gets at most one message from each other request that was in
\* progress when it was closed: those had read it before, and neither their INSERT nor
\* their UPDATE, which opens the ticket again, looks at the status (support.go:131-149
\* against 176).
FewLateReplies ==
    \A t \in Ticket : status[t] = "closed" => late[t] < Cardinality(Worker)

\* The status says whose turn it is: pending when the owner wrote last, open when an
\* admin did - unless replies overlapped and wrote their statuses in another order
\* than their messages, or an UPDATE failed, which the handler does not tell
\* (support.go:141-149).
StatusTellsWhoseTurn ==
    \A t \in Ticket :
       At({"status"}, t) = {} /\ status[t] \in {"open", "pending"} /\ newest[t] # "unclear" =>
          (status[t] = "pending" <=> newest[t] = "owner")

-----------------------------------------------------------------------------
(***************************************************************************)
(* The inductive invariants behind the properties (Desk_proofs).           *)
(***************************************************************************)

\* Those that may still write a message into the closed ticket, with those that did,
\* are fewer than the workers: the one that closed it was idle.
LateInv ==
    /\ TicketsOK
    /\ \A t \in Ticket :
          IF status[t] = "closed"
            THEN late[t] + Cardinality(At({"first", "message"}, t)) < Cardinality(Worker)
            ELSE late[t] = 0

\* While it is clear who wrote last, at most that reply is still to write its status.
TurnInv ==
    /\ TicketsOK
    /\ \A t \in Ticket : status[t] = "none" => newest[t] = "opening"
    /\ \A t \in Ticket : newest[t] # "unclear" =>
          /\ \A v, w \in At({"status"}, t) : v = w
          /\ \A w \in At({"status"}, t) : newest[t] = IF reply[w].isAdmin THEN "admin" ELSE "owner"
    /\ StatusTellsWhoseTurn
=============================================================================
