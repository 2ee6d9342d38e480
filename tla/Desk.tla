-------------------------------- MODULE Desk --------------------------------
(***************************************************************************)
(* The support desk and the editors of the catalogue in one API process    *)
(* (cmd/api/main.go): the same goroutines serve both, no request is served *)
(* before the backfill of slugs is over, and a stop of the process ends    *)
(* the requests of both.                                                   *)
(***************************************************************************)
EXTENDS Tickets, Catalogue

deskVars == <<ticketVars, catalogueVars>>

Init == TicketInit /\ CatalogueInit

\* A goroutine that serves a request of one component serves none of the other.
OneRequest == \A w \in Worker : reply[w].stage = "idle" \/ edit[w].stage = "idle"

DeskWork(w) == Up /\ TicketStep(w) /\ UNCHANGED catalogueVars /\ OneRequest'

CatalogueWork ==
    /\ \/ \E w \in Worker : CatalogueStep(w)
       \/ \E c \in Comic : CatalogueOfComic(c)
       \/ Listen
    /\ UNCHANGED ticketVars
    /\ OneRequest'

Crash == TicketCrash /\ CatalogueCrash

Next == (\E w \in Worker : DeskWork(w)) \/ CatalogueWork \/ Crash

Spec == Init /\ [][Next]_deskVars

-----------------------------------------------------------------------------
\* Tables and requests of both components keep their types, every request has what
\* its next statement uses, no goroutine serves two, and none serves any during the
\* backfill (cmd/api/main.go).
TypeOK ==
    /\ TicketsOK /\ CatalogueOK
    /\ OneRequest
    /\ ~Up => \A w \in Worker : reply[w] = NoReply /\ edit[w] = NoEdit
=============================================================================
