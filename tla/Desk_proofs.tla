---------------------------- MODULE Desk_proofs -----------------------------
(***************************************************************************)
(* Proofs about Desk, and so about Tickets and Catalogue: for every set of *)
(* workers, tickets, comics and genres, and any number of candidates.      *)
(***************************************************************************)
EXTENDS Desk, FiniteSetTheorems, TLAPS

-----------------------------------------------------------------------------
(* Tickets: types.                                                         *)

LEMMA TicketsInit == TicketInit => TicketsOK
  BY TicketsAssumption DEF TicketInit, TicketsOK, NoReply, Reply, Author

LEMMA TicketsStep ==
  ASSUME TicketsOK, NEW w \in Worker, TicketStep(w)
  PROVE  TicketsOK'
<1> USE TicketsAssumption DEF TicketsOK, Reply, NoReply, Author
<1>1. ASSUME NEW t \in Ticket, CreateTicket(w, t) PROVE TicketsOK'
  BY <1>1 DEF CreateTicket, Begin
<1>2. ASSUME NEW t \in Ticket, CloseTicket(w, t) PROVE TicketsOK'
  BY <1>2 DEF CloseTicket
<1>3. ASSUME NEW t \in Ticket, NEW a \in BOOLEAN, ReplyTicket(w, t, a) PROVE TicketsOK'
  BY <1>3 DEF ReplyTicket, Begin
<1>4. CASE FirstMessage(w)
  BY <1>4 DEF FirstMessage, InsertMessage, EndReply
<1>5. CASE CreateMessage(w)
  BY <1>5 DEF CreateMessage, InsertMessage
<1>6. CASE UpdateStatus(w)
  BY <1>6 DEF UpdateStatus, StatusFor, EndReply
<1>7. CASE AbortReply(w)
  BY <1>7 DEF AbortReply, EndReply
<1> QED
  BY <1>1, <1>2, <1>3, <1>4, <1>5, <1>6, <1>7 DEF TicketStep

LEMMA TicketsCrash == TicketsOK /\ TicketCrash => TicketsOK'
  BY TicketsAssumption DEF TicketsOK, TicketCrash, Reply, NoReply, Author

-----------------------------------------------------------------------------
(* Catalogue: types.                                                       *)

LEMMA NoEditOK == NoEdit \in Edit /\ EditOK(NoEdit)
  BY CatalogueAssumption DEF NoEdit, Edit, EditOK

\* A step that writes one request keeps the others.
LEMMA EditKept ==
  ASSUME CatalogueOK, NEW w \in Worker, NEW q \in Edit, EditOK(q),
         edit' = [edit EXCEPT ![w] = q]
  PROVE  edit' \in [Worker -> Edit] /\ \A v \in Worker : EditOK(edit[v])'
<1>1. \A v \in Worker : edit'[v] = IF v = w THEN q ELSE edit[v]
  BY DEF CatalogueOK
<1> QED
  BY <1>1 DEF CatalogueOK, EditOK

\* Another stage of the same request.
LEMMA EditMoved ==
  ASSUME CatalogueOK, NEW w \in Worker, NEW s, EditGoto(w, s),
         \/ s = "write" /\ edit[w].stage = "count"
         \/ s = "add" /\ edit[w].stage = "write" /\ edit[w].genres # {}
  PROVE  edit' \in [Worker -> Edit] /\ \A v \in Worker : EditOK(edit[v])'
<1> DEFINE q == [edit[w] EXCEPT !.stage = s]
<1>1. edit[w] \in Edit /\ EditOK(edit[w])
  BY DEF CatalogueOK
<1>2. q \in Edit /\ EditOK(q)
  BY <1>1 DEF Edit, EditOK
<1>3. edit' = [edit EXCEPT ![w] = q]
  BY DEF EditGoto
<1> HIDE DEF q
<1> QED
  BY <1>2, <1>3, EditKept

LEMMA EditEnded ==
  ASSUME CatalogueOK, NEW w \in Worker, EndEdit(w)
  PROVE  edit' \in [Worker -> Edit] /\ \A v \in Worker : EditOK(edit[v])'
  BY NoEditOK, EditKept DEF EndEdit

LEMMA CatalogueTypesInit == CatalogueInit => CatalogueOK
<1> SUFFICES ASSUME CatalogueInit PROVE CatalogueOK
  OBVIOUS
<1> USE CatalogueAssumption DEF CatalogueInit
<1>1. /\ row \in [Item -> Row] /\ \A i \in Item : There(i) => row[i].base \in Bases(i)
      /\ boot \in [up : BOOLEAN, todo : SUBSET Comic] /\ \A c \in boot.todo : There(c)
  <2>1. PICK old \in SUBSET Comic, title \in [Comic -> Title] :
          /\ row = [i \in Item |-> IF i \in old
                                     THEN [there |-> TRUE, base |-> title[i], slug |-> NoSlug]
                                     ELSE Free]
          /\ boot = [up |-> FALSE, todo |-> old]
    OBVIOUS
  <2>2. Free \in Row
    BY DEF Row, Free
  <2>3. \A i \in old : [there |-> TRUE, base |-> title[i], slug |-> NoSlug] \in Row
    BY <2>1 DEF Row, Base
  <2>4. row \in [Item -> Row]
    BY <2>1, <2>2, <2>3
  <2>5. \A i \in Item : There(i) <=> i \in old
    BY <2>1 DEF There, Free
  <2>6. \A i \in old : row[i].base \in Bases(i) /\ i \in Item
    BY <2>1 DEF Bases, Item
  <2> QED
    BY <2>1, <2>4, <2>5, <2>6
<1>2. edit \in [Worker -> Edit] /\ \A w \in Worker : EditOK(edit[w])
  BY NoEditOK
<1>3. /\ tagged \in [Comic -> SUBSET Genre] /\ follows \in [Comic -> 0 .. MaxFollows]
      /\ asked \in [Comic -> (SUBSET Genre) \cup {Mixed}]
  OBVIOUS
<1> QED
  BY <1>1, <1>2, <1>3 DEF CatalogueOK

LEMMA EditTypes ==
  ASSUME CatalogueOK, CatalogueNext
  PROVE  edit' \in [Worker -> Edit] /\ \A v \in Worker : EditOK(edit[v])'
<1> USE CatalogueAssumption
<1>0. \A w \in Worker : edit[w] \in Edit /\ EditOK(edit[w])
  BY DEF CatalogueOK
<1> DEFINE Goal == edit' \in [Worker -> Edit] /\ \A v \in Worker : EditOK(edit[v])'
<1>1. ASSUME NEW w \in Worker, NEW i \in Item, NEW gs \in SUBSET Genre, NEW b \in Bases(i),
             Create(w, i, b, gs)
      PROVE  Goal
  <2> DEFINE q == [stage |-> "count", item |-> i, new |-> TRUE, base |-> b, n |-> 0, genres |-> gs]
  <2>1. b \in Base /\ (i \in Comic \/ gs = {})
    BY <1>1 DEF Create, Base, Bases, Item
  <2>2. q \in Edit /\ EditOK(q)
    BY <2>1 DEF Edit, EditOK
  <2>3. edit' = [edit EXCEPT ![w] = q]
    BY <1>1 DEF Create
  <2> HIDE DEF q
  <2> QED
    BY <2>2, <2>3, EditKept
<1>2. ASSUME NEW w \in Worker, NEW i \in Item, NEW gs \in SUBSET Genre,
             NEW b \in Bases(i) \cup {NoBase}, Update(w, i, b, gs)
      PROVE  Goal
  <2> DEFINE q == [stage |-> IF b = NoBase THEN "add" ELSE "count",
                   item |-> i, new |-> FALSE, base |-> b, n |-> 0, genres |-> gs]
  <2>1. /\ b \in Base \cup {NoBase} /\ (i \in Comic \/ gs = {})
        /\ b = NoBase => gs # {}
    BY <1>2 DEF Update, Base, Bases, Item
  <2>2. q \in Edit /\ EditOK(q)
    BY <2>1 DEF Edit, EditOK
  <2>3. edit' = [edit EXCEPT ![w] = q]
    BY <1>2 DEF Update
  <2> HIDE DEF q
  <2> QED
    BY <2>2, <2>3, EditKept
<1>3. ASSUME NEW w \in Worker, CountSlug(w) PROVE Goal
  <2>1. CASE EditGoto(w, "write")
    BY <1>3, <2>1, EditMoved DEF CountSlug
  <2>2. CASE EndEdit(w)
    BY <2>2, EditEnded
  <2>3. CASE edit[w].n + 1 < MaxTries /\ edit' = [edit EXCEPT ![w] = [edit[w] EXCEPT !.n = edit[w].n + 1]]
    <3> DEFINE q == [edit[w] EXCEPT !.n = edit[w].n + 1]
    <3>1. q \in Edit /\ EditOK(q)
      BY <1>0, <1>3, <2>3 DEF Edit, EditOK
    <3>2. edit' = [edit EXCEPT ![w] = q]
      BY <2>3
    <3> HIDE DEF q
    <3> QED
      BY <3>1, <3>2, EditKept
  <2> QED
    BY <1>3, <2>1, <2>2, <2>3 DEF CountSlug
<1>4. ASSUME NEW w \in Worker, Write(w) PROVE Goal
  BY <1>4, EditMoved, EditEnded DEF Write
<1>5. ASSUME NEW w \in Worker, ReplaceAdd(w) PROVE Goal
  <2>0. PICK read \in SUBSET {g \in edit[w].genres : There(g)} :
           edit' = [edit EXCEPT ![w] = [edit[w] EXCEPT !.stage = "drop", !.genres = read]]
    BY <1>5 DEF ReplaceAdd
  <2> DEFINE q == [edit[w] EXCEPT !.stage = "drop", !.genres = read]
  <2>1. q \in Edit /\ EditOK(q)
    <3>1. edit[w] \in Edit /\ EditOK(edit[w]) /\ edit[w].stage = "add"
      BY <1>0, <1>5 DEF ReplaceAdd
    <3>2. read \in SUBSET Genre
      BY <3>1 DEF Edit
    <3> QED
      BY <3>1, <3>2 DEF Edit, EditOK
  <2>2. edit' = [edit EXCEPT ![w] = q]
    BY <2>0
  <2> HIDE DEF q
  <2> QED
    BY <2>1, <2>2, EditKept
<1>6. ASSUME NEW w \in Worker, ReplaceDrop(w) \/ AbortEdit(w) PROVE Goal
  BY <1>6, EditEnded DEF ReplaceDrop, AbortEdit
<1>7. ASSUME \/ \E c \in Comic : CatalogueOfComic(c)
             \/ Listen
      PROVE  Goal
  <2>1. edit' = edit
    BY <1>7 DEF CatalogueOfComic, Backfill, AdminDeleteComic, FollowComic, UnfollowComic, Listen
  <2> QED
    BY <2>1 DEF CatalogueOK
<1>8. CASE CatalogueCrash
  BY <1>8, NoEditOK DEF CatalogueCrash
<1> QED
  BY <1>1, <1>2, <1>3, <1>4, <1>5, <1>6, <1>7, <1>8 DEF CatalogueNext, CatalogueStep

LEMMA TableTypes ==
  ASSUME CatalogueOK, CatalogueNext
  PROVE  /\ row' \in [Item -> Row] /\ \A i \in Item : There(i)' => row'[i].base \in Bases(i)
         /\ tagged' \in [Comic -> SUBSET Genre]
         /\ follows' \in [Comic -> 0 .. MaxFollows]
         /\ boot' \in [up : BOOLEAN, todo : SUBSET Comic] /\ \A c \in boot'.todo : There(c)'
         /\ asked' \in [Comic -> (SUBSET Genre) \cup {Mixed}]
<1> USE CatalogueAssumption
<1>0. /\ row \in [Item -> Row] /\ \A i \in Item : There(i) => row[i].base \in Bases(i)
      /\ tagged \in [Comic -> SUBSET Genre]
      /\ follows \in [Comic -> 0 .. MaxFollows]
      /\ boot \in [up : BOOLEAN, todo : SUBSET Comic] /\ \A c \in boot.todo : There(c)
      /\ asked \in [Comic -> (SUBSET Genre) \cup {Mixed}]
      /\ \A w \in Worker : edit[w] \in Edit /\ EditOK(edit[w])
  BY DEF CatalogueOK
<1> DEFINE Goal == /\ row' \in [Item -> Row] /\ \A i \in Item : There(i)' => row'[i].base \in Bases(i)
                   /\ tagged' \in [Comic -> SUBSET Genre]
                   /\ follows' \in [Comic -> 0 .. MaxFollows]
                   /\ boot' \in [up : BOOLEAN, todo : SUBSET Comic] /\ \A c \in boot'.todo : There(c)'
                   /\ asked' \in [Comic -> (SUBSET Genre) \cup {Mixed}]
<1>1. ASSUME NEW w \in Worker,
             \/ \E i \in Item, gs \in SUBSET Genre : \E b \in Bases(i) : Create(w, i, b, gs)
             \/ \E i \in Item, gs \in SUBSET Genre : \E b \in Bases(i) \cup {NoBase} : Update(w, i, b, gs)
             \/ CountSlug(w)
      PROVE  Goal
  BY <1>0, <1>1 DEF Create, Update, CountSlug, There
<1>2. ASSUME NEW w \in Worker, Write(w) PROVE Goal
  <2> DEFINE q == edit[w]
  <2> DEFINE r == [there |-> TRUE, base |-> q.base, slug |-> <<q.base, q.n>>]
  <2>1. q.item \in Item /\ q.base \in Base /\ q.n \in 0 .. MaxTries - 1 /\ q.base \in Bases(q.item)
    BY <1>0, <1>2 DEF Write, EditOK, Edit, Bases, Base
  <2>2. r \in Row /\ r.there /\ r.base = q.base
    BY <2>1 DEF Row, Slug
  <2>3. row' = row \/ row' = [row EXCEPT ![q.item] = r]
    BY <1>2 DEF Write
  <2>4. UNCHANGED <<tagged, follows, boot, asked>>
    BY <1>2 DEF Write
  <2> HIDE DEF q, r
  <2>5. row' \in [Item -> Row] /\ \A i \in Item : row'[i] = row[i] \/ (i = q.item /\ row'[i] = r)
    BY <1>0, <2>1, <2>2, <2>3
  <2>6. \A i \in Item : /\ There(i) => There(i)'
                        /\ There(i)' => row'[i].base \in Bases(i)
    BY <1>0, <2>1, <2>2, <2>5 DEF There
  <2> QED
    BY <1>0, <2>4, <2>5, <2>6 DEF Item
<1>3. ASSUME NEW w \in Worker, ReplaceAdd(w) PROVE Goal
  <2>1. edit[w].item \in Comic /\ edit[w].genres \in SUBSET Genre
    BY <1>0, <1>3 DEF ReplaceAdd, EditOK, Edit
  <2>2. UNCHANGED <<row, boot, follows>>
    BY <1>3 DEF ReplaceAdd
  <2> DEFINE found == {g \in edit[w].genres : There(g)}
  <2>3. PICK read \in SUBSET found, a \in {found, Mixed} :
           /\ tagged' = [tagged EXCEPT ![edit[w].item] = @ \cup read]
           /\ asked' = [asked EXCEPT ![edit[w].item] = a]
    BY <1>3 DEF ReplaceAdd
  <2>4. read \in SUBSET Genre /\ a \in (SUBSET Genre) \cup {Mixed}
    BY <2>1, <2>3
  <2> HIDE DEF found
  <2> QED
    BY <1>0, <2>1, <2>2, <2>3, <2>4 DEF There
<1>4. ASSUME NEW w \in Worker, ReplaceDrop(w) PROVE Goal
  <2>1. edit[w].item \in Comic
    BY <1>0, <1>4 DEF ReplaceDrop, EditOK
  <2> QED
    BY <1>0, <1>4, <2>1 DEF ReplaceDrop, There
<1>5. ASSUME NEW w \in Worker, AbortEdit(w) PROVE Goal
  BY <1>0, <1>5 DEF AbortEdit, There
<1>6. ASSUME NEW c \in Comic, Backfill(c) PROVE Goal
  <2>1. PICK n \in 0 .. MaxTries - 1 :
           row' = [row EXCEPT ![c] = [@ EXCEPT !.slug = <<row[c].base, n>>]]
    BY <1>6 DEF Backfill
  <2>2. /\ c \in Item /\ row[c] \in Row /\ There(c) /\ row[c].base \in Base
        /\ boot' = [boot EXCEPT !.todo = @ \ {c}] /\ UNCHANGED <<tagged, follows, asked>>
    BY <1>0, <1>6 DEF Item, Backfill, Bases, Base
  <2> DEFINE r == [row[c] EXCEPT !.slug = <<row[c].base, n>>]
  <2>3. r \in Row /\ r.there = row[c].there /\ r.base = row[c].base
    BY <2>2 DEF Row, Slug
  <2>4. row' = [row EXCEPT ![c] = r]
    BY <2>1
  <2> HIDE DEF r
  <2>5. row' \in [Item -> Row] /\ \A i \in Item : row'[i].there = row[i].there /\ row'[i].base = row[i].base
    BY <1>0, <2>2, <2>3, <2>4
  <2>6. boot' \in [up : BOOLEAN, todo : SUBSET Comic] /\ boot'.todo \subseteq boot.todo
    BY <1>0, <2>2
  <2> QED
    BY <1>0, <2>2, <2>5, <2>6 DEF There, Item
<1>7. ASSUME NEW c \in Comic, AdminDeleteComic(c) PROVE Goal
  <2>1. /\ c \in Item /\ boot.todo = {} /\ boot' = boot
        /\ row' = [row EXCEPT ![c] = Free] /\ UNCHANGED <<tagged, follows, asked>>
    BY <1>7 DEF AdminDeleteComic, Item, Up
  <2>2. Free \in Row /\ ~Free.there
    BY DEF Row, Free
  <2>3. row' \in [Item -> Row] /\ \A i \in Item : There(i)' => There(i) /\ row'[i] = row[i]
    BY <1>0, <2>1, <2>2 DEF There
  <2> QED
    BY <1>0, <2>1, <2>3
<1>8. ASSUME NEW c \in Comic, FollowComic(c) \/ UnfollowComic(c) PROVE Goal
  <2>1. UNCHANGED <<row, tagged, boot, asked>>
    BY <1>8 DEF FollowComic, UnfollowComic
  <2>2. follows' \in [Comic -> 0 .. MaxFollows]
    BY <1>0, <1>8 DEF FollowComic, UnfollowComic
  <2> QED
    BY <1>0, <2>1, <2>2 DEF There
<1>9. ASSUME Listen \/ CatalogueCrash PROVE Goal
  <2>1. UNCHANGED <<row, tagged, follows>>
    BY <1>9 DEF Listen, CatalogueCrash
  <2>2. asked' \in [Comic -> (SUBSET Genre) \cup {Mixed}]
    BY <1>0, <1>9 DEF Listen, CatalogueCrash
  <2>3. boot' \in [up : BOOLEAN, todo : SUBSET Comic] /\ \A c \in boot'.todo : There(c)
    <3>1. ASSUME NEW up \in BOOLEAN, NEW todo \in SUBSET Comic, \A c \in todo : There(c),
                 boot' = [up |-> up, todo |-> todo]
          PROVE  boot' \in [up : BOOLEAN, todo : SUBSET Comic] /\ \A c \in boot'.todo : There(c)
      BY <3>1
    <3>2. CASE boot' = [up |-> TRUE, todo |-> {}]
      BY <3>1, <3>2
    <3> DEFINE todo == {c \in Comic : There(c) /\ row[c].slug = NoSlug}
    <3>3. CASE boot' = [up |-> FALSE, todo |-> todo]
      <4>1. todo \in SUBSET Comic /\ \A c \in todo : There(c)
        OBVIOUS
      <4> HIDE DEF todo
      <4> QED
        BY <3>1, <3>3, <4>1
    <3> QED
      BY <1>9, <3>2, <3>3 DEF Listen, CatalogueCrash
  <2> QED
    BY <1>0, <2>1, <2>2, <2>3 DEF There
<1>10. ASSUME NEW w \in Worker, CatalogueStep(w) PROVE Goal
  BY <1>1, <1>2, <1>3, <1>4, <1>5, <1>10 DEF CatalogueStep
<1>11. ASSUME NEW c \in Comic, CatalogueOfComic(c) PROVE Goal
  BY <1>6, <1>7, <1>8, <1>11 DEF CatalogueOfComic
<1> HIDE DEF Goal
<1>12. Goal
  BY <1>9, <1>10, <1>11 DEF CatalogueNext
<1> QED
  BY <1>12 DEF Goal

LEMMA CatalogueTypesNext == CatalogueOK /\ CatalogueNext => CatalogueOK'
  BY EditTypes, TableTypes DEF CatalogueOK
-----------------------------------------------------------------------------
(* The composition: a step of the desk is a step of each component or      *)
(* leaves it alone.                                                        *)

LEMMA TicketPart ==
  ASSUME [Next]_deskVars
  PROVE  [TicketNext]_ticketVars
  BY DEF Next, deskVars, DeskWork, CatalogueWork, Crash, TicketNext

LEMMA CataloguePart ==
  ASSUME [Next]_deskVars
  PROVE  [CatalogueNext]_catalogueVars
  BY DEF Next, deskVars, DeskWork, CatalogueWork, Crash, CatalogueNext

\* The process that serves both does to each what it does alone (cmd/api/main.go).
THEOREM DeskComposes == Spec => TicketSpec /\ CatalogueSpec
<1>1. Init => TicketInit /\ CatalogueInit
  BY DEF Init
<1>2. [Next]_deskVars => [TicketNext]_ticketVars /\ [CatalogueNext]_catalogueVars
  BY TicketPart, CataloguePart
<1> QED
  BY <1>1, <1>2, PTL DEF Spec, TicketSpec, CatalogueSpec

LEMMA TicketsNext == TicketsOK /\ [TicketNext]_ticketVars => TicketsOK'
<1>1. TicketsOK /\ UNCHANGED ticketVars => TicketsOK'
  BY DEF TicketsOK, ticketVars
<1> QED
  BY <1>1, TicketsStep, TicketsCrash DEF TicketNext

LEMMA CatalogueNextOK == CatalogueOK /\ [CatalogueNext]_catalogueVars => CatalogueOK'
<1>1. CatalogueOK /\ UNCHANGED catalogueVars => CatalogueOK'
  BY DEF CatalogueOK, catalogueVars, There, EditOK
<1> QED
  BY <1>1, CatalogueTypesNext

LEMMA TypeInit == Init => TypeOK
<1>1. Init => TicketsOK /\ CatalogueOK
  BY TicketsInit, CatalogueTypesInit DEF Init
<1>2. Init => \A w \in Worker : reply[w] = NoReply /\ edit[w] = NoEdit
  BY DEF Init, TicketInit, CatalogueInit
<1>3. Init => OneRequest
  BY <1>2 DEF OneRequest, NoReply, NoEdit
<1> QED
  BY <1>1, <1>2, <1>3 DEF TypeOK

LEMMA TypeNext == TypeOK /\ [Next]_deskVars => TypeOK'
<1> SUFFICES ASSUME TypeOK, [Next]_deskVars PROVE TypeOK'
  OBVIOUS
<1>1. TicketsOK' /\ CatalogueOK'
  BY TicketPart, CataloguePart, TicketsNext, CatalogueNextOK DEF TypeOK
<1>2. OneRequest'
  BY DEF TypeOK, Next, deskVars, ticketVars, catalogueVars, DeskWork, CatalogueWork, Crash,
         TicketCrash, CatalogueCrash, OneRequest, NoReply, NoEdit
<1>3. ~Up' => \A w \in Worker : reply'[w] = NoReply /\ edit'[w] = NoEdit
  <2>1. ASSUME NEW w \in Worker, DeskWork(w) PROVE Up'
    BY <2>1 DEF DeskWork, Up, catalogueVars
  <2>2. CASE CatalogueWork
    <3>1. CASE Up
      BY <2>2, <3>1
         DEF CatalogueWork, CatalogueStep, CatalogueOfComic, Up, Create, Update, CountSlug, Write,
             ReplaceAdd, ReplaceDrop, AbortEdit, Backfill, AdminDeleteComic, FollowComic,
             UnfollowComic, Listen
    <3>2. CASE ~Up
      <4>1. \A w \in Worker : reply'[w] = NoReply /\ edit[w] = NoEdit
        BY <2>2, <3>2 DEF TypeOK, CatalogueWork, ticketVars
      <4>2. ASSUME NEW w \in Worker, CatalogueStep(w) PROVE FALSE
        <5>1. edit[w].stage = "idle"
          BY <4>1 DEF NoEdit
        <5>2. ASSUME NEW i, NEW b, NEW gs, Create(w, i, b, gs) \/ Update(w, i, b, gs) PROVE FALSE
          BY <3>2, <5>2 DEF Create, Update
        <5>3. ~(CountSlug(w) \/ Write(w) \/ ReplaceAdd(w) \/ ReplaceDrop(w) \/ AbortEdit(w))
          BY <5>1 DEF CountSlug, Write, ReplaceAdd, ReplaceDrop, AbortEdit
        <5> QED
          BY <4>2, <5>2, <5>3 DEF CatalogueStep
      <4>3. edit' = edit
        BY <2>2, <3>2, <4>2 DEF CatalogueWork, CatalogueOfComic, Backfill, AdminDeleteComic,
                                FollowComic, UnfollowComic, Listen
      <4> QED
        BY <4>1, <4>3
    <3> QED
      BY <3>1, <3>2
  <2>3. CASE Crash
    BY <2>3 DEF Crash, TicketCrash, CatalogueCrash
  <2>4. CASE UNCHANGED deskVars
    BY <2>4 DEF TypeOK, deskVars, ticketVars, catalogueVars, Up
  <2> QED
    BY <2>1, <2>2, <2>3, <2>4 DEF Next
<1> QED
  BY <1>1, <1>2, <1>3 DEF TypeOK

\* Types of both components, one request per goroutine, none during the backfill.
THEOREM TypeCorrect == Spec => []TypeOK
  BY TypeInit, TypeNext, PTL DEF Spec

-----------------------------------------------------------------------------
(* Tickets: late replies.                                                  *)

\* The requests at some stage of a ticket are some of the workers.
LEMMA AtFinite ==
  ASSUME NEW S, NEW t
  PROVE  /\ IsFiniteSet(At(S, t)) /\ Cardinality(At(S, t)) \in Nat
         /\ IsFiniteSet(At(S, t)') /\ Cardinality(At(S, t)') \in Nat
         /\ IsFiniteSet(Worker) /\ Cardinality(Worker) \in Nat
<1>1. At(S, t) \subseteq Worker /\ At(S, t)' \subseteq Worker
  BY DEF At
<1> QED
  BY <1>1, WorkerAssumption, FS_Subset, FS_CardinalityType

\* Fewer requests at a stage than workers when one of them is idle.
LEMMA AtLess ==
  ASSUME TicketsOK', NEW S \in SUBSET {"first", "message", "status"}, NEW t, NEW w \in Worker,
         reply'[w].stage = "idle"
  PROVE  Cardinality(At(S, t)') < Cardinality(Worker)
<1>1. At(S, t)' \subseteq Worker /\ w \notin At(S, t)'
  BY DEF At
<1> QED
  BY <1>1, AtFinite, FS_Subset

Writing == {"first", "message"}

\* A step after which no more requests are about to write into a ticket.
LEMMA LateKept ==
  ASSUME LateInv, TicketsOK',
         \A t \in Ticket :
            \/ status'[t] # "closed" /\ late'[t] = 0
            \/ /\ status'[t] = status[t] /\ late'[t] = late[t]
               /\ At(Writing, t)' \subseteq At(Writing, t)
  PROVE  LateInv'
<1> SUFFICES ASSUME NEW t \in Ticket
             PROVE  IF status'[t] = "closed"
                      THEN late'[t] + Cardinality(At(Writing, t)') < Cardinality(Worker)
                      ELSE late'[t] = 0
  BY DEF LateInv, Writing, At
<1>1. CASE status'[t] # "closed" /\ late'[t] = 0
  BY <1>1
<1>2. CASE /\ status'[t] = status[t] /\ late'[t] = late[t]
           /\ At(Writing, t)' \subseteq At(Writing, t)
  <2>1. Cardinality(At(Writing, t)') <= Cardinality(At(Writing, t))
    BY <1>2, AtFinite, FS_Subset
  <2>2. late[t] \in Nat
    BY DEF LateInv, TicketsOK
  <2>3. IF status[t] = "closed" THEN late[t] + Cardinality(At(Writing, t)) < Cardinality(Worker)
                                ELSE late[t] = 0
    BY DEF LateInv, Writing
  <2>4. Cardinality(At(Writing, t)') \in Nat /\ Cardinality(At(Writing, t)) \in Nat /\ Cardinality(Worker) \in Nat
    BY AtFinite
  <2> QED
    BY <1>2, <2>1, <2>2, <2>3, <2>4
<1> QED
  BY <1>1, <1>2

LEMMA LateInit == TicketInit => LateInv
<1> SUFFICES ASSUME TicketInit PROVE LateInv
  OBVIOUS
<1>1. \A t \in Ticket : status[t] # "closed" /\ late[t] = 0
  BY DEF TicketInit
<1> QED
  BY <1>1, TicketsInit DEF LateInv

LEMMA LateNext == LateInv /\ [TicketNext]_ticketVars => LateInv'
<1> SUFFICES ASSUME LateInv, [TicketNext]_ticketVars PROVE LateInv'
  OBVIOUS
<1>0. /\ TicketsOK /\ TicketsOK'
      /\ status \in [Ticket -> {"none", "open", "pending", "closed"}]
      /\ late \in [Ticket -> Nat] /\ reply \in [Worker -> Reply]
  BY TicketsNext DEF LateInv, TicketsOK
<1>1. ASSUME NEW w \in Worker, NEW t \in Ticket, CreateTicket(w, t) PROVE LateInv'
  <2>1. \A x \in Ticket : x # t => status'[x] = status[x] /\ At(Writing, x)' \subseteq At(Writing, x)
    BY <1>0, <1>1 DEF CreateTicket, Begin, At
  <2>2. status'[t] = "open" /\ late'[t] = 0 /\ late' = late
    BY <1>0, <1>1 DEF CreateTicket, LateInv
  <2> QED
    BY <1>0, <2>1, <2>2, LateKept
<1>2. ASSUME NEW w \in Worker, NEW t \in Ticket, CloseTicket(w, t) PROVE LateInv'
  <2>1. /\ \A x \in Ticket : x # t => status'[x] = status[x]
        /\ status'[t] = "closed" /\ late' = late /\ reply' = reply
    BY <1>0, <1>2 DEF CloseTicket
  <2>2. \A x \in Ticket : At(Writing, x)' = At(Writing, x)
    BY <2>1 DEF At
  <2>3. CASE status[t] = "closed"
    BY <1>0, <2>1, <2>2, <2>3, LateKept
  <2>4. CASE status[t] # "closed"
    <3>1. late'[t] = 0
      BY <2>1, <2>4 DEF LateInv
    <3>2. Cardinality(At(Writing, t)') < Cardinality(Worker)
      BY <1>0, <1>2, <2>1, AtLess DEF CloseTicket, Writing
    <3>3. late'[t] + Cardinality(At(Writing, t)') < Cardinality(Worker)
      BY <3>1, <3>2, AtFinite
    <3>4. ASSUME NEW x \in Ticket
          PROVE  IF status'[x] = "closed"
                   THEN late'[x] + Cardinality(At(Writing, x)') < Cardinality(Worker)
                   ELSE late'[x] = 0
      <4>1. CASE x = t
        BY <2>1, <3>3, <4>1
      <4>2. CASE x # t
        <5>1. IF status[x] = "closed"
                THEN late[x] + Cardinality(At(Writing, x)) < Cardinality(Worker)
                ELSE late[x] = 0
          BY DEF LateInv, Writing
        <5> QED
          BY <2>1, <2>2, <4>2, <5>1
      <4> QED
        BY <4>1, <4>2
    <3> QED
      BY <1>0, <3>4 DEF LateInv, Writing, At
  <2> QED
    BY <2>3, <2>4
<1>3. ASSUME NEW w \in Worker, NEW t \in Ticket, NEW a \in BOOLEAN, ReplyTicket(w, t, a)
      PROVE  LateInv'
  <2>1. /\ \A x \in Ticket : x # t => At(Writing, x)' \subseteq At(Writing, x)
        /\ status' = status /\ late' = late /\ status[t] # "closed"
    BY <1>0, <1>3 DEF ReplyTicket, Begin, At
  <2>2. late[t] = 0
    BY <2>1 DEF LateInv
  <2> QED
    BY <1>0, <2>1, <2>2, LateKept
\* The message comes from one of those that were about to write.
<1>4. ASSUME NEW w \in Worker, NEW t \in Ticket, w \in At(Writing, t),
             \A x \in Ticket : At(Writing, x)' = At(Writing, x) \ {w},
             status' = status,
             late' = [late EXCEPT ![t] = IF status[t] = "closed" THEN @ + 1 ELSE @]
      PROVE  LateInv'
  <2>1. IF status[t] = "closed" THEN late[t] + Cardinality(At(Writing, t)) < Cardinality(Worker)
                                ELSE late[t] = 0
    BY DEF LateInv, Writing
  <2>2. Cardinality(At(Writing, t)') = Cardinality(At(Writing, t)) - 1
    BY <1>4, AtFinite, FS_RemoveElement
  <2>3. IF status'[t] = "closed" THEN late'[t] + Cardinality(At(Writing, t)') < Cardinality(Worker)
                                 ELSE late'[t] = 0
    BY <1>0, <1>4, <2>1, <2>2, AtFinite
  <2>4. ASSUME NEW x \in Ticket
        PROVE  IF status'[x] = "closed"
                 THEN late'[x] + Cardinality(At(Writing, x)') < Cardinality(Worker)
                 ELSE late'[x] = 0
    <3>1. CASE x = t
      BY <2>3, <3>1
    <3>2. CASE x # t
      <4>1. IF status[x] = "closed"
              THEN late[x] + Cardinality(At(Writing, x)) < Cardinality(Worker)
              ELSE late[x] = 0
        BY DEF LateInv, Writing
      <4>2. At(Writing, x)' \subseteq At(Writing, x) /\ late'[x] = late[x]
        BY <1>0, <1>4, <3>2
      <4>3. Cardinality(At(Writing, x)') <= Cardinality(At(Writing, x))
        BY <4>2, AtFinite, FS_Subset
      <4> QED
        BY <1>0, <1>4, <4>1, <4>2, <4>3, AtFinite
    <3> QED
      BY <3>1, <3>2
  <2> QED
    BY <1>0, <2>4 DEF LateInv, Writing, At
<1>5. ASSUME NEW w \in Worker, FirstMessage(w) PROVE LateInv'
  <2> DEFINE t == reply[w].ticket
  <2>1. t \in Ticket /\ w \in At(Writing, t)
    BY <1>0, <1>5 DEF FirstMessage, TicketsOK, At, Writing
  <2>2. /\ \A x \in Ticket : At(Writing, x)' = At(Writing, x) \ {w}
        /\ status' = status
    BY <1>0, <1>5 DEF FirstMessage, EndReply, NoReply, At, Writing
  <2>3. CASE late' = late
    BY <1>0, <2>2, <2>3, LateKept
  <2>4. CASE late' = [late EXCEPT ![t] = IF status[t] = "closed" THEN @ + 1 ELSE @]
    BY <1>4, <2>1, <2>2, <2>4
  <2> QED
    BY <1>5, <2>3, <2>4 DEF FirstMessage, InsertMessage
<1>6. ASSUME NEW w \in Worker, CreateMessage(w) PROVE LateInv'
  <2> DEFINE t == reply[w].ticket
  <2>1. t \in Ticket /\ w \in At(Writing, t)
    BY <1>0, <1>6 DEF CreateMessage, TicketsOK, At, Writing
  <2>2. reply'[w].stage = "status" /\ \A v \in Worker : v # w => reply'[v] = reply[v]
    BY <1>0, <1>6 DEF CreateMessage, Reply
  <2>3. \A x \in Ticket : At(Writing, x)' = At(Writing, x) \ {w}
    BY <1>0, <2>2 DEF At, Writing
  <2> QED
    BY <1>4, <1>6, <2>1, <2>3 DEF CreateMessage, InsertMessage
<1>7. ASSUME NEW w \in Worker, UpdateStatus(w) PROVE LateInv'
  <2> DEFINE t == reply[w].ticket
  <2>1. t \in Ticket /\ \A x \in Ticket : At(Writing, x)' \subseteq At(Writing, x)
    BY <1>0, <1>7 DEF UpdateStatus, TicketsOK, EndReply, NoReply, At, Writing
  <2>2. CASE status' = status /\ late' = late
    BY <1>0, <2>1, <2>2, LateKept
  <2>3. CASE /\ status' = [status EXCEPT ![t] = StatusFor(reply[w].isAdmin)]
             /\ late' = [late EXCEPT ![t] = 0]
    <3>1. StatusFor(reply[w].isAdmin) # "closed"
      BY DEF StatusFor
    <3>2. \A x \in Ticket : \/ status'[x] # "closed" /\ late'[x] = 0
                            \/ status'[x] = status[x] /\ late'[x] = late[x]
      BY <1>0, <2>1, <2>3, <3>1
    <3> QED
      BY <1>0, <2>1, <3>2, LateKept
  <2> QED
    BY <1>7, <2>2, <2>3 DEF UpdateStatus
<1>8. ASSUME \/ \E w \in Worker : AbortReply(w)
             \/ TicketCrash
             \/ UNCHANGED ticketVars
      PROVE  LateInv'
  <2>1. \A x \in Ticket : At(Writing, x)' \subseteq At(Writing, x)
    BY <1>0, <1>8 DEF AbortReply, TicketCrash, ticketVars, EndReply, NoReply, At, Writing
  <2>2. status' = status /\ late' = late
    BY <1>8 DEF AbortReply, TicketCrash, ticketVars
  <2> QED
    BY <1>0, <2>1, <2>2, LateKept
<1> QED
  BY <1>1, <1>2, <1>3, <1>5, <1>6, <1>7, <1>8 DEF TicketNext, TicketStep

\* A closed ticket gets fewer messages than there are requests at once
\* (support.go:131-149 against 176).
THEOREM LateReplies == Spec => []FewLateReplies
<1>1. LateInv => FewLateReplies
  <2> SUFFICES ASSUME LateInv, NEW t \in Ticket, status[t] = "closed"
               PROVE  late[t] < Cardinality(Worker)
    BY DEF FewLateReplies
  <2>1. late[t] \in Nat /\ late[t] + Cardinality(At(Writing, t)) < Cardinality(Worker)
    BY DEF LateInv, TicketsOK, Writing
  <2> QED
    BY <2>1, AtFinite
<1>2. TicketSpec => []LateInv
  BY LateInit, LateNext, PTL DEF TicketSpec
<1> QED
  BY <1>1, <1>2, DeskComposes, PTL

-----------------------------------------------------------------------------
(* Tickets: whose turn it is.                                              *)

AuthorOf(q) == IF q.isAdmin THEN "admin" ELSE "owner"

\* TurnInv of one ticket.
TurnOf(t) ==
    /\ status[t] = "none" => newest[t] = "opening"
    /\ newest[t] # "unclear" =>
          /\ \A v, w \in At({"status"}, t) : v = w
          /\ \A w \in At({"status"}, t) : newest[t] = AuthorOf(reply[w])
          /\ At({"status"}, t) = {} /\ status[t] \in {"open", "pending"} =>
                (status[t] = "pending" <=> newest[t] = "owner")

LEMMA TurnOfAll == TurnInv <=> TicketsOK /\ \A t \in Ticket : TurnOf(t)
  BY DEF TurnInv, TurnOf, AuthorOf, StatusTellsWhoseTurn

LEMMA TurnOfAllNext == TurnInv' <=> TicketsOK' /\ \A t \in Ticket : TurnOf(t)'
  BY DEF TurnInv, TurnOf, AuthorOf, StatusTellsWhoseTurn, At

LEMMA TurnInit == TicketInit => TurnInv
<1> SUFFICES ASSUME TicketInit PROVE TurnInv
  OBVIOUS
<1>1. \A t \in Ticket : TurnOf(t)
  BY DEF TicketInit, NoReply, TurnOf, At
<1> QED
  BY <1>1, TicketsInit, TurnOfAll

\* A ticket of which a step changes nothing.
LEMMA TurnKept ==
  ASSUME NEW t \in Ticket, TurnOf(t),
         status'[t] = status[t], newest'[t] = newest[t],
         At({"status"}, t)' = At({"status"}, t),
         \A w \in At({"status"}, t) : reply'[w].isAdmin = reply[w].isAdmin
  PROVE  TurnOf(t)'
  BY DEF TurnOf, AuthorOf

LEMMA TurnNext == TurnInv /\ [TicketNext]_ticketVars => TurnInv'
<1> SUFFICES ASSUME TurnInv, [TicketNext]_ticketVars PROVE TurnInv'
  OBVIOUS
<1>0. /\ TicketsOK /\ TicketsOK'
      /\ status \in [Ticket -> {"none", "open", "pending", "closed"}]
      /\ newest \in [Ticket -> Author] /\ reply \in [Worker -> Reply]
      /\ \A t \in Ticket : TurnOf(t)
  BY TicketsNext, TurnOfAll DEF TurnInv, TicketsOK
<1> SUFFICES ASSUME NEW t \in Ticket PROVE TurnOf(t)'
  BY <1>0, TurnOfAllNext
<1> DEFINE S == At({"status"}, t)
<1>1. ASSUME NEW w \in Worker, NEW x \in Ticket, CreateTicket(w, x) PROVE TurnOf(t)'
  <2>1. S' = S /\ newest' = newest /\ \A v \in S : reply'[v] = reply[v]
    BY <1>0, <1>1 DEF CreateTicket, Begin, At
  <2>2. CASE x # t
    <3>1. status'[t] = status[t]
      BY <1>0, <1>1, <2>2 DEF CreateTicket
    <3> QED
      BY <1>0, <2>1, <3>1, TurnKept
  <2>3. CASE x = t
    <3>1. newest[t] = "opening" /\ S = {} /\ status'[t] = "open"
      BY <1>0, <1>1, <2>3 DEF CreateTicket, TicketsOK, At, TurnOf
    <3> QED
      BY <2>1, <3>1 DEF TurnOf
  <2> QED
    BY <2>2, <2>3
<1>2. ASSUME NEW w \in Worker, NEW x \in Ticket, CloseTicket(w, x) PROVE TurnOf(t)'
  <2>1. S' = S /\ newest' = newest /\ reply' = reply
    BY <1>2 DEF CloseTicket, At
  <2>2. status'[t] \in {status[t], "closed"}
    BY <1>0, <1>2 DEF CloseTicket
  <2> QED
    BY <1>0, <2>1, <2>2 DEF TurnOf, AuthorOf
<1>3. ASSUME NEW w \in Worker, NEW x \in Ticket, NEW a \in BOOLEAN, ReplyTicket(w, x, a)
      PROVE  TurnOf(t)'
  <2>1. S' = S /\ newest' = newest /\ status' = status /\ \A v \in S : reply'[v] = reply[v]
    BY <1>0, <1>3 DEF ReplyTicket, Begin, At
  <2> QED
    BY <1>0, <2>1, TurnKept
<1>4. ASSUME NEW w \in Worker, FirstMessage(w) PROVE TurnOf(t)'
  <2>1. S' = S /\ status' = status /\ \A v \in S : reply'[v] = reply[v]
    BY <1>0, <1>4 DEF FirstMessage, EndReply, NoReply, At
  <2>2. newest'[t] \in {newest[t], "unclear"} /\ (newest'[t] # newest[t] => status[t] # "none")
    BY <1>0, <1>4 DEF FirstMessage, InsertMessage, TicketsOK
  <2>3. CASE newest'[t] = newest[t]
    BY <1>0, <2>1, <2>3, TurnKept
  <2>4. CASE newest'[t] = "unclear" /\ status[t] # "none"
    BY <2>1, <2>4 DEF TurnOf
  <2> QED
    BY <2>2, <2>3, <2>4
<1>5. ASSUME NEW w \in Worker, CreateMessage(w) PROVE TurnOf(t)'
  <2> DEFINE x == reply[w].ticket
  <2>1. /\ x \in Ticket /\ status[x] # "none" /\ status' = status
        /\ reply'[w].stage = "status" /\ reply'[w].ticket = x
        /\ reply'[w].isAdmin = reply[w].isAdmin
        /\ \A v \in Worker : v # w => reply'[v] = reply[v]
        /\ reply[w].stage = "message"
    BY <1>0, <1>5 DEF CreateMessage, TicketsOK, Reply
  <2>2. newest' = [newest EXCEPT ![x] = IF At({"status"}, x) # {} THEN "unclear" ELSE AuthorOf(reply[w])]
    BY <1>5 DEF CreateMessage, InsertMessage, AuthorOf
  <2>3. CASE x # t
    <3>1. S' = S /\ newest'[t] = newest[t] /\ \A v \in S : reply'[v] = reply[v]
      BY <1>0, <2>1, <2>2, <2>3 DEF At
    <3> QED
      BY <1>0, <2>1, <3>1, TurnKept
  <2>4. CASE x = t
    <3>1. S' = S \cup {w}
      BY <1>0, <2>1, <2>4 DEF At
    <3>2. CASE S # {}
      BY <1>0, <2>1, <2>2, <2>4, <3>2 DEF TurnOf
    <3>3. CASE S = {}
      <4>1. newest'[t] = AuthorOf(reply[w]) /\ AuthorOf(reply'[w]) = AuthorOf(reply[w])
        BY <1>0, <2>1, <2>2, <2>4, <3>3 DEF AuthorOf
      <4> QED
        BY <2>1, <2>4, <3>1, <3>3, <4>1 DEF TurnOf
    <3> QED
      BY <3>2, <3>3
  <2> QED
    BY <2>3, <2>4
<1>6. ASSUME NEW w \in Worker, UpdateStatus(w) PROVE TurnOf(t)'
  <2> DEFINE x == reply[w].ticket
  <2>1. /\ x \in Ticket /\ status[x] # "none" /\ w \in At({"status"}, x)
        /\ \A y \in Ticket : At({"status"}, y)' = At({"status"}, y) \ {w}
        /\ \A v \in Worker : v # w => reply'[v] = reply[v]
    BY <1>0, <1>6 DEF UpdateStatus, TicketsOK, EndReply, NoReply, At
  <2>2. CASE x # t
    <3>1. S' = S /\ newest'[t] = newest[t] /\ status'[t] = status[t]
          /\ \A v \in S : reply'[v] = reply[v]
      BY <1>0, <1>6, <2>1, <2>2 DEF UpdateStatus, At
    <3> QED
      BY <1>0, <3>1, TurnKept
  <2>3. CASE x = t
    <3>1. CASE newest'[t] = "unclear"
      <4>1. status'[t] # "none"
        BY <1>0, <1>6, <2>1, <2>3 DEF UpdateStatus, StatusFor
      <4> QED
        BY <3>1, <4>1 DEF TurnOf
    <3>2. CASE newest'[t] # "unclear"
      <4>1. newest'[t] = newest[t] /\ status'[t] = StatusFor(reply[w].isAdmin)
        BY <1>0, <1>6, <2>1, <2>3, <3>2 DEF UpdateStatus
      <4>2. newest[t] = AuthorOf(reply[w]) /\ S' = {}
        BY <1>0, <2>1, <2>3, <3>2, <4>1 DEF TurnOf
      <4> QED
        BY <4>1, <4>2 DEF TurnOf, StatusFor, AuthorOf
    <3> QED
      BY <3>1, <3>2
  <2> QED
    BY <2>2, <2>3
<1>7. ASSUME NEW w \in Worker, AbortReply(w) PROVE TurnOf(t)'
  <2>1. /\ status' = status /\ S' = S \ {w}
        /\ newest'[t] = IF w \in S THEN "unclear" ELSE newest[t]
        /\ \A v \in Worker : v # w => reply'[v] = reply[v]
    BY <1>0, <1>7 DEF AbortReply, EndReply, NoReply, At
  <2>2. CASE w \in S
    <3>1. status[t] # "none"
      BY <1>0, <2>2 DEF TicketsOK, At
    <3> QED
      BY <2>1, <2>2, <3>1 DEF TurnOf
  <2>3. CASE w \notin S
    <3>1. S' = S /\ newest'[t] = newest[t] /\ \A v \in S : reply'[v] = reply[v]
      BY <2>1, <2>3 DEF At
    <3> QED
      BY <1>0, <2>1, <3>1, TurnKept
  <2> QED
    BY <2>2, <2>3
<1>8. CASE TicketCrash
  <2>1. S' = {} /\ status' = status /\ newest'[t] = IF S # {} THEN "unclear" ELSE newest[t]
    BY <1>0, <1>8 DEF TicketCrash, NoReply, At
  <2>2. CASE S # {}
    <3>1. status[t] # "none"
      BY <1>0, <2>2 DEF TicketsOK, At
    <3> QED
      BY <2>1, <2>2, <3>1 DEF TurnOf
  <2>3. CASE S = {}
    BY <1>0, <2>1, <2>3 DEF TurnOf
  <2> QED
    BY <2>2, <2>3
<1>9. CASE UNCHANGED ticketVars
  BY <1>0, <1>9, TurnKept DEF ticketVars, At
<1> QED
  BY <1>1, <1>2, <1>3, <1>4, <1>5, <1>6, <1>7, <1>8, <1>9 DEF TicketNext, TicketStep

\* A ticket is pending when its owner wrote last, open when an admin did, unless
\* replies overlapped or an UPDATE was lost (support.go:141-149).
THEOREM WhoseTurn == Spec => []StatusTellsWhoseTurn
<1>1. TurnInv => StatusTellsWhoseTurn
  BY DEF TurnInv
<1>2. TicketSpec => []TurnInv
  BY TurnInit, TurnNext, PTL DEF TicketSpec
<1> QED
  BY <1>1, <1>2, DeskComposes, PTL

-----------------------------------------------------------------------------
(* Catalogue: slugs.                                                       *)

SlugInv == CatalogueOK /\ SlugFromTitle

LEMMA SlugInit == CatalogueInit => SlugInv
<1>1. CatalogueInit => \A i \in Item : ~There(i) \/ row[i].slug = NoSlug
  BY DEF CatalogueInit, There, Free
<1> QED
  BY <1>1, CatalogueTypesInit DEF SlugInv, SlugFromTitle

\* A row gets a slug made of its base, which no row beside it has.
LEMMA SlugGiven ==
  ASSUME SlugFromTitle, NEW k \in Item, NEW r,
         r.slug[1] = r.base, ~Taken(k, r.slug),
         row'[k] = r, \A i \in Item : i # k => row'[i] = row[i]
  PROVE  SlugFromTitle'
<1> SUFFICES ASSUME NEW i \in Item, There(i)', row'[i].slug # NoSlug
             PROVE  row'[i].slug[1] = row'[i].base /\ ~Taken(i, row[i].slug)'
  BY DEF SlugFromTitle
<1>1. Kin(i) \subseteq Item /\ Kin(k) \subseteq Item
  BY DEF Kin, Item
<1>2. CASE i = k
  BY <1>1, <1>2 DEF Taken, There
<1>3. CASE i # k
  <2>1. row'[i] = row[i] /\ row[i].slug[1] = row[i].base /\ ~Taken(i, row[i].slug)
    BY <1>3 DEF SlugFromTitle, There
  <2>2. k \in Kin(i) => i \in Kin(k)
    BY CatalogueAssumption DEF Kin, Item
  <2>3. k \in Kin(i) => row'[k].slug # row'[i].slug
    BY <1>3, <2>1, <2>2 DEF Taken, There
  <2>4. \A j \in Kin(i) \ {i} : ~(There(j)' /\ row'[j].slug = row'[i].slug)
    BY <1>1, <2>1, <2>3 DEF Taken, There
  <2> QED
    BY <2>1, <2>4 DEF Taken
<1> QED
  BY <1>2, <1>3

LEMMA SlugNext == SlugInv /\ [CatalogueNext]_catalogueVars => SlugInv'
<1> SUFFICES ASSUME SlugInv, [CatalogueNext]_catalogueVars PROVE SlugInv'
  OBVIOUS
<1>0. CatalogueOK /\ CatalogueOK' /\ SlugFromTitle /\ row \in [Item -> Row]
  BY CatalogueNextOK DEF SlugInv, CatalogueOK
<1>1. CASE row' = row
  BY <1>0, <1>1 DEF SlugInv, SlugFromTitle, There, Taken
<1>2. ASSUME NEW w \in Worker, Write(w), row' # row PROVE SlugInv'
  <2> DEFINE q == edit[w]
  <2> DEFINE r == [there |-> TRUE, base |-> q.base, slug |-> <<q.base, q.n>>]
  <2>1. row' = [row EXCEPT ![q.item] = r] /\ ~Taken(q.item, r.slug)
    BY <1>2 DEF Write
  <2>2. q.item \in Item
    BY <1>0, <1>2 DEF Write, CatalogueOK, EditOK
  <2>3. r.slug[1] = r.base
    OBVIOUS
  <2> HIDE DEF r, q
  <2>4. SlugFromTitle'
    BY <1>0, <2>1, <2>2, <2>3, SlugGiven
  <2> QED
    BY <1>0, <2>4 DEF SlugInv
<1>3. ASSUME NEW c \in Comic, Backfill(c) PROVE SlugInv'
  <2>1. PICK n \in 0 .. MaxTries - 1 :
           /\ FirstFree(c, row[c].base, n)
           /\ row' = [row EXCEPT ![c] = [@ EXCEPT !.slug = <<row[c].base, n>>]]
    BY <1>3 DEF Backfill
  <2> DEFINE r == [row[c] EXCEPT !.slug = <<row[c].base, n>>]
  <2>2. c \in Item /\ row[c] \in Row /\ row' = [row EXCEPT ![c] = r]
    BY <1>0, <2>1 DEF Item
  <2>3. r.slug = <<row[c].base, n>> /\ r.base = row[c].base
    BY <2>2 DEF Row
  <2>4. r.slug[1] = r.base /\ ~Taken(c, r.slug)
    BY <2>1, <2>3 DEF FirstFree
  <2> HIDE DEF r
  <2>5. SlugFromTitle'
    BY <1>0, <2>2, <2>4, SlugGiven
  <2> QED
    BY <1>0, <2>5 DEF SlugInv
<1>4. ASSUME NEW c \in Comic, AdminDeleteComic(c) PROVE SlugInv'
  <2>1. \A i \in Item : There(i)' => row'[i] = row[i] /\ There(i)
    BY <1>0, <1>4 DEF AdminDeleteComic, There, Free, Item
  <2>2. \A i \in Item : Kin(i) \subseteq Item
    BY DEF Kin, Item
  <2>3. SlugFromTitle'
    BY <1>0, <2>1, <2>2 DEF SlugFromTitle, Taken
  <2> QED
    BY <1>0, <2>3 DEF SlugInv
\* The other statements write no row.
<1>5. ASSUME NEW w \in Worker, CatalogueStep(w) PROVE row' = row \/ Write(w)
  BY <1>5 DEF CatalogueStep, Create, Update, CountSlug, ReplaceAdd, ReplaceDrop, AbortEdit
<1>6. ASSUME NEW c \in Comic, CatalogueOfComic(c)
      PROVE  row' = row \/ Backfill(c) \/ AdminDeleteComic(c)
  BY <1>6 DEF CatalogueOfComic, FollowComic, UnfollowComic
<1>7. Listen \/ CatalogueCrash \/ UNCHANGED catalogueVars => row' = row
  BY DEF Listen, CatalogueCrash, catalogueVars
<1> QED
  BY <1>1, <1>2, <1>3, <1>4, <1>5, <1>6, <1>7 DEF CatalogueNext

\* The slug of a comic is made of the title it has, of a genre of the slug it was
\* given last, and no other row of its table has it (admin.go:515, 558; admin_genres.go:149; slug_backfill.go:20-25).
THEOREM SlugsFollowTitles == Spec => []SlugFromTitle
<1>1. SlugInv => SlugFromTitle
  BY DEF SlugInv
<1>2. CatalogueSpec => []SlugInv
  BY SlugInit, SlugNext, PTL DEF CatalogueSpec
<1> QED
  BY <1>1, <1>2, DeskComposes, PTL

-----------------------------------------------------------------------------
(* Catalogue: genres.                                                      *)

\* ReplaceAlone and GenresAreAsked of one comic.
ReplaceOf(c) ==
    asked[c] # Mixed =>
       /\ \A v, w \in Replacing(c) : v = w
       /\ \A w \in Replacing(c) : edit[w].genres = asked[c] /\ asked[c] \subseteq tagged[c]
       /\ Replacing(c) = {} => asked[c] = tagged[c]

LEMMA ReplaceOfAll ==
  GenresInv <=> CatalogueOK /\ NewIsPrivate /\ \A c \in Comic : ReplaceOf(c)
  BY DEF GenresInv, ReplaceAlone, GenresAreAsked, ReplaceOf

LEMMA ReplaceOfAllNext ==
  GenresInv' <=> CatalogueOK' /\ NewIsPrivate' /\ \A c \in Comic : ReplaceOf(c)'
  BY DEF GenresInv, ReplaceAlone, GenresAreAsked, ReplaceOf, Replacing

LEMMA GenresInit == CatalogueInit => GenresInv
<1> SUFFICES ASSUME CatalogueInit PROVE GenresInv
  OBVIOUS
<1>1. \A c \in Comic : tagged[c] = {} /\ asked[c] = {} /\ Replacing(c) = {}
  BY DEF CatalogueInit, Replacing, NoEdit
<1>2. NewIsPrivate
  BY DEF CatalogueInit, NewIsPrivate, NoEdit
<1> QED
  BY <1>1, <1>2, CatalogueTypesInit, ReplaceOfAll DEF ReplaceOf

\* A comic of which a step changes nothing.
LEMMA ReplaceKept ==
  ASSUME NEW c \in Comic, ReplaceOf(c),
         tagged'[c] = tagged[c], asked'[c] = asked[c],
         Replacing(c)' = Replacing(c),
         \A w \in Replacing(c) : edit'[w].genres = edit[w].genres
  PROVE  ReplaceOf(c)'
  BY DEF ReplaceOf

LEMMA PrivateNext == GenresInv /\ [CatalogueNext]_catalogueVars => NewIsPrivate'
<1> SUFFICES ASSUME GenresInv, [CatalogueNext]_catalogueVars PROVE NewIsPrivate'
  OBVIOUS
<1> USE CatalogueAssumption
<1>0. /\ CatalogueOK /\ NewIsPrivate
      /\ row \in [Item -> Row] /\ edit \in [Worker -> Edit] /\ \A w \in Worker : EditOK(edit[w])
  BY DEF GenresInv, CatalogueOK
\* A step after which the new rows that are still to come are as private as before.
<1>1. ASSUME \A v \in Worker : \/ edit'[v].item = NoItem /\ ~edit'[v].new
                               \/ /\ edit'[v].item = edit[v].item
                                  /\ edit'[v].new = edit[v].new
                                  /\ edit'[v].stage \in {"count", "write"} =>
                                        edit[v].stage \in {"count", "write"},
             \A v \in Worker : edit'[v].new /\ edit'[v].stage \in {"count", "write"} =>
                (row'[edit[v].item].there => row[edit[v].item].there)
      PROVE  NewIsPrivate'
  <2> SUFFICES ASSUME NEW w \in Worker, edit'[w].new, edit'[w].stage \in {"count", "write"}
               PROVE  /\ ~row'[edit'[w].item].there
                      /\ \A v \in Worker : v # w => edit'[v].item # edit'[w].item
    BY DEF NewIsPrivate, There
  <2>1. /\ edit'[w].item = edit[w].item /\ edit[w].new /\ edit[w].stage \in {"count", "write"}
        /\ edit[w].item \in Item
    BY <1>0, <1>1 DEF EditOK
  <2>2. ~There(edit[w].item) /\ \A v \in Worker : v # w => edit[v].item # edit[w].item
    BY <1>0, <2>1 DEF NewIsPrivate
  <2>3. row'[edit'[w].item].there => row[edit[w].item].there
    BY <1>1, <2>1
  <2>4. \A v \in Worker : v # w => edit'[v].item \in {NoItem, edit[v].item}
    BY <1>1
  <2> QED
    BY <2>1, <2>2, <2>3, <2>4 DEF There, Item
<1>2. ASSUME NEW w \in Worker, NEW i \in Item, NEW gs \in SUBSET Genre, NEW b \in Bases(i),
             Create(w, i, b, gs)
      PROVE  NewIsPrivate'
  <2>1. /\ edit'[w].item = i /\ \A v \in Worker : v # w => edit'[v] = edit[v]
        /\ ~There(i) /\ \A v \in Worker : edit[v].item # i
        /\ row' = row
    BY <1>0, <1>2 DEF Create
  <2> QED
    BY <1>0, <2>1 DEF NewIsPrivate, There
<1>3. ASSUME NEW w \in Worker, NEW i \in Item, NEW gs \in SUBSET Genre,
             NEW b \in Bases(i) \cup {NoBase}, Update(w, i, b, gs)
      PROVE  NewIsPrivate'
  <2>1. /\ edit'[w].item = i /\ ~edit'[w].new /\ \A v \in Worker : v # w => edit'[v] = edit[v]
        /\ There(i) /\ row' = row
    BY <1>0, <1>3 DEF Update
  <2> QED
    BY <1>0, <2>1 DEF NewIsPrivate, There
<1>4. ASSUME NEW w \in Worker, CountSlug(w) \/ ReplaceAdd(w) \/ ReplaceDrop(w) \/ AbortEdit(w)
      PROVE  NewIsPrivate'
  <2>1. row' = row /\ \A v \in Worker : v # w => edit'[v] = edit[v]
    BY <1>0, <1>4 DEF CountSlug, ReplaceAdd, ReplaceDrop, AbortEdit, EditGoto, EndEdit
  <2>2. edit[w] \in Edit
    BY <1>0
  <2>3. \/ edit'[w] = NoEdit
        \/ edit'[w].item = edit[w].item /\ edit'[w].new = edit[w].new
           /\ (edit'[w].stage \in {"count", "write"} => edit[w].stage \in {"count", "write"})
    <3>1. EndEdit(w) => edit'[w] = NoEdit
      BY <1>0 DEF EndEdit
    <3>2. ASSUME EditGoto(w, "write"), edit[w].stage = "count"
          PROVE  edit'[w].item = edit[w].item /\ edit'[w].new = edit[w].new
      BY <1>0, <2>2, <3>2 DEF EditGoto, Edit
    <3>3. ASSUME edit' = [edit EXCEPT ![w] = [edit[w] EXCEPT !.n = edit[w].n + 1]]
          PROVE  /\ edit'[w].item = edit[w].item /\ edit'[w].new = edit[w].new
                 /\ edit'[w].stage = edit[w].stage
      BY <1>0, <2>2, <3>3 DEF Edit
    <3>4. ASSUME NEW gs,
                 edit' = [edit EXCEPT ![w] = [edit[w] EXCEPT !.stage = "drop", !.genres = gs]]
          PROVE  /\ edit'[w].item = edit[w].item /\ edit'[w].new = edit[w].new
                 /\ edit'[w].stage = "drop"
      BY <1>0, <2>2, <3>4 DEF Edit
    <3>5. CASE CountSlug(w)
      BY <3>1, <3>2, <3>3, <3>5 DEF CountSlug
    <3>6. CASE ReplaceAdd(w)
      BY <3>1, <3>4, <3>6 DEF ReplaceAdd
    <3>7. CASE ReplaceDrop(w) \/ AbortEdit(w)
      BY <3>1, <3>7 DEF ReplaceDrop, AbortEdit
    <3> QED
      BY <1>4, <3>5, <3>6, <3>7
  <2> QED
    BY <1>1, <2>1, <2>3 DEF NoEdit, There
<1>5. ASSUME NEW w \in Worker, Write(w) PROVE NewIsPrivate'
  <2> DEFINE i == edit[w].item
  <2>1. /\ edit[w].stage = "write" /\ i \in Item
        /\ \A v \in Worker : v # w => edit'[v] = edit[v]
    BY <1>0, <1>5 DEF Write, EditOK, EditGoto, EndEdit
  <2>2. edit'[w] = NoEdit \/ (edit'[w].item = i /\ edit'[w].new = edit[w].new /\ edit'[w].stage = "add")
    BY <1>0, <1>5 DEF Write, EditGoto, EndEdit, Edit
  <2>3. \A k \in Item : k # i => (There(k)' <=> There(k))
    BY <1>0, <1>5, <2>1 DEF Write, There
  <2>4. ASSUME NEW v \in Worker, edit'[v].new, edit'[v].stage \in {"count", "write"}
        PROVE  v # w /\ edit[v].item \in Item /\ edit[v].item # i
    <3>1. v # w
      BY <2>2, <2>4 DEF NoEdit
    <3>2. edit[v].new /\ edit[v].stage \in {"count", "write"}
      BY <2>1, <2>4, <3>1
    <3> QED
      BY <1>0, <3>1, <3>2 DEF NewIsPrivate, EditOK
  <2> QED
    BY <1>1, <2>1, <2>2, <2>3, <2>4 DEF NoEdit, There
<1>6. ASSUME NEW c \in Comic, CatalogueOfComic(c) PROVE NewIsPrivate'
  <2>1. edit' = edit
    BY <1>6 DEF CatalogueOfComic, Backfill, AdminDeleteComic, FollowComic, UnfollowComic
  <2>2. \A k \in Item : There(k)' => There(k)
    <3>1. CASE row' = row
      BY <3>1 DEF There
    <3>2. CASE Backfill(c)
      <4>1. PICK n \in 0 .. MaxTries - 1 :
               row' = [row EXCEPT ![c] = [@ EXCEPT !.slug = <<row[c].base, n>>]]
        BY <3>2 DEF Backfill
      <4> QED
        BY <1>0, <4>1 DEF There, Row, Item
    <3>3. CASE AdminDeleteComic(c)
      BY <1>0, <3>3 DEF AdminDeleteComic, There, Free, Item
    <3> QED
      BY <1>6, <3>1, <3>2, <3>3 DEF CatalogueOfComic, FollowComic, UnfollowComic
  <2>3. \A v \in Worker : edit[v].new /\ edit[v].stage \in {"count", "write"} => edit[v].item \in Item
    BY <1>0 DEF EditOK
  <2> QED
    BY <1>1, <2>1, <2>2, <2>3 DEF There
<1>7. CASE CatalogueCrash
  BY <1>7 DEF CatalogueCrash, NewIsPrivate, NoEdit
<1>8. CASE Listen \/ UNCHANGED catalogueVars
  BY <1>0, <1>8 DEF Listen, catalogueVars, NewIsPrivate, There
<1> QED
  BY <1>2, <1>3, <1>4, <1>5, <1>6, <1>7, <1>8 DEF CatalogueNext, CatalogueStep

LEMMA ReplaceNext ==
  ASSUME GenresInv, [CatalogueNext]_catalogueVars, NEW c \in Comic
  PROVE  ReplaceOf(c)'
<1> USE CatalogueAssumption
<1>0. /\ CatalogueOK /\ NewIsPrivate /\ ReplaceOf(c) /\ c \in Item
      /\ row \in [Item -> Row] /\ edit \in [Worker -> Edit] /\ \A w \in Worker : EditOK(edit[w])
      /\ tagged \in [Comic -> SUBSET Genre]
      /\ asked \in [Comic -> (SUBSET Genre) \cup {Mixed}]
  BY ReplaceOfAll DEF GenresInv, CatalogueOK, Item
<1> DEFINE R == Replacing(c)
<1>1. ASSUME NEW w \in Worker,
             \/ \E i \in Item, gs \in SUBSET Genre : \E b \in Bases(i) : Create(w, i, b, gs)
             \/ \E i \in Item, gs \in SUBSET Genre : \E b \in Bases(i) \cup {NoBase} : Update(w, i, b, gs)
      PROVE  ReplaceOf(c)'
  <2>1. /\ UNCHANGED <<row, tagged>> /\ edit[w].stage = "idle"
        /\ edit'[w].stage \in {"count", "add"}
        /\ \A v \in Worker : v # w => edit'[v] = edit[v]
    BY <1>0, <1>1 DEF Create, Update
  <2>2. R' = R /\ \A v \in R : edit'[v] = edit[v]
    BY <2>1 DEF Replacing
  \* A new comic has a new key: nobody replaces its genres yet, and it has none.
  <2>3. \/ asked'[c] = asked[c]
        \/ R = {} /\ tagged[c] = {} /\ asked'[c] = {}
    BY <1>1 DEF Create, Update, Replacing
  <2>4. CASE asked'[c] = asked[c]
    BY <1>0, <2>1, <2>2, <2>4, ReplaceKept
  <2>5. CASE R = {} /\ tagged[c] = {} /\ asked'[c] = {}
    BY <2>1, <2>2, <2>5 DEF ReplaceOf
  <2> QED
    BY <2>3, <2>4, <2>5
<1>2. ASSUME NEW w \in Worker, CountSlug(w) PROVE ReplaceOf(c)'
  <2>1. /\ UNCHANGED <<row, tagged, asked>> /\ edit[w].stage = "count"
        /\ \A v \in Worker : v # w => edit'[v] = edit[v]
    BY <1>0, <1>2 DEF CountSlug, EditGoto, EndEdit
  <2>2. edit'[w].stage # "drop"
    <3>1. edit[w] \in Edit
      BY <1>0
    <3>2. EndEdit(w) => edit'[w].stage = "idle"
      BY <1>0 DEF EndEdit, NoEdit
    <3>3. EditGoto(w, "write") => edit'[w].stage = "write"
      BY <1>0, <3>1 DEF EditGoto, Edit
    <3>4. ASSUME edit' = [edit EXCEPT ![w] = [edit[w] EXCEPT !.n = edit[w].n + 1]]
          PROVE  edit'[w].stage = edit[w].stage
      BY <1>0, <3>1, <3>4 DEF Edit
    <3> QED
      BY <1>2, <2>1, <3>2, <3>3, <3>4 DEF CountSlug
  <2>3. R' = R /\ \A v \in R : edit'[v] = edit[v]
    BY <2>1, <2>2 DEF Replacing
  <2> QED
    BY <1>0, <2>1, <2>3, ReplaceKept
<1>3. ASSUME NEW w \in Worker, Write(w) PROVE ReplaceOf(c)'
  <2>1. /\ UNCHANGED <<tagged, asked>> /\ edit[w].stage = "write"
        /\ \A v \in Worker : v # w => edit'[v] = edit[v]
    BY <1>0, <1>3 DEF Write, EditGoto, EndEdit
  <2>2. edit'[w].stage # "drop"
    BY <1>0, <1>3 DEF Write, EditGoto, EndEdit, NoEdit, Edit
  <2>3. R' = R /\ \A v \in R : edit'[v] = edit[v]
    BY <2>1, <2>2 DEF Replacing
  <2> QED
    BY <1>0, <2>1, <2>3, ReplaceKept
<1>4. ASSUME NEW w \in Worker, ReplaceAdd(w) PROVE ReplaceOf(c)'
  <2> DEFINE q == edit[w]
  <2> DEFINE found == {g \in q.genres : There(g)}
  <2>1. q.stage = "add" /\ q.item \in Comic /\ q \in Edit
    BY <1>0, <1>4 DEF ReplaceAdd, EditOK
  <2>2. PICK read \in SUBSET found :
           /\ edit' = [edit EXCEPT ![w] = [q EXCEPT !.stage = "drop", !.genres = read]]
           /\ tagged' = [tagged EXCEPT ![q.item] = @ \cup read]
           /\ asked' = [asked EXCEPT ![q.item] =
                            IF read = found /\ Replacing(q.item) = {} THEN found ELSE Mixed]
    BY <1>4 DEF ReplaceAdd
  <2>3. /\ \A v \in Worker : v # w => edit'[v] = edit[v]
        /\ edit'[w].stage = "drop" /\ edit'[w].item = q.item /\ edit'[w].genres = read
    BY <1>0, <2>1, <2>2 DEF Edit
  <2>4. CASE q.item # c
    <3>1. R' = R /\ \A v \in R : edit'[v] = edit[v]
      BY <2>1, <2>3, <2>4 DEF Replacing
    <3>2. tagged'[c] = tagged[c] /\ asked'[c] = asked[c]
      BY <1>0, <2>1, <2>2, <2>4
    <3> QED
      BY <1>0, <3>1, <3>2, ReplaceKept
  <2>5. CASE q.item = c
    <3>1. R' = R \cup {w}
      BY <2>1, <2>3, <2>5 DEF Replacing
    <3>2. /\ tagged'[c] = tagged[c] \cup read
          /\ asked'[c] = IF read = found /\ R = {} THEN found ELSE Mixed
      BY <1>0, <2>1, <2>2, <2>5
    <3>3. asked'[c] # Mixed =>
             R' = {w} /\ edit'[w].genres = asked'[c] /\ asked'[c] \subseteq tagged'[c]
      BY <2>3, <3>1, <3>2
    <3> HIDE DEF found, q
    <3> QED
      BY <3>3 DEF ReplaceOf
  <2> QED
    BY <2>4, <2>5
<1>5. ASSUME NEW w \in Worker, ReplaceDrop(w) PROVE ReplaceOf(c)'
  <2> DEFINE q == edit[w]
  <2>1. /\ row' = row /\ asked' = asked /\ q.stage = "drop" /\ q.item \in Comic
        /\ tagged' = [tagged EXCEPT ![q.item] = @ \cap q.genres]
        /\ \A v \in Worker : v # w => edit'[v] = edit[v]
        /\ edit'[w].stage = "idle"
    BY <1>0, <1>5 DEF ReplaceDrop, EndEdit, NoEdit, EditOK
  <2>2. CASE q.item # c
    <3>1. R' = R /\ \A v \in R : edit'[v] = edit[v]
      BY <2>1, <2>2 DEF Replacing
    <3> QED
      BY <1>0, <2>1, <2>2, <3>1, ReplaceKept
  <2>3. CASE q.item = c
    <3>1. R' = R \ {w} /\ w \in R
      BY <2>1, <2>3 DEF Replacing
    <3>2. tagged'[c] = tagged[c] \cap q.genres
      BY <1>0, <2>1, <2>3
    <3>3. asked[c] # Mixed => R' = {} /\ tagged'[c] = asked[c]
      BY <1>0, <3>1, <3>2 DEF ReplaceOf
    <3> QED
      BY <2>1, <3>3 DEF ReplaceOf
  <2> QED
    BY <2>2, <2>3
<1>6. ASSUME NEW w \in Worker, AbortEdit(w) PROVE ReplaceOf(c)'
  <2>1. /\ UNCHANGED <<row, tagged>>
        /\ asked'[c] = IF w \in R THEN Mixed ELSE asked[c]
        /\ \A v \in Worker : v # w => edit'[v] = edit[v]
        /\ edit'[w].stage = "idle"
    BY <1>0, <1>6 DEF AbortEdit, EndEdit, NoEdit
  <2>2. R' = R \ {w} /\ \A v \in R \ {w} : edit'[v] = edit[v]
    BY <2>1 DEF Replacing
  <2> QED
    BY <1>0, <2>1, <2>2 DEF ReplaceOf
<1>7. ASSUME NEW d \in Comic, CatalogueOfComic(d) PROVE ReplaceOf(c)'
  <2>1. UNCHANGED <<edit, tagged, asked>> /\ R' = R
    BY <1>7 DEF CatalogueOfComic, Backfill, AdminDeleteComic, FollowComic, UnfollowComic, Replacing
  <2> QED
    BY <1>0, <2>1, ReplaceKept
<1>8. CASE CatalogueCrash
  <2>1. /\ UNCHANGED <<row, tagged>> /\ R' = {}
        /\ asked'[c] = IF R # {} THEN Mixed ELSE asked[c]
    BY <1>8 DEF CatalogueCrash, Replacing, NoEdit
  <2> QED
    BY <1>0, <2>1 DEF ReplaceOf
<1>9. CASE Listen \/ UNCHANGED catalogueVars
  <2>1. UNCHANGED <<row, tagged, edit, asked>>
    BY <1>9 DEF Listen, catalogueVars
  <2> QED
    BY <1>0, <2>1, ReplaceKept DEF Replacing
<1> QED
  BY <1>1, <1>2, <1>3, <1>4, <1>5, <1>6, <1>7, <1>8, <1>9 DEF CatalogueNext, CatalogueStep

LEMMA GenresNext == GenresInv /\ [CatalogueNext]_catalogueVars => GenresInv'
<1> SUFFICES ASSUME GenresInv, [CatalogueNext]_catalogueVars PROVE GenresInv'
  OBVIOUS
<1>1. CatalogueOK' /\ NewIsPrivate'
  BY CatalogueNextOK, PrivateNext DEF GenresInv
<1>2. \A c \in Comic : ReplaceOf(c)'
  BY ReplaceNext
<1> QED
  BY <1>1, <1>2, ReplaceOfAllNext

\* A comic has the genres that were asked for last, unless two requests set them at
\* once, one was cut off, or its read of the genres failed (admin.go:476-480, 564-570).
THEOREM GenresAsAsked == Spec => []GenresAreAsked
<1>1. GenresInv => GenresAreAsked
  BY DEF GenresInv
<1>2. CatalogueSpec => []GenresInv
  BY GenresInit, GenresNext, PTL DEF CatalogueSpec
<1> QED
  BY <1>1, <1>2, DeskComposes, PTL

=============================================================================
