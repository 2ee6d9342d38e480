------------------------------ MODULE Chapters ------------------------------
(***************************************************************************)
(* The chapters of one comic and their images: the crawl job (cmd/crawler/ *)
(* main.go), the part of RunComic that starts it and moves                 *)
(* crawler_last_chapter (internal/crawler/service.go), and the admin's     *)
(* handlers for chapters (handlers/admin.go, handlers/upload.go).          *)
(*                                                                         *)
(* A job is a process of its own: it may outlive the API that started it.  *)
(* Jobs and requests share the table chapters, which has no unique key on  *)
(* comic and number, and the images at Cloudinary, which are named after   *)
(* the number and the page and so belong to all rows of a number.          *)
(*                                                                         *)
(* The comic is not deleted and its source stays one site, of which the    *)
(* model keeps the chapters it lists.                                      *)
(***************************************************************************)
EXTENDS Integers, FiniteSets

CONSTANTS
    Number,      \* chapter numbers
    Row,         \* primary keys of chapters, used or still free
    Job,         \* crawl jobs at once
    Worker,      \* requests of admins at once
    MaxPages,    \* bound: images of a chapter
    Target,      \* values of crawler_target_chapter; 0 for none
    Editing,     \* bound: whether admins create and edit chapters by hand
    NoRow

ASSUME ChaptersAssumption ==
    /\ Number \subseteq Nat \ {0} /\ IsFiniteSet(Number)
    /\ NoRow \notin Row
    /\ IsFiniteSet(Job)
    /\ MaxPages \in Nat \ {0}
    /\ Target \subseteq Nat
    /\ Editing \in BOOLEAN

VARIABLES
    chapters,    \* the table chapters
    images,      \* Cloudinary: the pages stored under a chapter's number
    listed,      \* the chapters the source site lists
    last,        \* comics.crawler_last_chapter
    target,      \* comics.crawler_target_chapter
    job,         \* the runs of the comic and their processes
    req,         \* what each worker is doing
    excused,     \* history: numbers that a job may have passed over
    torn         \* history: numbers of which images were destroyed in use

comics == <<last, target>>
ghosts == <<excused, torn>>
vars   == <<chapters, images, listed, comics, job, req, ghosts>>

Page == 1 .. MaxPages

MaxOf(S) == IF S = {} THEN 0 ELSE CHOOSE n \in S : \A m \in S : m <= n
MinOf(S) == CHOOSE n \in S : \A m \in S : n <= m

\* A row.  History: byJob says that a job inserted it that had read the table, sure
\* that page_count counts images that were uploaded.
Chapter == [state : {"free", "there", "deleted"}, number : Number \cup {0},
            pages : 0 .. MaxPages, byJob : BOOLEAN, sure : BOOLEAN]

Free == [state |-> "free", number |-> 0, pages |-> 0, byJob |-> FALSE, sure |-> FALSE]

There(r)   == chapters[r].state = "there"
Existing   == {chapters[r].number : r \in {s \in Row : There(s)}}
RowsOf(n)  == {r \in Row : There(r) /\ chapters[r].number = n}

(***************************************************************************)
(* A run of the comic.  stage says what comes next:                        *)
(*   start    RunComic starts the job, with its copy of the comic          *)
(*   list     fetch the links (run)                                        *)
(*   load     read the chapter numbers that exist, and filter (run)        *)
(*   next     crawl the next chapter, or exit (run)                        *)
(*   upload   download and upload the next image (crawlChapter)            *)
(*   insert   insert the chapter (crawlChapter)                            *)
(*   max      read the highest chapter number (RunComic)                   *)
(*   update   write the comic (RunComic)                                   *)
(* watched says that the API that started the process still waits for it.  *)
(***************************************************************************)
Process == {"list", "load", "next", "upload", "insert"}

JobState ==
    [stage : {"idle", "start", "max", "update"} \cup Process,
     full : BOOLEAN, last : Number \cup {0}, target : Target \cup {0},
     todo : SUBSET Number, number : Number \cup {0}, page : 0 .. MaxPages,
     pages : 0 .. MaxPages, blind : BOOLEAN, watched : BOOLEAN]

IdleJob == [stage |-> "idle", full |-> FALSE, last |-> 0, target |-> 0, todo |-> {},
            number |-> 0, page |-> 0, pages |-> 0, blind |-> FALSE, watched |-> FALSE]

\* A worker: the row its handler read, by key, number and page_count, and the next page.
Request == [stage : {"idle", "upload", "save", "delete", "destroy"}, row : Row \cup {NoRow},
            number : Number \cup {0}, page : 0 .. MaxPages, pages : 0 .. MaxPages]

Idle == [stage |-> "idle", row |-> NoRow, number |-> 0, page |-> 0, pages |-> 0]

Init ==
    /\ chapters = [r \in Row |-> Free]
    /\ images = [n \in Number |-> {}]
    /\ listed = {}
    /\ last = 0 /\ target \in Target
    /\ job = [j \in Job |-> IdleJob]
    /\ req = [w \in Worker |-> Idle]
    /\ excused = {} /\ torn = {}

\* The insert of a row of chapters, under any free key.
InsertChapter(n, k, byJob, sure) ==
    \E r \in Row :
       /\ chapters[r].state = "free"
       /\ chapters' = [chapters EXCEPT ![r] = [state |-> "there", number |-> n, pages |-> k,
                                               byJob |-> byJob, sure |-> sure]]

-----------------------------------------------------------------------------
(***************************************************************************)
(* The crawl job.                                                          *)
(***************************************************************************)

\* The copy of the comic that the scheduler or RunComicByID read.
ReadComic(j, full) ==
    /\ job[j].stage = "idle"
    /\ job' = [job EXCEPT ![j] = [IdleJob EXCEPT !.stage = "start", !.full = full,
                                                 !.last = last, !.target = target]]
    /\ UNCHANGED <<chapters, images, listed, comics, req, ghosts>>

\* The process starts.  Without a target it reads the comic again
\* (ensureSourceFromDB), for the target and for a last chapter it lacks.
StartJob(j) ==
    LET q == job[j] IN
    /\ q.stage = "start"
    /\ job' = [job EXCEPT ![j] =
                 [q EXCEPT !.stage = "list", !.watched = TRUE,
                           !.target = IF q.target = 0 THEN target ELSE q.target,
                           !.last = IF q.target = 0 /\ q.last = 0 THEN last ELSE q.last]]
    /\ UNCHANGED <<chapters, images, listed, comics, req, ghosts>>

\* fetchChapterLinks; a site without chapters is an error (JobFails).
FetchChapterLinks(j) ==
    /\ job[j].stage = "list"
    /\ listed # {}
    /\ job' = [job EXCEPT ![j] = [@ EXCEPT !.stage = "load", !.todo = listed]]
    /\ UNCHANGED <<chapters, images, listed, comics, req, ghosts>>

\* Mutant: what exists is crawled again.
FilterChapters_Again(q, existing) ==
    IF q.full
      THEN {n \in q.todo : n <= IF q.target > 0 THEN q.target ELSE MaxOf(q.todo)}
      ELSE {n \in q.todo : n > q.last}

\* A full sync goes up to the target, an incremental run starts after the last
\* chapter and looks at no target.
FilterChapters(q, existing) ==
    IF q.full
      THEN {n \in q.todo : n <= IF q.target > 0 THEN q.target ELSE MaxOf(q.todo)} \ existing
      ELSE {n \in q.todo : n > q.last} \ existing

\* What a job is to crawl is known; from the comic it needs nothing any more.
\* An error of the query is ignored: then no chapter exists.
LoadExistingChapters(j) ==
    /\ job[j].stage = "load"
    /\ \E existing \in {Existing, {}} :
          job' = [job EXCEPT ![j] =
                    [IdleJob EXCEPT !.stage = "next", !.watched = job[j].watched,
                                    !.todo = FilterChapters(job[j], existing),
                                    !.blind = existing # Existing]]
    /\ UNCHANGED <<chapters, images, listed, comics, req, ghosts>>

\* Mutant: in descending order.
Current_Highest(q) == MaxOf(q.todo)

\* The chapters are crawled in ascending order.
Current(q) == MinOf(q.todo)

\* The chapter's page is fetched and has images.
CrawlChapter(j) ==
    LET q == job[j] IN
    /\ q.stage = "next"
    /\ q.todo # {}
    /\ \E k \in Page :
          job' = [job EXCEPT ![j] = [q EXCEPT !.stage = "upload", !.number = Current(q),
                                              !.page = 1, !.pages = k]]
    /\ UNCHANGED <<chapters, images, listed, comics, req, ghosts>>

\* Mutant: <= for <, one image too many.
DownloadAndUpload_OneMore(j) ==
    LET q == job[j] IN
    /\ q.stage = "upload"
    /\ images' = [images EXCEPT ![q.number] = @ \cup {q.page}]
    /\ job' = [job EXCEPT ![j] = IF q.page <= q.pages THEN [q EXCEPT !.page = q.page + 1]
                                 ELSE [q EXCEPT !.stage = "insert"]]
    /\ UNCHANGED <<chapters, listed, comics, req, ghosts>>

DownloadAndUpload(j) ==
    LET q == job[j] IN
    /\ q.stage = "upload"
    /\ images' = [images EXCEPT ![q.number] = @ \cup {q.page}]
    /\ job' = [job EXCEPT ![j] = IF q.page < q.pages THEN [q EXCEPT !.page = q.page + 1]
                                 ELSE [q EXCEPT !.stage = "insert"]]
    /\ UNCHANGED <<chapters, listed, comics, req, ghosts>>

\* On to the next chapter.
Done(j, n) ==
    job' = [job EXCEPT ![j] = [@ EXCEPT !.stage = "next", !.todo = job[j].todo \ {n},
                                        !.number = 0, !.page = 0, !.pages = 0]]

CreateChapter(j) ==
    LET q == job[j] IN
    /\ q.stage = "insert"
    /\ InsertChapter(q.number, q.pages, ~q.blind, TRUE)
    /\ Done(j, q.number)
    /\ UNCHANGED <<images, listed, comics, req, ghosts>>

\* crawlChapter returns an error at any point; it is logged and the job goes on.
ChapterFails(j) ==
    LET q == job[j]
        n == IF q.stage = "next" THEN Current(q) ELSE q.number
    IN
    /\ q.stage \in {"next", "upload", "insert"}
    /\ q.stage = "next" => q.todo # {}
    /\ excused' = excused \cup {n}
    /\ Done(j, n)
    /\ UNCHANGED <<chapters, images, listed, comics, req, torn>>

\* The process exits with 0, however many chapters failed.
JobExits(j) ==
    /\ job[j].stage = "next" /\ job[j].todo = {}
    /\ job' = [job EXCEPT ![j] = IF job[j].watched THEN [IdleJob EXCEPT !.stage = "max"] ELSE IdleJob]
    /\ UNCHANGED <<chapters, images, listed, comics, req, ghosts>>

\* The process exits with an error or is killed at RunComic's deadline: RunComic
\* leaves crawler_last_chapter alone.
JobFails(j) ==
    /\ job[j].stage \in Process \cup {"start"}
    /\ job' = [job EXCEPT ![j] = IdleJob]
    /\ UNCHANGED <<chapters, images, listed, comics, req, ghosts>>

\* maxChapterNumber.  When it fails the last chapter is not written.
MaxChapterNumber(j) ==
    /\ job[j].stage = "max"
    /\ job' = [job EXCEPT ![j] = [IdleJob EXCEPT !.stage = "update", !.last = MaxOf(Existing)]]
    /\ UNCHANGED <<chapters, images, listed, comics, req, ghosts>>

UpdateLastChapter(j) ==
    /\ job[j].stage = "update"
    /\ last' = job[j].last
    /\ job' = [job EXCEPT ![j] = IdleJob]
    /\ UNCHANGED <<chapters, images, listed, target, req, ghosts>>

UpdateFails(j) ==
    /\ job[j].stage \in {"max", "update"}
    /\ job' = [job EXCEPT ![j] = IdleJob]
    /\ UNCHANGED <<chapters, images, listed, comics, req, ghosts>>

-----------------------------------------------------------------------------
(***************************************************************************)
(* The admin's handlers.                                                   *)
(***************************************************************************)

\* No look at the numbers that exist, and no unique key.  A chapter created by hand
\* puts the last chapter past those below it.
AdminCreateChapter(n, k) ==
    /\ Editing
    /\ InsertChapter(n, k, FALSE, FALSE)
    /\ excused' = excused \cup {m \in Number : m < n}
    /\ UNCHANGED <<images, listed, comics, job, req, torn>>

AdminUpdateChapter(r, k) ==
    /\ Editing
    /\ There(r) /\ k > 0
    /\ chapters' = [chapters EXCEPT ![r] = [@ EXCEPT !.pages = k, !.sure = FALSE]]
    /\ UNCHANGED <<images, listed, comics, job, req, ghosts>>

\* AdminDeleteChapter reads the row ...
AdminDeleteChapter(w, r) ==
    /\ req[w].stage = "idle"
    /\ There(r)
    /\ req' = [req EXCEPT ![w] = [stage |-> "delete", row |-> r, number |-> chapters[r].number,
                                  page |-> 1, pages |-> chapters[r].pages]]
    /\ UNCHANGED <<chapters, images, listed, comics, job, ghosts>>

\* ... deletes it, if nobody has yet ...
DeleteRow(w) ==
    LET q == req[w] IN
    /\ q.stage = "delete"
    /\ chapters' = [chapters EXCEPT ![q.row] = [Free EXCEPT !.state = "deleted"]]
    /\ req' = [req EXCEPT ![w] = IF q.pages > 0 THEN [q EXCEPT !.stage = "destroy"] ELSE Idle]
    /\ excused' = excused \cup {q.number}
    /\ UNCHANGED <<images, listed, comics, job, torn>>

\* Somebody else has stored page i of chapter n, or holds a row that shows it.
InUse(w, n, i) ==
    \/ \E r \in RowsOf(n) : chapters[r].pages >= i
    \/ \E j \in Job : /\ job[j].number = n
                      /\ job[j].stage \in {"upload", "insert"}
                      /\ job[j].stage = "upload" => job[j].page > i
    \/ \E v \in Worker \ {w} : /\ req[v].number = n
                               /\ req[v].stage \in {"upload", "save"}
                               /\ req[v].stage = "upload" => req[v].page > i

\* ... and destroys the images page by page; an error is ignored.
Destroy(w) ==
    LET q == req[w] IN
    /\ q.stage = "destroy"
    /\ \/ /\ images' = [images EXCEPT ![q.number] = @ \ {q.page}]
          /\ torn' = IF InUse(w, q.number, q.page) THEN torn \cup {q.number} ELSE torn
       \/ UNCHANGED <<images, torn>>
    /\ req' = [req EXCEPT ![w] = IF q.page < q.pages THEN [q EXCEPT !.page = q.page + 1] ELSE Idle]
    /\ UNCHANGED <<chapters, listed, comics, job, excused>>

\* Mutant: page_count is saved before the files are uploaded.
UploadChapterPages_SaveFirst(w, r, k) ==
    /\ req[w].stage = "idle"
    /\ There(r)
    /\ req' = [req EXCEPT ![w] = [stage |-> "upload", row |-> r, number |-> chapters[r].number,
                                  page |-> 1, pages |-> k]]
    /\ chapters' = [chapters EXCEPT ![r] = [@ EXCEPT !.pages = k, !.sure = TRUE]]
    /\ UNCHANGED <<images, listed, comics, job, ghosts>>

\* UploadChapterPages reads the row; k files come with the request.
UploadChapterPages(w, r, k) ==
    /\ req[w].stage = "idle"
    /\ There(r)
    /\ req' = [req EXCEPT ![w] = [stage |-> "upload", row |-> r, number |-> chapters[r].number,
                                  page |-> 1, pages |-> k]]
    /\ UNCHANGED <<chapters, images, listed, comics, job, ghosts>>

UploadObject(w) ==
    LET q == req[w] IN
    /\ q.stage = "upload"
    /\ images' = [images EXCEPT ![q.number] = @ \cup {q.page}]
    /\ req' = [req EXCEPT ![w] = IF q.page < q.pages THEN [q EXCEPT !.page = q.page + 1]
                                 ELSE [q EXCEPT !.stage = "save"]]
    /\ UNCHANGED <<chapters, listed, comics, job, ghosts>>

\* The UPDATE of page_count, if the row is still there.
SavePages(w) ==
    LET q == req[w] IN
    /\ q.stage = "save"
    /\ chapters' = IF There(q.row)
                     THEN [chapters EXCEPT ![q.row] = [@ EXCEPT !.pages = q.pages, !.sure = TRUE]]
                     ELSE chapters
    /\ req' = [req EXCEPT ![w] = Idle]
    /\ UNCHANGED <<images, listed, comics, job, ghosts>>

\* A statement or an upload fails: what was done stays.
Abort(w) ==
    /\ req[w].stage # "idle"
    /\ req' = [req EXCEPT ![w] = Idle]
    /\ UNCHANGED <<chapters, images, listed, comics, job, ghosts>>

\* The part of AdminUpdateComic that sets the target.
AdminUpdateComic(t) ==
    /\ target' = t
    /\ UNCHANGED <<chapters, images, listed, last, job, req, ghosts>>

-----------------------------------------------------------------------------
\* The source site lists a chapter, perhaps after one with a higher number.
Publish(n) ==
    /\ n \notin listed
    /\ listed' = listed \cup {n}
    /\ excused' = IF \E m \in listed : m > n THEN excused \cup {n} ELSE excused
    /\ UNCHANGED <<chapters, images, comics, job, req, torn>>

\* The API stops.  Its requests are gone, the processes it started are not, and
\* nobody waits for them any more.
Crash ==
    /\ job' = [j \in Job |-> IF job[j].stage \in Process THEN [job[j] EXCEPT !.watched = FALSE]
                             ELSE IdleJob]
    /\ req' = [w \in Worker |-> Idle]
    /\ UNCHANGED <<chapters, images, listed, comics, ghosts>>

JobStep(j) ==
    \/ \E full \in BOOLEAN : ReadComic(j, full)
    \/ StartJob(j) \/ FetchChapterLinks(j) \/ LoadExistingChapters(j)
    \/ CrawlChapter(j) \/ DownloadAndUpload(j) \/ CreateChapter(j) \/ ChapterFails(j)
    \/ JobExits(j) \/ JobFails(j)
    \/ MaxChapterNumber(j) \/ UpdateLastChapter(j) \/ UpdateFails(j)

AdminStep(w) ==
    \/ \E r \in Row : AdminDeleteChapter(w, r)
    \/ DeleteRow(w) \/ Destroy(w)
    \/ \E r \in Row, k \in Page : UploadChapterPages(w, r, k)
    \/ UploadObject(w) \/ SavePages(w) \/ Abort(w)

Next ==
    \/ \E j \in Job : JobStep(j)
    \/ \E w \in Worker : AdminStep(w)
    \/ \E n \in Number, k \in 0 .. MaxPages : AdminCreateChapter(n, k)
    \/ \E r \in Row, k \in Page : AdminUpdateChapter(r, k)
    \/ \E t \in Target : AdminUpdateComic(t)
    \/ \E n \in Number : Publish(n)
    \/ Crash

Spec == Init /\ [][Next]_vars

-----------------------------------------------------------------------------
(***************************************************************************)
(* Properties.                                                             *)
(***************************************************************************)

\* The values the table, the images, the jobs and the requests can hold; a job or
\* request that is storing images knows the chapter's number and which page is
\* next (main.go:165-202, upload.go:53-60, admin.go:793-799).
TypeOK ==
    /\ chapters \in [Row -> Chapter]
    /\ \A r \in Row : There(r) => chapters[r].number \in Number
    /\ images \in [Number -> SUBSET Page]
    /\ listed \subseteq Number
    /\ last \in Number \cup {0} /\ target \in Target
    /\ job \in [Job -> JobState]
    /\ \A j \in Job : job[j].stage \in {"upload", "insert"} =>
          job[j].number \in job[j].todo /\ job[j].page \in 1 .. job[j].pages
    /\ req \in [Worker -> Request]
    /\ \A w \in Worker : req[w].stage # "idle" => req[w].row \in Row /\ req[w].number \in Number
    /\ \A w \in Worker : req[w].stage = "upload" => req[w].page \in 1 .. req[w].pages
    /\ excused \subseteq Number /\ torn \subseteq Number

JobRows(n) == {r \in RowsOf(n) : chapters[r].byJob}

\* Jobs insert a chapter twice only when they overlap - started by the scheduler
\* and by an admin, or left over from an API that stopped: once for each job in
\* progress.  A job that could not read the chapters that exist is not counted
\* (main.go:119-131, 155-163, 198; service.go:118).
DuplicatesOnlyByOverlap == \A n \in Number : Cardinality(JobRows(n)) <= Cardinality(Job)

\* A chapter that incremental runs will never look for again, since its number is
\* not above crawler_last_chapter, exists - unless its crawl failed once, it was
\* deleted, the site listed it late, or an admin created a higher one by hand
\* (main.go:126-131, 437; service.go:127-131).  Jobs that are killed, overlap or
\* outlive the API cause no gap.
GapsAreExplained ==
    \A n \in listed : n <= last => n \in Existing \/ n \in excused

\* The images that page_count counts are there, unless another row of the number
\* was deleted, or one was while somebody stored images of it (main.go:181-198,
\* upload.go:53-65, admin.go:789-799).
ImagesAreThere ==
    \A r \in Row : There(r) /\ chapters[r].sure =>
       1 .. chapters[r].pages \subseteq images[chapters[r].number] \/ chapters[r].number \in torn

-----------------------------------------------------------------------------
(***************************************************************************)
(* The inductive invariants behind these properties (Chapters_proofs).     *)
(***************************************************************************)

\* Jobs in progress that will insert chapter n, unless they fail.
Expecting(n) ==
    {j \in Job : n \in job[j].todo /\ ~job[j].blind /\ job[j].stage \in {"next", "upload", "insert"}}

\* A job in progress counts like the row it will insert.
CopiesInv ==
    /\ TypeOK
    /\ \A n \in Number :
          /\ IsFiniteSet(JobRows(n))
          /\ Cardinality(JobRows(n)) + Cardinality(Expecting(n)) <= Cardinality(Job)

\* Chapter n is no gap, and will be none when the site lists it.
Accounted(n) == n \in Existing \/ n \in excused \/ (n \notin listed /\ \E m \in listed : n < m)

Explained(e) == \A n \in Number : n <= e => Accounted(n)

\* A job comes to a chapter after all those below it.
InOrder(q) ==
    /\ q.stage \in {"start", "list", "load", "update"} => Explained(q.last)
    /\ q.stage \in Process \ {"list"} =>
          \A k \in q.todo : k \in listed /\ \A n \in Number \ q.todo : n < k => Accounted(n)
    /\ q.stage \in {"upload", "insert"} => \A k \in q.todo : q.number <= k

\* The row a request has read keeps its number until it is deleted.
RowsKnown ==
    \A w \in Worker : req[w].stage # "idle" =>
       /\ chapters[req[w].row].state # "free"
       /\ There(req[w].row) => chapters[req[w].row].number = req[w].number

\* Whatever may become the last chapter is explained.
GapsInv ==
    /\ TypeOK /\ RowsKnown
    /\ Explained(last)
    /\ \A r \in Row : There(r) => Explained(chapters[r].number)
    /\ \A j \in Job : InOrder(job[j])

Stored(n, k) == 1 .. k \subseteq images[n] \/ n \in torn

JobStored(q) ==
    /\ q.stage = "upload" => Stored(q.number, q.page - 1)
    /\ q.stage = "insert" => Stored(q.number, q.pages)

RequestStored(q) ==
    /\ q.stage = "upload" => Stored(q.number, q.page - 1)
    /\ q.stage = "save" => Stored(q.number, q.pages)

\* What a job or a request has stored so far is there.
ImagesInv ==
    /\ TypeOK /\ RowsKnown
    /\ ImagesAreThere
    /\ \A j \in Job : JobStored(job[j])
    /\ \A w \in Worker : RequestStored(req[w])
=============================================================================
