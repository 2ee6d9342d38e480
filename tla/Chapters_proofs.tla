-------------------------- MODULE Chapters_proofs ---------------------------
(***************************************************************************)
(* Proofs about Chapters, for any number of chapters, pages, jobs and      *)
(* requests at once.                                                       *)
(***************************************************************************)
EXTENDS Chapters, FiniteSetTheorems, WellFoundedInduction, TLAPS

-----------------------------------------------------------------------------
(* The least and the greatest of a set of numbers.                         *)

LEMMA LeastNumber ==
  ASSUME NEW S, S \subseteq Nat, S # {}
  PROVE  MinOf(S) \in S /\ \A m \in S : MinOf(S) <= m
<1>1. PICK x \in S : \A y \in S : ~ (<<y, x>> \in OpToRel(<, Nat))
  BY NatLessThanWellFounded, WFMin
<1>2. \A y \in S : ~ (y < x)
  BY <1>1 DEF OpToRel
<1>3. \A y \in S : x <= y
  BY <1>2
<1> QED
  BY <1>3 DEF MinOf

\* By the least size of a set without a greatest number.
LEMMA FiniteHasGreatest ==
  ASSUME NEW S, S \subseteq Nat, IsFiniteSet(S), S # {}
  PROVE  \E n \in S : \A m \in S : m <= n
<1> DEFINE Greatest(T) == \E n \in T : \A m \in T : m <= n
<1> DEFINE Bad == {T \in SUBSET S : T # {} /\ ~Greatest(T)}
<1> SUFFICES ASSUME ~Greatest(S) PROVE FALSE
  OBVIOUS
<1> DEFINE Sizes == {Cardinality(T) : T \in Bad}
<1>1. \A T \in SUBSET S : IsFiniteSet(T) /\ Cardinality(T) \in Nat
  BY FS_Subset, FS_CardinalityType
<1>2. Sizes \subseteq Nat /\ Sizes # {}
  <2>1. S \in Bad
    OBVIOUS
  <2> QED
    BY <1>1, <2>1
<1>3. PICK T \in Bad : \A U \in Bad : Cardinality(T) <= Cardinality(U)
  <2>1. MinOf(Sizes) \in Sizes /\ \A k \in Sizes : MinOf(Sizes) <= k
    BY <1>2, LeastNumber
  <2> QED
    BY <2>1
<1>4. PICK x \in T : TRUE
  BY <1>3
<1>5. Cardinality(T \ {x}) < Cardinality(T)
  <2>1. Cardinality(T \ {x}) = Cardinality(T) - 1
    BY <1>1, <1>3, <1>4, FS_RemoveElement
  <2>2. Cardinality(T) \in Nat
    BY <1>1, <1>3
  <2> QED
    BY <2>1, <2>2
<1>6. T \ {x} \notin Bad
  <2>1. T \ {x} \in SUBSET S
    BY <1>3
  <2>2. Cardinality(T) \in Nat /\ Cardinality(T \ {x}) \in Nat
    BY <1>1, <1>3, <2>1
  <2>3. ~ (Cardinality(T) <= Cardinality(T \ {x}))
    BY <1>5, <2>2
  <2> HIDE DEF Bad
  <2> QED
    BY <1>3, <2>3
<1>7. CASE T = {x}
  <2>1. x \in Nat
    BY <1>3, <1>4
  <2> QED
    BY <1>3, <1>7, <2>1
<1>8. CASE T # {x}
  <2>1. Greatest(T \ {x})
    BY <1>3, <1>4, <1>6, <1>8
  <2>2. PICK n \in T \ {x} : \A m \in T \ {x} : m <= n
    BY <2>1
  <2>3. x \in Nat /\ n \in Nat /\ T \subseteq Nat
    BY <1>3, <1>4, <2>2
  <2>4. Greatest(T)
    <3>1. CASE x <= n
      BY <2>2, <2>3, <3>1
    <3>2. CASE n <= x
      <4>1. \A m \in T : m <= x
        BY <2>2, <2>3, <3>2
      <4> QED
        BY <1>4, <4>1
    <3> QED
      BY <2>3, <3>1, <3>2
  <2> QED
    BY <1>3, <2>4
<1> QED
  BY <1>7, <1>8

LEMMA GreatestNumber ==
  ASSUME NEW S, S \subseteq Nat, IsFiniteSet(S)
  PROVE  MaxOf(S) \in S \cup {0} /\ \A m \in S : m <= MaxOf(S)
<1>1. CASE S = {}
  BY <1>1 DEF MaxOf
<1>2. CASE S # {}
  BY <1>2, FiniteHasGreatest DEF MaxOf
<1> QED
  BY <1>1, <1>2

-----------------------------------------------------------------------------
(* Type correctness.                                                       *)

ChaptersOK ==
    /\ chapters \in [Row -> Chapter]
    /\ \A r \in Row : There(r) => chapters[r].number \in Number

JobOK(q) ==
    /\ q \in JobState
    /\ q.stage \in {"upload", "insert"} => q.number \in q.todo /\ q.page \in 1 .. q.pages

RequestOK(q) ==
    /\ q \in Request
    /\ q.stage # "idle" => q.row \in Row /\ q.number \in Number
    /\ q.stage = "upload" => q.page \in 1 .. q.pages

JobsOK == job \in [Job -> JobState] /\ \A j \in Job : JobOK(job[j])

RequestsOK == req \in [Worker -> Request] /\ \A w \in Worker : RequestOK(req[w])

TablesOK ==
    /\ images \in [Number -> SUBSET Page]
    /\ listed \subseteq Number
    /\ last \in Number \cup {0} /\ target \in Target
    /\ excused \subseteq Number /\ torn \subseteq Number

LEMMA TypeSplit == TypeOK <=> ChaptersOK /\ JobsOK /\ RequestsOK /\ TablesOK
  BY DEF TypeOK, ChaptersOK, JobsOK, RequestsOK, TablesOK, JobOK, RequestOK

LEMMA TypeSplitNext == TypeOK' <=> ChaptersOK' /\ JobsOK' /\ RequestsOK' /\ TablesOK'
  BY DEF TypeOK, ChaptersOK, JobsOK, RequestsOK, TablesOK, JobOK, RequestOK

LEMMA SameChapters == ChaptersOK /\ UNCHANGED chapters => ChaptersOK'
  BY DEF ChaptersOK, There
LEMMA SameJobs == JobsOK /\ UNCHANGED job => JobsOK'
  BY DEF JobsOK
LEMMA SameRequests == RequestsOK /\ UNCHANGED req => RequestsOK'
  BY DEF RequestsOK

LEMMA OneJob ==
  ASSUME JobsOK, NEW j \in Job, NEW q, JobOK(q), job' = [job EXCEPT ![j] = q]
  PROVE  JobsOK'
  BY DEF JobsOK, JobOK

LEMMA OneRequest ==
  ASSUME RequestsOK, NEW w \in Worker, NEW q, RequestOK(q), req' = [req EXCEPT ![w] = q]
  PROVE  RequestsOK'
  BY DEF RequestsOK, RequestOK

LEMMA OneChapter ==
  ASSUME ChaptersOK, NEW r \in Row, NEW x \in Chapter, x.state = "there" => x.number \in Number,
         chapters' = [chapters EXCEPT ![r] = x]
  PROVE  ChaptersOK'
  BY DEF ChaptersOK, There

LEMMA IdleTypes == JobOK(IdleJob) /\ RequestOK(Idle) /\ Free \in Chapter
<1>1. JobOK(IdleJob)
  BY ChaptersAssumption DEF JobOK, IdleJob, JobState
<1>2. RequestOK(Idle)
  BY ChaptersAssumption DEF RequestOK, Idle, Request
<1>3. Free \in Chapter
  BY ChaptersAssumption DEF Free, Chapter
<1> QED
  BY <1>1, <1>2, <1>3

LEMMA TypeInit == Init => TypeOK
<1> SUFFICES ASSUME Init PROVE TypeOK
  OBVIOUS
<1>1. ChaptersOK
  BY IdleTypes DEF Init, ChaptersOK, There, Free
<1>2. JobsOK /\ RequestsOK
  BY IdleTypes DEF Init, JobsOK, RequestsOK, JobOK, RequestOK
<1>3. TablesOK
  BY DEF Init, TablesOK
<1> QED
  BY <1>1, <1>2, <1>3, TypeSplit

LEMMA ExistingNumbers ==
  ASSUME ChaptersOK
  PROVE  Existing \subseteq Number /\ IsFiniteSet(Existing) /\ MaxOf(Existing) \in Number \cup {0}
         /\ \A n \in Existing : n <= MaxOf(Existing)
<1>1. Existing \subseteq Number
  BY DEF Existing, ChaptersOK
<1>2. IsFiniteSet(Existing)
  BY <1>1, ChaptersAssumption, FS_Subset
<1> QED
  BY <1>1, <1>2, ChaptersAssumption, GreatestNumber

\* The chapter a job comes to next is the lowest it has left.
LEMMA CurrentIsLeast ==
  ASSUME NEW q \in JobState, q.todo # {}
  PROVE  Current(q) \in q.todo /\ Current(q) \in Number /\ \A n \in q.todo : Current(q) <= n
<1>1. q.todo \subseteq Number /\ q.todo \subseteq Nat
  BY ChaptersAssumption DEF JobState
<1> QED
  BY <1>1, LeastNumber DEF Current

LEMMA InsertTypes ==
  ASSUME ChaptersOK, NEW n \in Number, NEW k \in 0 .. MaxPages, NEW b \in BOOLEAN, NEW s \in BOOLEAN,
         InsertChapter(n, k, b, s)
  PROVE  ChaptersOK'
<1>1. [state |-> "there", number |-> n, pages |-> k, byJob |-> b, sure |-> s] \in Chapter
  BY DEF Chapter
<1> QED
  BY <1>1, OneChapter DEF InsertChapter

\* A job that is done with a chapter.
LEMMA NextChapter ==
  ASSUME NEW q \in JobState, NEW n, NEW x,
         x = [q EXCEPT !.stage = "next", !.todo = q.todo \ {n}, !.number = 0, !.page = 0, !.pages = 0]
  PROVE  x \in JobState /\ x.stage = "next" /\ x.todo = q.todo \ {n} /\ x.blind = q.blind
<1>1. 0 \in 0 .. MaxPages /\ q.todo \ {n} \in SUBSET Number
  BY ChaptersAssumption DEF JobState
<1>2. x \in JobState
  BY <1>1 DEF JobState, Process
<1>3. x.stage = "next" /\ x.todo = q.todo \ {n} /\ x.blind = q.blind
  BY DEF JobState
<1> QED
  BY <1>2, <1>3

\* What the steps of a job make of its state.
LEMMA JobTypes ==
  ASSUME TypeOK, NEW j \in Job, JobStep(j)
  PROVE  JobsOK'
<1> USE ChaptersAssumption
<1> DEFINE q == job[j]
<1>0. /\ JobsOK /\ ChaptersOK /\ TablesOK /\ JobOK(q) /\ q \in JobState /\ IdleJob \in JobState
      /\ listed \subseteq Number /\ last \in Number \cup {0} /\ target \in Target
  BY TypeSplit, IdleTypes DEF JobsOK, TablesOK, JobOK
<1>1. ASSUME NEW full \in BOOLEAN, ReadComic(j, full) PROVE JobsOK'
  <2>1. JobOK([IdleJob EXCEPT !.stage = "start", !.full = full, !.last = last, !.target = target])
    BY <1>0 DEF JobOK, JobState
  <2> QED
    BY <1>0, <1>1, <2>1, OneJob DEF ReadComic
<1>2. CASE StartJob(j)
  <2>1. JobOK([q EXCEPT !.stage = "list", !.watched = TRUE,
                        !.target = IF q.target = 0 THEN target ELSE q.target,
                        !.last = IF q.target = 0 /\ q.last = 0 THEN last ELSE q.last])
    BY <1>0 DEF JobOK, JobState, Process
  <2> QED
    BY <1>0, <1>2, <2>1, OneJob DEF StartJob
<1>3. CASE FetchChapterLinks(j)
  <2>1. JobOK([q EXCEPT !.stage = "load", !.todo = listed])
    BY <1>0 DEF JobOK, JobState, Process
  <2> QED
    BY <1>0, <1>3, <2>1, OneJob DEF FetchChapterLinks
<1>4. CASE LoadExistingChapters(j)
  <2>1. PICK existing \in {Existing, {}} :
           job' = [job EXCEPT ![j] = [IdleJob EXCEPT !.stage = "next", !.watched = q.watched,
                                                     !.todo = FilterChapters(q, existing),
                                                     !.blind = existing # Existing]]
    BY <1>4 DEF LoadExistingChapters
  <2>2. FilterChapters(q, existing) \subseteq Number
    BY <1>0 DEF FilterChapters, JobState
  <2>3. JobOK([IdleJob EXCEPT !.stage = "next", !.watched = q.watched,
                              !.todo = FilterChapters(q, existing), !.blind = existing # Existing])
    BY <1>0, <2>2 DEF JobOK, JobState, Process
  <2> QED
    BY <1>0, <2>1, <2>3, OneJob
<1>5. CASE CrawlChapter(j)
  <2>1. PICK k \in Page :
           job' = [job EXCEPT ![j] = [q EXCEPT !.stage = "upload", !.number = Current(q),
                                               !.page = 1, !.pages = k]]
    BY <1>5 DEF CrawlChapter
  <2>2. Current(q) \in q.todo /\ Current(q) \in Number
    BY <1>0, <1>5, CurrentIsLeast DEF CrawlChapter
  <2>3. PICK x : /\ x = [q EXCEPT !.stage = "upload", !.number = Current(q), !.page = 1, !.pages = k]
                 /\ job' = [job EXCEPT ![j] = x]
    BY <2>1
  <2>4. x \in JobState /\ x.number = Current(q) /\ x.page = 1 /\ x.pages = k /\ x.todo = q.todo
    <3>1. q \in JobState /\ Current(q) \in Number /\ k \in Page
      BY <1>0, <2>1, <2>2
    <3>2. k \in 0 .. MaxPages /\ 1 \in 0 .. MaxPages
      BY <3>1 DEF Page
    <3>3. x \in JobState
      BY <2>3, <3>1, <3>2 DEF JobState, Process
    <3>4. x.number = Current(q) /\ x.page = 1 /\ x.pages = k /\ x.todo = q.todo
      BY <2>3, <3>1 DEF JobState
    <3> QED
      BY <3>3, <3>4
  <2>5. JobOK(x)
    BY <2>1, <2>2, <2>4 DEF JobOK, Page
  <2> QED
    BY <1>0, <2>3, <2>5, OneJob
<1>6. CASE DownloadAndUpload(j)
  <2>1. q.number \in q.todo /\ q.page \in 1 .. q.pages /\ q.pages \in 0 .. MaxPages
    BY <1>0, <1>6 DEF DownloadAndUpload, JobOK, JobState
  <2>2. q.page < q.pages => JobOK([q EXCEPT !.page = q.page + 1])
    BY <1>0, <2>1 DEF JobOK, JobState, Process
  <2>3. JobOK([q EXCEPT !.stage = "insert"])
    BY <1>0, <2>1 DEF JobOK, JobState, Process
  <2> QED
    BY <1>0, <1>6, <2>2, <2>3, OneJob DEF DownloadAndUpload
<1>7. ASSUME NEW n, Done(j, n) PROVE JobsOK'
  <2>1. JobOK([q EXCEPT !.stage = "next", !.todo = q.todo \ {n}, !.number = 0, !.page = 0, !.pages = 0])
    BY <1>0, NextChapter DEF JobOK
  <2> QED
    BY <1>0, <1>7, <2>1, OneJob DEF Done
<1>8. CASE CreateChapter(j) \/ ChapterFails(j)
  BY <1>7, <1>8 DEF CreateChapter, ChapterFails
<1>9. CASE JobExits(j)
  <2>1. JobOK([IdleJob EXCEPT !.stage = "max"])
    BY <1>0 DEF JobOK, JobState
  <2> QED
    BY <1>0, <1>9, <2>1, IdleTypes, OneJob DEF JobExits
<1>10. CASE MaxChapterNumber(j)
  <2>1. JobOK([IdleJob EXCEPT !.stage = "update", !.last = MaxOf(Existing)])
    BY <1>0, ExistingNumbers DEF JobOK, JobState
  <2> QED
    BY <1>0, <1>10, <2>1, OneJob DEF MaxChapterNumber
<1>11. CASE JobFails(j) \/ UpdateLastChapter(j) \/ UpdateFails(j)
  BY <1>0, <1>11, IdleTypes, OneJob DEF JobFails, UpdateLastChapter, UpdateFails
<1> QED
  BY <1>1, <1>2, <1>3, <1>4, <1>5, <1>6, <1>8, <1>9, <1>10, <1>11 DEF JobStep

LEMMA RequestTypes ==
  ASSUME TypeOK, NEW w \in Worker, AdminStep(w)
  PROVE  RequestsOK'
<1> USE ChaptersAssumption
<1> DEFINE q == req[w]
<1>0. /\ RequestsOK /\ ChaptersOK /\ RequestOK(q) /\ q \in Request
      /\ \A r \in Row : There(r) => chapters[r] \in Chapter /\ chapters[r].number \in Number
                                    /\ chapters[r].pages \in 0 .. MaxPages
  BY TypeSplit DEF RequestsOK, ChaptersOK, Chapter
<1>1. ASSUME NEW r \in Row, AdminDeleteChapter(w, r) PROVE RequestsOK'
  <2>1. RequestOK([stage |-> "delete", row |-> r, number |-> chapters[r].number,
                   page |-> 1, pages |-> chapters[r].pages])
    BY <1>0, <1>1 DEF AdminDeleteChapter, RequestOK, Request
  <2> QED
    BY <1>0, <1>1, <2>1, OneRequest DEF AdminDeleteChapter
<1>2. CASE DeleteRow(w)
  <2>1. RequestOK([q EXCEPT !.stage = "destroy"])
    BY <1>0, <1>2 DEF DeleteRow, RequestOK, Request
  <2> QED
    BY <1>0, <1>2, <2>1, IdleTypes, OneRequest DEF DeleteRow
<1>3. CASE Destroy(w)
  <2>1. q.page < q.pages => RequestOK([q EXCEPT !.page = q.page + 1])
    BY <1>0, <1>3 DEF Destroy, RequestOK, Request
  <2> QED
    BY <1>0, <1>3, <2>1, IdleTypes, OneRequest DEF Destroy
<1>4. ASSUME NEW r \in Row, NEW k \in Page, UploadChapterPages(w, r, k) PROVE RequestsOK'
  <2>1. RequestOK([stage |-> "upload", row |-> r, number |-> chapters[r].number, page |-> 1, pages |-> k])
    BY <1>0, <1>4 DEF UploadChapterPages, RequestOK, Request, Page
  <2> QED
    BY <1>0, <1>4, <2>1, OneRequest DEF UploadChapterPages
<1>5. CASE UploadObject(w)
  <2>1. q.page < q.pages => RequestOK([q EXCEPT !.page = q.page + 1])
    BY <1>0, <1>5 DEF UploadObject, RequestOK, Request
  <2>2. RequestOK([q EXCEPT !.stage = "save"])
    BY <1>0, <1>5 DEF UploadObject, RequestOK, Request
  <2> QED
    BY <1>0, <1>5, <2>1, <2>2, OneRequest DEF UploadObject
<1>6. CASE SavePages(w) \/ Abort(w)
  BY <1>0, <1>6, IdleTypes, OneRequest DEF SavePages, Abort
<1> QED
  BY <1>1, <1>2, <1>3, <1>4, <1>5, <1>6 DEF AdminStep

LEMMA TypeNext == TypeOK /\ [Next]_vars => TypeOK'
<1> SUFFICES ASSUME TypeOK, [Next]_vars PROVE TypeOK'
  OBVIOUS
<1> USE ChaptersAssumption
<1>0. ChaptersOK /\ JobsOK /\ RequestsOK /\ TablesOK
  BY TypeSplit
<1>1. ASSUME NEW j \in Job, JobStep(j) PROVE TypeOK'
  <2>1. JobsOK'
    BY <1>1, JobTypes
  <2>2. UNCHANGED <<req, listed, target, torn>>
    BY <1>1 DEF JobStep, ReadComic, StartJob, FetchChapterLinks, LoadExistingChapters, CrawlChapter,
       DownloadAndUpload, CreateChapter, ChapterFails, JobExits, JobFails, MaxChapterNumber,
       UpdateLastChapter, UpdateFails, comics, ghosts
  <2>3. job[j] \in JobState /\ JobOK(job[j])
    BY <1>0 DEF JobsOK
  <2>4. ChaptersOK'
    <3>1. CASE CreateChapter(j)
      <4>1. job[j].number \in Number /\ job[j].pages \in 0 .. MaxPages /\ job[j].blind \in BOOLEAN
        BY <2>3, <3>1 DEF CreateChapter, JobOK, JobState
      <4> QED
        BY <1>0, <3>1, <4>1, InsertTypes DEF CreateChapter
    <3>2. CASE ~CreateChapter(j)
      <4>1. UNCHANGED chapters
        BY <1>1, <3>2 DEF JobStep, ReadComic, StartJob, FetchChapterLinks, LoadExistingChapters, CrawlChapter,
           DownloadAndUpload, ChapterFails, JobExits, JobFails, MaxChapterNumber, UpdateLastChapter,
           UpdateFails
      <4> QED
        BY <1>0, <4>1, SameChapters
    <3> QED
      BY <3>1, <3>2
  <2>5. images' \in [Number -> SUBSET Page]
    <3>1. CASE DownloadAndUpload(j)
      <4>1. job[j].number \in Number /\ job[j].page \in Page
        BY <2>3, <3>1 DEF DownloadAndUpload, JobOK, JobState, Page
      <4>2. images' = [images EXCEPT ![job[j].number] = images[job[j].number] \cup {job[j].page}]
        BY <3>1 DEF DownloadAndUpload
      <4> QED
        BY <1>0, <4>1, <4>2 DEF TablesOK
    <3>2. CASE ~DownloadAndUpload(j)
      <4>1. UNCHANGED images
        BY <1>1, <3>2 DEF JobStep, ReadComic, StartJob, FetchChapterLinks, LoadExistingChapters, CrawlChapter,
           CreateChapter, ChapterFails, JobExits, JobFails, MaxChapterNumber, UpdateLastChapter, UpdateFails
      <4> QED
        BY <1>0, <4>1 DEF TablesOK
    <3> QED
      BY <3>1, <3>2
  <2>6. last' \in Number \cup {0}
    <3>1. CASE UpdateLastChapter(j)
      BY <2>3, <3>1 DEF UpdateLastChapter, JobState
    <3>2. CASE ~UpdateLastChapter(j)
      <4>1. UNCHANGED last
        BY <1>1, <3>2 DEF JobStep, ReadComic, StartJob, FetchChapterLinks, LoadExistingChapters, CrawlChapter,
           DownloadAndUpload, CreateChapter, ChapterFails, JobExits, JobFails, MaxChapterNumber, UpdateFails,
           comics
      <4> QED
        BY <1>0, <4>1 DEF TablesOK
    <3> QED
      BY <3>1, <3>2
  <2>7. excused' \subseteq Number
    <3>1. CASE ChapterFails(j)
      <4>1. CASE job[j].stage = "next"
        BY <1>0, <2>3, <3>1, <4>1, CurrentIsLeast DEF ChapterFails, TablesOK
      <4>2. CASE job[j].stage # "next"
        <5>1. job[j].number \in Number /\ excused' = excused \cup {job[j].number}
          BY <2>3, <3>1, <4>2 DEF ChapterFails, JobOK, JobState
        <5> QED
          BY <1>0, <5>1 DEF TablesOK
      <4> QED
        BY <4>1, <4>2
    <3>2. CASE ~ChapterFails(j)
      <4>1. UNCHANGED excused
        BY <1>1, <3>2 DEF JobStep, ReadComic, StartJob, FetchChapterLinks, LoadExistingChapters, CrawlChapter,
           DownloadAndUpload, CreateChapter, JobExits, JobFails, MaxChapterNumber, UpdateLastChapter,
           UpdateFails, ghosts
      <4> QED
        BY <1>0, <4>1 DEF TablesOK
    <3> QED
      BY <3>1, <3>2
  <2>8. TablesOK'
    BY <1>0, <2>2, <2>5, <2>6, <2>7 DEF TablesOK
  <2> QED
    BY <1>0, <2>1, <2>2, <2>4, <2>8, SameRequests, TypeSplitNext
<1>2. ASSUME NEW w \in Worker, AdminStep(w) PROVE TypeOK'
  <2>1. RequestsOK'
    BY <1>2, RequestTypes
  <2>2. UNCHANGED <<job, listed, last, target>>
    BY <1>2 DEF AdminStep, AdminDeleteChapter, DeleteRow, Destroy, UploadChapterPages, UploadObject,
       SavePages, Abort, comics
  <2>3. RequestOK(req[w])
    BY <1>0 DEF RequestsOK
  <2>4. ChaptersOK'
    <3>1. CASE DeleteRow(w)
      <4>1. [Free EXCEPT !.state = "deleted"] \in Chapter
        BY IdleTypes DEF Chapter
      <4>2. [Free EXCEPT !.state = "deleted"].state # "there" /\ req[w].row \in Row
        BY <2>3, <3>1 DEF Free, RequestOK, DeleteRow
      <4> QED
        BY <1>0, <3>1, <4>1, <4>2, OneChapter DEF DeleteRow
    <3>2. CASE SavePages(w)
      <4> DEFINE r == req[w].row
      <4>1. CASE There(r)
        <5>1. r \in Row /\ chapters[r] \in Chapter /\ chapters[r].number \in Number /\ req[w].pages \in 0 .. MaxPages
          BY <1>0, <2>3, <3>2, <4>1 DEF RequestOK, SavePages, ChaptersOK, Request
        <5>2. /\ [chapters[r] EXCEPT !.pages = req[w].pages, !.sure = TRUE] \in Chapter
              /\ [chapters[r] EXCEPT !.pages = req[w].pages, !.sure = TRUE].number \in Number
          BY <5>1 DEF Chapter
        <5> QED
          BY <1>0, <3>2, <4>1, <5>1, <5>2, OneChapter DEF SavePages
      <4>2. CASE ~There(r)
        BY <1>0, <3>2, <4>2, SameChapters DEF SavePages
      <4> QED
        BY <4>1, <4>2
    <3>3. CASE ~DeleteRow(w) /\ ~SavePages(w)
      <4>1. UNCHANGED chapters
        BY <1>2, <3>3 DEF AdminStep, AdminDeleteChapter, Destroy, UploadChapterPages, UploadObject, Abort
      <4> QED
        BY <1>0, <4>1, SameChapters
    <3> QED
      BY <3>1, <3>2, <3>3
  <2>5. images' \in [Number -> SUBSET Page] /\ excused' \subseteq Number /\ torn' \subseteq Number
    <3>1. CASE UploadObject(w)
      <4>1. req[w].number \in Number /\ req[w].page \in Page /\ UNCHANGED <<excused, torn>>
        BY <2>3, <3>1 DEF UploadObject, RequestOK, Request, Page, ghosts
      <4>2. images' = [images EXCEPT ![req[w].number] = images[req[w].number] \cup {req[w].page}]
        BY <3>1 DEF UploadObject
      <4> QED
        BY <1>0, <4>1, <4>2 DEF TablesOK
    <3>2. CASE Destroy(w)
      <4>1. req[w].number \in Number /\ UNCHANGED excused
        BY <2>3, <3>2 DEF Destroy, RequestOK
      <4>2. \/ images' = [images EXCEPT ![req[w].number] = images[req[w].number] \ {req[w].page}]
            \/ UNCHANGED images
        BY <3>2 DEF Destroy
      <4>3. torn' = torn \cup {req[w].number} \/ torn' = torn
        BY <3>2 DEF Destroy
      <4> QED
        BY <1>0, <4>1, <4>2, <4>3 DEF TablesOK
    <3>3. CASE DeleteRow(w)
      BY <1>0, <2>3, <3>3 DEF DeleteRow, RequestOK, TablesOK
    <3>4. CASE ~UploadObject(w) /\ ~Destroy(w) /\ ~DeleteRow(w)
      <4>1. UNCHANGED <<images, excused, torn>>
        BY <1>2, <3>4 DEF AdminStep, AdminDeleteChapter, UploadChapterPages, SavePages, Abort, ghosts
      <4> QED
        BY <1>0, <4>1 DEF TablesOK
    <3> QED
      BY <3>1, <3>2, <3>3, <3>4
  <2> QED
    BY <1>0, <2>1, <2>2, <2>4, <2>5, SameJobs, TypeSplitNext DEF TablesOK
<1>3. ASSUME NEW n \in Number, NEW k \in 0 .. MaxPages, AdminCreateChapter(n, k) PROVE TypeOK'
  <2>1. ChaptersOK' /\ UNCHANGED <<images, listed, last, target, job, req, torn>>
    BY <1>0, <1>3, InsertTypes DEF AdminCreateChapter, comics
  <2>2. excused' \subseteq Number
    BY <1>0, <1>3 DEF AdminCreateChapter, TablesOK
  <2> QED
    BY <1>0, <2>1, <2>2, SameJobs, SameRequests, TypeSplitNext DEF TablesOK
<1>4. ASSUME NEW r \in Row, NEW k \in Page, AdminUpdateChapter(r, k) PROVE TypeOK'
  <2>1. chapters[r] \in Chapter /\ chapters[r].number \in Number
    BY <1>0, <1>4 DEF AdminUpdateChapter, ChaptersOK
  <2>2. /\ [chapters[r] EXCEPT !.pages = k, !.sure = FALSE] \in Chapter
        /\ [chapters[r] EXCEPT !.pages = k, !.sure = FALSE].number \in Number
    <3>1. k \in 0 .. MaxPages
      BY DEF Page
    <3> QED
      BY <2>1, <3>1 DEF Chapter
  <2>3. ChaptersOK'
    BY <1>0, <1>4, <2>2, OneChapter DEF AdminUpdateChapter
  <2> QED
    BY <1>0, <1>4, <2>3, SameJobs, SameRequests, TypeSplitNext DEF AdminUpdateChapter, TablesOK, comics, ghosts
<1>5. ASSUME NEW t \in Target, AdminUpdateComic(t) PROVE TypeOK'
  BY <1>0, <1>5, SameChapters, SameJobs, SameRequests, TypeSplitNext DEF AdminUpdateComic, TablesOK, ghosts
<1>6. ASSUME NEW n \in Number, Publish(n) PROVE TypeOK'
  <2>1. TablesOK'
    BY <1>0, <1>6 DEF Publish, TablesOK, comics
  <2> QED
    BY <1>0, <1>6, <2>1, SameChapters, SameJobs, SameRequests, TypeSplitNext DEF Publish
<1>7. CASE Crash
  <2>1. \A j \in Job : JobOK(job[j]) => JobOK([job[j] EXCEPT !.watched = FALSE])
    BY DEF JobOK, JobState
  <2>2. JobsOK'
    BY <1>0, <1>7, <2>1, IdleTypes DEF Crash, JobsOK, JobOK
  <2>3. RequestsOK'
    BY <1>7, IdleTypes DEF Crash, RequestsOK, RequestOK
  <2> QED
    BY <1>0, <1>7, <2>2, <2>3, SameChapters, TypeSplitNext DEF Crash, TablesOK, comics, ghosts
<1>8. CASE UNCHANGED vars
  BY <1>0, <1>8, SameChapters, SameJobs, SameRequests, TypeSplitNext DEF vars, TablesOK, comics, ghosts
<1> QED
  BY <1>1, <1>2, <1>3, <1>4, <1>5, <1>6, <1>7, <1>8 DEF Next

\* The table, the images, the jobs and the requests keep their types; whoever stores
\* images knows the number and the next page (main.go:165-202, upload.go:53-60,
\* admin.go:793-799).
THEOREM TypeCorrect == Spec => []TypeOK
  BY TypeInit, TypeNext, PTL DEF Spec

-----------------------------------------------------------------------------
(* Chapters that are inserted twice.                                       *)

LEMMA CopiesInit == Init => CopiesInv
<1> SUFFICES ASSUME Init PROVE CopiesInv
  OBVIOUS
<1>1. \A n \in Number : JobRows(n) = {} /\ Expecting(n) = {}
  BY DEF Init, Free, IdleJob, JobRows, RowsOf, There, Expecting
<1>2. Cardinality({}) = 0 /\ IsFiniteSet({})
  BY FS_EmptySet
<1>3. Cardinality(Job) \in Nat
  BY ChaptersAssumption, FS_CardinalityType
<1> QED
  BY <1>1, <1>2, <1>3, TypeInit DEF CopiesInv

LEMMA ExpectingFinite ==
  ASSUME NEW n
  PROVE  /\ IsFiniteSet(Expecting(n)) /\ Expecting(n) \subseteq Job
         /\ Cardinality(Expecting(n)) \in Nat /\ Cardinality(Expecting(n)) <= Cardinality(Job)
         /\ Cardinality(Job) \in Nat
<1>1. Expecting(n) \subseteq Job
  BY DEF Expecting
<1> QED
  BY <1>1, ChaptersAssumption, FS_Subset, FS_CardinalityType

LEMMA ExpectingFiniteNext ==
  ASSUME NEW n
  PROVE  /\ IsFiniteSet(Expecting(n)') /\ Expecting(n)' \subseteq Job
         /\ Cardinality(Expecting(n)') \in Nat /\ Cardinality(Expecting(n)') <= Cardinality(Job)
<1>1. Expecting(n)' \subseteq Job
  BY DEF Expecting
<1> QED
  BY <1>1, ChaptersAssumption, FS_Subset, FS_CardinalityType

\* Steps that add neither a row nor a job to a number.
LEMMA CopiesKept ==
  ASSUME CopiesInv, NEW n \in Number, JobRows(n)' \subseteq JobRows(n), Expecting(n)' \subseteq Expecting(n)
  PROVE  /\ IsFiniteSet(JobRows(n)')
         /\ Cardinality(JobRows(n)') + Cardinality(Expecting(n)') <= Cardinality(Job)
<1>1. /\ IsFiniteSet(JobRows(n))
      /\ Cardinality(JobRows(n)) + Cardinality(Expecting(n)) <= Cardinality(Job)
  BY DEF CopiesInv
<1>2. /\ IsFiniteSet(JobRows(n)')
      /\ Cardinality(JobRows(n)') <= Cardinality(JobRows(n))
  BY <1>1, FS_Subset
<1>3. Cardinality(JobRows(n)') \in Nat /\ Cardinality(JobRows(n)) \in Nat
  BY <1>1, <1>2, FS_CardinalityType
<1>4. /\ Cardinality(Expecting(n)') <= Cardinality(Expecting(n))
      /\ Cardinality(Expecting(n)') \in Nat /\ Cardinality(Expecting(n)) \in Nat
      /\ Cardinality(Job) \in Nat
  BY ExpectingFinite, ExpectingFiniteNext, FS_Subset
<1> QED
  BY <1>1, <1>2, <1>3, <1>4

\* One job's new state, and one row's.
LEMMA ExpectingStep ==
  ASSUME TypeOK, NEW n, NEW j \in Job, NEW q, job' = [job EXCEPT ![j] = q],
         q.stage \in {"next", "upload", "insert"} /\ n \in q.todo /\ ~q.blind => j \in Expecting(n)
  PROVE  Expecting(n)' \subseteq Expecting(n)
  BY DEF Expecting, TypeOK

LEMMA RowsStep ==
  ASSUME TypeOK, NEW n, NEW r \in Row, NEW x, chapters' = [chapters EXCEPT ![r] = x],
         x.state = "there" /\ x.byJob /\ x.number = n => r \in JobRows(n)
  PROVE  JobRows(n)' \subseteq JobRows(n)
  BY DEF JobRows, RowsOf, There, TypeOK

LEMMA SameRows == UNCHANGED chapters => \A n : JobRows(n)' = JobRows(n)
  BY DEF JobRows, RowsOf, There

LEMMA SameExpecting == UNCHANGED job => \A n : Expecting(n)' = Expecting(n)
  BY DEF Expecting

\* A job that loads a chapter as missing has found no row of it.
LEMMA CopiesLoad ==
  ASSUME CopiesInv, NEW j \in Job, LoadExistingChapters(j), NEW n \in Number
  PROVE  /\ IsFiniteSet(JobRows(n)')
         /\ Cardinality(JobRows(n)') + Cardinality(Expecting(n)') <= Cardinality(Job)
<1> DEFINE q == job[j]
<1>0. TypeOK /\ job \in [Job -> JobState] /\ q \in JobState
  BY DEF CopiesInv, TypeOK
<1>1. PICK existing \in {Existing, {}} :
         job' = [job EXCEPT ![j] = [IdleJob EXCEPT !.stage = "next", !.watched = q.watched,
                                                   !.todo = FilterChapters(q, existing),
                                                   !.blind = existing # Existing]]
  BY DEF LoadExistingChapters
<1>2. PICK x : /\ x = [IdleJob EXCEPT !.stage = "next", !.watched = q.watched,
                                      !.todo = FilterChapters(q, existing),
                                      !.blind = existing # Existing]
               /\ job' = [job EXCEPT ![j] = x]
  BY <1>1
<1>3. x.todo = FilterChapters(q, existing) /\ x.blind = (existing # Existing)
  BY <1>2 DEF IdleJob
<1>4. JobRows(n)' = JobRows(n)
  BY SameRows DEF LoadExistingChapters
<1>5. CASE n \in x.todo /\ ~x.blind
  <2>1. n \notin Existing
    BY <1>3, <1>5 DEF FilterChapters
  <2>2. JobRows(n) = {}
    BY <2>1 DEF JobRows, RowsOf, Existing
  <2> QED
    BY <1>4, <2>2, ExpectingFinite, ExpectingFiniteNext, FS_EmptySet
<1>6. CASE ~(n \in x.todo /\ ~x.blind)
  BY <1>0, <1>2, <1>4, <1>6, ExpectingStep, CopiesKept
<1> QED
  BY <1>5, <1>6

\* A job's chapter becomes a row.
LEMMA CopiesCreate ==
  ASSUME CopiesInv, NEW j \in Job, CreateChapter(j), NEW n \in Number
  PROVE  /\ IsFiniteSet(JobRows(n)')
         /\ Cardinality(JobRows(n)') + Cardinality(Expecting(n)') <= Cardinality(Job)
<1> DEFINE q == job[j]
<1>0. TypeOK /\ job \in [Job -> JobState] /\ q \in JobState /\ q.stage = "insert" /\ q.number \in q.todo
  BY DEF CopiesInv, TypeOK, CreateChapter
<1>1. PICK c, x : /\ c = q.number
                  /\ x = [q EXCEPT !.stage = "next", !.todo = q.todo \ {c}, !.number = 0,
                                  !.page = 0, !.pages = 0]
                  /\ job' = [job EXCEPT ![j] = x]
  BY DEF CreateChapter, Done
<1>2. x.todo = q.todo \ {q.number} /\ x.blind = q.blind
  <2>1. q \in JobState /\ x = [q EXCEPT !.stage = "next", !.todo = q.todo \ {c}, !.number = 0,
                                        !.page = 0, !.pages = 0]
    BY <1>0, <1>1
  <2>2. x.todo = q.todo \ {c} /\ x.blind = q.blind
    BY <2>1 DEF JobState
  <2> QED
    BY <1>1, <2>2
<1>3. Expecting(n)' \subseteq Expecting(n)
  <2>1. x.stage \in {"next", "upload", "insert"} /\ n \in x.todo /\ ~x.blind => j \in Expecting(n)
    BY <1>0, <1>2 DEF Expecting
  <2> QED
    BY <1>0, <1>1, <2>1, ExpectingStep
<1>4. PICK r \in Row : /\ chapters[r].state = "free"
                       /\ chapters' = [chapters EXCEPT ![r] =
                            [state |-> "there", number |-> q.number, pages |-> q.pages,
                             byJob |-> ~q.blind, sure |-> TRUE]]
  BY DEF CreateChapter, InsertChapter
<1>5. CASE n # q.number \/ q.blind
  BY <1>0, <1>3, <1>4, <1>5, RowsStep, CopiesKept
<1>6. CASE n = q.number /\ ~q.blind
  <2>1. j \in Expecting(n) /\ j \notin Expecting(n)'
    BY <1>0, <1>1, <1>2, <1>6 DEF Expecting
  <2>2. Expecting(n)' \subseteq Expecting(n) \ {j}
    BY <1>3, <2>1
  <2>3. r \notin JobRows(n)
    BY <1>4 DEF JobRows, RowsOf, There
  <2>4. JobRows(n)' = JobRows(n) \cup {r}
    <3>1. chapters \in [Row -> Chapter]
      BY <1>0 DEF TypeOK
    <3>2. r \in JobRows(n)'
      BY <1>4, <1>6, <3>1 DEF JobRows, RowsOf, There
    <3>3. \A s \in Row : s # r => (s \in JobRows(n)' <=> s \in JobRows(n))
      BY <1>4, <3>1 DEF JobRows, RowsOf, There
    <3>4. JobRows(n)' \subseteq Row /\ JobRows(n) \subseteq Row
      BY DEF JobRows, RowsOf
    <3> QED
      BY <3>2, <3>3, <3>4
  <2>5. /\ IsFiniteSet(JobRows(n))
        /\ Cardinality(JobRows(n)) + Cardinality(Expecting(n)) <= Cardinality(Job)
    BY DEF CopiesInv
  <2>6. /\ IsFiniteSet(JobRows(n)') /\ Cardinality(JobRows(n)') = Cardinality(JobRows(n)) + 1
        /\ Cardinality(JobRows(n)) \in Nat
    BY <2>3, <2>4, <2>5, FS_AddElement, FS_CardinalityType
  <2>7. Cardinality(Expecting(n) \ {j}) = Cardinality(Expecting(n)) - 1 /\ IsFiniteSet(Expecting(n) \ {j})
    BY <2>1, ExpectingFinite, FS_RemoveElement
  <2>8. Cardinality(Expecting(n)') <= Cardinality(Expecting(n)) - 1
    BY <2>2, <2>7, FS_Subset
  <2>9. Cardinality(Expecting(n)') \in Nat /\ Cardinality(Expecting(n)) \in Nat /\ Cardinality(Job) \in Nat
    BY ExpectingFinite, ExpectingFiniteNext
  <2> QED
    BY <2>5, <2>6, <2>8, <2>9
<1> QED
  BY <1>5, <1>6

LEMMA CopiesNext == CopiesInv /\ [Next]_vars => CopiesInv'
<1> SUFFICES ASSUME CopiesInv, [Next]_vars PROVE CopiesInv'
  OBVIOUS
<1>0. /\ TypeOK /\ TypeOK' /\ job \in [Job -> JobState] /\ chapters \in [Row -> Chapter]
      /\ \A j \in Job : job[j] \in JobState
  BY TypeNext DEF CopiesInv, TypeOK
<1> SUFFICES ASSUME NEW n \in Number
             PROVE  /\ IsFiniteSet(JobRows(n)')
                    /\ Cardinality(JobRows(n)') + Cardinality(Expecting(n)') <= Cardinality(Job)
  BY <1>0 DEF CopiesInv
<1> DEFINE Goal == /\ IsFiniteSet(JobRows(n)')
                   /\ Cardinality(JobRows(n)') + Cardinality(Expecting(n)') <= Cardinality(Job)
<1>1. ASSUME NEW j \in Job, JobStep(j) PROVE Goal
  <2> DEFINE q == job[j]
  <2>1. CASE LoadExistingChapters(j)
    BY <2>1, CopiesLoad
  <2>2. CASE CreateChapter(j)
    BY <2>2, CopiesCreate
  <2>3. CASE ~LoadExistingChapters(j) /\ ~CreateChapter(j)
    <3>1. UNCHANGED chapters
      BY <1>1, <2>3 DEF JobStep, ReadComic, StartJob, FetchChapterLinks, CrawlChapter, DownloadAndUpload,
         ChapterFails, JobExits, JobFails, MaxChapterNumber, UpdateLastChapter, UpdateFails
    <3> SUFFICES Expecting(n)' \subseteq Expecting(n)
      BY <3>1, SameRows, CopiesKept
    <3> DEFINE Kept(x) == x.stage \in {"next", "upload", "insert"} /\ n \in x.todo /\ ~x.blind => j \in Expecting(n)
    <3> SUFFICES \E x : Kept(x) /\ job' = [job EXCEPT ![j] = x]
      BY <1>0, ExpectingStep
    <3>2. q \in JobState
      BY <1>0
    <3>3. Kept(IdleJob) /\ Kept([IdleJob EXCEPT !.stage = "max"])
          /\ Kept([IdleJob EXCEPT !.stage = "update", !.last = MaxOf(Existing)])
          /\ \A full \in BOOLEAN :
                Kept([IdleJob EXCEPT !.stage = "start", !.full = full, !.last = last, !.target = target])
      BY DEF IdleJob
    <3>4. ASSUME NEW full \in BOOLEAN, ReadComic(j, full) PROVE \E x : Kept(x) /\ job' = [job EXCEPT ![j] = x]
      BY <3>3, <3>4 DEF ReadComic
    <3>5. CASE JobExits(j) \/ JobFails(j) \/ MaxChapterNumber(j) \/ UpdateLastChapter(j) \/ UpdateFails(j)
      BY <3>3, <3>5 DEF JobExits, JobFails, MaxChapterNumber, UpdateLastChapter, UpdateFails
    <3>6. CASE StartJob(j)
      <4>1. Kept([q EXCEPT !.stage = "list", !.watched = TRUE,
                           !.target = IF q.target = 0 THEN target ELSE q.target,
                           !.last = IF q.target = 0 /\ q.last = 0 THEN last ELSE q.last])
        BY <3>2 DEF JobState
      <4> QED
        BY <3>6, <4>1 DEF StartJob
    <3>7. CASE FetchChapterLinks(j)
      <4>1. Kept([q EXCEPT !.stage = "load", !.todo = listed])
        BY <3>2 DEF JobState
      <4> QED
        BY <3>7, <4>1 DEF FetchChapterLinks
    <3>8. CASE CrawlChapter(j)
      <4>1. PICK k \in Page : job' = [job EXCEPT ![j] = [q EXCEPT !.stage = "upload", !.number = Current(q),
                                                                  !.page = 1, !.pages = k]]
        BY <3>8 DEF CrawlChapter
      <4>2. q.stage = "next"
        BY <3>8 DEF CrawlChapter
      <4>3. Kept([q EXCEPT !.stage = "upload", !.number = Current(q), !.page = 1, !.pages = k])
        BY <3>2, <4>2 DEF JobState, Expecting
      <4> QED
        BY <4>1, <4>3
    <3>9. CASE DownloadAndUpload(j)
      <4>1. q.stage = "upload"
        BY <3>9 DEF DownloadAndUpload
      <4>2. Kept([q EXCEPT !.page = q.page + 1]) /\ Kept([q EXCEPT !.stage = "insert"])
        BY <3>2, <4>1 DEF JobState, Expecting
      <4> QED
        BY <3>9, <4>2 DEF DownloadAndUpload
    <3>10. CASE ChapterFails(j)
      <4>1. q.stage \in {"next", "upload", "insert"}
        BY <3>10 DEF ChapterFails
      <4>2. PICK c, x : /\ x = [q EXCEPT !.stage = "next", !.todo = q.todo \ {c}, !.number = 0,
                                         !.page = 0, !.pages = 0]
                        /\ job' = [job EXCEPT ![j] = x]
        BY <3>10 DEF ChapterFails, Done
      <4>3. x.todo = q.todo \ {c} /\ x.blind = q.blind
        BY <3>2, <4>2, NextChapter
      <4>4. Kept(x)
        BY <4>1, <4>3 DEF Expecting
      <4> QED
        BY <4>2, <4>4
    <3> QED
      BY <1>1, <2>3, <3>4, <3>5, <3>6, <3>7, <3>8, <3>9, <3>10 DEF JobStep
  <2> QED
    BY <2>1, <2>2, <2>3
<1>2. ASSUME UNCHANGED job, NEW r \in Row, NEW x, chapters' = [chapters EXCEPT ![r] = x],
             x.state = "there" /\ x.byJob /\ x.number = n => r \in JobRows(n)
      PROVE  Goal
  BY <1>0, <1>2, RowsStep, SameExpecting, CopiesKept
<1>3. ASSUME UNCHANGED <<job, chapters>> PROVE Goal
  BY <1>3, SameRows, SameExpecting, CopiesKept
<1>4. ASSUME NEW w \in Worker, AdminStep(w) PROVE Goal
  <2>1. CASE DeleteRow(w)
    <3>1. [Free EXCEPT !.state = "deleted"].state # "there" /\ req[w].row \in Row
      BY <1>0, <2>1 DEF Free, TypeOK, DeleteRow
    <3> QED
      BY <1>2, <2>1, <3>1 DEF DeleteRow
  <2>2. CASE SavePages(w)
    <3> DEFINE r == req[w].row
    <3>1. CASE There(r)
      <4>1. r \in Row /\ chapters[r] \in Chapter
        BY <1>0, <2>2 DEF TypeOK, SavePages
      <4>2. PICK x : /\ x = [chapters[r] EXCEPT !.pages = req[w].pages, !.sure = TRUE]
                     /\ chapters' = [chapters EXCEPT ![r] = x]
        BY <2>2, <3>1 DEF SavePages
      <4>3. x.state = chapters[r].state /\ x.byJob = chapters[r].byJob /\ x.number = chapters[r].number
        BY <4>1, <4>2 DEF Chapter
      <4>4. x.state = "there" /\ x.byJob /\ x.number = n => r \in JobRows(n)
        BY <4>1, <4>3 DEF JobRows, RowsOf, There
      <4> QED
        BY <1>2, <2>2, <4>1, <4>2, <4>4 DEF SavePages
    <3>2. CASE ~There(r)
      BY <1>3, <2>2, <3>2 DEF SavePages
    <3> QED
      BY <3>1, <3>2
  <2>3. CASE ~DeleteRow(w) /\ ~SavePages(w)
    BY <1>3, <1>4, <2>3 DEF AdminStep, AdminDeleteChapter, Destroy, UploadChapterPages, UploadObject, Abort
  <2> QED
    BY <2>1, <2>2, <2>3
<1>5. ASSUME NEW m \in Number, NEW k \in 0 .. MaxPages, AdminCreateChapter(m, k) PROVE Goal
  BY <1>2, <1>5 DEF AdminCreateChapter, InsertChapter
<1>6. ASSUME NEW r \in Row, NEW k \in Page, AdminUpdateChapter(r, k) PROVE Goal
  <2>1. chapters[r] \in Chapter
    BY <1>0
  <2>2. PICK x : /\ x = [chapters[r] EXCEPT !.pages = k, !.sure = FALSE]
                 /\ chapters' = [chapters EXCEPT ![r] = x]
    BY <1>6 DEF AdminUpdateChapter
  <2>3. x.state = chapters[r].state /\ x.byJob = chapters[r].byJob /\ x.number = chapters[r].number
    BY <2>1, <2>2 DEF Chapter
  <2>4. x.state = "there" /\ x.byJob /\ x.number = n => r \in JobRows(n)
    BY <2>3 DEF JobRows, RowsOf, There
  <2> QED
    BY <1>2, <1>6, <2>2, <2>4 DEF AdminUpdateChapter
<1>7. CASE Crash
  <2>1. \A i \in Job : job'[i].stage \in {"next", "upload", "insert"} =>
           /\ job[i].stage = job'[i].stage /\ job'[i].todo = job[i].todo /\ job'[i].blind = job[i].blind
    <3>1. \A i \in Job : LET x == [job[i] EXCEPT !.watched = FALSE] IN
             x.stage = job[i].stage /\ x.todo = job[i].todo /\ x.blind = job[i].blind
      BY <1>0 DEF JobState
    <3> QED
      BY <1>7, <3>1 DEF Crash, IdleJob
  <2>2. Expecting(n)' \subseteq Expecting(n)
    BY <2>1 DEF Expecting
  <2> QED
    BY <1>7, <2>2, SameRows, CopiesKept DEF Crash
<1>8. CASE UNCHANGED vars
  BY <1>3, <1>8 DEF vars
<1>9. ASSUME NEW t \in Target, AdminUpdateComic(t) PROVE Goal
  BY <1>3, <1>9 DEF AdminUpdateComic
<1>10. ASSUME NEW m \in Number, Publish(m) PROVE Goal
  BY <1>3, <1>10 DEF Publish
<1> QED
  BY <1>1, <1>4, <1>5, <1>6, <1>7, <1>8, <1>9, <1>10 DEF Next

\* Jobs insert a chapter at most once for each job in progress (main.go:119-131,
\* 155-163, 198; service.go:118).
THEOREM DuplicatesByOverlap == Spec => []DuplicatesOnlyByOverlap
<1>1. CopiesInv => DuplicatesOnlyByOverlap
  <2> SUFFICES ASSUME CopiesInv, NEW n \in Number PROVE Cardinality(JobRows(n)) <= Cardinality(Job)
    BY DEF DuplicatesOnlyByOverlap
  <2>1. /\ IsFiniteSet(JobRows(n))
        /\ Cardinality(JobRows(n)) + Cardinality(Expecting(n)) <= Cardinality(Job)
    BY DEF CopiesInv
  <2>2. Cardinality(JobRows(n)) \in Nat
    BY <2>1, FS_CardinalityType
  <2> QED
    BY <2>1, <2>2, ExpectingFinite
<1> QED
  BY <1>1, CopiesInit, CopiesNext, PTL DEF Spec

-----------------------------------------------------------------------------
(* Rows.                                                                   *)

\* A row that is used is used once: it keeps its number, and ends deleted.
LEMMA RowLife ==
  ASSUME TypeOK, [Next]_vars, NEW r \in Row, chapters[r].state # "free"
  PROVE  /\ chapters'[r].state # "free"
         /\ There(r)' => There(r) /\ chapters'[r].number = chapters[r].number
<1>0. chapters \in [Row -> Chapter] /\ chapters[r] \in Chapter
  BY DEF TypeOK
<1> DEFINE Goal == /\ chapters'[r].state # "free"
                   /\ There(r)' => There(r) /\ chapters'[r].number = chapters[r].number
<1>1. ASSUME chapters'[r] = chapters[r] PROVE Goal
  BY <1>1 DEF There
<1>2. ASSUME NEW n, NEW k, NEW b, NEW s, InsertChapter(n, k, b, s) PROVE Goal
  BY <1>0, <1>1, <1>2 DEF InsertChapter
<1>3. ASSUME NEW j \in Job, JobStep(j) PROVE Goal
  <2>1. CreateChapter(j) => Goal
    BY <1>2 DEF CreateChapter
  <2>2. ASSUME ~CreateChapter(j) PROVE UNCHANGED chapters
    BY <1>3, <2>2 DEF JobStep, ReadComic, StartJob, FetchChapterLinks, LoadExistingChapters, CrawlChapter,
       DownloadAndUpload, ChapterFails, JobExits, JobFails, MaxChapterNumber, UpdateLastChapter, UpdateFails
  <2> QED
    BY <1>1, <2>1, <2>2
<1>4. ASSUME NEW w \in Worker, AdminStep(w) PROVE Goal
  <2>1. CASE DeleteRow(w)
    <3>1. chapters' = [chapters EXCEPT ![req[w].row] = [Free EXCEPT !.state = "deleted"]]
      BY <2>1 DEF DeleteRow
    <3>2. [Free EXCEPT !.state = "deleted"].state = "deleted"
      BY DEF Free
    <3> QED
      BY <1>0, <1>1, <3>1, <3>2 DEF There
  <2>2. CASE SavePages(w)
    <3>1. \/ UNCHANGED chapters
          \/ chapters' = [chapters EXCEPT ![req[w].row] =
                            [chapters[req[w].row] EXCEPT !.pages = req[w].pages, !.sure = TRUE]]
      BY <2>2 DEF SavePages
    <3>2. LET x == [chapters[r] EXCEPT !.pages = req[w].pages, !.sure = TRUE]
          IN  x.state = chapters[r].state /\ x.number = chapters[r].number
      BY <1>0 DEF Chapter
    <3> QED
      BY <1>0, <1>1, <3>1, <3>2 DEF There
  <2>3. CASE ~DeleteRow(w) /\ ~SavePages(w)
    BY <1>1, <1>4, <2>3 DEF AdminStep, AdminDeleteChapter, Destroy, UploadChapterPages, UploadObject, Abort
  <2> QED
    BY <2>1, <2>2, <2>3
<1>5. ASSUME NEW n \in Number, NEW k \in 0 .. MaxPages, AdminCreateChapter(n, k) PROVE Goal
  BY <1>2, <1>5 DEF AdminCreateChapter
<1>6. ASSUME NEW s \in Row, NEW k \in Page, AdminUpdateChapter(s, k) PROVE Goal
  <2>1. chapters' = [chapters EXCEPT ![s] = [chapters[s] EXCEPT !.pages = k, !.sure = FALSE]]
    BY <1>6 DEF AdminUpdateChapter
  <2>2. LET x == [chapters[r] EXCEPT !.pages = k, !.sure = FALSE]
        IN  x.state = chapters[r].state /\ x.number = chapters[r].number
    BY <1>0 DEF Chapter
  <2> QED
    BY <1>0, <1>1, <2>1, <2>2 DEF There
<1>7. \/ \E t \in Target : AdminUpdateComic(t)
      \/ \E n \in Number : Publish(n)
      \/ Crash \/ UNCHANGED vars
      => UNCHANGED chapters
  BY DEF AdminUpdateComic, Publish, Crash, vars
<1> QED
  BY <1>1, <1>3, <1>4, <1>5, <1>6, <1>7 DEF Next

LEMMA RowsKnownNext ==
  ASSUME TypeOK, RowsKnown, [Next]_vars
  PROVE  RowsKnown'
<1>0. /\ req \in [Worker -> Request] /\ chapters \in [Row -> Chapter]
      /\ \A w \in Worker : req[w].stage # "idle" => req[w].row \in Row
  BY DEF TypeOK
<1> SUFFICES ASSUME NEW w \in Worker, req'[w].stage # "idle"
             PROVE  /\ chapters'[req'[w].row].state # "free"
                    /\ chapters'[req'[w].row].state = "there" => chapters'[req'[w].row].number = req'[w].number
  BY DEF RowsKnown, There
<1>1. ASSUME req[w].stage # "idle", req'[w].row = req[w].row, req'[w].number = req[w].number
      PROVE  /\ chapters'[req'[w].row].state # "free"
             /\ chapters'[req'[w].row].state = "there" => chapters'[req'[w].row].number = req'[w].number
  <2>1. PICK r \in Row : r = req[w].row
    BY <1>0, <1>1
  <2>2. chapters[r].state # "free" /\ (There(r) => chapters[r].number = req[w].number)
    BY <1>1, <2>1 DEF RowsKnown
  <2>3. chapters'[r].state # "free" /\ (There(r)' => There(r) /\ chapters'[r].number = chapters[r].number)
    BY <2>2, RowLife
  <2> QED
    BY <1>1, <2>1, <2>2, <2>3 DEF There
<1>2. ASSUME NEW r \in Row, There(r), UNCHANGED chapters, req'[w].row = r, req'[w].number = chapters[r].number
      PROVE  /\ chapters'[req'[w].row].state # "free"
             /\ chapters'[req'[w].row].state = "there" => chapters'[req'[w].row].number = req'[w].number
  BY <1>2 DEF There
<1>3. ASSUME NEW v \in Worker, AdminStep(v), v # w PROVE req'[w] = req[w]
  BY <1>0, <1>3 DEF AdminStep, AdminDeleteChapter, DeleteRow, Destroy, UploadChapterPages, UploadObject,
     SavePages, Abort
<1>4. CASE AdminStep(w)
  <2>1. ASSUME NEW r \in Row, AdminDeleteChapter(w, r) \/ \E k \in Page : UploadChapterPages(w, r, k)
        PROVE  There(r) /\ UNCHANGED chapters /\ req'[w].row = r /\ req'[w].number = chapters[r].number
    BY <1>0, <2>1 DEF AdminDeleteChapter, UploadChapterPages
  <2>2. CASE DeleteRow(w) \/ Destroy(w) \/ UploadObject(w) \/ SavePages(w) \/ Abort(w)
    <3>1. req[w] \in Request
      BY <1>0
    <3>2. req[w].stage # "idle" /\ req'[w].row = req[w].row /\ req'[w].number = req[w].number
      BY <1>0, <2>2, <3>1 DEF DeleteRow, Destroy, UploadObject, SavePages, Abort, Idle, Request
    <3> QED
      BY <1>1, <3>2
  <2> QED
    BY <1>2, <1>4, <2>1, <2>2 DEF AdminStep
<1>5. CASE req'[w] = req[w]
  BY <1>1, <1>5
<1>6. ASSUME NEW j \in Job, JobStep(j) PROVE req' = req
  BY <1>6 DEF JobStep, ReadComic, StartJob, FetchChapterLinks, LoadExistingChapters, CrawlChapter,
     DownloadAndUpload, CreateChapter, ChapterFails, JobExits, JobFails, MaxChapterNumber,
     UpdateLastChapter, UpdateFails
<1>7. \/ \E n \in Number, k \in 0 .. MaxPages : AdminCreateChapter(n, k)
      \/ \E r \in Row, k \in Page : AdminUpdateChapter(r, k)
      \/ \E t \in Target : AdminUpdateComic(t)
      \/ \E n \in Number : Publish(n)
      \/ UNCHANGED vars
      => req' = req
  BY DEF AdminCreateChapter, AdminUpdateChapter, AdminUpdateComic, Publish, vars
<1>8. ~Crash
  BY <1>0 DEF Crash, Idle
<1>9. AdminStep(w) \/ req'[w] = req[w]
  BY <1>3, <1>6, <1>7, <1>8 DEF Next
<1> QED
  BY <1>4, <1>5, <1>9

-----------------------------------------------------------------------------
(* Gaps.                                                                   *)

\* Once a chapter is accounted for it stays so.
LEMMA AccountedFrame ==
  ASSUME NEW n, Accounted(n), Existing \subseteq Existing' \cup excused', excused \subseteq excused',
         listed \subseteq listed',
         n \in listed' /\ n \notin listed /\ (\E m \in listed : n < m) => n \in excused'
  PROVE  Accounted(n)'
  BY DEF Accounted

LEMMA ExistingFrame ==
  ASSUME TypeOK, RowsKnown, [Next]_vars
  PROVE  Existing \subseteq Existing' \cup excused'
<1> SUFFICES ASSUME NEW r \in Row, There(r), chapters[r].number \notin excused'
             PROVE  chapters[r].number \in Existing'
  BY DEF Existing
<1>0. chapters \in [Row -> Chapter] /\ chapters[r].state # "free" /\ chapters[r].state # "deleted"
  BY DEF TypeOK, There
<1>1. chapters'[r].state # "free" /\ (There(r)' => chapters'[r].number = chapters[r].number)
  BY <1>0, RowLife
<1>2. ASSUME ~There(r)' PROVE FALSE
  <2>1. chapters'[r].state \notin {"free", "there"} /\ chapters'[r] # chapters[r]
    BY <1>0, <1>1, <1>2 DEF There
  <2>2. ASSUME NEW n, NEW k, NEW b, NEW s, InsertChapter(n, k, b, s) PROVE FALSE
    BY <1>0, <2>1, <2>2 DEF InsertChapter
  <2>3. ASSUME NEW j \in Job, JobStep(j) PROVE FALSE
    <3>1. CreateChapter(j) => FALSE
      BY <2>2 DEF CreateChapter
    <3>2. ~CreateChapter(j) => UNCHANGED chapters
      BY <2>3 DEF JobStep, ReadComic, StartJob, FetchChapterLinks, LoadExistingChapters, CrawlChapter,
         DownloadAndUpload, ChapterFails, JobExits, JobFails, MaxChapterNumber, UpdateLastChapter, UpdateFails
    <3> QED
      BY <2>1, <3>1, <3>2
  <2>4. ASSUME NEW w \in Worker, AdminStep(w) PROVE FALSE
    <3>1. CASE DeleteRow(w)
      <4>1. req[w].row = r
        BY <1>0, <2>1, <3>1 DEF DeleteRow
      <4>2. chapters[r].number = req[w].number
        BY <3>1, <4>1 DEF RowsKnown, DeleteRow
      <4> QED
        BY <3>1, <4>2 DEF DeleteRow
    <3>2. CASE SavePages(w)
      <4>1. \/ UNCHANGED chapters
            \/ chapters' = [chapters EXCEPT ![req[w].row] =
                              [chapters[req[w].row] EXCEPT !.pages = req[w].pages, !.sure = TRUE]]
        BY <3>2 DEF SavePages
      <4>2. [chapters[r] EXCEPT !.pages = req[w].pages, !.sure = TRUE].state = chapters[r].state
        BY <1>0 DEF Chapter
      <4> QED
        BY <1>0, <2>1, <4>1, <4>2 DEF There
    <3>3. CASE ~DeleteRow(w) /\ ~SavePages(w)
      BY <2>1, <2>4, <3>3 DEF AdminStep, AdminDeleteChapter, Destroy, UploadChapterPages, UploadObject, Abort
    <3> QED
      BY <3>1, <3>2, <3>3
  <2>5. ASSUME NEW n \in Number, NEW k \in 0 .. MaxPages, AdminCreateChapter(n, k) PROVE FALSE
    BY <2>2, <2>5 DEF AdminCreateChapter
  <2>6. ASSUME NEW s \in Row, NEW k \in Page, AdminUpdateChapter(s, k) PROVE FALSE
    <3>1. chapters' = [chapters EXCEPT ![s] = [chapters[s] EXCEPT !.pages = k, !.sure = FALSE]]
      BY <2>6 DEF AdminUpdateChapter
    <3>2. [chapters[r] EXCEPT !.pages = k, !.sure = FALSE].state = chapters[r].state
      BY <1>0 DEF Chapter
    <3> QED
      BY <1>0, <2>1, <3>1, <3>2 DEF There
  <2>7. \/ \E t \in Target : AdminUpdateComic(t)
        \/ \E n \in Number : Publish(n)
        \/ Crash \/ UNCHANGED vars
        => UNCHANGED chapters
    BY DEF AdminUpdateComic, Publish, Crash, vars
  <2> QED
    BY <2>1, <2>3, <2>4, <2>5, <2>6, <2>7 DEF Next
<1> QED
  BY <1>1, <1>2 DEF Existing

LEMMA ListedFrame ==
  ASSUME [Next]_vars
  PROVE  /\ listed \subseteq listed' /\ excused \subseteq excused'
         /\ \A n \in Number : n \in listed' /\ n \notin listed /\ (\E m \in listed : n < m) => n \in excused'
<1>1. ASSUME NEW m \in Number, Publish(m)
      PROVE  /\ listed \subseteq listed' /\ excused \subseteq excused'
             /\ \A n \in Number : n \in listed' /\ n \notin listed /\ (\E l \in listed : n < l) => n \in excused'
  <2>1. \A l \in listed, n \in Number : n < l <=> l > n
    OBVIOUS
  <2> QED
    BY <1>1, <2>1 DEF Publish
<1>2. ASSUME NEW j \in Job, JobStep(j) PROVE listed' = listed /\ excused \subseteq excused'
  BY <1>2 DEF JobStep, ReadComic, StartJob, FetchChapterLinks, LoadExistingChapters, CrawlChapter,
     DownloadAndUpload, CreateChapter, ChapterFails, JobExits, JobFails, MaxChapterNumber,
     UpdateLastChapter, UpdateFails, ghosts
<1>3. ASSUME NEW w \in Worker, AdminStep(w) PROVE listed' = listed /\ excused \subseteq excused'
  BY <1>3 DEF AdminStep, AdminDeleteChapter, DeleteRow, Destroy, UploadChapterPages, UploadObject,
     SavePages, Abort, ghosts
<1>4. \/ \E n \in Number, k \in 0 .. MaxPages : AdminCreateChapter(n, k)
      \/ \E r \in Row, k \in Page : AdminUpdateChapter(r, k)
      \/ \E t \in Target : AdminUpdateComic(t)
      \/ Crash \/ UNCHANGED vars
      => listed' = listed /\ excused \subseteq excused'
  BY DEF AdminCreateChapter, AdminUpdateChapter, AdminUpdateComic, Crash, vars, ghosts
<1>5. ASSUME listed' = listed /\ excused \subseteq excused'
      PROVE  /\ listed \subseteq listed' /\ excused \subseteq excused'
             /\ \A n \in Number : n \in listed' /\ n \notin listed /\ (\E m \in listed : n < m) => n \in excused'
  BY <1>5
<1> QED
  BY <1>1, <1>2, <1>3, <1>4, <1>5 DEF Next

LEMMA AccountedNext ==
  ASSUME TypeOK, RowsKnown, [Next]_vars, NEW n \in Number, Accounted(n)
  PROVE  Accounted(n)'
  BY AccountedFrame, ExistingFrame, ListedFrame

LEMMA ExplainedNext ==
  ASSUME TypeOK, RowsKnown, [Next]_vars, NEW e, Explained(e)
  PROVE  Explained(e)'
  BY AccountedNext DEF Explained

LEMMA InOrderNext ==
  ASSUME TypeOK, RowsKnown, [Next]_vars, NEW q, InOrder(q)
  PROVE  InOrder(q)'
  BY AccountedNext, ExplainedNext, ListedFrame DEF InOrder

LEMMA GapsInit == Init => GapsInv
<1> SUFFICES ASSUME Init PROVE GapsInv
  OBVIOUS
<1>1. Explained(0)
  BY ChaptersAssumption DEF Explained
<1>2. RowsKnown
  BY DEF Init, RowsKnown, Idle
<1>3. \A j \in Job : InOrder(job[j])
  BY DEF Init, InOrder, IdleJob, Process
<1>4. \A r \in Row : ~There(r)
  BY DEF Init, There, Free
<1> QED
  BY <1>1, <1>2, <1>3, <1>4, TypeInit DEF Init, GapsInv

\* A job removes chapter c from what it has left, done or given up.
LEMMA InOrderDone ==
  ASSUME TypeOK, RowsKnown, [Next]_vars, NEW q \in JobState, InOrder(q),
         q.stage \in {"next", "upload", "insert"}, NEW c \in Number, Accounted(c)',
         NEW x, x = [q EXCEPT !.stage = "next", !.todo = q.todo \ {c}, !.number = 0, !.page = 0, !.pages = 0]
  PROVE  InOrder(x)'
<1>1. x.stage = "next" /\ x.todo = q.todo \ {c}
  BY DEF JobState
<1>2. \A k \in q.todo : k \in listed' /\ \A n \in Number \ q.todo : n < k => Accounted(n)'
  BY AccountedNext, ListedFrame DEF InOrder, Process
<1>3. \A k \in x.todo : k \in listed' /\ \A n \in Number \ x.todo : n < k => Accounted(n)'
  BY <1>1, <1>2
<1> QED
  BY <1>1, <1>3 DEF InOrder

LEMMA InOrderStep ==
  ASSUME GapsInv, NEW j \in Job, JobStep(j), [Next]_vars
  PROVE  \E x : job'[j] = x /\ InOrder(x)'
<1> USE ChaptersAssumption
<1> DEFINE q == job[j]
<1>0. /\ TypeOK /\ TypeOK' /\ RowsKnown /\ InOrder(q) /\ Explained(last)
      /\ job \in [Job -> JobState] /\ q \in JobState /\ listed \subseteq Number
      /\ q.stage \in {"upload", "insert"} => q.number \in q.todo /\ q.number \in Number
  BY TypeNext DEF GapsInv, TypeOK, JobState
<1>1. ASSUME NEW x, job' = [job EXCEPT ![j] = x], InOrder(x) PROVE (\E y : job'[j] = y /\ InOrder(y)')
  <2>1. job'[j] = x
    BY <1>0, <1>1
  <2>2. InOrder(x)'
    BY <1>0, <1>1, InOrderNext
  <2> QED
    BY <2>1, <2>2
<1>2. Explained(0)
  BY DEF Explained
<1>3. ASSUME NEW full \in BOOLEAN, ReadComic(j, full) PROVE (\E y : job'[j] = y /\ InOrder(y)')
  <2>1. PICK x : /\ x = [IdleJob EXCEPT !.stage = "start", !.full = full, !.last = last, !.target = target]
                 /\ job' = [job EXCEPT ![j] = x]
    BY <1>3 DEF ReadComic
  <2>2. x.stage = "start" /\ x.last = last
    BY <2>1 DEF IdleJob
  <2>3. InOrder(x)
    BY <1>0, <2>2 DEF InOrder, Process
  <2> QED
    BY <1>1, <2>1, <2>3
<1>4. CASE StartJob(j)
  <2>1. PICK x : /\ x = [q EXCEPT !.stage = "list", !.watched = TRUE,
                                  !.target = IF q.target = 0 THEN target ELSE q.target,
                                  !.last = IF q.target = 0 /\ q.last = 0 THEN last ELSE q.last]
                 /\ job' = [job EXCEPT ![j] = x]
    BY <1>4 DEF StartJob
  <2>2. x.stage = "list" /\ x.last \in {last, q.last} /\ q.stage = "start"
    BY <1>0, <1>4, <2>1 DEF StartJob, JobState
  <2>3. InOrder(x)
    BY <1>0, <2>2 DEF InOrder
  <2> QED
    BY <1>1, <2>1, <2>3
<1>5. CASE FetchChapterLinks(j)
  <2>1. PICK x : x = [q EXCEPT !.stage = "load", !.todo = listed] /\ job' = [job EXCEPT ![j] = x]
    BY <1>5 DEF FetchChapterLinks
  <2>2. x.stage = "load" /\ x.last = q.last /\ x.todo = listed /\ q.stage = "list"
    BY <1>0, <1>5, <2>1 DEF FetchChapterLinks, JobState
  <2>3. InOrder(x)
    BY <1>0, <2>2 DEF InOrder, Accounted
  <2> QED
    BY <1>1, <2>1, <2>3
<1>6. CASE LoadExistingChapters(j)
  <2>1. PICK existing \in {Existing, {}} :
           job' = [job EXCEPT ![j] = [IdleJob EXCEPT !.stage = "next", !.watched = q.watched,
                                                     !.todo = FilterChapters(q, existing),
                                                     !.blind = existing # Existing]]
    BY <1>6 DEF LoadExistingChapters
  <2>2. PICK x : /\ x = [IdleJob EXCEPT !.stage = "next", !.watched = q.watched,
                                        !.todo = FilterChapters(q, existing),
                                        !.blind = existing # Existing]
                 /\ job' = [job EXCEPT ![j] = x]
    BY <2>1
  <2>3. x.stage = "next" /\ x.todo = FilterChapters(q, existing)
    BY <2>2 DEF IdleJob
  <2>4. /\ Explained(q.last)
        /\ \A k \in q.todo : k \in listed /\ \A n \in Number \ q.todo : n < k => Accounted(n)
        /\ q.todo \subseteq Number /\ q.last \in Nat /\ q.target \in Nat
        /\ existing \subseteq Existing
    BY <1>0, <1>6, <2>1 DEF LoadExistingChapters, InOrder, Process, JobState
  <2>5. ASSUME NEW k \in x.todo, NEW n \in Number \ x.todo, n < k PROVE Accounted(n)
    <3>1. k \in q.todo /\ n \in Nat /\ k \in Nat
      BY <2>3, <2>4, <2>5 DEF FilterChapters
    <3>2. CASE n \notin q.todo
      BY <2>4, <2>5, <3>1, <3>2
    <3>3. CASE n \in existing
      BY <2>4, <3>3 DEF Accounted
    <3>4. CASE n \in q.todo /\ n \notin existing /\ q.full
      <4> DEFINE top == IF q.target > 0 THEN q.target ELSE MaxOf(q.todo)
      <4>1. k <= top /\ ~(n <= top)
        BY <2>3, <2>5, <3>4 DEF FilterChapters
      <4>2. top \in Nat
        <5>1. IsFiniteSet(q.todo) /\ q.todo \subseteq Nat
          BY <2>4, FS_Subset
        <5>2. MaxOf(q.todo) \in Nat
          BY <5>1, GreatestNumber
        <5> QED
          BY <2>4, <5>2
      <4> HIDE DEF top
      <4> QED
        BY <2>5, <3>1, <4>1, <4>2
    <3>5. CASE n \in q.todo /\ n \notin existing /\ ~q.full
      <4>1. ~(n > q.last)
        BY <2>3, <2>5, <3>5 DEF FilterChapters
      <4> QED
        BY <2>4, <2>5, <3>1, <4>1 DEF Explained
    <3> QED
      BY <3>2, <3>3, <3>4, <3>5
  <2>6. \A k \in x.todo : k \in listed
    BY <2>3, <2>4 DEF FilterChapters
  <2>7. InOrder(x)
    BY <2>3, <2>5, <2>6 DEF InOrder
  <2> QED
    BY <1>1, <2>2, <2>7
<1>7. CASE CrawlChapter(j)
  <2>1. PICK k \in Page : job' = [job EXCEPT ![j] = [q EXCEPT !.stage = "upload", !.number = Current(q),
                                                              !.page = 1, !.pages = k]]
    BY <1>7 DEF CrawlChapter
  <2>2. PICK x : /\ x = [q EXCEPT !.stage = "upload", !.number = Current(q), !.page = 1, !.pages = k]
                 /\ job' = [job EXCEPT ![j] = x]
    BY <2>1
  <2>3. x.stage = "upload" /\ x.todo = q.todo /\ x.number = Current(q)
    BY <1>0, <2>2 DEF JobState
  <2>4. q.stage = "next" /\ \A k1 \in q.todo : Current(q) <= k1
    BY <1>0, <1>7, CurrentIsLeast DEF CrawlChapter
  <2>5. InOrder(x)
    BY <1>0, <2>3, <2>4 DEF InOrder, Process
  <2> QED
    BY <1>1, <2>2, <2>5
<1>8. CASE DownloadAndUpload(j)
  <2>1. PICK x : x \in {[q EXCEPT !.page = q.page + 1], [q EXCEPT !.stage = "insert"]}
                 /\ job' = [job EXCEPT ![j] = x]
    BY <1>8 DEF DownloadAndUpload
  <2>2. x.stage \in {"upload", "insert"} /\ x.todo = q.todo /\ x.number = q.number /\ q.stage = "upload"
    BY <1>0, <1>8, <2>1 DEF DownloadAndUpload, JobState
  <2>3. InOrder(x)
    BY <1>0, <2>2 DEF InOrder, Process
  <2> QED
    BY <1>1, <2>1, <2>3
<1>9. ASSUME NEW c \in Number, Done(j, c), q.stage \in {"next", "upload", "insert"}, Accounted(c)'
      PROVE  (\E y : job'[j] = y /\ InOrder(y)')
  <2>1. PICK p : p = q
    OBVIOUS
  <2>2. p \in JobState /\ InOrder(p) /\ p.stage \in {"next", "upload", "insert"}
    BY <1>0, <1>9, <2>1
  <2>3. PICK x : x = [p EXCEPT !.stage = "next", !.todo = p.todo \ {c}, !.number = 0, !.page = 0, !.pages = 0]
    OBVIOUS
  <2>4. InOrder(x)'
    BY <1>0, <1>9, <2>2, <2>3, InOrderDone
  <2>5. job'[j] = x
    BY <1>0, <1>9, <2>1, <2>3 DEF Done
  <2> QED
    BY <2>4, <2>5
<1>10. CASE CreateChapter(j)
  <2>1. PICK c \in Number : c = q.number
    BY <1>0, <1>10 DEF CreateChapter
  <2>2. PICK r \in Row : chapters' = [chapters EXCEPT ![r] =
                            [state |-> "there", number |-> c, pages |-> q.pages,
                             byJob |-> ~q.blind, sure |-> TRUE]]
    BY <1>10, <2>1 DEF CreateChapter, InsertChapter
  <2>3. Accounted(c)'
    BY <1>0, <2>2 DEF Accounted, Existing, There, TypeOK
  <2> QED
    BY <1>9, <1>10, <2>1, <2>3 DEF CreateChapter
<1>11. CASE ChapterFails(j)
  <2>1. PICK c : c = (IF q.stage = "next" THEN Current(q) ELSE q.number) /\ Done(j, c) /\ c \in excused'
    BY <1>11 DEF ChapterFails
  <2>2. c \in Number
    BY <1>0, <1>11, <2>1, CurrentIsLeast DEF ChapterFails
  <2>3. Accounted(c)'
    BY <2>1 DEF Accounted
  <2> QED
    BY <1>9, <1>11, <2>1, <2>2, <2>3 DEF ChapterFails
<1>12. CASE JobExits(j) \/ JobFails(j) \/ UpdateLastChapter(j) \/ UpdateFails(j)
  <2>1. InOrder(IdleJob) /\ InOrder([IdleJob EXCEPT !.stage = "max"])
    BY DEF InOrder, IdleJob, Process
  <2> QED
    BY <1>1, <1>12, <2>1 DEF JobExits, JobFails, UpdateLastChapter, UpdateFails
<1>13. CASE MaxChapterNumber(j)
  <2>1. PICK x : x = [IdleJob EXCEPT !.stage = "update", !.last = MaxOf(Existing)] /\ job' = [job EXCEPT ![j] = x]
    BY <1>13 DEF MaxChapterNumber
  <2>2. x.stage = "update" /\ x.last = MaxOf(Existing)
    BY <2>1 DEF IdleJob
  <2>3. MaxOf(Existing) \in Existing \cup {0}
    BY <1>0, TypeSplit, ExistingNumbers, GreatestNumber
  <2>4. Explained(MaxOf(Existing))
    BY <1>2, <2>3 DEF GapsInv, Existing
  <2>5. InOrder(x)
    BY <2>2, <2>4 DEF InOrder, Process
  <2> QED
    BY <1>1, <2>1, <2>5
<1> QED
  BY <1>3, <1>4, <1>5, <1>6, <1>7, <1>8, <1>10, <1>11, <1>12, <1>13 DEF JobStep

\* A chapter is inserted by a job, after all those below it, or by hand.
LEMMA RowExplained ==
  ASSUME GapsInv, [Next]_vars, NEW r \in Row, There(r)', NEW m \in Number, m = chapters'[r].number
  PROVE  Explained(m)'
<1>0. /\ TypeOK /\ TypeOK' /\ RowsKnown /\ chapters \in [Row -> Chapter] /\ job \in [Job -> JobState]
      /\ Number \subseteq Nat
  BY TypeNext, ChaptersAssumption DEF GapsInv, TypeOK
<1>1. CASE There(r)
  <2>1. m = chapters[r].number
    BY <1>0, <1>1, RowLife DEF There
  <2>2. Explained(m)
    BY <1>1, <2>1 DEF GapsInv
  <2> QED
    BY <1>0, <2>2, ExplainedNext
<1>2. CASE ~There(r)
  <2>1. chapters[r].state = "free" /\ chapters'[r].state = "there" /\ chapters' # chapters
    BY <1>0, <1>2, RowLife DEF There
  <2>2. m \in Existing'
    BY DEF Existing
  <2>3. ASSUME \A n \in Number : n < m => Accounted(n)' PROVE Explained(m)'
    <3>1. Accounted(m)'
      BY <2>2 DEF Accounted
    <3>2. \A n \in Number : n <= m => n < m \/ n = m
      BY <1>0
    <3> QED
      BY <2>3, <3>1, <3>2 DEF Explained
  <2>4. ASSUME NEW n, NEW k, NEW b, NEW s, InsertChapter(n, k, b, s) PROVE m = n
    BY <1>0, <2>1, <2>4 DEF InsertChapter
  <2>5. ASSUME NEW j \in Job, JobStep(j) PROVE Explained(m)'
    <3>1. CreateChapter(j)
      BY <2>1, <2>5 DEF JobStep, ReadComic, StartJob, FetchChapterLinks, LoadExistingChapters, CrawlChapter,
         DownloadAndUpload, ChapterFails, JobExits, JobFails, MaxChapterNumber, UpdateLastChapter, UpdateFails
    <3>2. PICK q : q = job[j]
      OBVIOUS
    <3>3. q.stage = "insert" /\ m = q.number
      BY <2>4, <3>1, <3>2 DEF CreateChapter
    <3>4. InOrder(q) /\ q.number \in q.todo
      BY <1>0, <3>2, <3>3 DEF GapsInv, TypeOK
    <3>5. \A n \in Number \ q.todo : n < m => Accounted(n)
      BY <3>3, <3>4 DEF InOrder, Process
    <3>6. \A k \in q.todo : m <= k
      BY <3>3, <3>4 DEF InOrder
    <3>7. \A n \in Number : n < m => ~(m <= n)
      BY <1>0
    <3>8. \A n \in Number : n < m => Accounted(n)
      BY <3>5, <3>6, <3>7
    <3> QED
      BY <1>0, <2>3, <3>8, AccountedNext
  <2>6. ASSUME NEW w \in Worker, AdminStep(w) PROVE FALSE
    <3>1. CASE DeleteRow(w)
      <4>1. chapters' = [chapters EXCEPT ![req[w].row] = [Free EXCEPT !.state = "deleted"]]
        BY <3>1 DEF DeleteRow
      <4>2. [Free EXCEPT !.state = "deleted"].state = "deleted"
        BY DEF Free
      <4> QED
        BY <1>0, <2>1, <4>1, <4>2
    <3>2. CASE SavePages(w)
      <4>1. \/ UNCHANGED chapters
            \/ /\ There(req[w].row)
               /\ chapters' = [chapters EXCEPT ![req[w].row] =
                                 [chapters[req[w].row] EXCEPT !.pages = req[w].pages, !.sure = TRUE]]
        BY <3>2 DEF SavePages
      <4> QED
        BY <1>0, <1>2, <2>1, <4>1
    <3>3. CASE ~DeleteRow(w) /\ ~SavePages(w)
      BY <2>1, <2>6, <3>3 DEF AdminStep, AdminDeleteChapter, Destroy, UploadChapterPages, UploadObject, Abort
    <3> QED
      BY <3>1, <3>2, <3>3
  <2>7. ASSUME NEW n \in Number, NEW k \in 0 .. MaxPages, AdminCreateChapter(n, k) PROVE Explained(m)'
    <3>1. m = n
      BY <2>4, <2>7 DEF AdminCreateChapter
    <3>2. \A i \in Number : i < n => Accounted(i)'
      BY <2>7 DEF AdminCreateChapter, Accounted
    <3> QED
      BY <2>3, <3>1, <3>2
  <2>8. ASSUME NEW s \in Row, NEW k \in Page, AdminUpdateChapter(s, k) PROVE FALSE
    BY <1>0, <1>2, <2>1, <2>8 DEF AdminUpdateChapter
  <2>9. \/ \E t \in Target : AdminUpdateComic(t)
        \/ \E n \in Number : Publish(n)
        \/ Crash \/ UNCHANGED vars
        => UNCHANGED chapters
    BY DEF AdminUpdateComic, Publish, Crash, vars
  <2> QED
    BY <2>1, <2>5, <2>6, <2>7, <2>8, <2>9 DEF Next
<1> QED
  BY <1>1, <1>2

LEMMA JobsInOrder ==
  ASSUME GapsInv, [Next]_vars, NEW i \in Job
  PROVE  \E x : job'[i] = x /\ InOrder(x)'
<1>0. /\ TypeOK /\ RowsKnown /\ job \in [Job -> JobState] /\ InOrder(job[i])
  BY DEF GapsInv, TypeOK
<1>1. ASSUME job'[i] = job[i] PROVE \E x : job'[i] = x /\ InOrder(x)'
  <2>1. PICK x : x = job[i]
    OBVIOUS
  <2>2. InOrder(x)
    BY <1>0, <2>1
  <2> QED
    BY <1>0, <1>1, <2>1, <2>2, InOrderNext
<1>2. ASSUME NEW j \in Job, JobStep(j) PROVE \E x : job'[i] = x /\ InOrder(x)'
  <2>1. CASE i = j
    BY <1>2, <2>1, InOrderStep
  <2>2. CASE i # j
    <3>1. job'[i] = job[i]
      BY <1>0, <1>2, <2>2 DEF JobStep, ReadComic, StartJob, FetchChapterLinks, LoadExistingChapters,
         CrawlChapter, DownloadAndUpload, CreateChapter, ChapterFails, Done, JobExits, JobFails,
         MaxChapterNumber, UpdateLastChapter, UpdateFails
    <3> QED
      BY <1>1, <3>1
  <2> QED
    BY <2>1, <2>2
<1>3. CASE Crash
  <2>1. PICK q \in JobState : q = job[i]
    BY <1>0
  <2>2. PICK x : x = [q EXCEPT !.watched = FALSE]
    OBVIOUS
  <2>3. x.stage = q.stage /\ x.last = q.last /\ x.todo = q.todo /\ x.number = q.number
    BY <2>2 DEF JobState
  <2>4. InOrder(x)
    BY <1>0, <2>1, <2>3 DEF InOrder
  <2>5. InOrder(IdleJob)
    BY DEF InOrder, IdleJob, Process
  <2>6. job'[i] = x \/ job'[i] = IdleJob
    BY <1>0, <1>3, <2>1, <2>2 DEF Crash
  <2> QED
    BY <1>0, <2>4, <2>5, <2>6, InOrderNext
<1>4. \/ \E w \in Worker : AdminStep(w)
      \/ \E n \in Number, k \in 0 .. MaxPages : AdminCreateChapter(n, k)
      \/ \E r \in Row, k \in Page : AdminUpdateChapter(r, k)
      \/ \E t \in Target : AdminUpdateComic(t)
      \/ \E n \in Number : Publish(n)
      \/ UNCHANGED vars
      => UNCHANGED job
  BY DEF AdminStep, AdminDeleteChapter, DeleteRow, Destroy, UploadChapterPages, UploadObject,
     SavePages, Abort, AdminCreateChapter, AdminUpdateChapter, AdminUpdateComic, Publish, vars
<1> QED
  BY <1>1, <1>2, <1>3, <1>4 DEF Next

\* crawler_last_chapter is read, by maxChapterNumber, from a table that is explained.
LEMMA LastExplained ==
  ASSUME GapsInv, [Next]_vars
  PROVE  Explained(last)'
<1>0. TypeOK /\ RowsKnown /\ Explained(last)
  BY DEF GapsInv
<1>1. ASSUME NEW e, Explained(e), last' = e PROVE Explained(last)'
  <2>1. Explained(e)'
    BY <1>0, <1>1, ExplainedNext
  <2> QED
    BY <1>1, <2>1 DEF Explained
<1>2. ASSUME NEW j \in Job, UpdateLastChapter(j) PROVE Explained(last)'
  <2>1. PICK e : e = job[j].last
    OBVIOUS
  <2>2. Explained(e)
    BY <1>2, <2>1 DEF UpdateLastChapter, GapsInv, InOrder
  <2> QED
    BY <1>1, <1>2, <2>1, <2>2 DEF UpdateLastChapter
<1>3. ASSUME last' = last PROVE Explained(last)'
  <2>1. PICK e : e = last
    OBVIOUS
  <2> QED
    BY <1>0, <1>1, <1>3, <2>1
<1>4. ASSUME NEW j \in Job, JobStep(j), ~UpdateLastChapter(j) PROVE last' = last
  BY <1>4 DEF JobStep, ReadComic, StartJob, FetchChapterLinks, LoadExistingChapters, CrawlChapter,
     DownloadAndUpload, CreateChapter, ChapterFails, JobExits, JobFails, MaxChapterNumber, UpdateFails, comics
<1>5. \/ \E w \in Worker : AdminStep(w)
      \/ \E n \in Number, k \in 0 .. MaxPages : AdminCreateChapter(n, k)
      \/ \E r \in Row, k \in Page : AdminUpdateChapter(r, k)
      \/ \E t \in Target : AdminUpdateComic(t)
      \/ \E n \in Number : Publish(n)
      \/ Crash \/ UNCHANGED vars
      => last' = last
  BY DEF AdminStep, AdminDeleteChapter, DeleteRow, Destroy, UploadChapterPages, UploadObject,
     SavePages, Abort, AdminCreateChapter, AdminUpdateChapter, AdminUpdateComic, Publish, Crash, comics, vars
<1> QED
  BY <1>2, <1>3, <1>4, <1>5 DEF Next

LEMMA GapsNext == GapsInv /\ [Next]_vars => GapsInv'
<1> SUFFICES ASSUME GapsInv, [Next]_vars PROVE GapsInv'
  OBVIOUS
<1>1. TypeOK' /\ RowsKnown' /\ Explained(last)'
  BY TypeNext, RowsKnownNext, LastExplained DEF GapsInv
<1>2. ASSUME NEW r \in Row, There(r)' PROVE Explained(chapters[r].number)'
  <2>1. PICK m \in Number : m = chapters'[r].number
    BY <1>1, <1>2 DEF TypeOK
  <2>2. Explained(m)'
    BY <1>2, <2>1, RowExplained
  <2> QED
    BY <2>1, <2>2 DEF Explained
<1>3. ASSUME NEW i \in Job PROVE InOrder(job[i])'
  <2>1. PICK x : job'[i] = x /\ InOrder(x)'
    BY JobsInOrder
  <2> QED
    BY <2>1 DEF InOrder
<1> QED
  BY <1>1, <1>2, <1>3 DEF GapsInv

\* A chapter that incremental runs pass over exists, unless its crawl failed, it was
\* deleted, the site listed it late, or an admin created a higher one by hand
\* (main.go:126-131, 437; service.go:127-131).
THEOREM GapsExplained == Spec => []GapsAreExplained
<1>1. GapsInv => GapsAreExplained
  <2> SUFFICES ASSUME GapsInv, NEW n \in listed, n <= last PROVE n \in Existing \/ n \in excused
    BY DEF GapsAreExplained
  <2>1. n \in Number
    BY DEF GapsInv, TypeOK
  <2> QED
    BY <2>1 DEF GapsInv, Explained, Accounted
<1> QED
  BY <1>1, GapsInit, GapsNext, PTL DEF Spec

-----------------------------------------------------------------------------
(* Images.                                                                 *)

LEMMA ImagesInit == Init => ImagesInv
<1> SUFFICES ASSUME Init PROVE ImagesInv
  OBVIOUS
<1>1. RowsKnown /\ ImagesAreThere
  BY DEF Init, RowsKnown, Idle, ImagesAreThere, There, Free
<1>2. \A j \in Job : JobStored(job[j])
  BY DEF Init, JobStored, IdleJob
<1>3. \A w \in Worker : RequestStored(req[w])
  BY DEF Init, RequestStored, Idle
<1> QED
  BY <1>1, <1>2, <1>3, TypeInit DEF ImagesInv

Destroys == \E w \in Worker : Destroy(w)

\* Only Destroy takes images away.
LEMMA ImagesGrow ==
  ASSUME TypeOK, [Next]_vars, ~Destroys
  PROVE  torn \subseteq torn' /\ \A n \in Number : images[n] \subseteq images'[n]
<1>0. images \in [Number -> SUBSET Page]
  BY DEF TypeOK
<1>1. ASSUME NEW j \in Job, JobStep(j)
      PROVE  torn \subseteq torn' /\ \A n \in Number : images[n] \subseteq images'[n]
  BY <1>0, <1>1 DEF JobStep, ReadComic, StartJob, FetchChapterLinks, LoadExistingChapters, CrawlChapter,
     DownloadAndUpload, CreateChapter, ChapterFails, JobExits, JobFails, MaxChapterNumber,
     UpdateLastChapter, UpdateFails, ghosts
<1>2. ASSUME NEW w \in Worker, AdminStep(w)
      PROVE  torn \subseteq torn' /\ \A n \in Number : images[n] \subseteq images'[n]
  BY <1>0, <1>2 DEF AdminStep, AdminDeleteChapter, DeleteRow, UploadChapterPages, UploadObject,
     SavePages, Abort, Destroys, ghosts
<1>3. \/ \E n \in Number, k \in 0 .. MaxPages : AdminCreateChapter(n, k)
      \/ \E r \in Row, k \in Page : AdminUpdateChapter(r, k)
      \/ \E t \in Target : AdminUpdateComic(t)
      \/ \E n \in Number : Publish(n)
      \/ Crash \/ UNCHANGED vars
      => torn' = torn /\ images' = images
  BY DEF AdminCreateChapter, AdminUpdateChapter, AdminUpdateComic, Publish, Crash, ghosts, vars
<1> QED
  BY <1>1, <1>2, <1>3 DEF Next

LEMMA StoredKept ==
  ASSUME TypeOK, [Next]_vars, ~Destroys, NEW n \in Number, NEW k, Stored(n, k)
  PROVE  Stored(n, k)'
<1>1. torn \subseteq torn' /\ images[n] \subseteq images'[n]
  BY ImagesGrow
<1> QED
  BY <1>1 DEF Stored

\* Of the image destroyed somebody else may hold the number: then it is torn.
LEMMA StoredDestroyed ==
  ASSUME TypeOK, NEW w \in Worker, Destroy(w), NEW n \in Number, NEW k \in 0 .. MaxPages, Stored(n, k),
         n = req[w].number /\ req[w].page <= k => InUse(w, n, req[w].page)
  PROVE  Stored(n, k)'
<1>0. images \in [Number -> SUBSET Page] /\ MaxPages \in Nat
      /\ req \in [Worker -> Request] /\ req[w].page \in Int
  BY ChaptersAssumption DEF TypeOK, Request
<1>1. CASE UNCHANGED <<images, torn>>
  BY <1>1 DEF Stored
<1>2. CASE /\ images' = [images EXCEPT ![req[w].number] = images[req[w].number] \ {req[w].page}]
           /\ torn' = IF InUse(w, req[w].number, req[w].page) THEN torn \cup {req[w].number} ELSE torn
  <2>1. torn \subseteq torn'
    BY <1>2
  <2>2. CASE n # req[w].number
    <3>1. images'[n] = images[n]
      BY <1>0, <1>2, <2>2
    <3> QED
      BY <2>1, <3>1 DEF Stored
  <2>3. CASE n = req[w].number /\ req[w].page <= k
    BY <1>2, <2>3 DEF Stored
  <2>4. CASE n = req[w].number /\ ~(req[w].page <= k)
    <3>1. images'[n] = images[n] \ {req[w].page}
      BY <1>0, <1>2, <2>4
    <3>2. req[w].page \notin 1 .. k
      BY <1>0, <2>4
    <3> QED
      BY <2>1, <3>1, <3>2 DEF Stored
  <2> QED
    BY <2>2, <2>3, <2>4
<1> QED
  BY <1>1, <1>2 DEF Destroy

LEMMA DestroyKeeps ==
  ASSUME ImagesInv, NEW w \in Worker, Destroy(w)
  PROVE  /\ ImagesAreThere'
         /\ \A j \in Job : JobStored(job[j])'
         /\ \A v \in Worker : RequestStored(req[v])'
<1> DEFINE n == req[w].number
           i == req[w].page
<1>0. /\ TypeOK /\ chapters \in [Row -> Chapter] /\ job \in [Job -> JobState] /\ req \in [Worker -> Request]
      /\ \A r \in Row : There(r) => chapters[r].number \in Number
      /\ \A j \in Job : job[j].stage \in {"upload", "insert"} => job[j].number \in Number
      /\ \A v \in Worker : req[v].stage # "idle" => req[v].number \in Number
      /\ req[w] \in Request /\ MaxPages \in Nat /\ Number \subseteq Nat
      /\ chapters' = chapters /\ job' = job
      /\ \A v \in Worker \ {w} : req'[v] = req[v]
  BY ChaptersAssumption DEF ImagesInv, TypeOK, Destroy, JobState
<1>1. ASSUME NEW r \in Row, There(r), chapters[r].sure
      PROVE  Stored(chapters[r].number, chapters[r].pages)'
  <2>1. PICK m \in Number : m = chapters[r].number
    BY <1>0, <1>1
  <2>2. PICK k \in 0 .. MaxPages : k = chapters[r].pages
    BY <1>0 DEF Chapter
  <2>3. Stored(m, k)
    BY <1>1, <2>1, <2>2 DEF ImagesInv, ImagesAreThere, Stored
  <2>4. m = n /\ i <= k => InUse(w, m, i)
    BY <1>0, <1>1, <2>1, <2>2 DEF InUse, RowsOf, Request
  <2>5. Stored(m, k)'
    BY <1>0, <2>3, <2>4, StoredDestroyed
  <2> QED
    BY <1>0, <2>1, <2>2, <2>5 DEF Stored
<1>2. ImagesAreThere'
  BY <1>0, <1>1 DEF ImagesAreThere, Stored, There
<1>3. ASSUME NEW m \in Number, NEW k \in 0 .. MaxPages, Stored(m, k), m = n /\ i <= k => InUse(w, m, i)
      PROVE  Stored(m, k)'
  BY <1>0, <1>3, StoredDestroyed
<1>4. ASSUME NEW j \in Job PROVE JobStored(job[j])'
  <2>1. job[j] \in JobState /\ JobStored(job[j])
    BY <1>0 DEF ImagesInv
  <2>2. ASSUME job[j].stage = "upload" PROVE Stored(job[j].number, job[j].page - 1)'
    <3>1. PICK m \in Number : m = job[j].number
      BY <1>0, <2>2
    <3>2. job[j].page \in 1 .. MaxPages
      BY <1>0, <2>1, <2>2 DEF TypeOK, JobState
    <3>3. PICK k \in 0 .. MaxPages : k = job[j].page - 1
      BY <1>0, <3>2
    <3>4. Stored(m, k)
      BY <2>1, <2>2, <3>1, <3>3 DEF JobStored
    <3>5. i <= k => job[j].page > i
      BY <1>0, <3>2, <3>3 DEF Request
    <3>6. m = n /\ i <= k => InUse(w, m, i)
      BY <2>2, <3>1, <3>5 DEF InUse
    <3>7. Stored(m, k)'
      BY <1>3, <3>4, <3>6
    <3> QED
      BY <1>0, <3>1, <3>3, <3>7 DEF Stored
  <2>3. ASSUME job[j].stage = "insert" PROVE Stored(job[j].number, job[j].pages)'
    <3>1. PICK m \in Number : m = job[j].number
      BY <1>0, <2>3
    <3>2. PICK k \in 0 .. MaxPages : k = job[j].pages
      BY <2>1 DEF JobState
    <3>3. Stored(m, k)
      BY <2>1, <2>3, <3>1, <3>2 DEF JobStored
    <3>4. m = n /\ i <= k => InUse(w, m, i)
      BY <2>3, <3>1 DEF InUse
    <3>5. Stored(m, k)'
      BY <1>3, <3>3, <3>4
    <3> QED
      BY <1>0, <3>1, <3>2, <3>5 DEF Stored
  <2> QED
    BY <1>0, <2>2, <2>3 DEF JobStored
<1>5. ASSUME NEW v \in Worker PROVE RequestStored(req[v])'
  <2>1. CASE v = w
    <3>1. req'[w].stage \in {"destroy", "idle"}
      BY <1>0, <2>1 DEF Destroy, Request, Idle
    <3> QED
      BY <2>1, <3>1 DEF RequestStored
  <2>2. CASE v # w
    <3>1. req'[v] = req[v] /\ req[v] \in Request /\ RequestStored(req[v])
      BY <1>0, <2>2 DEF ImagesInv
    <3>2. ASSUME req[v].stage = "upload" PROVE Stored(req[v].number, req[v].page - 1)'
      <4>1. PICK m \in Number : m = req[v].number
        BY <1>0, <3>2
      <4>2. req[v].page \in 1 .. MaxPages
        BY <1>0, <3>1, <3>2 DEF TypeOK, Request
      <4>3. PICK k \in 0 .. MaxPages : k = req[v].page - 1
        BY <1>0, <4>2
      <4>4. Stored(m, k)
        BY <3>1, <3>2, <4>1, <4>3 DEF RequestStored
      <4>5. i <= k => req[v].page > i
        BY <1>0, <4>2, <4>3 DEF Request
      <4>6. m = n /\ i <= k => InUse(w, m, i)
        BY <2>2, <3>2, <4>1, <4>5 DEF InUse
      <4>7. Stored(m, k)'
        BY <1>3, <4>4, <4>6
      <4> QED
        BY <3>1, <4>1, <4>3, <4>7 DEF Stored
    <3>3. ASSUME req[v].stage = "save" PROVE Stored(req[v].number, req[v].pages)'
      <4>1. PICK m \in Number : m = req[v].number
        BY <1>0, <3>3
      <4>2. PICK k \in 0 .. MaxPages : k = req[v].pages
        BY <3>1 DEF Request
      <4>3. Stored(m, k)
        BY <3>1, <3>3, <4>1, <4>2 DEF RequestStored
      <4>4. m = n /\ i <= k => InUse(w, m, i)
        BY <2>2, <3>3, <4>1 DEF InUse
      <4>5. Stored(m, k)'
        BY <1>3, <4>3, <4>4
      <4> QED
        BY <3>1, <4>1, <4>2, <4>5 DEF Stored
    <3> QED
      BY <3>1, <3>2, <3>3 DEF RequestStored
  <2> QED
    BY <2>1, <2>2
<1> QED
  BY <1>2, <1>4, <1>5

\* An image that is stored is there and counts for the next.
LEMMA StoresNext ==
  ASSUME TypeOK, [Next]_vars, ~Destroys, NEW n \in Number, NEW k \in 1 .. MaxPages, Stored(n, k - 1),
         images' = [images EXCEPT ![n] = images[n] \cup {k}]
  PROVE  Stored(n, k)'
<1>0. images \in [Number -> SUBSET Page] /\ MaxPages \in Nat
  BY ChaptersAssumption DEF TypeOK
<1>1. torn \subseteq torn' /\ images'[n] = images[n] \cup {k}
  BY <1>0, ImagesGrow
<1>2. 1 .. k = (1 .. (k - 1)) \cup {k}
  BY <1>0
<1> QED
  BY <1>1, <1>2 DEF Stored

LEMMA JobStoredNext ==
  ASSUME ImagesInv, [Next]_vars, ~Destroys, NEW i \in Job
  PROVE  \E x : job'[i] = x /\ JobStored(x)'
<1> DEFINE Goal == \E x : job'[i] = x /\ JobStored(x)'
<1>0. /\ TypeOK /\ job \in [Job -> JobState] /\ MaxPages \in Nat /\ Number \subseteq Nat
      /\ images \in [Number -> SUBSET Page]
  BY ChaptersAssumption DEF ImagesInv, TypeOK
<1>1. PICK q \in JobState : q = job[i]
  BY <1>0
<1>2. /\ JobStored(q)
      /\ q.stage \in {"upload", "insert"} =>
            q.number \in Number /\ q.page \in 1 .. q.pages /\ q.pages \in 0 .. MaxPages
      /\ q.page \in Int /\ q.pages \in Int
  BY <1>0, <1>1 DEF ImagesInv, TypeOK, JobState
<1>3. ASSUME NEW x, x.stage = q.stage, x.number = q.number, x.page = q.page, x.pages = q.pages PROVE JobStored(x)'
  <2>1. ASSUME q.stage = "upload" PROVE Stored(x.number, x.page - 1)'
    <3>0. q.number \in Number /\ q.page - 1 \in Int
      BY <1>2, <2>1
    <3>1. PICK n \in Number, k \in Int : n = q.number /\ k = q.page - 1
      BY <3>0
    <3>2. Stored(n, k)
      BY <1>2, <2>1, <3>1 DEF JobStored
    <3>3. Stored(n, k)'
      BY <1>0, <3>2, StoredKept
    <3> QED
      BY <1>3, <3>1, <3>3
  <2>2. ASSUME q.stage = "insert" PROVE Stored(x.number, x.pages)'
    <3>1. PICK n \in Number, k \in Int : n = q.number /\ k = q.pages
      BY <1>0, <1>2, <2>2
    <3>2. Stored(n, k)
      BY <1>2, <2>2, <3>1 DEF JobStored
    <3>3. Stored(n, k)'
      BY <1>0, <3>2, StoredKept
    <3> QED
      BY <1>3, <3>1, <3>3
  <2> QED
    BY <1>3, <2>1, <2>2 DEF JobStored
<1>4. ASSUME job'[i] = job[i] PROVE Goal
  BY <1>1, <1>3, <1>4
<1>5. ASSUME job'[i].stage \notin {"upload", "insert"} PROVE Goal
  BY <1>5 DEF JobStored
<1>6. CASE CrawlChapter(i)
  <2>1. PICK k : job' = [job EXCEPT ![i] = [job[i] EXCEPT !.stage = "upload", !.number = Current(job[i]),
                                                          !.page = 1, !.pages = k]]
    BY <1>6, Zenon DEF CrawlChapter
  <2>2. PICK x : x = [q EXCEPT !.stage = "upload", !.number = Current(q), !.page = 1, !.pages = k]
    OBVIOUS
  <2>3. x.stage = "upload" /\ x.page = 1
    BY <2>2 DEF JobState
  <2>4. job'[i] = x
    BY <1>0, <1>1, <2>1, <2>2
  <2>5. 1 .. (1 - 1) = {}
    OBVIOUS
  <2> QED
    BY <2>3, <2>4, <2>5 DEF JobStored, Stored
<1>7. CASE DownloadAndUpload(i)
  <2>1. /\ q.stage = "upload"
        /\ images' = [images EXCEPT ![q.number] = images[q.number] \cup {q.page}]
        /\ job' = [job EXCEPT ![i] = IF q.page < q.pages THEN [q EXCEPT !.page = q.page + 1]
                                     ELSE [q EXCEPT !.stage = "insert"]]
    BY <1>1, <1>7 DEF DownloadAndUpload
  <2>2. PICK n \in Number, k \in 1 .. MaxPages : n = q.number /\ k = q.page /\ k <= q.pages
    BY <1>0, <1>2, <2>1
  <2>3. Stored(n, k - 1)
    BY <1>2, <2>1, <2>2 DEF JobStored
  <2>4. Stored(n, k)'
    BY <1>0, <2>1, <2>2, <2>3, StoresNext
  <2>5. CASE q.page < q.pages
    <3>1. PICK x : x = [q EXCEPT !.page = q.page + 1]
      OBVIOUS
    <3>2. x.stage = "upload" /\ x.number = n /\ x.page - 1 = k
      BY <2>1, <2>2, <3>1 DEF JobState
    <3>3. job'[i] = x
      BY <1>0, <2>1, <2>5, <3>1
    <3>4. JobStored(x)'
      BY <2>4, <3>2 DEF JobStored
    <3> QED
      BY <3>3, <3>4
  <2>6. CASE ~(q.page < q.pages)
    <3>1. PICK x : x = [q EXCEPT !.stage = "insert"]
      OBVIOUS
    <3>2. x.stage = "insert" /\ x.number = n /\ x.pages = q.pages
      BY <2>2, <3>1 DEF JobState
    <3>3. x.pages = k
      BY <1>0, <1>2, <2>1, <2>2, <2>6, <3>2
    <3>4. job'[i] = x
      BY <1>0, <2>1, <2>6, <3>1
    <3>5. JobStored(x)'
      BY <2>4, <3>2, <3>3 DEF JobStored
    <3> QED
      BY <3>4, <3>5
  <2> QED
    BY <2>5, <2>6
<1>8. ASSUME NEW j \in Job, JobStep(j) PROVE Goal
  <2>1. CASE j # i
    <3>1. job'[i] = job[i]
      BY <1>0, <1>8, <2>1 DEF JobStep, ReadComic, StartJob, FetchChapterLinks, LoadExistingChapters,
         CrawlChapter, DownloadAndUpload, CreateChapter, ChapterFails, Done, JobExits, JobFails,
         MaxChapterNumber, UpdateLastChapter, UpdateFails
    <3> QED
      BY <1>4, <3>1
  <2>2. CASE j = i /\ ~CrawlChapter(i) /\ ~DownloadAndUpload(i)
    <3>1. CASE CreateChapter(i) \/ ChapterFails(i)
      <4>1. PICK n : Done(i, n)
        BY <3>1 DEF CreateChapter, ChapterFails
      <4>2. job' = [job EXCEPT ![i] = [q EXCEPT !.stage = "next", !.todo = q.todo \ {n}, !.number = 0,
                                                !.page = 0, !.pages = 0]]
        BY <1>1, <4>1 DEF Done
      <4>3. PICK x : x = [q EXCEPT !.stage = "next", !.todo = q.todo \ {n}, !.number = 0,
                                   !.page = 0, !.pages = 0]
        OBVIOUS
      <4>4. x.stage = "next"
        BY <4>3 DEF JobState
      <4> QED
        BY <1>0, <1>5, <4>2, <4>3, <4>4
    <3>2. CASE StartJob(i)
      <4>1. PICK x : /\ x = [q EXCEPT !.stage = "list", !.watched = TRUE,
                                      !.target = IF q.target = 0 THEN target ELSE q.target,
                                      !.last = IF q.target = 0 /\ q.last = 0 THEN last ELSE q.last]
                     /\ job' = [job EXCEPT ![i] = x]
        BY <1>1, <3>2 DEF StartJob
      <4>2. x.stage = "list"
        BY <4>1 DEF JobState
      <4> QED
        BY <1>0, <1>5, <4>1, <4>2
    <3>3. CASE FetchChapterLinks(i)
      <4>1. PICK x : x = [q EXCEPT !.stage = "load", !.todo = listed] /\ job' = [job EXCEPT ![i] = x]
        BY <1>1, <3>3 DEF FetchChapterLinks
      <4>2. x.stage = "load"
        BY <4>1 DEF JobState
      <4> QED
        BY <1>0, <1>5, <4>1, <4>2
    <3>4. CASE \E full \in BOOLEAN : ReadComic(i, full)
      BY <1>0, <1>5, <3>4 DEF ReadComic, IdleJob
    <3>5. CASE LoadExistingChapters(i)
      BY <1>0, <1>5, <3>5 DEF LoadExistingChapters, IdleJob
    <3>6. CASE JobExits(i) \/ JobFails(i) \/ MaxChapterNumber(i) \/ UpdateLastChapter(i) \/ UpdateFails(i)
      <4>1. IdleJob.stage = "idle" /\ [IdleJob EXCEPT !.stage = "max"].stage = "max"
        BY DEF IdleJob
      <4>2. [IdleJob EXCEPT !.stage = "update", !.last = MaxOf(Existing)].stage = "update"
        BY DEF IdleJob
      <4>3. job'[i] \in {IdleJob, [IdleJob EXCEPT !.stage = "max"],
                         [IdleJob EXCEPT !.stage = "update", !.last = MaxOf(Existing)]}
        BY <1>0, <3>6 DEF JobExits, JobFails, MaxChapterNumber, UpdateLastChapter, UpdateFails
      <4> QED
        BY <1>5, <4>1, <4>2, <4>3
    <3> QED
      BY <1>8, <2>2, <3>1, <3>2, <3>3, <3>4, <3>5, <3>6 DEF JobStep
  <2> QED
    BY <1>6, <1>7, <2>1, <2>2
<1>9. CASE Crash
  <2>1. PICK x : x = [q EXCEPT !.watched = FALSE]
    OBVIOUS
  <2>2. x.stage = q.stage /\ x.number = q.number /\ x.page = q.page /\ x.pages = q.pages
    BY <2>1 DEF JobState
  <2>3. job'[i] = x \/ job'[i] = IdleJob
    BY <1>0, <1>1, <1>9, <2>1 DEF Crash
  <2>4. CASE job'[i] = x
    BY <1>3, <2>2, <2>4
  <2>5. CASE job'[i] = IdleJob
    BY <1>5, <2>5 DEF IdleJob
  <2> QED
    BY <2>3, <2>4, <2>5
<1>10. \/ \E w \in Worker : AdminStep(w)
       \/ \E n \in Number, k \in 0 .. MaxPages : AdminCreateChapter(n, k)
       \/ \E r \in Row, k \in Page : AdminUpdateChapter(r, k)
       \/ \E t \in Target : AdminUpdateComic(t)
       \/ \E n \in Number : Publish(n)
       \/ UNCHANGED vars
       => UNCHANGED job
  BY DEF AdminStep, AdminDeleteChapter, DeleteRow, Destroy, UploadChapterPages, UploadObject,
     SavePages, Abort, AdminCreateChapter, AdminUpdateChapter, AdminUpdateComic, Publish, vars
<1> QED
  BY <1>4, <1>8, <1>9, <1>10 DEF Next

LEMMA RequestStoredNext ==
  ASSUME ImagesInv, [Next]_vars, ~Destroys, NEW v \in Worker
  PROVE  \E x : req'[v] = x /\ RequestStored(x)'
<1> DEFINE Goal == \E x : req'[v] = x /\ RequestStored(x)'
<1>0. /\ TypeOK /\ req \in [Worker -> Request] /\ MaxPages \in Nat
      /\ images \in [Number -> SUBSET Page]
  BY ChaptersAssumption DEF ImagesInv, TypeOK
<1>1. PICK q \in Request : q = req[v]
  BY <1>0
<1>2. /\ RequestStored(q)
      /\ q.stage # "idle" => q.number \in Number
      /\ q.stage = "upload" => q.page \in 1 .. q.pages /\ q.pages \in 0 .. MaxPages
      /\ q.page \in Int /\ q.pages \in Int
  BY <1>0, <1>1 DEF ImagesInv, TypeOK, Request
<1>3. ASSUME req'[v] = req[v] PROVE Goal
  <2>1. ASSUME q.stage = "upload" PROVE Stored(q.number, q.page - 1)'
    <3>1. PICK n \in Number, k \in Int : n = q.number /\ k = q.page - 1
      BY <1>2, <2>1
    <3>2. Stored(n, k)
      BY <1>2, <2>1, <3>1 DEF RequestStored
    <3>3. Stored(n, k)'
      BY <1>0, <3>2, StoredKept
    <3> QED
      BY <3>1, <3>3
  <2>2. ASSUME q.stage = "save" PROVE Stored(q.number, q.pages)'
    <3>1. PICK n \in Number, k \in Int : n = q.number /\ k = q.pages
      BY <1>2, <2>2
    <3>2. Stored(n, k)
      BY <1>2, <2>2, <3>1 DEF RequestStored
    <3>3. Stored(n, k)'
      BY <1>0, <3>2, StoredKept
    <3> QED
      BY <3>1, <3>3
  <2> QED
    BY <1>1, <1>3, <2>1, <2>2 DEF RequestStored
<1>4. ASSUME req'[v].stage \notin {"upload", "save"} PROVE Goal
  BY <1>4 DEF RequestStored
<1>5. CASE UploadObject(v)
  <2>1. /\ q.stage = "upload"
        /\ images' = [images EXCEPT ![q.number] = images[q.number] \cup {q.page}]
        /\ req' = [req EXCEPT ![v] = IF q.page < q.pages THEN [q EXCEPT !.page = q.page + 1]
                                     ELSE [q EXCEPT !.stage = "save"]]
    BY <1>1, <1>5 DEF UploadObject
  <2>2. PICK n \in Number, k \in 1 .. MaxPages : n = q.number /\ k = q.page /\ k <= q.pages
    BY <1>0, <1>2, <2>1
  <2>3. Stored(n, k - 1)
    BY <1>2, <2>1, <2>2 DEF RequestStored
  <2>4. Stored(n, k)'
    BY <1>0, <2>1, <2>2, <2>3, StoresNext
  <2>5. CASE q.page < q.pages
    <3>1. PICK x : x = [q EXCEPT !.page = q.page + 1]
      OBVIOUS
    <3>2. x.stage = "upload" /\ x.number = n /\ x.page - 1 = k
      BY <2>1, <2>2, <3>1 DEF Request
    <3>3. req'[v] = x
      BY <1>0, <2>1, <2>5, <3>1
    <3>4. RequestStored(x)'
      BY <2>4, <3>2 DEF RequestStored
    <3> QED
      BY <3>3, <3>4
  <2>6. CASE ~(q.page < q.pages)
    <3>1. PICK x : x = [q EXCEPT !.stage = "save"]
      OBVIOUS
    <3>2. x.stage = "save" /\ x.number = n /\ x.pages = q.pages
      BY <2>2, <3>1 DEF Request
    <3>3. x.pages = k
      BY <1>0, <1>2, <2>1, <2>2, <2>6, <3>2
    <3>4. req'[v] = x
      BY <1>0, <2>1, <2>6, <3>1
    <3>5. RequestStored(x)'
      BY <2>4, <3>2, <3>3 DEF RequestStored
    <3> QED
      BY <3>4, <3>5
  <2> QED
    BY <2>5, <2>6
<1>6. CASE \E r \in Row, k \in Page : UploadChapterPages(v, r, k)
  <2>1. PICK r \in Row, k \in Page : UploadChapterPages(v, r, k)
    BY <1>6
  <2>2. req'[v].stage = "upload" /\ req'[v].page = 1
    BY <1>0, <2>1 DEF UploadChapterPages
  <2>3. 1 .. (1 - 1) = {}
    OBVIOUS
  <2> QED
    BY <2>2, <2>3 DEF RequestStored, Stored
<1>7. ASSUME NEW w \in Worker, AdminStep(w) PROVE Goal
  <2>1. CASE w # v
    <3>1. req'[v] = req[v]
      BY <1>0, <1>7, <2>1 DEF AdminStep, AdminDeleteChapter, DeleteRow, Destroy, UploadChapterPages,
         UploadObject, SavePages, Abort
    <3> QED
      BY <1>3, <3>1
  <2>2. CASE w = v /\ ((\E r \in Row : AdminDeleteChapter(v, r)) \/ SavePages(v) \/ Abort(v))
    BY <1>0, <1>4, <2>2 DEF AdminDeleteChapter, SavePages, Abort, Idle
  <2>3. CASE w = v /\ DeleteRow(v)
    <3>1. PICK x : x = [q EXCEPT !.stage = "destroy"]
      OBVIOUS
    <3>2. x.stage = "destroy"
      BY <3>1 DEF Request
    <3>3. req'[v] \in {x, Idle}
      BY <1>0, <1>1, <2>3, <3>1 DEF DeleteRow
    <3> QED
      BY <1>4, <3>2, <3>3 DEF Idle
  <2> QED
    BY <1>5, <1>6, <1>7, <2>1, <2>2, <2>3 DEF AdminStep, Destroys
<1>8. CASE Crash
  BY <1>4, <1>8 DEF Crash, Idle
<1>9. ASSUME NEW j \in Job, JobStep(j) PROVE req' = req
  BY <1>9 DEF JobStep, ReadComic, StartJob, FetchChapterLinks, LoadExistingChapters, CrawlChapter,
     DownloadAndUpload, CreateChapter, ChapterFails, JobExits, JobFails, MaxChapterNumber,
     UpdateLastChapter, UpdateFails
<1>10. \/ \E n \in Number, k \in 0 .. MaxPages : AdminCreateChapter(n, k)
       \/ \E r \in Row, k \in Page : AdminUpdateChapter(r, k)
       \/ \E t \in Target : AdminUpdateComic(t)
       \/ \E n \in Number : Publish(n)
       \/ UNCHANGED vars
       => req' = req
  BY DEF AdminCreateChapter, AdminUpdateChapter, AdminUpdateComic, Publish, vars
<1> QED
  BY <1>3, <1>7, <1>8, <1>9, <1>10 DEF Next

\* page_count is certain after a crawl and after an upload, which stored the images.
LEMMA RowStoredNext ==
  ASSUME ImagesInv, [Next]_vars, ~Destroys, NEW r \in Row, There(r)', chapters'[r].sure
  PROVE  \E n \in Number, k \in Int : /\ n = chapters'[r].number /\ k = chapters'[r].pages
                                       /\ Stored(n, k)'
<1> DEFINE Goal == \E n \in Number, k \in Int : /\ n = chapters'[r].number /\ k = chapters'[r].pages
                                                /\ Stored(n, k)'
<1>0. /\ TypeOK /\ TypeOK' /\ RowsKnown /\ chapters \in [Row -> Chapter] /\ job \in [Job -> JobState]
      /\ req \in [Worker -> Request] /\ MaxPages \in Nat
      /\ \A s \in Row : There(s) => chapters[s].number \in Number
  BY TypeNext, ChaptersAssumption DEF ImagesInv, TypeOK
<1>1. ASSUME NEW n \in Number, NEW k \in Int, Stored(n, k), chapters'[r].number = n, chapters'[r].pages = k
      PROVE  Goal
  BY <1>0, <1>1, StoredKept
<1>2. ASSUME chapters'[r] = chapters[r] PROVE Goal
  <2>1. There(r) /\ chapters[r].sure
    BY <1>2 DEF There
  <2>2. PICK n \in Number, k \in Int : n = chapters[r].number /\ k = chapters[r].pages
    BY <1>0, <2>1 DEF Chapter
  <2>3. Stored(n, k)
    BY <2>1, <2>2 DEF ImagesInv, ImagesAreThere, Stored
  <2> QED
    BY <1>1, <1>2, <2>2, <2>3
<1>3. ASSUME NEW n, NEW k, NEW b, NEW s, InsertChapter(n, k, b, s), chapters'[r] # chapters[r]
      PROVE  chapters'[r].number = n /\ chapters'[r].pages = k /\ chapters'[r].sure = s
  <2>1. PICK x : x = [state |-> "there", number |-> n, pages |-> k, byJob |-> b, sure |-> s]
    OBVIOUS
  <2>2. chapters'[r] = x
    BY <1>0, <1>3, <2>1 DEF InsertChapter
  <2> QED
    BY <2>1, <2>2
<1>4. ASSUME NEW j \in Job, JobStep(j) PROVE Goal
  <2>1. CASE CreateChapter(j) /\ chapters'[r] # chapters[r]
    <3>1. PICK q \in JobState : q = job[j]
      BY <1>0
    <3>2. q.stage = "insert" /\ InsertChapter(q.number, q.pages, ~q.blind, TRUE)
      BY <2>1, <3>1 DEF CreateChapter
    <3>3. q.number \in Number /\ q.pages \in Int
      BY <1>0, <3>1, <3>2 DEF TypeOK, JobState
    <3>4. Stored(q.number, q.pages)
      BY <3>1, <3>2 DEF ImagesInv, JobStored
    <3>5. chapters'[r].number = q.number /\ chapters'[r].pages = q.pages
      BY <1>3, <2>1, <3>2
    <3> QED
      BY <1>1, <3>3, <3>4, <3>5
  <2>2. CASE ~CreateChapter(j)
    <3>1. UNCHANGED chapters
      BY <1>4, <2>2 DEF JobStep, ReadComic, StartJob, FetchChapterLinks, LoadExistingChapters, CrawlChapter,
         DownloadAndUpload, ChapterFails, JobExits, JobFails, MaxChapterNumber, UpdateLastChapter, UpdateFails
    <3> QED
      BY <1>2, <3>1
  <2> QED
    BY <1>2, <2>1, <2>2
<1>5. ASSUME NEW w \in Worker, AdminStep(w) PROVE Goal
  <2>1. CASE DeleteRow(w)
    <3>1. chapters' = [chapters EXCEPT ![req[w].row] = [Free EXCEPT !.state = "deleted"]]
      BY <2>1 DEF DeleteRow
    <3>2. [Free EXCEPT !.state = "deleted"].state = "deleted"
      BY DEF Free
    <3> QED
      BY <1>0, <1>2, <3>1, <3>2 DEF There
  <2>2. CASE SavePages(w)
    <3>1. PICK q \in Request : q = req[w]
      BY <1>0
    <3>2. /\ q.stage = "save"
          /\ \/ UNCHANGED chapters
             \/ /\ There(q.row)
                /\ chapters' = [chapters EXCEPT ![q.row] = [chapters[q.row] EXCEPT !.pages = q.pages, !.sure = TRUE]]
      BY <2>2, <3>1 DEF SavePages
    <3>3. CASE chapters'[r] = chapters[r]
      BY <1>2, <3>3
    <3>4. CASE chapters'[r] # chapters[r]
      <4>1. q.row = r /\ There(r)
        BY <1>0, <3>2, <3>4
      <4>2. chapters[r].number = q.number /\ q.number \in Number /\ q.pages \in Int
        BY <1>0, <3>1, <3>2, <4>1 DEF RowsKnown, TypeOK, Request
      <4>3. PICK c \in Chapter : c = chapters[r]
        BY <1>0
      <4>4. PICK x : x = [c EXCEPT !.pages = q.pages, !.sure = TRUE]
        OBVIOUS
      <4>5. x.number = q.number /\ x.pages = q.pages
        BY <4>2, <4>3, <4>4 DEF Chapter
      <4>6. chapters'[r] = x
        BY <1>0, <3>2, <3>4, <4>1, <4>3, <4>4
      <4>7. Stored(q.number, q.pages)
        BY <3>1, <3>2 DEF ImagesInv, RequestStored
      <4> QED
        BY <1>1, <4>2, <4>5, <4>6, <4>7
    <3> QED
      BY <3>3, <3>4
  <2>3. CASE ~DeleteRow(w) /\ ~SavePages(w)
    <3>1. UNCHANGED chapters
      BY <1>5, <2>3 DEF AdminStep, AdminDeleteChapter, Destroy, UploadChapterPages, UploadObject, Abort
    <3> QED
      BY <1>2, <3>1
  <2> QED
    BY <2>1, <2>2, <2>3
<1>6. ASSUME NEW n \in Number, NEW k \in 0 .. MaxPages, AdminCreateChapter(n, k) PROVE Goal
  BY <1>2, <1>3, <1>6 DEF AdminCreateChapter
<1>7. ASSUME NEW s \in Row, NEW k \in Page, AdminUpdateChapter(s, k) PROVE Goal
  <2>1. chapters' = [chapters EXCEPT ![s] = [chapters[s] EXCEPT !.pages = k, !.sure = FALSE]]
    BY <1>7 DEF AdminUpdateChapter
  <2>2. [chapters[r] EXCEPT !.pages = k, !.sure = FALSE].sure = FALSE
    BY <1>0 DEF Chapter
  <2> QED
    BY <1>0, <1>2, <2>1, <2>2
<1>8. \/ \E t \in Target : AdminUpdateComic(t)
      \/ \E n \in Number : Publish(n)
      \/ Crash \/ UNCHANGED vars
      => UNCHANGED chapters
  BY DEF AdminUpdateComic, Publish, Crash, vars
<1> QED
  BY <1>2, <1>4, <1>5, <1>6, <1>7, <1>8 DEF Next

LEMMA ImagesNext == ImagesInv /\ [Next]_vars => ImagesInv'
<1> SUFFICES ASSUME ImagesInv, [Next]_vars PROVE ImagesInv'
  OBVIOUS
<1>1. TypeOK' /\ RowsKnown'
  BY TypeNext, RowsKnownNext DEF ImagesInv
<1>2. CASE Destroys
  BY <1>1, <1>2, DestroyKeeps DEF Destroys, ImagesInv
<1>3. CASE ~Destroys
  <2>1. ASSUME NEW r \in Row, There(r)', chapters'[r].sure
        PROVE  1 .. chapters'[r].pages \subseteq images'[chapters'[r].number] \/ chapters'[r].number \in torn'
    <3>1. PICK n \in Number, k \in Int : /\ n = chapters'[r].number /\ k = chapters'[r].pages
                                         /\ Stored(n, k)'
      BY <1>3, <2>1, RowStoredNext
    <3> QED
      BY <3>1 DEF Stored
  <2>2. ASSUME NEW i \in Job PROVE JobStored(job[i])'
    <3>1. PICK x : job'[i] = x /\ JobStored(x)'
      BY <1>3, JobStoredNext
    <3> QED
      BY <3>1 DEF JobStored, Stored
  <2>3. ASSUME NEW v \in Worker PROVE RequestStored(req[v])'
    <3>1. PICK x : req'[v] = x /\ RequestStored(x)'
      BY <1>3, RequestStoredNext
    <3> QED
      BY <3>1 DEF RequestStored, Stored
  <2> QED
    BY <1>1, <2>1, <2>2, <2>3 DEF ImagesInv, ImagesAreThere
<1> QED
  BY <1>2, <1>3

\* The images that page_count counts are there, unless images of the number were
\* destroyed while somebody else held it (main.go:181-198, upload.go:53-65,
\* admin.go:789-799).
THEOREM ImagesThere == Spec => []ImagesAreThere
<1>1. ImagesInv => ImagesAreThere
  BY DEF ImagesInv
<1> QED
  BY <1>1, ImagesInit, ImagesNext, PTL DEF Spec
=============================================================================
