# A formal model of the comic backend

The repository is a Go backend (fiber, gorm on PostgreSQL, go-redis, Cloudinary) of a comic reading
site, with a crawler that adds chapters. Every HTTP request is a goroutine; the only things requests
share are the tables, Redis and Cloudinary, and almost nothing is in a transaction. So the behaviour
worth a model is **which statement of which request runs when**: what a handler read, and what others
have written before it uses what it read. The modules here take a handler apart at exactly these
points, one action per statement (or per group of statements nobody can come between), and say what
still holds under every interleaving, with failing statements and stops of the process.

Paths below are relative to `src/`; `handlers/` stands for `internal/handlers/` and so on.

## 1. Inventory

| Part | Code | State it keeps | Operations | What is hard |
|---|---|---|---|---|
| Sessions | `handlers/auth.go`, `internal/auth/`, `middleware/auth.go`, bans and roles in `handlers/admin.go` | `users` (role, ban), `refresh_tokens`, signed access tokens in the hands of clients | Register, Login, Refresh (rotation in a transaction with `FOR UPDATE`), Logout, LogoutAll, ban, unban, role change | replayed and racing refreshes, a logout beside a refresh, a ban or role change beside a request that read the user before, an expired ban lifted after a new one was set |
| Rewards | `handlers/reward.go`, `handlers/ads.go`, `handlers/admin_ads.go`, points in `handlers/admin.go`, `utils/time.go` | `reading_history`, `points_log`, `users.points`, `user_adblock`, `ads_settings` | RewardRead, AdsCheck, ad settings, reset, manual and distributed points | counts and searches before the transaction, no unique keys, balance and log in separate statements, midnight |
| Permission cache | `middleware/admin.go`, AdminUpdatePermission | `role_permissions`, Redis hash `perms:<role>` | RequirePermission, grant, revoke | a loader that fills the hash after the DEL, expiry of the whole hash, pipelines that end half-way or are sent twice, a count that fails and is taken for 0 |
| Crawler scheduler and service | `internal/crawler/`, comics in `handlers/admin.go`, `utils/weekday.go` | `comics.crawler_*`, `crawler_logs`, the ticker, the scheduler's loop | ticks, runOnce, RunComic; create, update, delete a comic, run now | no lock per comic, stale copies of the row, a run that ends after the admin changed the mode, a stop during a job, starvation |
| Crawl job, chapters | `cmd/crawler/main.go`, chapters in `handlers/admin.go`, `handlers/upload.go` | `chapters`, images at Cloudinary, `crawler_last_chapter` | one process per run: list links, filter, download, upload, insert; create, edit, delete a chapter, upload its pages | overlapping and orphaned jobs, a failed chapter that is passed over, images named after the number and shared by all its rows |
| Support tickets | `handlers/support.go` | `support_tickets` (status), messages | create, reply, close | a reply beside a close, message and status in two statements |
| Comics, genres, slugs | `handlers/admin.go`, `handlers/admin_genres.go`, `utils/slug.go`, `db/slug_backfill.go` | `comics` and `genres` with unique slugs, `comic_genres` | create, rename, delete, set the genres, backfill at the start | search for a free slug statements before it is written, Replace in two statements, genres that cannot be read |
| Follows | `handlers/follow.go` | `comic_follows` | follow, unfollow | no unique key behind `ON CONFLICT` |
| Rate limits | `middleware/ratelimit.go`, `handlers/auth.go` | Redis counters `rl:*` and `login:*` with a life | Allow, count and clear login failures | INCR and EXPIRE are two commands, a fixed window, Redis that fails before or after it has run a command |
| View tracking | `handlers/traffic.go` | a mark in Redis per device, comic and day, `traffic_logs`, `comics.views` | track | SETNX, INSERT and UPDATE can each fail; midnight |
| Page lists, Cloudinary client | `handlers/pages_json.go`, `internal/storage/` | none of their own | list, upload, destroy | |
| Read caches, lists | `handlers/public.go` and the lists of all handlers | Redis keys with a lifetime | list, read | stale answers |
| Start-up, wiring, utilities | `cmd/api`, `internal/config`, `internal/db`, `internal/routes`, ... | none of their own | | |

The parts meet in the tables: sessions, rewards and the permission cache all read `users`, the
middleware runs before every handler, the scheduler, the job and the admin's handlers write the same
comics. They also share the goroutines of one API process: a stop of it ends the requests of all
parts at once, and after it no request is served before the backfill of slugs is over (module `Desk`).
The table definitions are those of `internal/models/models.go`, which AutoMigrate creates: no unique
key on `reading_history`, `chapters`, `comic_follows` and `traffic_logs`, a unique `user_id` in
`user_adblock`, a composite primary key in `role_permissions`, no foreign key on `crawler_logs`, and
none on `comic_genres`, which is made from the model `ComicGenre`.

`PROJECT.json` lists every part with its status, and every hazard at its line with the properties
that would catch it.

## 2. Modules

| Module | Models | Instances | Proofs |
|---|---|---|---|
| `Sessions` | sessions, bans, roles | `MCSessions`: `SessionsRotation.cfg`, `SessionsBans.cfg` | `Sessions_proofs` |
| `Logins` | what refresh tokens promise; abstract | instantiated by `Sessions` (`ImplementsLogins`) | `Sessions_proofs` |
| `Rewards` | rewards | `MCRewards`: `Rewards.cfg`, `RewardsDistribute.cfg` | `Rewards_proofs`, with `Sums_proofs` |
| `PermCache` | permission cache | `MCPermCache`: `PermCache.cfg`, `PermCacheFiveMinutes.cfg` | `PermCache_proofs` |
| `Checks` | what permission checks promise; abstract | instantiated by `PermCache` (`ImplementsChecks`) | `PermCache_proofs` |
| `Crawler` | crawler scheduler and service | `MCCrawler`: `Crawler.cfg`, `CrawlerLive.cfg` | `Crawler_proofs` |
| `Chapters` | crawl job, chapters and images | `MCChapters`: `ChaptersJobs.cfg`, `ChaptersAdmin.cfg` | `Chapters_proofs` |
| `Requests` | the goroutines that the next two share | by `Desk` | |
| `Tickets` | support tickets | by `Desk` | `Desk_proofs` |
| `Catalogue` | comics, genres, slugs, follows, backfill | by `Desk` | `Desk_proofs` |
| `Desk` | `Tickets` and `Catalogue` in one API process | `MCDesk`: `Desk.cfg` | `Desk_proofs` |
| `ClientKeys` | rate limits, login failures, view tracking | `MCClientKeys`: `ClientKeys.cfg` | `ClientKeys_proofs`, with `Sums_proofs` |

Conventions. A `Worker` (in `Crawler` a `Task`) is a goroutine that serves one request; `req[w].stage`
says which statement comes next and the rest of the record is what its local variables hold. A row
lock is "some worker's transaction holds it": statements that would wait are disabled until it
commits. PostgreSQL runs at READ COMMITTED, so a statement sees what was committed before it, and a
transaction's writes become visible in one action, its commit. `Abort` (and the `Failing` disjuncts)
ends a request between two statements, for every reason at once: an error, a client that went away, a
stop of the process; earlier statements stay, an open transaction rolls back. Variables in a `ghosts`
or `hist` tuple, or marked *history*, are not read by any action's guard; they exist for the properties.
Definitions called `X_Y` marked *Mutant* are broken versions of `X`, each of which some property
catches. Handlers that only read are not actions.

**`Sessions`.** `users` and `rows` are columns of the two tables. `RefreshRead`, `RefreshUser`,
`RefreshLock`, `RefreshCommit` and `RefreshReply` are the statements of Refresh;
`AutoUnban` is ensureNotBanned's UPDATE, which looks at nothing but the id; `LogoutAll` takes the
snapshot and `SweepRows` is the UPDATE once no other transaction holds one of its rows. Access tokens
are not in any table: `access[u][r]` is the latest expiry of one that was handed out, which is all
RequireAuth looks at. Left out: password checks (a wrong password changes no table; its counter is in
`ClientKeys`), cookies, the fingerprint, which is stored and never compared.

**`Logins`** says the same without tables, requests and locks: a login has one *holder*, a token that
can be refreshed; `Open` makes a login, `PassOn` gives it to a token never used before, `End` ends some
logins of one user, for good. `Sessions` implements it under the mapping at its end: a login is named
after its first row (`FirstRow`), its holder is the row that is live (`HolderOf`), and the tokens handed
out are the rows that were inserted. IssueTokens is an `Open`, RefreshCommit a `PassOn`, Logout and
SweepRows are an `End`; every other statement is a stutter. Liveness of rows here ignores expiry: a row
that expires still holds its login until the login is ended, as the code does nothing at expiry.

**`Rewards`.** RewardRead is cut into the read of the settings (which may create them), of the
ad-blocker report, the day's count, the search for the history row and the commit. A row that is
found ends with 409, which *rolls back* the save of `read_at`. The admin's payments are the balance
first and the log entry in a second statement, with the errors the code ignores ignored. `Owed(u)` is what
requests have added to the balance of `u` and are still to log, so `LedgerMatches` can speak of every state:
balance = log + owed, unless a statement was lost (`dirty`).

**`PermCache`.** One role. `FillField` is one HSET of the pipeline, `FillExpire` its EXPIRE, `FillFails`
its end at any point, and `FillAgain` go-redis sending it once more from its first command (`Resend`), as it may when the connection
breaks. A HGET that fails leads to the direct count (`CountAllow`, `CountRefuse`), as does a load that fails; a count that fails is answered 403 all the same
(`CountFails`). `*` is the wildcard. `reply` keeps the last answer, and whether it is such a 403, for the refinement; `late` the permissions that were
revoked and can be in the hash although the revocation's DEL ran or was lost: the next removal of the hash
takes out all but those a loader still holds, and a new grant takes out its own.

**`Checks`** says what a check promises. Most checks *look* at the table at one instant of their own (`Look`, or
`Answer` when looking and answering are one statement) and answer by it; a `Recall` answers yes from memory,
for a permission that is granted or *lags*: it was revoked and is not forgotten. No answer is a no from memory, and
nothing gets into the lag but by a revocation. What the promise does *not* contain is that a granted permission is never refused: `Deny` answers no
without having looked at the table, and says that it does (`failed`), because the code ignores the error of its count. So a no without `failed` is one the
table gave at an instant of the check. `PermCache` implements it: the instant is `LoadRows` or the
direct COUNT, however long the pipeline takes between the rows and the answer; a hit is a `Recall`; what lags
(`Lag`) is what is being revoked and what is in `late`. `CountFails` is a `Deny`. The commands of the pipeline are stutters.

**`Crawler`.** `Fire`, `TakeTick`, `LoadComics`, `RunNext` and `RunOnceReturns` are the scheduler's
loop; the ticker's channel holds one tick. A run goes through `Begin` (the time and the log row),
`JobEnds`, `UpdateLog` and `UpdateComic`, with the comic's `mode` as it was when the row was copied.
There is no clock: `checked[c]` is the *age* of `crawler_last_checked_at`, `Pass` makes every age one
older, up to `MaxAge`, the longest interval, which is all that `due` compares. So the model is finite
without a bound on time, and liveness can be checked. A job here only succeeds or fails.

**`Chapters`.** What a job does in the meantime, for one comic. `ReadComic` and `StartJob` are the copy
of the comic that RunComic works with and the process it starts; `FetchChapterLinks`,
`LoadExistingChapters`, `CrawlChapter`, `DownloadAndUpload`, `CreateChapter` and `JobExits` are the
process, `MaxChapterNumber` and `UpdateLastChapter` are RunComic again. `ChapterFails` is an error of
crawlChapter at any point, after which the job goes on with the next chapter; `JobFails` an error exit or
the kill at the deadline; `Crash` a stop of the API, which leaves its processes running with nobody
to wait for them. `images[n]` are the pages stored under chapter number `n`, which all rows of that number
share. The admin's requests (`AdminDeleteChapter`, `DeleteRow`, `Destroy` and `UploadChapterPages`,
`UploadObject`, `SavePages`) take one step per statement or call of Cloudinary.

**`Tickets`.** `ReplyTicket` is the handler's read of the ticket, where a closed one ends the request;
`CreateMessage` and `UpdateStatus` are its two writes, neither of which looks at the status again, so a
ticket can be closed, or opened again, between them. An ignored error of the second is a step of its own.

**`Catalogue`.** A slug is a base (what Slugify makes of a title or of a given slug) with a number.
`CountSlug` is one COUNT of the search, `Write` the INSERT or UPDATE, which the unique index refuses when
another request took the candidate; `ReplaceAdd` and `ReplaceDrop` are the two statements of gorm's Replace.
`ReplaceAdd` begins with the read of the genres asked for, whose error the code ignores: any part of them, or none, may be what Replace gets, and the comic
then loses the others with an ok answer. `AdminDeleteComic` is refused while a follow refers to the comic, and leaves its rows of `comic_genres`, which have no
foreign key: an update beside it may even add some for the comic that is gone. Keys come from a sequence, so no new comic has the key of one of these rows. `Backfill` and `Listen` are the start
of the API. Slugify itself is not modelled: which titles it makes equal does not matter to the properties.

**`Desk`** composes the two as the API process does: the same goroutines serve both (`OneRequest`), no
request of either is served before `Listen`, and `Crash` stops both. Requests of the two parts interleave
and share no table.

**`ClientKeys`.** What Redis keeps for one client. `Count` is the INCR of either
counter, `Expire` the EXPIRE of the request that created the key; `SetMark`, `LogView` and `ShowView` are
the command and the two statements of TrackView. Each can fail as the code lets it. A command of Redis fails before it was run, or
after, when only its answer is lost, and go-redis may have sent it more than once: `CountFails` is a request that is let through without a count, `CountLost` an INCR
done without an answer, which can create a key that nobody sets an expiry for, `ExpireLost` an EXPIRE that was not; with `MarkFails` a view is counted without a mark, and with `MarkLost` it
has a mark, which the repeated command takes for an earlier view. `blind` is the part of `passes` that had no count (`ByCount` is the rest). Keys have the time they still live, `Tick` lets it run out and
brings midnight; a request takes less than a day. Counters are counted up to one above the limit, where
the answer no longer changes; the counts of a day on which a command failed are not kept.

## 3. What the runs check

| Run | Instance | Shows |
|---|---|---|
| `sessions_rotation` | two users, two requests at once, clock stopped | `OneLivePerSession`, `RotationChain`, `DeadSessionStaysDead`: no replay or race forks or revives a login. `LogoutAllMissesOnlyRotated`: a logout from all devices misses exactly the logins rotated after its snapshot. `BanBoundsIssue`; `ImplementsLogins`: the refinement |
| `sessions_bans` | one user, one request at once, a clock of three instants, three roles | `BanBoundsAccess`, `StaleRoleBound`: how long after a ban or a role change an old access token works; `BanLiftedOnlyByRace`: a ban in force is lifted only by a request that started before it; `TypeOK` |
| `rewards` | one user, two chapters, two requests, two days, two settings rows, limit 1 | `DailyLimit`, `ChapterLimit`, `AdblockStopsRewards`: by how much each can be passed; `LedgerMatches` |
| `rewards_distribute` | the same | violation: readers of already rewarded chapters get no bonus (finding) |
| `permcache` | one permission and `*`, two requests, everything fails | `StaleOnlyByOverlap`, `ExpiryOnlyCutOff`, `TypeOK`; `ImplementsChecks`: the refinement |
| `permcache_five_minutes` | two permissions and `*`, nothing fails | violation: an entry outlives the five minutes (finding) |
| `crawler` | one comic, one admin's goroutine, everything fails | `RunningLogs`, `SpacedRuns`, `OffOnlyByFullSync`, `TypeOK` |
| `crawler_live` | two comics in the database at the start or not, three forms, deletes, no requests to run now | `SchedulerReturns`, `WantedIsCrawled`: neither comic starves the other |
| `chapters_jobs` | two jobs, two chapter numbers, three rows, with and without a target | `DuplicatesOnlyByOverlap`, `GapsAreExplained` |
| `chapters_admin` | one job and two admins, one chapter number, two rows, two pages | `ImagesAreThere`, `TypeOK` |
| `desk` | two requests, one ticket, one comic with two titles, two genres of one name, two candidates for a slug, one follow | `FewLateReplies`: how many messages a closed ticket can get; `StatusTellsWhoseTurn`; `SlugFromTitle`: whose slug a row has, and that it is its own; `GenresAreAsked`: what can make a comic's genres other than those asked for; `TypeOK` |
| `client_keys` | two requests, limits 2 and 1, a window of two instants, a day of two, Redis and database fail at any command, one uncounted request in a window | `PassesBounded`: how many pass in any time as long as the window, and that only requests whose INCR failed come on top; `NoExpiryOnlyCutOff`; `ViewCountedOnce`; `TypeOK` |

Three properties name an overlap that makes them give way, because it is what the code has: `OffOnlyByFullSync` an admin's write during the run,
`StatusTellsWhoseTurn` replies at once, `GenresAreAsked` edits at once and a read that failed. What they show is that nothing *else* does - no failure, stop, delete
or restart, and no order of the other statements. `ImplementsChecks` and `PassesBounded` make an exception of one failing command each, and bound it to the
requests whose command it was.

Several limits of the code are soft: the properties state how soft. `DailyLimit` is the limit *plus the
requests in progress less one*, `PassesBounded` twice the limit less one and what passes
uncounted, `FewLateReplies` the requests in
progress less one, and TLC reaches these values. `OneLivePerSession`, on the other hand, is
exact, and falls with the row lock (mutant `LockedByOther_NoLock`).

**Bounds and why they are enough.** Two requests at once suffice for the races of two actors; what
any number of requests can do is in the theorems. Two tokens (one login, one rotation) in
`sessions_bans` and three in `sessions_rotation` give a chain with a middle. `RefreshTTL` 2 against
`AccessTTL` 1 keeps their order; `Latency` bounds how long a request takes, which a clock needs to say
anything about requests that read before a ban. Two days contain one midnight. `MaxPoints` bounds only
what admins move. `MaxAge` is the longest interval of the instance, so cutting ages off there loses
nothing. `MaxLost` bounds how many log rows are left at *running*. `WeekDays` is 2 or 1 instead of 7:
a day that is chosen and one that is not. `OddForms` holds a mode and a weekday that do not exist and an interval below zero,
for the normalisation of the admin's requests. Two jobs and three rows let a number be inserted once
more often than `DuplicatesOnlyByOverlap` allows, two numbers and a target below both make a gap, two pages let images be
destroyed half-way. In `desk` (some 650,000 states) the two genres have one name between them, so they race for
its slugs; that all candidates of a base are taken (50 in the code, `MaxTries` 2) does not
happen there, as it takes as many rows besides. `MaxFollows` 1 is enough to keep a comic from being deleted. In
`client_keys` (some 2,080,000 states) a window of two instants lets a request come at its start, inside it and after it; `MaxBlind` 1 lets one request of the window pass without a count,
beside as many as the limit and its window let pass (the guard of `CountFails` is the only place that looks at it, and the theorems hold for every `MaxBlind`);
the counters of the rate limit and of failed logins differ in their limit, so that they are not symmetric.

**Deadlock** is checked in every run.

**Fairness.** Only `Crawler`'s `LiveSpec` assumes any: weak fairness of the ticker and of time, of the
scheduler's goroutine, and of each run's next statement. The Go runtime and the clock justify the first three; a run's job ends
because RunComic gives it a context with a deadline (`crawler/service.go:118`) and the runner starts
the process with it (`crawler/runner.go`). Nothing is assumed of admins, and no fairness says that a
statement or a job succeeds. In the liveness run statements do not fail (`Failing = FALSE`): a
database that never answers would keep every comic from being crawled; jobs do fail there. Its comics are in full sync or scheduled on
all days: an interval or a day that is not chosen only puts a run off, and requests to run now, which run beside the loop and not in it, are left to the run `crawler`.

## 4. Findings

1. `rewards_distribute`: the bonus for readers of today passes those whose chapters were rewarded
   before (`handlers/reward.go:77`).
2. `permcache_five_minutes`: a stale permission can be cached for longer than the five minutes the
   comment gives (`middleware/admin.go:31`), because any other miss renews the whole hash.

Other places where code and text disagree, seen while modelling and plain from the code, without a run
of their own:

- AdminCreateChapter answers "chapter number already exists" when its INSERT fails
  (`handlers/admin.go:731`), but no index makes it fail for that reason; a second row of the number is created.
- The branch that logs "crawler tick skipped" is dead (`crawler/scheduler.go:61`): the loop that would
  receive the tick is the one that runs the comics. The tick waits in the channel and is served late.
- GetComic's counter is commented "flush daily to DB" (`handlers/public.go:112`); nothing reads it.
- TrackView's `ON CONFLICT (comic_id, chapter_id, date)` (`handlers/traffic.go:48`) names no unique index
  of `models.TrafficLog`: on a database made by AutoMigrate the INSERT fails each time. `ClientKeys` lets
  it fail or succeed, so that both databases are covered.
- TestLoginRateLimit (`handlers/auth_test.go:78`) expects 429 after fewer failures than `loginFailLimit`, 10.

## 5. What is proved

TLAPS checks the following for all values of the constants that meet the assumptions named in the
modules (`SessionsAssumption`, `RewardsAssumption`, `PermCacheAssumption`, `CrawlerAssumption`,
`ChaptersAssumption`, `WorkerAssumption`, `TicketsAssumption`, `CatalogueAssumption`,
`ClientKeysAssumption`), in particular for any number of users, tokens, comics, chapters, tickets,
permissions and requests at once.

| Theorem | States | Along |
|---|---|---|
| `Sessions_proofs!TypeCorrect` | `TypeOK` | itself inductive |
| `OneLive`, `DeadStaysDead`, `LogoutAllMisses` | `OneLivePerSession`, `DeadSessionStaysDead`, `LogoutAllMissesOnlyRotated` | `SessionInv` |
| `RotationIsChain` | `RotationChain` | `ChainInv` |
| `SessionsImplementLogins` | `ImplementsLogins`, the refinement | `LoginsInv` |
| `BannedIssue` | `BanBoundsIssue` | `IssueInv` |
| `BannedAccess`, `StaleRole`, `BannedLifted` | `BanBoundsAccess`, `StaleRoleBound`, `BanLiftedOnlyByRace` | `SignInv` |
| `Rewards_proofs!TypeCorrect` | `TypeOK` | itself inductive |
| `DailyLimitHolds`, `ChapterLimitHolds`, `AdblockHolds` | `DailyLimit`, `ChapterLimit`, `AdblockStopsRewards` | `LimitInv`, `ChapterInv`, `BlockInv` |
| `LedgerHolds` | `LedgerMatches` | `LedgerInv` |
| `PermCache_proofs!TypeCorrect` | `TypeOK` | itself inductive |
| `StaleOverlap`, `ExpiryIsSet` | `StaleOnlyByOverlap`, `ExpiryOnlyCutOff` | `StaleInv`, `ExpiryInv` |
| `ChecksImplemented` | `ImplementsChecks`, the refinement | `StaleInv` |
| `Crawler_proofs!TypeCorrect`, `LogsTold` | `TypeOK`, `RunningLogs` | `LogsInv` |
| `OffByFullSync` | `OffOnlyByFullSync` | `CopiesInv` |
| `RunsSpaced` | `SpacedRuns` | `SpacedInv` |
| `RoundsAreBounded` | `RoundsEnd`: a round of the scheduler is over after at most `Work` steps of its own | `SpacedInv` |
| `Chapters_proofs!TypeCorrect` | `TypeOK` | itself inductive |
| `DuplicatesByOverlap` | `DuplicatesOnlyByOverlap` | `CopiesInv` |
| `GapsExplained` | `GapsAreExplained` | `GapsInv` |
| `ImagesThere` | `ImagesAreThere` | `ImagesInv` |
| `Desk_proofs!DeskComposes` | each behaviour of `Desk` is one of `Tickets` and one of `Catalogue` | steps of `Desk` are steps or stutters of both |
| `Desk_proofs!TypeCorrect` | `TypeOK` | itself inductive |
| `LateReplies`, `WhoseTurn` | `FewLateReplies`, `StatusTellsWhoseTurn` | `LateInv`, `TurnInv`, of `Tickets` alone |
| `SlugsFollowTitles`, `GenresAsAsked` | `SlugFromTitle`, `GenresAreAsked` | `CatalogueOK` with `SlugFromTitle`, `GenresInv`, of `Catalogue` alone |
| `ClientKeys_proofs!TypeCorrect` | `TypeOK` | itself inductive |
| `CountersExpire` | `NoExpiryOnlyCutOff` | with `TypeOK` inductive |
| `ViewsCountOnce` | `ViewCountedOnce` | `ViewInv` |
| `PassesAreBounded` | `PassesBounded` | `PassesInv` |
| `Sums_proofs` | the lemmas about sums that `LedgerHolds` and `PassesAreBounded` use | see below |

Why the strengthenings are needed:

- `SessionInv`. That a login has one live row is not inductive: a rotation adds a live row. It is kept
  because whoever is in the transaction holds a row that *is* live, and alone (`LocksExclusive`), and
  the commit revokes it. A login that is over stays over because a row revoked without a successor was the last
  (`EndedIsDead`).
- `ChainInv` adds that a refresh started after the row it replaces was inserted, so that the
  successor, whose expiry counts from the request's start, expires no earlier.
- `LoginsInv` adds to `SessionInv` that the rows of a login, and those a logout from all devices has
  selected, are one user's. Without it SweepRows could end logins of two users at once, which is no
  step of `Logins`.
- `IssueInv`, `LimitInv`, `ChapterInv`, `BlockInv` count: what was done since plus the requests past
  the check never exceed the bound together. Each step moves one request from the second set to the
  first count (`FS_*` facts on cardinality). `LateInv` does so for the messages of a closed ticket: whoever
  closed it was idle, so those that may still write are fewer than the workers.
- `SignInv` relates each request that still has to sign a token to the time of the ban or role change
  it missed.
- `LedgerInv` is `TypeOK` and `LedgerMatches`: with what is owed in it, the property is inductive. A
  step moves one request, and `OwedStep` says that what is owed changes by that request's payment alone; then
  each step changes the balance, the log and what is owed of a user by amounts that cancel out
  (`LedgerKept`), or sets `dirty`.
- `StaleInv` says of a loader's remaining writes what the property says of the hash. The refinement needs no
  more: it makes a hit a `Recall` of something granted or lagging. A pipeline that is sent again writes all it has loaded, so the invariant speaks of all
  rows of a loader, not of those it has still to write.
- `Crawler`: `LogsInv` is `TypeOK` with `RunningLogs`, because only the count of the log rows shows that
  no UPDATE takes one away that is not there. `CopiesInv` says that a copy of a comic's row tells its
  mode, unless an admin has written the row since (`Faithful`), and covers the copies that the scheduler
  has not come to yet. `SpacedInv` says for each comic in the queue that it may be begun whenever its turn
  comes (`MayBegin`), and that what holds back the next run is the run in progress or the row
  (`HeldBack`); it needs one copy per comic, and none of the comic being run. The same makes `Work` a
  measure: it counts five steps for each comic still to run and what is left of the run in progress, and each
  step of the scheduler takes it down (`RoundGoesOn`), while no step of admins, of other runs or of the
  clock takes it up (`RoundKept`). This is what `SchedulerReturns` rests on apart from fairness. Here, and
  only here, the theorem needs that there are finitely many comics.
- `Chapters`: `CopiesInv` counts the rows of a number with the jobs that have it still to do. `GapsInv`
  says that every number a job passes over is accounted for (`Accounted`, `Explained`) already in the
  copies of `crawler_last_chapter` and the lists of the jobs, whose chapters come in order. `ImagesInv` says of
  jobs and requests between upload and save what the property says of rows (`JobStored`, `RequestStored`).
- `TurnInv`: while it is clear who wrote last, no other reply is to write a status. `GenresInv`: a
  new row is known to one request only until its INSERT (`NewIsPrivate`), and a Replace that is alone has
  added what it keeps (`ReplaceAlone`), also for a comic that was deleted meanwhile. That a slug is a row's own needs nothing more: it
  is written in one statement with the title, by a request the unique index let pass (`SlugGiven`).
- `PassesInv`: the requests of the last window that passed by their count (`ByCount`) are those since the present key was created, which
  its counter bounds, and those of the key before. An INCR without an answer only raises the counter, so fewer pass. The latter are fewer than the limit, because the
  request that created their key is out of the window since the key expired. `PassesBounded` is the
  sum of both and of the requests without a count (`SumPlus`).
- `ViewInv`: one request at a time counts a view (`CountedBy`), because the mark outlives the day it was
  set on.

The theorems about `Desk` use the composition: the invariants are proved of `Tickets` and of
`Catalogue` by themselves, and `DeskComposes` carries them over.

Sums. `PassesBounded` and `Owed` are sums over a set of ages or of requests (`SumFunctionOnSet` of the community
modules, a fold defined by recursion), and an induction over finite sets whose claim is an operator is out of the
prover's reach. `Sums_proofs` goes round it: `SubsetInduction` states the induction with a *set* of subsets
in place of the operator and follows from the subsets of a finite set being well-founded under strict
inclusion (`FS_StrictSubsetOrderingWellFounded` and `WFMin`, in `LeastSubset`); and the sums of all subsets of a finite set are one function, which is extended one
element at a time (`SumsExtend`, `SumsExist`) and equals the fold (`SumIsSums`). The rest (`SumOut`, `SumSame`,
`SumChanged`, `SumMoved`, `SumPlus`, ...) follows by taking an element out.

Only model-checked: the liveness of `Crawler`, as ENABLED and fairness are out of the prover's reach, and the two
violations. `RoundsEnd` is the one property that is proved without a run of its own: in the run `crawler_live` it is
behind `SchedulerReturns`.

## 6. Not modelled

- Lists and read caches (`handlers/public.go` and the list handlers): they change no table; a cached answer
  is one SET with its expiry, which nothing invalidates, so it is stale for at most that lifetime.
- The direct ads and the ad statistics of `handlers/admin_ads.go`: single statements on tables nothing
  else reads.
- The pages of a chapter as a list, and the HTTP calls to Cloudinary: what they leave behind is in
  `Chapters`.
- Parsing of the source site's pages, and a source that changes between two looks at it.
- Configuration, connections, routing, logging, security headers, pagination, password hashing: they
  keep no state between requests.

What could be added, in this order: a common abstract specification of one run (it starts, ends, the last
chapter moves) that both `Crawler` and `Chapters` implement, so that the two compose; `Rewards` beside
`Sessions` over the same users.
