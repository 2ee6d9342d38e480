----------------------------- MODULE Catalogue ------------------------------
(***************************************************************************)
(* Comics and genres: the slugs their addresses are made of, the genres of *)
(* a comic and its followers.  AdminCreateComic, AdminUpdateComic and      *)
(* AdminDeleteComic (handlers/admin.go), AdminCreateGenre and              *)
(* AdminUpdateGenre (handlers/admin_genres.go), the followers              *)
(* (handlers/follow.go) and the backfill of slugs at the start             *)
(* (db/slug_backfill.go).                                                  *)
(*                                                                         *)
(* A slug is searched with one COUNT per candidate and written by a later  *)
(* statement; the unique index on slug is what keeps two rows apart.  The  *)
(* crawler's columns of a comic are in Crawler.                            *)
(***************************************************************************)
EXTENDS Integers, Requests

CONSTANTS
    Comic,       \* rows of comics, in use or still free
    Genre,       \* rows of genres, in use or still free
    Title,       \* what Slugify makes of the titles of comics
    Name,        \* what Slugify makes of the slugs and names given for genres
    MaxTries,    \* candidates tried for one base (50)
    MaxFollows,  \* bound: rows of comic_follows for a comic
    NoBase,      \* of a free row, and of a request that leaves the title alone
    NoItem,
    Mixed        \* of a comic whose genres are not those one request asked for

ASSUME CatalogueAssumption ==
    /\ Comic \cap Genre = {}
    /\ NoItem \notin Comic \cup Genre
    /\ NoBase \notin Title \cup Name
    /\ MaxTries \in Nat \ {0} /\ MaxFollows \in Nat

VARIABLES
    row,         \* the tables comics and genres: base and slug
    tagged,      \* comic_genres: the genres of a comic, deleted ones included
    follows,     \* comic_follows: the number of a comic's rows
    edit,        \* what each worker is doing
    boot,        \* the start of the API: comics still to get a slug, or "up"
    asked        \* history: the genres the comic's last Replace was to set, or Mixed when
                 \* it overlapped with another, was cut off, or they could not be read

catalogueVars == <<row, tagged, follows, edit, boot, asked>>

Item     == Comic \cup Genre
Kin(i)   == IF i \in Comic THEN Comic ELSE Genre
Bases(i) == IF i \in Comic THEN Title ELSE Name
Base     == Title \cup Name

\* The slug of base b with number n: "b" for 0, "b-n" above.
Slug   == Base \X (0 .. MaxTries - 1)
NoSlug == <<NoBase, 0>>    \* NULL: a comic older than the column

\* base is what the slug was made of: a comic's title, the slug or name a request
\* gave for a genre.
Free == [there |-> FALSE, base |-> NoBase, slug |-> NoSlug]
Row  == [there : BOOLEAN, base : Base \cup {NoBase}, slug : Slug \cup {NoSlug}]

There(i) == row[i].there

\* COUNT ... WHERE slug = ? AND id <> ? of the table of i, before the row i is there
\* as well as after.
Taken(i, s) == \E k \in Kin(i) \ {i} : There(k) /\ row[k].slug = s

(***************************************************************************)
(* A request in progress.  stage says which statement comes next:          *)
(*   count   look whether candidate n of the base is taken                 *)
(*   write   INSERT or UPDATE of the row, with the candidate               *)
(*   add     insert the join rows of Replace                               *)
(*   drop    delete the other join rows of Replace                         *)
(* genres is what the request's genre ids ask for, {} if it has none.      *)
(***************************************************************************)
Edit == [stage : {"idle", "count", "write", "add", "drop"}, item : Item \cup {NoItem},
         new : BOOLEAN, base : Base \cup {NoBase}, n : 0 .. MaxTries - 1, genres : SUBSET Genre]

NoEdit == [stage |-> "idle", item |-> NoItem, new |-> FALSE, base |-> NoBase, n |-> 0,
           genres |-> {}]

EndEdit(w)  == edit' = [edit EXCEPT ![w] = NoEdit]
EditGoto(w, s) == edit' = [edit EXCEPT ![w] = [@ EXCEPT !.stage = s]]

Up == boot = [up |-> TRUE, todo |-> {}]

\* Comics of the time before slugs may be in the table; the process starts.
CatalogueInit ==
    /\ \E old \in SUBSET Comic, title \in [Comic -> Title] :
          /\ row = [i \in Item |-> IF i \in old
                                     THEN [there |-> TRUE, base |-> title[i], slug |-> NoSlug]
                                     ELSE Free]
          /\ boot = [up |-> FALSE, todo |-> old]
    /\ tagged = [c \in Comic |-> {}]
    /\ follows = [c \in Comic |-> 0]
    /\ edit = [w \in Worker |-> NoEdit]
    /\ asked = [c \in Comic |-> {}]

-----------------------------------------------------------------------------
(***************************************************************************)
(* The start: EnsureComicSlugs runs before the API listens.                *)
(***************************************************************************)

\* The search for base b ends at number n.
FirstFree(i, b, n) ==
    /\ ~Taken(i, <<b, n>>)
    /\ \A m \in 0 .. n - 1 : Taken(i, <<b, m>>)

\* Nobody else writes meanwhile: the search and the UPDATE of one comic are one step.
Backfill(c) ==
    /\ ~Up /\ c \in boot.todo
    /\ \E n \in 0 .. MaxTries - 1 :
          /\ FirstFree(c, row[c].base, n)
          /\ row' = [row EXCEPT ![c] = [@ EXCEPT !.slug = <<row[c].base, n>>]]
    /\ boot' = [boot EXCEPT !.todo = @ \ {c}]
    /\ UNCHANGED <<tagged, follows, edit, asked>>

\* All comics have a slug, or one failed, which ends the backfill with a warning.
Listen ==
    /\ ~Up
    /\ boot' = [up |-> TRUE, todo |-> {}]
    /\ UNCHANGED <<row, tagged, follows, edit, asked>>

-----------------------------------------------------------------------------
(***************************************************************************)
(* Saving a comic or a genre.                                              *)
(***************************************************************************)

\* AdminCreateComic, AdminCreateGenre: the search for a slug starts.  The key is the
\* one the INSERT will get, from a sequence: one that no row has, no row of
\* comic_genres names and no request knows.
Create(w, i, b, gs) ==
    /\ Up /\ edit[w].stage = "idle"
    /\ ~There(i) /\ \A v \in Worker : edit[v].item # i
    /\ i \in Genre => gs = {}
    /\ i \in Comic => tagged[i] = {}
    /\ edit' = [edit EXCEPT ![w] = [stage |-> "count", item |-> i, new |-> TRUE, base |-> b,
                                    n |-> 0, genres |-> gs]]
    /\ asked' = [c \in Comic |-> IF c = i THEN {} ELSE asked[c]]
    /\ UNCHANGED <<row, tagged, follows, boot>>

\* AdminUpdateComic, AdminUpdateGenre.  Without a title, or a slug, there is no
\* search and the UPDATE leaves both alone.
Update(w, i, b, gs) ==
    /\ Up /\ edit[w].stage = "idle"
    /\ There(i)
    /\ i \in Genre => gs = {}
    /\ b # NoBase \/ gs # {}
    /\ edit' = [edit EXCEPT ![w] =
                  [stage |-> IF b = NoBase THEN "add" ELSE "count",
                   item |-> i, new |-> FALSE, base |-> b, n |-> 0, genres |-> gs]]
    /\ UNCHANGED <<row, tagged, follows, boot, asked>>

\* ensureUniqueComicSlug, ensureUniqueGenreSlug: one candidate.
CountSlug(w) ==
    LET q == edit[w] IN
    /\ q.stage = "count"
    /\ \/ /\ ~Taken(q.item, <<q.base, q.n>>)
          /\ EditGoto(w, "write")
       \/ /\ Taken(q.item, <<q.base, q.n>>)
          /\ IF q.n + 1 < MaxTries
               THEN edit' = [edit EXCEPT ![w] = [q EXCEPT !.n = q.n + 1]]
               ELSE EndEdit(w)
    /\ UNCHANGED <<row, tagged, follows, boot, asked>>

\* Mutant: the column has no unique index.
Write_NotUnique(w) ==
    LET q == edit[w]
        s == <<q.base, q.n>>
    IN
    /\ q.stage = "write"
    /\ row' = IF q.new \/ There(q.item)
                 THEN [row EXCEPT ![q.item] = [there |-> TRUE, base |-> q.base, slug |-> s]]
                 ELSE row
    /\ IF q.genres # {} THEN EditGoto(w, "add") ELSE EndEdit(w)
    /\ UNCHANGED <<tagged, follows, boot, asked>>

\* The INSERT, or the UPDATE of title and slug, which finds no row when the comic was
\* deleted and goes on.  A slug that was taken meanwhile violates the unique index
\* and the request ends: with 500, or with "genre already exists".
Write(w) ==
    LET q == edit[w]
        s == <<q.base, q.n>>
    IN
    /\ q.stage = "write"
    /\ IF (q.new \/ There(q.item)) /\ Taken(q.item, s)
         THEN /\ EndEdit(w)
              /\ UNCHANGED row
         ELSE /\ row' = IF q.new \/ There(q.item)
                          THEN [row EXCEPT ![q.item] = [there |-> TRUE, base |-> q.base, slug |-> s]]
                          ELSE row
              /\ IF q.genres # {} THEN EditGoto(w, "add") ELSE EndEdit(w)
    /\ UNCHANGED <<tagged, follows, boot, asked>>

\* Replacing the genres of c, between the two statements of Replace.
Replacing(c) == {w \in Worker : edit[w].stage = "drop" /\ edit[w].item = c}

\* The genres with the ids are read, and Replace inserts a join row for each that is
\* missing, also when the comic was deleted: comic_genres has no foreign keys.  The
\* error of the read is ignored: what it got before it failed, or nothing, is all
\* that the comic is to keep.
ReplaceAdd(w) ==
    LET q     == edit[w]
        found == {g \in q.genres : There(g)}
    IN
    /\ q.stage = "add"
    /\ \E read \in SUBSET found :
          /\ edit' = [edit EXCEPT ![w] = [q EXCEPT !.stage = "drop", !.genres = read]]
          /\ tagged' = [tagged EXCEPT ![q.item] = @ \cup read]
          /\ asked' = [asked EXCEPT ![q.item] =
                          IF read = found /\ Replacing(q.item) = {} THEN found ELSE Mixed]
    /\ UNCHANGED <<row, follows, boot>>

\* Mutant: Replace only adds.
ReplaceDrop_Keep(w) ==
    /\ edit[w].stage = "drop"
    /\ EndEdit(w)
    /\ UNCHANGED <<row, tagged, follows, boot, asked>>

\* Replace deletes the comic's other join rows, those of a Replace beside it too.
ReplaceDrop(w) ==
    LET q == edit[w] IN
    /\ q.stage = "drop"
    /\ tagged' = [tagged EXCEPT ![q.item] = @ \cap q.genres]
    /\ EndEdit(w)
    /\ UNCHANGED <<row, follows, boot, asked>>

\* The foreign key of comic_follows refuses the DELETE of a comic with followers (500).
\* The comic's rows of comic_genres stay: the model ComicGenre, which AutoMigrate makes
\* the table from, declares no foreign key.
AdminDeleteComic(c) ==
    /\ Up /\ There(c)
    /\ follows[c] = 0
    /\ row' = [row EXCEPT ![c] = Free]
    /\ UNCHANGED <<tagged, follows, edit, boot, asked>>

\* No unique key on user and comic: ON CONFLICT DO NOTHING never finds a conflict, and
\* each follow adds a row.
FollowComic(c) ==
    /\ Up /\ There(c)
    /\ follows[c] < MaxFollows
    /\ follows' = [follows EXCEPT ![c] = @ + 1]
    /\ UNCHANGED <<row, tagged, edit, boot, asked>>

\* Deletes all rows of one user, of however many follows.
UnfollowComic(c) ==
    /\ Up
    /\ \E k \in 1 .. follows[c] : follows' = [follows EXCEPT ![c] = @ - k]
    /\ UNCHANGED <<row, tagged, edit, boot, asked>>

\* A statement fails or the client goes away; what was written stays.
AbortEdit(w) ==
    /\ edit[w].stage # "idle"
    /\ asked' = [c \in Comic |-> IF w \in Replacing(c) THEN Mixed ELSE asked[c]]
    /\ EndEdit(w)
    /\ UNCHANGED <<row, tagged, follows, boot>>

\* The API stops, and starts again with the backfill.
CatalogueCrash ==
    /\ asked' = [c \in Comic |-> IF Replacing(c) # {} THEN Mixed ELSE asked[c]]
    /\ edit' = [w \in Worker |-> NoEdit]
    /\ boot' = [up |-> FALSE, todo |-> {c \in Comic : There(c) /\ row[c].slug = NoSlug}]
    /\ UNCHANGED <<row, tagged, follows>>

CatalogueStep(w) ==
    \/ \E i \in Item, gs \in SUBSET Genre : \E b \in Bases(i) : Create(w, i, b, gs)
    \/ \E i \in Item, gs \in SUBSET Genre : \E b \in Bases(i) \cup {NoBase} : Update(w, i, b, gs)
    \/ CountSlug(w) \/ Write(w) \/ ReplaceAdd(w) \/ ReplaceDrop(w) \/ AbortEdit(w)

CatalogueOfComic(c) == Backfill(c) \/ AdminDeleteComic(c) \/ FollowComic(c) \/ UnfollowComic(c)

CatalogueNext ==
    \/ \E w \in Worker : CatalogueStep(w)
    \/ \E c \in Comic : CatalogueOfComic(c)
    \/ Listen \/ CatalogueCrash

CatalogueSpec == CatalogueInit /\ [][CatalogueNext]_catalogueVars

-----------------------------------------------------------------------------
(***************************************************************************)
(* Properties.                                                             *)
(***************************************************************************)

\* What each stage has in hand.
EditOK(q) ==
    /\ q.stage # "idle" => q.item \in Item
    /\ q.stage \in {"count", "write"} => q.base \in Bases(q.item)
    /\ q.stage \in {"add", "drop"} \/ q.genres # {} => q.item \in Comic

CatalogueOK ==
    /\ row \in [Item -> Row] /\ \A i \in Item : There(i) => row[i].base \in Bases(i)
    /\ tagged \in [Comic -> SUBSET Genre]
    /\ follows \in [Comic -> 0 .. MaxFollows]
    /\ edit \in [Worker -> Edit] /\ \A w \in Worker : EditOK(edit[w])
    /\ boot \in [up : BOOLEAN, todo : SUBSET Comic] /\ \A c \in boot.todo : There(c)
    /\ asked \in [Comic -> (SUBSET Genre) \cup {Mixed}]

\* The address of a comic is made of the title it has, of a genre of the slug that
\* was asked for last, and leads to no other comic, or genre: through all searches that
\* found the same candidate free, deletes and restarts between the search and the write
\* (admin.go:515, 558, 667-680; admin_genres.go:149; slug_backfill.go:20-25).
SlugFromTitle ==
    \A i \in Item : There(i) /\ row[i].slug # NoSlug =>
       row[i].slug[1] = row[i].base /\ ~Taken(i, row[i].slug)

\* A comic has the genres that the last request to set them asked for, unless another
\* one set them at the same time, the request was cut off, or its read of the genres
\* failed: Replace inserts first and deletes in a second statement, so two at once can
\* leave a comic without the genres of either, and a read that fails takes from the
\* comic the genres it has (admin.go:476-480, 564-570).
GenresAreAsked ==
    \A c \in Comic : Replacing(c) = {} => asked[c] \in {tagged[c], Mixed}

-----------------------------------------------------------------------------
(***************************************************************************)
(* The inductive invariants behind the properties (Desk_proofs).           *)
(***************************************************************************)

\* Until its INSERT a new row is known to one request only.
NewIsPrivate ==
    \A w \in Worker : edit[w].new /\ edit[w].stage \in {"count", "write"} =>
       /\ ~There(edit[w].item)
       /\ \A v \in Worker : v # w => edit[v].item # edit[w].item

\* A Replace in progress that is alone has added what it keeps.
ReplaceAlone ==
    \A c \in Comic : asked[c] # Mixed =>
       /\ \A v, w \in Replacing(c) : v = w
       /\ \A w \in Replacing(c) : edit[w].genres = asked[c] /\ asked[c] \subseteq tagged[c]

GenresInv == CatalogueOK /\ NewIsPrivate /\ ReplaceAlone /\ GenresAreAsked
=============================================================================
