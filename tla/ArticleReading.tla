--------------------------- MODULE ArticleReading ---------------------------
(***************************************************************************)
(* What visitors obtain of articles while an administrator edits them.     *)
(*                                                                         *)
(* A request for an attachment, a comment, a view or an article reads the  *)
(* article, its references, the session and the right to read in           *)
(* statements of their own, some of them in another service that finds the *)
(* article again by its slug.  Saves commit in between: an article is      *)
(* renamed, made private or deleted, and a slug passes to another article. *)
(* Searches share one index in memory, which every save throws away after  *)
(* its commit.                                                             *)
(*                                                                         *)
(* One attachment stands for all: `cites' says which articles refer to it, *)
(* and it is staged while none does.  ManagedMedia models its life.        *)
(***************************************************************************)
EXTENDS Naturals

CONSTANTS
    Posts, Slugs,
    Requests,     \* requests in progress
    MaxEvents,    \* bound on commits of all kinds and ends of sessions
    MaxSaving,    \* bound on saves committed and not yet answered
    None

(* An article is asked for by its ID or by a slug, never by either. *)
ASSUME ArticleReadingAssumption ==
    /\ None \notin Posts \cup Slugs /\ Posts \cap Slugs = {}
    /\ MaxEvents \in Nat /\ MaxSaving \in Nat

VARIABLES
    post,     \* [Posts -> row of posts]
    alias,    \* [Slugs -> article in post_slug_aliases, or None]
    holder,   \* [Slugs -> the article that had the slug last, or None]
    reader,   \* the session a visitor's cookie names, and the articles bought
    cache,    \* the search index: payload and lock
    saving,   \* number of saves committed and not yet answered
    request,  \* [Requests -> request]
    events    \* commits and ends of sessions so far

rows == <<post, alias, holder>>
readingVars == <<rows, reader, cache, saving, request, events>>

Visibilities == {"public", "paid", "private"}
Kinds == {"media", "slug", "search"}

NoPost == [at |-> "absent", slug |-> None, vis |-> "private", cites |-> FALSE]
NoIndex == [at |-> "none", age |-> "fresh"]
NoRequest == [kind |-> "search", at |-> "idle", user |-> "reader", slug |-> None, post |-> None,
              asked |-> None, vis |-> "private", got |-> None, ever |-> {}, moved |-> FALSE]

Live(p) == post[p].at = "live"
HasCookie == reader.session # "none"

(* posts.slug comes before post_slug_aliases. *)
Named(s) == {p \in Posts : Live(p) /\ post[p].slug = s}
Resolve(s) == IF Named(s) # {} THEN CHOOSE p \in Named(s) : TRUE ELSE alias[s]

(* Articles become private, and refer to the attachment, by saves. *)
ReadingInit ==
    /\ post \in [Posts -> {NoPost} \cup [at : {"live"}, slug : Slugs, vis : {"public", "paid"}, cites : {FALSE}]]
    /\ \A p, q \in Posts : Live(p) /\ post[p].slug = post[q].slug => p = q
    /\ alias = [s \in Slugs |-> None]
    /\ holder = [s \in Slugs |-> Resolve(s)]
    /\ \E session \in {"none", "valid"} : reader = [session |-> session, rights |-> {}]
    /\ cache = NoIndex
    /\ saving = 0
    /\ request = [q \in Requests |-> NoRequest]
    /\ events = 0

(* What request r may rely on: facts about the articles it can be about,   *)
(* where row and who are the values of post and reader.                    *)
Facts(r, row, who) ==
    LET about == {p \in Posts : row[p].at = "live" /\ r.post \in {None, p} /\ r.kind # "search"} IN
    {<<row[p].vis, p>> : p \in {p \in about : row[p].vis # "private"}}
    \cup {<<"cited", p>> : p \in {p \in about : row[p].cites /\ r.kind = "media"}}
    \cup {<<"bought", p>> : p \in {p \in about : p \in who.rights /\ r.user = "reader"}}
    \cup {<<"session", p>> : p \in {p \in about : who.session = "valid" /\ r.user = "reader"}}

(* The requests in progress live through a change; moved: a slug passed    *)
(* from one article to another.                                            *)
Observe(moved) ==
    request' = [q \in Requests |->
                  LET r == request[q] IN
                  IF r.at = "idle" \/ r.moved THEN r
                  ELSE IF moved THEN [r EXCEPT !.moved = TRUE, !.ever = {}]
                  ELSE [r EXCEPT !.ever = @ \cup Facts(r, post', reader')]]

Event == events < MaxEvents /\ events' = events + 1

(***************************************************************************)
(* Saves                                                                   *)
(***************************************************************************)

(* An index that was read before this commit is older. *)
Aged == IF cache.at \in {"built", "ready"} /\ cache.age = "fresh"
        THEN [cache EXCEPT !.age = "older"] ELSE cache

(* The handler goes on to the cache, unless PostgreSQL's answer is lost. *)
Committed(moved) ==
    /\ Event
    /\ cache' = Aged
    /\ saving < MaxSaving
    /\ saving' \in {saving, saving + 1}
    /\ UNCHANGED reader
    /\ Observe(moved)

(* The slug is random, and no article's. *)
uniquePostSlug(s) == Resolve(s) = None

CreatePost(p, s, vis, cites) ==
    /\ post[p] = NoPost
    /\ uniquePostSlug(s)
    /\ post' = [post EXCEPT ![p] = [at |-> "live", slug |-> s, vis |-> vis, cites |-> cites]]
    /\ holder' = [holder EXCEPT ![s] = p]
    /\ UNCHANGED alias
    /\ Committed(holder[s] \notin {p, None})

(* Mutant: the empty slug of a request is stored. *)
SlugAsSent(p, s) == s
(* No slug in the request: the article keeps its own. *)
NewSlug(p, s) == IF s = None THEN post[p].slug ELSE s

(* Mutant: an alias stays although an article takes its slug. *)
AliasStays(a, p, old, new) == IF old = new THEN a ELSE [a EXCEPT ![old] = p]
Renamed(a, p, old, new) == IF old = new THEN a ELSE [a EXCEPT ![old] = p, ![new] = None]

Update(p, s, vis, cites) ==
    /\ Live(p)
    /\ Named(s) \subseteq {p}
    /\ post' = [post EXCEPT ![p] = [at |-> "live", slug |-> s, vis |-> vis, cites |-> cites]]
    /\ alias' = Renamed(alias, p, post[p].slug, s)
    /\ holder' = [x \in Slugs |-> IF x = s THEN p ELSE holder[x]]
    /\ Committed(\E x \in Slugs \cap {s} : holder[x] \notin {p, None})

UpdatePost(p, sent, vis, cites) == Update(p, NewSlug(p, sent), vis, cites)

Unlinked(a, p) == [s \in Slugs |-> IF a[s] = p THEN None ELSE a[s]]

(* Aliases and rights go with the row. *)
DeletePost(p) ==
    /\ Live(p)
    /\ Event
    /\ post' = [post EXCEPT ![p] = [NoPost EXCEPT !.at = "deleted"]]
    /\ alias' = Unlinked(alias, p)
    /\ reader' = [reader EXCEPT !.rights = @ \ {p}]
    /\ cache' = Aged
    /\ saving < MaxSaving /\ saving' \in {saving, saving + 1}
    /\ Observe(FALSE)
    /\ UNCHANGED holder

(* Mutant: the index is thrown away without its lock. *)
AnyTime == TRUE
Unlocked == cache.at \in {"none", "ready"}

(* An index without a save that was answered is behind. *)
Invalidated == IF cache.at = "ready" THEN NoIndex
               ELSE [cache EXCEPT !.age = IF @ = "older" THEN "behind" ELSE @]

(* Invalidate, and the answer of the save. *)
Invalidate ==
    /\ saving > 0
    /\ Unlocked
    /\ cache' = Invalidated
    /\ saving' = saving - 1
    /\ UNCHANGED <<rows, reader, request, events>>

(* The process stops: its requests, its saves and the index are gone. *)
Restart ==
    /\ cache' = NoIndex
    /\ saving' = 0
    /\ request' = [q \in Requests |-> NoRequest]
    /\ UNCHANGED <<rows, reader, events>>

(***************************************************************************)
(* The reader, elsewhere                                                   *)
(***************************************************************************)

(* Logged out, idle too long, or the password reset. *)
EndSession ==
    /\ Event
    /\ reader.session = "valid"
    /\ reader' = [reader EXCEPT !.session = "ended"]
    /\ UNCHANGED <<rows, cache, saving>>
    /\ Observe(FALSE)

(* The administrator completes an order. *)
Grant(p) ==
    /\ Event
    /\ Live(p) /\ p \notin reader.rights
    /\ reader' = [reader EXCEPT !.rights = @ \cup {p}]
    /\ UNCHANGED <<rows, cache, saving>>
    /\ Observe(FALSE)

(***************************************************************************)
(* Requests: the steps they share                                          *)
(***************************************************************************)

World == <<rows, reader, cache, saving, events>>

At(q, kind, at) == request[q].kind = kind /\ request[q].at = at

Go(q, at) == request' = [request EXCEPT ![q].at = at]
Ask(q, x) == request' = [request EXCEPT ![q].at = "check", ![q].asked = x]
Allow(q) == request' = [request EXCEPT ![q].at = "allowed", ![q].asked = None]
Obtain(q, p) == request' = [request EXCEPT ![q] = [NoRequest EXCEPT !.at = "done", !.kind = request[q].kind, !.user = request[q].user,
                                                    !.got = p, !.ever = request[q].ever, !.moved = request[q].moved]]
Refuse(q) == request' = [request EXCEPT ![q] = NoRequest]

(* An attachment is asked for with its article's ID, the rest with a slug. *)
Begin(q, kind, user, s, p) ==
    /\ request[q].at = "idle"
    /\ IF kind = "media" THEN p # None /\ s = None
       ELSE p = None /\ user # "admin" /\ (s = None <=> kind = "search")
    /\ LET r == [NoRequest EXCEPT !.kind = kind, !.at = "begun", !.user = user, !.slug = s, !.post = p]
       IN request' = [request EXCEPT ![q] = [r EXCEPT !.ever = Facts(r, post, reader)]]
    /\ UNCHANGED World

(* The client leaves, or a statement, paid-access or the store fails. *)
Fail(q) ==
    /\ request[q].at \notin {"idle", "done", "building", "built"}
    /\ Refuse(q)
    /\ UNCHANGED World

Finish(q) == request[q].at = "done" /\ Refuse(q) /\ UNCHANGED World

(* The first statement of internalAccessCheck, asked with the token of the *)
(* session and the slug the article had when it was read.                  *)
FindAccountBySession(q) ==
    /\ request[q].at = "check"
    /\ IF reader.session = "valid" THEN Go(q, "account") ELSE Refuse(q)
    /\ UNCHANGED World

(* Mutant: what is not private is open. *)
NotPrivate(p) == post[p].vis # "private"
Open(p) == post[p].vis = "public"

(* The second: the slug is looked up again. *)
FindArticle(q) ==
    LET p == Resolve(request[q].asked) IN
    /\ request[q].at = "account" /\ request[q].asked \in Slugs
    /\ CASE p # None /\ Open(p) -> Allow(q)
         [] p # None /\ post[p].vis = "paid" ->
              request' = [request EXCEPT ![q].at = "found", ![q].asked = p]
         [] OTHER -> Refuse(q)
    /\ UNCHANGED World

(* The third, by the ID that the second found. *)
HasEntitlement(q) ==
    /\ request[q].at = "found"
    /\ IF request[q].asked \in reader.rights THEN Allow(q) ELSE Refuse(q)
    /\ UNCHANGED World

(***************************************************************************)
(* Attachments                                                             *)
(***************************************************************************)

Staged == \A p \in Posts : ~post[p].cites

GetManagedAttachment(q) ==
    /\ At(q, "media", "begun")
    /\ Go(q, IF Staged THEN "staged" ELSE "committed")
    /\ UNCHANGED World

GetPostByID(q) ==
    LET p == request[q].post IN
    /\ request[q].at \in {"staged", "committed"} /\ request[q].asked = None
    /\ IF Live(p) THEN request' = [request EXCEPT ![q].asked = post[p].slug, ![q].vis = post[p].vis]
                  ELSE Refuse(q)
    /\ UNCHANGED World

(* The administrator previews an upload that no article refers to yet; an  *)
(* upload of another article, or one that expired, is refused.             *)
Preview(q) ==
    /\ request[q].at = "staged" /\ request[q].asked # None
    /\ \/ request[q].user = "admin" /\ Obtain(q, request[q].post)
       \/ Refuse(q)
    /\ UNCHANGED World

HasPostAttachmentReference(p) == Live(p) /\ post[p].cites

(* The visibility is that of the row read before. *)
serveManagedMedia(q) ==
    LET r == request[q] IN
    /\ r.at = "committed" /\ r.asked # None
    /\ IF ~HasPostAttachmentReference(r.post) THEN Refuse(q)
       ELSE IF r.user = "admin" \/ r.vis = "public" THEN Allow(q)
       ELSE IF HasCookie /\ r.vis = "paid" THEN Go(q, "check")
       ELSE Refuse(q)
    /\ UNCHANGED World

OpenObject(q) ==
    /\ At(q, "media", "allowed")
    /\ Obtain(q, request[q].post)
    /\ UNCHANGED World

(***************************************************************************)
(* Articles, comments and views                                            *)
(***************************************************************************)

requireReadablePost(q) ==
    LET p == Resolve(request[q].slug) IN
    /\ At(q, "slug", "begun")
    /\ CASE p # None /\ Open(p) -> Allow(q)
         [] p # None /\ post[p].vis = "paid" /\ HasCookie -> Ask(q, post[p].slug)
         [] OTHER -> Refuse(q)
    /\ UNCHANGED World

(* The slug is looked up again, and its comments are read, or it is written *)
(* to, by the ID.                                                          *)
GetPostBySlug(q) ==
    LET p == Resolve(request[q].slug) IN
    /\ At(q, "slug", "allowed")
    /\ IF p = None THEN Refuse(q)
       ELSE request' = [request EXCEPT ![q].at = "resolved", ![q].post = p]
    /\ UNCHANGED World

(* An article deleted since has no comments. *)
ListComments(q) ==
    /\ At(q, "slug", "resolved")
    /\ Obtain(q, request[q].post)
    /\ UNCHANGED World

(* The article is locked, and may be gone. *)
CreateComment(q) ==
    /\ At(q, "slug", "resolved")
    /\ IF Live(request[q].post) THEN Obtain(q, request[q].post) ELSE Refuse(q)
    /\ UNCHANGED World

(* The view's row refers to the article: without it the insertion fails. *)
RecordView(q) ==
    /\ At(q, "slug", "resolved")
    /\ IF Live(request[q].post) THEN Obtain(q, request[q].post) ELSE Refuse(q)
    /\ UNCHANGED World

(* A paid article is sent without its content. *)
getPost(q) ==
    LET p == Resolve(request[q].slug) IN
    /\ At(q, "slug", "begun")
    /\ IF p # None /\ Open(p) THEN Obtain(q, p) ELSE Refuse(q)
    /\ UNCHANGED World

(* paid-access reads the content first, and then asks who is reading. *)
article(q) ==
    LET p == Resolve(request[q].slug) IN
    /\ At(q, "slug", "begun")
    /\ CASE p # None /\ Open(p) -> Obtain(q, p)
         [] p # None /\ post[p].vis = "paid" /\ HasCookie -> Ask(q, p)
         [] OTHER -> Refuse(q)
    /\ UNCHANGED World

(* Without the right the content is removed from the answer. *)
unlock(q) ==
    /\ request[q].at = "account" /\ request[q].asked \in Posts
    /\ IF request[q].asked \in reader.rights THEN Obtain(q, request[q].asked) ELSE Refuse(q)
    /\ UNCHANGED World

(***************************************************************************)
(* Search                                                                  *)
(***************************************************************************)

HitIndex(q) ==
    /\ At(q, "search", "begun")
    /\ cache.at = "ready"
    /\ Go(q, "done")
    /\ UNCHANGED World

Build(q, from, to, index) ==
    /\ At(q, "search", from)
    /\ Go(q, to)
    /\ cache' = index
    /\ UNCHANGED <<rows, reader, saving, events>>

(* The lock is held until the index is stored. *)
GetOrBuild(q) ==
    /\ cache.at = "none"
    /\ Build(q, "begun", "building", [at |-> "locked", age |-> "fresh"])

GetSearchDocuments(q) == Build(q, "building", "built", [at |-> "built", age |-> "fresh"])

StoreIndex(q) == Build(q, "built", "done", [cache EXCEPT !.at = "ready"])

(* The builder's error leaves no index. *)
BuildFails(q) ==
    /\ At(q, "search", "building")
    /\ Refuse(q)
    /\ cache' = NoIndex
    /\ UNCHANGED <<rows, reader, saving, events>>

ReadingNext ==
    \/ \E p \in Posts :
          \/ \E vis \in Visibilities, cites \in BOOLEAN :
                \/ \E s \in Slugs : CreatePost(p, s, vis, cites)
                \/ \E s \in (Slugs \ {post[p].slug}) \cup {None} : UpdatePost(p, s, vis, cites)
          \/ DeletePost(p) \/ Grant(p)
    \/ Invalidate \/ Restart \/ EndSession
    \/ \E q \in Requests :
          \/ \E kind \in Kinds, user \in {"reader", "admin"},
                s \in Slugs \cup {None}, p \in Posts \cup {None} : Begin(q, kind, user, s, p)
          \/ FindAccountBySession(q) \/ FindArticle(q) \/ HasEntitlement(q)
          \/ GetManagedAttachment(q) \/ GetPostByID(q) \/ Preview(q)
          \/ serveManagedMedia(q) \/ OpenObject(q)
          \/ requireReadablePost(q) \/ GetPostBySlug(q)
          \/ ListComments(q) \/ CreateComment(q) \/ RecordView(q)
          \/ getPost(q) \/ article(q) \/ unlock(q)
          \/ HitIndex(q) \/ GetOrBuild(q) \/ GetSearchDocuments(q) \/ StoreIndex(q) \/ BuildFails(q)
          \/ Fail(q) \/ Finish(q)

ReadingSpec == ReadingInit /\ [][ReadingNext]_readingVars

(***************************************************************************)
(* Properties                                                              *)
(***************************************************************************)

Articles == Posts \cup {None}
FactNames == {"public", "paid", "cited", "bought", "session"}

ReadingTypeOK ==
    /\ post \in [Posts -> [at : {"absent", "live", "deleted"}, slug : Slugs \cup {None},
                           vis : Visibilities, cites : BOOLEAN]]
    /\ alias \in [Slugs -> Articles] /\ holder \in [Slugs -> Articles]
    /\ reader \in [session : {"none", "valid", "ended"}, rights : SUBSET Posts]
    /\ cache \in [at : {"none", "locked", "built", "ready"}, age : {"fresh", "older", "behind"}]
    /\ saving \in 0..MaxSaving /\ events \in 0..MaxEvents
    /\ \A p \in Posts : Live(p) => post[p].slug \in Slugs
    /\ \A q \in Requests : request[q].got \in Articles /\ request[q].ever \subseteq (FactNames \X Posts)

Was(q, fact) == <<fact, request[q].got>> \in request[q].ever

(* docs/paid-article-access.md: what a visitor obtains of an article was   *)
(* for that visitor to read at some time of the request (public, or paid   *)
(* with a valid session and the right), and an attachment was in the       *)
(* article, whatever was saved, bought or ended between the statements.    *)
(* So nothing is obtained by a request begun after the article became      *)
(* private.  The slug is looked up twice: a request during which a slug    *)
(* passes from one article to another is left out.                         *)
ShownWasReadable ==
    \A q \in Requests : request[q].at = "done" /\ request[q].got # None /\ ~request[q].moved =>
        /\ \/ request[q].user = "admin"
           \/ Was(q, "public")
           \/ Was(q, "paid") /\ Was(q, "bought") /\ Was(q, "session")
        /\ request[q].kind = "media" /\ request[q].user # "admin" => Was(q, "cited")

(* The index that searches share lacks no save that was answered, although *)
(* it is read while saves commit: the lock makes a save wait, with its     *)
(* answer, for an index read before its commit, and throw it away.         *)
IndexHasAnsweredSaves == cache.at = "ready" => cache.age # "behind"

(* A link leads to the article that had its slug last, as long as that     *)
(* article exists, and then nowhere: whatever renames and deletions there  *)
(* were, and never to an article that has had to give the slug up.         *)
OldLinksLive ==
    \A s \in Slugs : Resolve(s) = IF holder[s] # None /\ Live(holder[s]) THEN holder[s] ELSE None
=============================================================================
