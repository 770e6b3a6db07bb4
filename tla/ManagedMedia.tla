---------------------------- MODULE ManagedMedia ----------------------------
(***************************************************************************)
(* Attachments of articles and comments, from upload to removal.           *)
(*                                                                         *)
(* An upload reserves a row that expires, writes the object to a private   *)
(* store, and marks the row ready; a one-use token lets the save of its    *)
(* article, or a comment on it, commit it.  Articles share committed       *)
(* media through attachment_post_refs.  Cleaners (every API process runs   *)
(* one, and a failed upload starts one) take expired rows that nobody      *)
(* owns, remove the object, then the row.                                  *)
(*                                                                         *)
(* A transaction that locks the rows it decides on is one action.  The     *)
(* cleaner's claim is two: PostgreSQL evaluates the statement's conditions *)
(* in a snapshot, then locks the rows, and looks again only at the columns *)
(* of a row that changed in between.                                       *)
(***************************************************************************)
EXTENDS FiniteSets, Naturals

CONSTANTS
    Media,          \* attachments
    Posts, Comments,
    Cleaners,
    None,
    Quota           \* unclaimed comment uploads allowed (each counts as 1)

ASSUME MediaAssumption ==
    /\ None \notin Media \cup Posts \cup Comments
    /\ Posts \cap Comments = {}
    /\ Quota \in Nat

VARIABLES
    att,      \* [Media -> row of attachments]
    refs,     \* attachment_post_refs: pairs of an attachment and a post
    posts,    \* [Posts -> "absent", "live" or "deleted"]
    on,       \* [Comments -> its post, or None: not written yet]
    held,     \* migrated media whose public original is not retired and purged:
              \* media-migrate changes it, in MediaMigration
    shop,     \* media whose public URL a product or a tool has
    stored,   \* media whose object is in the store
    up,       \* [Media -> how far its upload handler, or its client, is]
    late,     \* [Media -> "no", or its write outlived its upload: it is "flying" or has "landed"]
    clean     \* [Cleaners -> [at, m]]

rows == <<att, refs, posts, on, held, shop>>
vars == <<rows, stored, up, late, clean>>

NoRow == [mode |-> "managed", state |-> "none", kind |-> "post", owner |-> None,
          ctx |-> None, pending |-> "no", token |-> FALSE]

Rows == [mode : {"managed", "legacy"},      \* legacy_public: of an earlier release
         state : {"none", "uploading", "ready", "deleting"},
         kind : {"post", "comment"},
         owner : Posts \cup Comments \cup {None},
         ctx : Posts \cup {None},
         pending : {"no", "live", "due"},   \* pending_until: NULL, ahead, passed
         token : BOOLEAN]

Exists(m) == att[m].state # "none"
Managed == {m \in Media : att[m].mode = "managed"}
Legacy  == Media \ Managed
RefsOf(m) == {p \in Posts : <<m, p>> \in refs}
Cited(p)  == {m \in Media : <<m, p>> \in refs}
Live(p)   == posts[p] = "live"

(* What earlier releases left: files of articles and comments, and uploads *)
(* nobody committed, some of which have never had an expiry.               *)
LegacyRows ==
    {r \in Rows : /\ r.mode = "legacy" /\ r.state = "ready" /\ r.ctx = None /\ r.pending # "due"
                  /\ r.owner # None => r.pending = "no" /\ r.owner \in (IF r.kind = "post" THEN Posts ELSE Comments)
                  /\ r.token => r.kind = "post" /\ r.pending = "live"}

Init ==
    /\ held = {}
    /\ posts \in [Posts -> {"absent", "live"}]
    /\ on \in [Comments -> {p \in Posts : Live(p)} \cup {None}]
    /\ att \in [Media -> {NoRow} \cup
                         {r \in LegacyRows : /\ r.owner \in Posts => Live(r.owner)
                                             /\ r.owner \in Comments => on[r.owner] # None}]
    /\ refs \in SUBSET (Legacy \X {p \in Posts : Live(p)})
    /\ shop \in SUBSET Legacy
    /\ stored = Legacy
    /\ up = [m \in Media |-> IF m \in Legacy THEN "done" ELSE "idle"]
    /\ late = [m \in Media |-> "no"]
    /\ clean = [k \in Cleaners |-> [at |-> "idle", m |-> None]]

-----------------------------------------------------------------------------
(* Upload: reserve, write, complete.  An advisory lock makes the check of  *)
(* the quota and the insertion one step.                                   *)
Unclaimed == {m \in Media : Exists(m) /\ att[m].kind = "comment" /\ att[m].owner = None}

Reserve(m, kind, p) ==
    /\ up[m] = "idle"
    /\ Live(p)
    /\ kind = "comment" => Cardinality(Unclaimed) < Quota
    /\ att' = [att EXCEPT ![m] = [NoRow EXCEPT !.state = "uploading", !.kind = kind,
                                             !.ctx = p, !.pending = "live", !.token = TRUE]]
    /\ up' = [up EXCEPT ![m] = "put"]
    /\ UNCHANGED <<refs, posts, on, held, shop, stored, late, clean>>

Put(m) ==
    /\ up[m] = "put"
    /\ stored' = stored \cup {m}
    /\ up' = [up EXCEPT ![m] = "stored"]
    /\ UNCHANGED <<rows, late, clean>>

(* The store refuses, or its answer is lost and the object may yet appear. *)
PutFails(m) ==
    /\ up[m] = "put"
    /\ up' = [up EXCEPT ![m] = "failed"]
    /\ \/ UNCHANGED late
       \/ late' = [late EXCEPT ![m] = "flying"]
    /\ UNCHANGED <<rows, stored, clean>>

Land(m) ==
    /\ late[m] = "flying"
    /\ late' = [late EXCEPT ![m] = "landed"]
    /\ stored' = stored \cup {m}
    /\ UNCHANGED <<rows, up, clean>>

Completable(m) ==
    att[m].state = "uploading" /\ att[m].owner = None /\ att[m].pending = "live"

Complete(m) ==
    /\ up[m] = "stored"
    /\ Completable(m)
    /\ att' = [att EXCEPT ![m].state = "ready"]
    /\ up' = [up EXCEPT ![m] = "done"]
    /\ UNCHANGED <<refs, posts, on, held, shop, stored, late, clean>>

(* No row matches, or PostgreSQL's answer is lost. *)
CompleteFails(m) ==
    /\ up[m] = "stored"
    /\ \/ UNCHANGED att
       \/ Completable(m) /\ att' = [att EXCEPT ![m].state = "ready"]
    /\ up' = [up EXCEPT ![m] = "failed"]
    /\ UNCHANGED <<refs, posts, on, held, shop, stored, late, clean>>

Abort(m) ==
    /\ up[m] = "failed"
    /\ IF att[m].state = "uploading" /\ att[m].owner = None
       THEN att' = [att EXCEPT ![m].state = "deleting", ![m].pending = "due"]
       ELSE UNCHANGED att
    /\ up' = [up EXCEPT ![m] = "ended"]
    /\ UNCHANGED <<refs, posts, on, held, shop, stored, late, clean>>

(* The process dies, the abort fails, or the client loses the token. *)
Vanish(m) ==
    /\ up[m] \in {"put", "stored", "failed", "done"}
    /\ up' = [up EXCEPT ![m] = "ended"]
    /\ \/ up[m] = "put" /\ late' = [late EXCEPT ![m] = "flying"]
       \/ UNCHANGED late
    /\ UNCHANGED <<rows, stored, clean>>

(* Time passes: 24 hours for an upload, 5 minutes for a cleaner's claim.  *)
(* A write that takes longer counts among those that outlive their upload. *)
Expire(m) ==
    /\ Exists(m)
    /\ att[m].pending = "live"
    /\ att' = [att EXCEPT ![m].pending = "due"]
    /\ late' = IF up[m] = "put" THEN [late EXCEPT ![m] = "flying"] ELSE late
    /\ UNCHANGED <<refs, posts, on, held, shop, stored, up, clean>>

-----------------------------------------------------------------------------
(* Claims and references. *)

(* syncPostMedia: a staged upload of this article, or a staged import of   *)
(* an earlier release, whose token the editor sends.                       *)
Claimable(m, p) ==
    /\ att[m].state = "ready" /\ att[m].owner = None /\ att[m].kind = "post"
    /\ att[m].pending = "live" /\ att[m].token /\ up[m] = "done"
    /\ m \in Managed => att[m].ctx \in {None, p}

(* Media the body cites without a token. *)
Reusable(m, p) ==
    IF m \in Legacy
    THEN att[m].state \in {"none", "ready"}
    ELSE /\ att[m].state = "ready" /\ att[m].pending = "no" /\ att[m].owner # None
         /\ att[m].kind = "comment" => <<m, p>> \in refs

(* Mutant: nothing is scheduled. *)
NeverScheduled(pending) == pending

Scheduled(pending) == IF pending = "no" THEN "live" ELSE pending

(* releaseUnreferencedAttachments: r after the references became left. *)
Released(m, r, left) ==
    IF r.owner = None /\ {p \in Posts : <<m, p>> \in left} = {}
    THEN [r EXCEPT !.pending = Scheduled(@)]
    ELSE r

Claimed(m, p) ==
    [att[m] EXCEPT !.owner = p, !.token = FALSE, !.pending = "no",
                   !.ctx = IF m \in Managed /\ @ = None THEN p ELSE @]

(* The save of a post whose body cites the media in body, with the tokens  *)
(* of claims sent along.                                                   *)
SyncPostMedia(p, body, claims) ==
    LET kept == {m \in body : Exists(m)}
        left == (refs \ (Media \X {p})) \cup (kept \X {p})
    IN
    /\ claims \subseteq body
    /\ \A m \in claims : Claimable(m, p)
    /\ \A m \in body \ claims : Reusable(m, p)
    /\ refs' = left
    /\ att' = [m \in Media |->
                 IF m \in claims THEN Claimed(m, p)
                 ELSE IF m \in Cited(p) \ body THEN Released(m, att[m], left)
                 ELSE att[m]]

CreatePost(p, body, claims) ==
    /\ posts[p] = "absent"
    /\ SyncPostMedia(p, body, claims)
    /\ posts' = [posts EXCEPT ![p] = "live"]
    /\ UNCHANGED <<on, held, shop, stored, up, late, clean>>

UpdatePost(p, body, claims) ==
    /\ Live(p)
    /\ SyncPostMedia(p, body, claims)
    /\ UNCHANGED <<posts, on, held, shop, stored, up, late, clean>>

OwnedThrough(m, p) ==
    /\ Exists(m)
    /\ \/ att[m].kind = "post" /\ att[m].owner = p
       \/ att[m].kind = "comment" /\ att[m].owner \in {c \in Comments : on[c] = p}

(* Mutants: nothing is done; shared media are released with the first      *)
(* article; an heir leaves owner_type as it was.                           *)
OrphanShared(m, p, left) ==
    LET r == [att[m] EXCEPT !.ctx = IF @ = p THEN None ELSE @] IN
    IF m \in Managed /\ OwnedThrough(m, p)
    THEN [r EXCEPT !.owner = None, !.pending = Scheduled(@)]
    ELSE r
NeverOrphaned(m, p, left) == [att[m] EXCEPT !.ctx = IF @ = p THEN None ELSE @]
OrphanKeepsKind(m, p, left) ==
    LET r     == [att[m] EXCEPT !.ctx = IF @ = p THEN None ELSE @]
        heirs == {q \in Posts : <<m, q>> \in left}
    IN
    IF m \in Managed /\ OwnedThrough(m, p)
    THEN IF heirs # {} THEN [r EXCEPT !.owner = CHOOSE q \in heirs : TRUE]
                       ELSE [r EXCEPT !.owner = None, !.pending = Scheduled(@)]
    ELSE IF OwnedThrough(m, p) \/ m \in Cited(p)
    THEN Released(m, r, left)
    ELSE r

(* The row after its article p is gone: managed media pass to an article   *)
(* that still cites them, or are released for cleaning.                    *)
Orphaned(m, p, left) ==
    LET r     == [att[m] EXCEPT !.ctx = IF @ = p THEN None ELSE @]
        heirs == {q \in Posts : <<m, q>> \in left}
    IN
    IF m \in Managed /\ OwnedThrough(m, p)
    THEN IF heirs # {} THEN [r EXCEPT !.kind = "post", !.owner = CHOOSE q \in heirs : TRUE]
                       ELSE [r EXCEPT !.owner = None, !.pending = Scheduled(@)]
    ELSE IF OwnedThrough(m, p) \/ m \in Cited(p)
    THEN Released(m, r, left)
    ELSE r

DeletePost(p) ==
    LET left == refs \ (Media \X {p}) IN
    /\ Live(p)
    /\ posts' = [posts EXCEPT ![p] = "deleted"]
    /\ refs' = left
    /\ att' = [m \in Media |-> Orphaned(m, p, left)]
    /\ UNCHANGED <<on, held, shop, stored, up, late, clean>>

CommentClaimable(m, p) ==
    /\ att[m].state = "ready" /\ att[m].owner = None /\ att[m].kind = "comment"
    /\ att[m].pending = "live" /\ att[m].token /\ up[m] = "done"
    /\ att[m].ctx = p

CreateComment(c, p, claims) ==
    /\ on[c] = None
    /\ Live(p)
    /\ \A m \in claims : CommentClaimable(m, p)
    /\ on' = [on EXCEPT ![c] = p]
    /\ att' = [m \in Media |->
                 IF m \in claims
                 THEN [att[m] EXCEPT !.owner = c, !.token = FALSE, !.pending = "no"]
                 ELSE att[m]]
    /\ UNCHANGED <<refs, posts, held, shop, stored, up, late, clean>>

-----------------------------------------------------------------------------
(* Cleaning. *)

(* A public original is not retired, or a product has the public file. *)
Kept(m) == m \in held \/ m \in Legacy \cap shop

(* The conditions of the statement, in its snapshot. *)
Look(k, m) ==
    /\ clean[k].at = "idle"
    /\ Exists(m) /\ att[m].owner = None /\ att[m].pending = "due"
    /\ RefsOf(m) = {} /\ ~Kept(m)
    /\ clean' = [clean EXCEPT ![k] = [at |-> "looked", m |-> m]]
    /\ UNCHANGED <<rows, stored, up, late>>

(* FOR UPDATE: the row, as it is now. *)
StillExpired(m) == Exists(m) /\ att[m].owner = None /\ att[m].pending = "due"

ClaimExpired(k) ==
    LET m == clean[k].m IN
    /\ clean[k].at = "looked"
    /\ StillExpired(m)
    /\ att' = [att EXCEPT ![m].state = "deleting", ![m].pending = "live"]
    /\ clean' = [clean EXCEPT ![k].at = "claimed"]
    /\ UNCHANGED <<refs, posts, on, held, shop, stored, up, late>>

RemoveObject(k) ==
    /\ clean[k].at = "claimed"
    /\ stored' = stored \ {clean[k].m}
    /\ clean' = [clean EXCEPT ![k].at = "removed"]
    /\ UNCHANGED <<rows, up, late>>

(* Mutant: the row goes even when its object could not be removed. *)
RowRemovableAnyhow(k) == clean[k].at \in {"claimed", "removed"}
RowRemovable(k) == clean[k].at = "removed"

DeleteClaimed(k) ==
    LET m == clean[k].m IN
    /\ RowRemovable(k)
    /\ IF att[m].state = "deleting" /\ att[m].owner = None /\ RefsOf(m) = {} /\ ~Kept(m)
       THEN att' = [att EXCEPT ![m] = [NoRow EXCEPT !.mode = att[m].mode]]
       ELSE UNCHANGED att
    /\ clean' = [clean EXCEPT ![k] = [at |-> "idle", m |-> None]]
    /\ UNCHANGED <<refs, posts, on, held, shop, stored, up, late>>

Stop(k) ==
    /\ clean' = [clean EXCEPT ![k] = [at |-> "idle", m |-> None]]
    /\ UNCHANGED <<rows, stored, up, late>>

(* The row has changed since. *)
Skip(k) == clean[k].at = "looked" /\ ~StillExpired(clean[k].m) /\ Stop(k)

(* The row is locked, the store refuses, or the process stops: the row     *)
(* keeps its expiry, or its claim of 5 minutes.                            *)
GiveUp(k) == clean[k].at # "idle" /\ Stop(k)

Proceed(k) == ClaimExpired(k) \/ Skip(k) \/ RemoveObject(k) \/ DeleteClaimed(k)

(* A product or a tool is saved with the public URL, or without it. *)
SaveProduct(m) ==
    /\ m \in Legacy \cup held
    /\ shop' = IF m \in shop THEN shop \ {m} ELSE shop \cup {m}
    /\ UNCHANGED <<att, refs, posts, on, held, stored, up, late, clean>>

Upload(m) == Put(m) \/ PutFails(m) \/ Complete(m) \/ CompleteFails(m) \/ Abort(m)

Save(p, body, claims) == CreatePost(p, body, claims) \/ UpdatePost(p, body, claims)

Others ==
    \/ \E m \in Media :
          \/ \E kind \in {"post", "comment"}, p \in Posts : Reserve(m, kind, p)
          \/ Upload(m) \/ Land(m) \/ Vanish(m) \/ Expire(m) \/ SaveProduct(m)
    \/ \E p \in Posts :
          \/ DeletePost(p)
          \/ \E c \in Comments : \E claims \in SUBSET Media : CreateComment(c, p, claims)
    \/ \E k \in Cleaners :
          \/ \E m \in Media : Look(k, m)
          \/ Proceed(k) \/ GiveUp(k)

Next ==
    \/ Others
    \/ \E p \in Posts, body \in SUBSET Media : \E claims \in SUBSET body : Save(p, body, claims)

Spec == Init /\ [][Next]_vars

-----------------------------------------------------------------------------
TypeOK ==
    /\ att \in [Media -> Rows]
    /\ \A m \in Media : att[m].owner # None =>
          att[m].owner \in IF att[m].kind = "post" THEN Posts ELSE Comments
    /\ refs \subseteq Media \X Posts
    /\ posts \in [Posts -> {"absent", "live", "deleted"}]
    /\ on \in [Comments -> Posts \cup {None}]
    /\ held \subseteq Managed /\ shop \subseteq Media
    /\ stored \subseteq Media
    /\ up \in [Media -> {"idle", "put", "stored", "failed", "done", "ended"}]
    /\ late \in [Media -> {"no", "flying", "landed"}]
    /\ clean \in [Cleaners -> [at : {"idle", "looked", "claimed", "removed"},
                               m : Media \cup {None}]]
    /\ \A k \in Cleaners : clean[k].at # "idle" => clean[k].m \in Media

(* Whatever cleaners, saves and uploads do at the same time, managed media *)
(* that an article cites or that an article or comment owns are there to   *)
(* be served: the row is ready and will not expire, the object is stored.  *)
CommittedIsStored ==
    \A m \in Managed : (att[m].owner # None \/ RefsOf(m) # {}) =>
        /\ att[m].state = "ready" /\ att[m].pending = "no" /\ att[m].owner # None
        /\ m \in stored

(* Managed media belong to an article, or to a comment on an article, that *)
(* exists: deleting articles that share them in any order neither leaves   *)
(* media nobody will ever remove nor references of a deleted article.      *)
OwnerAlive ==
    /\ \A m \in Managed : att[m].owner # None =>
          \/ att[m].kind = "post" /\ att[m].owner \in Posts /\ Live(att[m].owner)
          \/ att[m].kind = "comment" /\ att[m].owner \in Comments
             /\ on[att[m].owner] \in Posts /\ Live(on[att[m].owner])
    /\ \A r \in refs : Live(r[2])

(* No object is left in the private store without the row that counts it   *)
(* and will remove it, except by a write that outlived its upload.         *)
ObjectHasRow == \A m \in stored \cap Managed : late[m] = "no" => Exists(m)

(* An upload nobody commits, and media an article or comment leaves        *)
(* behind, do not stay, once no original is left to retire: the row is     *)
(* committed, or it is removed.                                            *)
UnusedIsRemoved ==
    \A m \in Media : m \in Managed \ held /\ Exists(m) /\ att[m].owner = None
                       ~> ~Exists(m) \/ att[m].owner # None

(* A public file of an earlier release that an article cites is stored:    *)
(* saving the article and cleaning the expired row are serialized.         *)
LegacyCitedIsStored == \A m \in Legacy : RefsOf(m) # {} => m \in stored
=============================================================================
