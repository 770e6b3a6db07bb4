------------------------ MODULE MediaMigrationProofs ------------------------
(* Proofs about ManagedMedia and MediaMigration for any media, articles,   *)
(* comments and cleaners.                                                  *)
EXTENDS MediaMigration, TLAPS

(***************************************************************************)
(* What has to be true for the properties to last                          *)
(***************************************************************************)

OwnersTyped ==
    \A m \in Media : att[m].owner # None =>
        att[m].owner \in IF att[m].kind = "post" THEN Posts ELSE Comments

(* Media nobody has uploaded yet have no row, and no cleaner has taken them. *)
IdleIsBlank ==
    \A m \in Media : up[m] = "idle" =>
        /\ ~Exists(m) /\ m \in Managed
        /\ \A k \in Cleaners : clean[k].m # m

(* What may still be claimed, or completed, has its object. *)
ReadyIsStored ==
    \A m \in Managed :
        att[m].state = "ready" \/ (att[m].state = "uploading" /\ up[m] = "stored") => m \in stored

(* A row a cleaner has claimed is never used again; the object it removed  *)
(* is gone, or comes back by a write that outlived its upload.             *)
ClaimedIsDead ==
    \A k \in Cleaners : clean[k].at \in {"claimed", "removed"} =>
        att[clean[k].m].state \in {"deleting", "none"}
RemovedIsGone ==
    \A k \in Cleaners : clean[k].at = "removed" => clean[k].m \notin stored \/ late[clean[k].m] # "no"

(* A write that is still expected has its row. *)
PutHasRow ==
    \A m \in Media : up[m] = "put" /\ late[m] = "no" => att[m].state = "uploading" /\ att[m].pending = "live"

(* Comments do not claim files of earlier releases, nor do uploads use     *)
(* copied ones.                                                            *)
LegacyHasNoContext == \A m \in Legacy : att[m].ctx = None
CopiedIsSettled == \A m \in Media : old[m].record # "none" => ~att[m].token /\ up[m] = "ended"

LinksLive == \A l \in links : Live(l[2])
CommentsPlaced == \A c \in Comments : on[c] \in Posts => posts[on[c]] # "absent"
CommentsWritten ==
    \A m \in Media : att[m].kind = "comment" /\ att[m].owner # None => on[att[m].owner] # None

(* In a maintenance window no cleaner is at work. *)
WindowIsQuiet == ~serving => \A k \in Cleaners : clean[k].at = "idle"

(* What the command has found out remains so until it acts on it. *)
ToolTyped ==
    /\ tool \in [at : {"idle", "copying", "verified", "retiring", "checked", "deleted", "purging", "absent"},
                 todo : SUBSET Media, m : Media \cup {None}]
    /\ tool.at \in {"verified", "checked", "deleted", "absent"} => tool.m \in tool.todo
ToolFindings ==
    /\ tool.at = "verified" => tool.m \in stored
    /\ tool.at \in {"retiring", "checked", "deleted"} => \A m \in tool.todo : old[m].record = "copied"
    /\ tool.at = "checked" => Unused(tool.m) /\ tool.m \in Managed /\ tool.m \in stored
    /\ tool.at = "deleted" => old[tool.m].object # "stored"
    /\ tool.at \in {"purging", "absent"} => \A m \in Media : old[m].object # "cached"
    /\ tool.at = "absent" => old[tool.m].object # "stored"

IInv ==
    /\ MigrationTypeOK /\ ToolTyped
    /\ CommittedIsStored /\ OwnerAlive /\ ObjectHasRow /\ HiddenIsMigrated
    /\ IdleIsBlank /\ ReadyIsStored /\ ClaimedIsDead /\ RemovedIsGone /\ PutHasRow
    /\ LegacyHasNoContext /\ CopiedIsSettled /\ LinksLive /\ CommentsPlaced /\ CommentsWritten
    /\ WindowIsQuiet /\ ToolFindings

(***************************************************************************)
(* How a row changes                                                       *)
(***************************************************************************)

(* The row of media that have none. *)
LEMMA BlankRow ==
  /\ NoRow \in Rows /\ NoRow.mode = "managed" /\ NoRow.state = "none" /\ NoRow.owner = None
  /\ NoRow.ctx = None /\ NoRow.kind = "post" /\ NoRow.pending = "no" /\ ~NoRow.token
  BY DEF NoRow, Rows

(* The row of a copy that was committed. *)
LEMMA CopiedRow ==
  ASSUME NEW owner \in Posts \cup Comments, NEW p \in Posts, NEW kind \in {"post", "comment"}, NEW n,
         n = [NoRow EXCEPT !.state = "ready", !.owner = owner, !.ctx = p, !.kind = kind]
  PROVE  /\ n \in Rows /\ n.mode = "managed" /\ n.state = "ready" /\ n.kind = kind /\ n.owner = owner
         /\ n.pending = "no" /\ ~n.token
  BY DEF NoRow, Rows

(* A claim gives the row an owner and ends its expiry. *)
LEMMA ClaimedRow ==
  ASSUME NEW m \in Media, att[m] \in Rows, NEW p \in Posts, NEW n, n = Claimed(m, p)
  PROVE  /\ n \in Rows /\ n.state = att[m].state /\ n.pending = "no" /\ n.owner = p
         /\ n.mode = att[m].mode /\ n.kind = att[m].kind /\ ~n.token
         /\ m \in Legacy => n.ctx = att[m].ctx
  BY DEF Rows, Claimed, Legacy

(* What already expires keeps its time. *)
LEMMA SchedulesOnce ==
  ASSUME NEW pend \in {"no", "live", "due"}
  PROVE  /\ Scheduled(pend) \in {"live", "due"}
         /\ pend # "no" => Scheduled(pend) = pend
  BY DEF Scheduled

(* Media that are owned or cited are not released. *)
LEMMA ReleasedRow ==
  ASSUME NEW m \in Media, NEW r \in Rows, NEW left, NEW n, n = Released(m, r, left)
  PROVE  /\ n \in Rows /\ n.state = r.state
         /\ n.pending = r.pending \/ n.pending = Scheduled(r.pending)
         /\ r.owner # None \/ (\E q \in Posts : <<m, q>> \in left) => n.pending = r.pending
         /\ n.mode = r.mode /\ n.kind = r.kind /\ n.owner = r.owner /\ n.ctx = r.ctx
         /\ n.token <=> r.token
<1>1. CASE r.owner = None /\ {q \in Posts : <<m, q>> \in left} = {}
  <2>1. n = [r EXCEPT !.pending = Scheduled(r.pending)]
    BY <1>1 DEF Released
  <2>2. Scheduled(r.pending) \in {"no", "live", "due"}
    BY SchedulesOnce DEF Rows
  <2> QED
    BY <1>1, <2>1, <2>2 DEF Rows
<1>2. CASE ~(r.owner = None /\ {q \in Posts : <<m, q>> \in left} = {})
  <2>1. n = r
    BY <1>2 DEF Released
  <2> QED
    BY <2>1
<1> QED
  BY <1>1, <1>2

(* Media pass to an article that cites them, or belong to nobody: n is the  *)
(* row of m after p was deleted.                                            *)
Orphan(m, p, left, n) ==
    /\ n \in Rows /\ n.state = att[m].state /\ n.mode = att[m].mode
    /\ n.token <=> att[m].token
    /\ n.ctx \in {att[m].ctx, None}
    /\ n.pending = att[m].pending \/ n.pending = Scheduled(att[m].pending)
    /\ (\E q \in Posts : <<m, q>> \in left) => n.pending = att[m].pending
    /\ \/ /\ m \in Managed /\ OwnedThrough(m, p)
          /\ \/ n.owner \in Posts /\ <<m, n.owner>> \in left /\ n.kind = "post" /\ n.pending = att[m].pending
             \/ n.owner = None /\ n.kind = att[m].kind /\ ~ \E q \in Posts : <<m, q>> \in left
       \/ /\ ~(m \in Managed /\ OwnedThrough(m, p))
          /\ n.owner = att[m].owner /\ n.kind = att[m].kind
          /\ n.owner # None => n.pending = att[m].pending

(* The deletion of an article does so to every row. *)
LEMMA OrphanedRow ==
  ASSUME NEW m \in Media, att[m] \in Rows, NEW p \in Posts, NEW left
  PROVE  Orphan(m, p, left, Orphaned(m, p, left))
<1> SUFFICES ASSUME NEW n, n = Orphaned(m, p, left) PROVE Orphan(m, p, left, n)
  OBVIOUS
<1> DEFINE r == [att[m] EXCEPT !.ctx = IF @ = p THEN None ELSE @]
<1> DEFINE heirs == {q \in Posts : <<m, q>> \in left}
<1>1. /\ r \in Rows /\ r.state = att[m].state /\ r.mode = att[m].mode /\ r.kind = att[m].kind
      /\ r.owner = att[m].owner /\ r.pending = att[m].pending
      /\ r.token <=> att[m].token
      /\ r.ctx \in {att[m].ctx, None}
  BY DEF Rows
<1>2. r.pending \in {"no", "live", "due"} /\ Scheduled(r.pending) \in {"no", "live", "due"}
  BY <1>1, SchedulesOnce DEF Rows
<1>3. CASE m \in Managed /\ OwnedThrough(m, p) /\ heirs # {}
  <2>1. n = [r EXCEPT !.kind = "post", !.owner = CHOOSE q \in heirs : TRUE]
    BY <1>3 DEF Orphaned
  <2>2. (CHOOSE q \in heirs : TRUE) \in heirs
    BY <1>3
  <2>3. PICK q \in heirs : n = [r EXCEPT !.kind = "post", !.owner = q]
    BY <2>1, <2>2
  <2> HIDE DEF r
  <2> QED
    BY <1>1, <1>3, <2>3 DEF Rows, Orphan
<1>4. CASE m \in Managed /\ OwnedThrough(m, p) /\ heirs = {}
  <2>1. n = [r EXCEPT !.owner = None, !.pending = Scheduled(r.pending)]
    BY <1>4 DEF Orphaned
  <2> HIDE DEF r
  <2> QED
    BY <1>1, <1>2, <1>4, <2>1 DEF Rows, Orphan
<1>5. CASE ~(m \in Managed /\ OwnedThrough(m, p)) /\ (OwnedThrough(m, p) \/ m \in Cited(p))
  <2>1. n = Released(m, r, left)
    BY <1>5 DEF Orphaned
  <2> HIDE DEF r
  <2> QED
    BY <1>1, <1>5, <2>1, ReleasedRow DEF Orphan
<1>6. CASE ~(m \in Managed /\ OwnedThrough(m, p)) /\ ~(OwnedThrough(m, p) \/ m \in Cited(p))
  <2>1. n = r
    BY <1>6 DEF Orphaned
  <2> QED
    BY <1>1, <1>6, <2>1 DEF Orphan
<1> QED
  BY <1>3, <1>4, <1>5, <1>6

(***************************************************************************)
(* The steps                                                               *)
(***************************************************************************)

(* What a request to the API, or a cleaner's step, leaves to the migration. *)
Api ==
    /\ serving
    /\ links' = {l \in links : posts'[l[2]] = "live"}
    /\ vis' = [p \in Posts |-> IF posts'[p] = "deleted" THEN "public" ELSE vis[p]]
    /\ UNCHANGED <<old, serving, tool>>

UploadStep(m) == Put(m) \/ PutFails(m) \/ Complete(m) \/ CompleteFails(m) \/ Abort(m) \/ Land(m) \/ Vanish(m) \/ Expire(m)
CleanerStep(k) == ClaimExpired(k) \/ Skip(k) \/ RemoveObject(k) \/ DeleteClaimed(k) \/ GiveUp(k)

(* The steps of Others, one kind each. *)
LEMMA ApiSteps ==
  ASSUME Serve(Others)
  PROVE  /\ Api
         /\ \/ \E m \in Media, kind \in {"post", "comment"}, p \in Posts : Reserve(m, kind, p)
            \/ \E m \in Media : UploadStep(m)
            \/ \E m \in Media : SaveProduct(m)
            \/ \E p \in Posts : DeletePost(p)
            \/ \E p \in Posts, c \in Comments, claims \in SUBSET Media : CreateComment(c, p, claims)
            \/ \E k \in Cleaners, m \in Media : Look(k, m)
            \/ \E k \in Cleaners : CleanerStep(k)
<1>1. Api /\ Others
  BY DEF Serve, Api
<1> QED
  BY <1>1, Zenon DEF Others, Upload, Proceed, UploadStep, CleanerStep

(* The operator's steps, and the command's but for commitCopy, leave the    *)
(* rows, the objects, the uploads and the cleaners alone.                   *)
OpsStep ==
    \/ OpenWindow \/ CloseWindow \/ ClearCaches
    \/ Audit \/ (\E m \in Media : Copy(m)) \/ Retire \/ (\E m \in Media : CheckOriginal(m))
    \/ DeleteOriginal \/ RecordRetired
    \/ ConfirmPurge \/ (\E m \in Media : VerifyAbsent(m)) \/ RecordPurged \/ EndTool

(* The objects and the rows of all those steps are as before. *)
LEMMA OpsFrame ==
  ASSUME OpsStep
  PROVE  UNCHANGED <<att, refs, posts, on, shop, stored, up, late, clean, links, vis>>
  BY DEF OpsStep, OpenWindow, CloseWindow, ClearCaches, Audit, Copy, Retire, CheckOriginal, DeleteOriginal,
         RecordRetired, ConfirmPurge, VerifyAbsent, RecordPurged, EndTool, vars, rows

(* Every step is of one of these kinds. *)
LEMMA Steps ==
  ASSUME [MigrationNext]_allvars
  PROVE  \/ \E p \in Posts, visibility \in {"public", "hidden"}, body \in SUBSET Media, again \in SUBSET Media :
              \E claims \in SUBSET body : SavePost(p, visibility, body, claims, again)
         \/ Serve(Others)
         \/ commitCopy
         \/ OpsStep
         \/ UNCHANGED allvars
  BY Zenon DEF MigrationNext, Migrate, OpsStep

(***************************************************************************)
(* What each step does                                                     *)
(***************************************************************************)

(* A save gives its article the media of the body, and owns those claimed. *)
SaveChange(p, body, claims) ==
    /\ serving /\ UNCHANGED <<on, held, shop, stored, up, late, clean, old, serving, tool>>
    /\ posts' = [posts EXCEPT ![p] = "live"] /\ posts[p] # "deleted"
    /\ refs' \subseteq Media \X Posts
    /\ \A m \in Media, q \in Posts : <<m, q>> \in refs' <=>
         IF q = p THEN m \in body /\ Exists(m) ELSE <<m, q>> \in refs
    /\ \A m \in claims : Claimable(m, p)
    /\ \A m \in body \ claims : Reusable(m, p)
    /\ att' \in [Media -> Rows]
    /\ \A m \in Media :
         /\ att'[m].mode = att[m].mode /\ att'[m].state = att[m].state /\ att'[m].kind = att[m].kind
         /\ m \in Legacy => att'[m].ctx = att[m].ctx
         /\ m \in claims => att'[m].owner = p /\ att'[m].pending = "no" /\ ~att'[m].token
         /\ m \notin claims =>
              /\ att'[m].owner = att[m].owner
              /\ att'[m].token <=> att[m].token
              /\ att'[m].pending = att[m].pending \/ att'[m].pending = Scheduled(att[m].pending)
              /\ att[m].owner # None \/ (\E q \in Posts : <<m, q>> \in refs')
                   => att'[m].pending = att[m].pending

(* SavePost does that. *)
LEMMA SaveEffect ==
  ASSUME TypeOK, NEW p \in Posts, NEW visibility, NEW body \in SUBSET Media, NEW again,
         NEW claims \in SUBSET body, SavePost(p, visibility, body, claims, again)
  PROVE  SaveChange(p, body, claims)
<1> USE DEF SaveChange
<1> DEFINE kept == {m \in body : Exists(m)}
<1> DEFINE left == (refs \ (Media \X {p})) \cup (kept \X {p})
<1>1. Save(p, body, claims) /\ serving /\ UNCHANGED <<old, serving, tool>>
  BY DEF SavePost
<1>2. /\ SyncPostMedia(p, body, claims) /\ UNCHANGED <<on, held, shop, stored, up, late, clean>>
      /\ posts' = [posts EXCEPT ![p] = "live"] /\ posts[p] # "deleted"
  BY <1>1 DEF Save, CreatePost, UpdatePost, Live, TypeOK
<1>3. /\ refs' = left
      /\ \A m \in claims : Claimable(m, p)
      /\ \A m \in body \ claims : Reusable(m, p)
      /\ att' = [m \in Media |-> IF m \in claims THEN Claimed(m, p)
                                 ELSE IF m \in Cited(p) \ body THEN Released(m, att[m], refs')
                                 ELSE att[m]]
  BY <1>2 DEF SyncPostMedia
<1>4. refs' \subseteq Media \X Posts
  BY <1>3 DEF TypeOK
<1>5. \A m \in Media, q \in Posts : <<m, q>> \in refs' <=>
        IF q = p THEN m \in body /\ Exists(m) ELSE <<m, q>> \in refs
  BY <1>3
<1>6. ASSUME NEW m \in Media
      PROVE  /\ att'[m] \in Rows
             /\ att'[m].mode = att[m].mode /\ att'[m].state = att[m].state /\ att'[m].kind = att[m].kind
             /\ m \in Legacy => att'[m].ctx = att[m].ctx
             /\ m \in claims => att'[m].owner = p /\ att'[m].pending = "no" /\ ~att'[m].token
             /\ m \notin claims =>
                  /\ att'[m].owner = att[m].owner
                  /\ att'[m].token <=> att[m].token
                  /\ att'[m].pending = att[m].pending \/ att'[m].pending = Scheduled(att[m].pending)
                  /\ att[m].owner # None \/ (\E q \in Posts : <<m, q>> \in refs')
                       => att'[m].pending = att[m].pending
  <2>1. att[m] \in Rows
    BY DEF TypeOK
  <2>2. CASE m \in claims
    <3>1. att'[m] = Claimed(m, p)
      BY <1>3, <2>2
    <3> QED
      BY <2>1, <2>2, <3>1, ClaimedRow
  <2>3. CASE m \notin claims /\ m \in Cited(p) \ body
    <3>1. att'[m] = Released(m, att[m], refs')
      BY <1>3, <2>3
    <3> QED
      BY <2>1, <2>3, <3>1, ReleasedRow
  <2>4. CASE m \notin claims /\ m \notin Cited(p) \ body
    <3>1. att'[m] = att[m]
      BY <1>3, <2>4
    <3> QED
      BY <2>1, <2>4, <3>1
  <2> QED
    BY <2>2, <2>3, <2>4
<1>7. att' \in [Media -> Rows]
  BY <1>3, <1>6
<1> QED
  BY <1>1, <1>2, <1>3, <1>4, <1>5, <1>6, <1>7

(* A deletion passes on or releases what belonged to the article. *)
DeleteChange(p) ==
    /\ UNCHANGED <<on, held, shop, stored, up, late, clean>>
    /\ Live(p) /\ posts' = [posts EXCEPT ![p] = "deleted"]
    /\ refs' \subseteq Media \X Posts
    /\ \A m \in Media, q \in Posts : <<m, q>> \in refs' <=> q # p /\ <<m, q>> \in refs
    /\ att' \in [Media -> Rows]
    /\ \A m \in Media : Orphan(m, p, refs', att'[m])

(* DeletePost does that. *)
LEMMA DeleteEffect ==
  ASSUME TypeOK, NEW p \in Posts, DeletePost(p)
  PROVE  DeleteChange(p)
<1> USE DEF DeleteChange
<1>1. /\ UNCHANGED <<on, held, shop, stored, up, late, clean>>
      /\ Live(p) /\ posts' = [posts EXCEPT ![p] = "deleted"]
      /\ refs' = refs \ (Media \X {p})
      /\ att' = [m \in Media |-> Orphaned(m, p, refs')]
  BY DEF DeletePost
<1>2. /\ refs' \subseteq Media \X Posts
      /\ \A m \in Media, q \in Posts : <<m, q>> \in refs' <=> q # p /\ <<m, q>> \in refs
  BY <1>1 DEF TypeOK
<1>3. \A m \in Media : att[m] \in Rows /\ att'[m] = Orphaned(m, p, refs')
  BY <1>1 DEF TypeOK
<1>4. \A m \in Media : Orphan(m, p, refs', att'[m])
  BY <1>3, OrphanedRow
<1>5. \A m \in Media : att'[m] \in Rows
  BY <1>4 DEF Orphan
<1>6. att' \in [Media -> Rows]
  BY <1>1, <1>5
<1> QED
  BY <1>1, <1>2, <1>4, <1>6

(* A comment owns the uploads it claims. *)
CommentChange(p, c, claims) ==
    /\ UNCHANGED <<refs, posts, held, shop, stored, up, late, clean>>
    /\ on[c] = None /\ Live(p) /\ on' = [on EXCEPT ![c] = p]
    /\ att' \in [Media -> Rows]
    /\ \A m \in Media \ claims : att'[m] = att[m]
    /\ \A m \in claims :
         /\ CommentClaimable(m, p)
         /\ att'[m].mode = att[m].mode /\ att'[m].state = att[m].state /\ att'[m].kind = att[m].kind
         /\ att'[m].ctx = att[m].ctx /\ ~att'[m].token
         /\ att'[m].owner = c /\ att'[m].pending = "no"

(* CreateComment does that. *)
LEMMA CommentEffect ==
  ASSUME TypeOK, NEW p \in Posts, NEW c \in Comments, NEW claims \in SUBSET Media, CreateComment(c, p, claims)
  PROVE  CommentChange(p, c, claims)
<1> USE DEF CommentChange
<1>1. /\ UNCHANGED <<refs, posts, held, shop, stored, up, late, clean>>
      /\ on[c] = None /\ Live(p) /\ on' = [on EXCEPT ![c] = p]
      /\ \A m \in claims : CommentClaimable(m, p)
      /\ att' = [m \in Media |-> IF m \in claims
                                 THEN [att[m] EXCEPT !.owner = c, !.token = FALSE, !.pending = "no"]
                                 ELSE att[m]]
  BY DEF CreateComment
<1>2. \A m \in Media : att[m] \in Rows
  BY DEF TypeOK
<1>3. \A m \in claims : att'[m] = [att[m] EXCEPT !.owner = c, !.token = FALSE, !.pending = "no"]
  BY <1>1
<1>4. ASSUME NEW m \in claims
      PROVE  /\ att'[m] \in Rows
             /\ att'[m].mode = att[m].mode /\ att'[m].state = att[m].state /\ att'[m].kind = att[m].kind
             /\ att'[m].ctx = att[m].ctx /\ ~att'[m].token
             /\ att'[m].owner = c /\ att'[m].pending = "no"
  <2>1. att[m] \in Rows /\ att'[m] = [att[m] EXCEPT !.owner = c, !.token = FALSE, !.pending = "no"]
    BY <1>2, <1>3
  <2> QED
    BY <2>1 DEF Rows
<1>5. \A m \in Media \ claims : att'[m] = att[m]
  BY <1>1
<1>6. att' \in [Media -> Rows]
  BY <1>1, <1>2, <1>4, <1>5
<1> QED
  BY <1>1, <1>4, <1>5, <1>6

(* An upload is reserved for media that had no row. *)
ReserveChange(m, kind) ==
    /\ UNCHANGED <<refs, posts, on, held, shop, stored, late, clean>>
    /\ up[m] = "idle" /\ up' = [up EXCEPT ![m] = "put"]
    /\ att' \in [Media -> Rows]
    /\ \A x \in Media \ {m} : att'[x] = att[x]
    /\ att'[m].mode = "managed" /\ att'[m].state = "uploading" /\ att'[m].kind = kind
    /\ att'[m].owner = None /\ att'[m].pending = "live"

(* Reserve does that. *)
LEMMA ReserveEffect ==
  ASSUME TypeOK, NEW m \in Media, NEW kind \in {"post", "comment"}, NEW p \in Posts, Reserve(m, kind, p)
  PROVE  ReserveChange(m, kind)
<1> USE DEF ReserveChange
<1>1. /\ UNCHANGED <<refs, posts, on, held, shop, stored, late, clean>>
      /\ up[m] = "idle" /\ up' = [up EXCEPT ![m] = "put"]
  BY DEF Reserve
<1> DEFINE n == [NoRow EXCEPT !.state = "uploading", !.kind = kind, !.ctx = p, !.pending = "live", !.token = TRUE]
<1>2. att' = [att EXCEPT ![m] = n]
  BY DEF Reserve
<1>3. n \in Rows /\ n.mode = "managed" /\ n.state = "uploading" /\ n.kind = kind /\ n.owner = None /\ n.pending = "live"
  BY DEF NoRow, Rows
<1> HIDE DEF n
<1> QED
  BY <1>1, <1>2, <1>3 DEF TypeOK

(* What stays the same of a row while its upload goes on, and cleaners work. *)
Alike(n, r) ==
    n.mode = r.mode /\ n.kind = r.kind /\ n.owner = r.owner /\ n.ctx = r.ctx /\ (n.token <=> r.token)

(* How the row of m changes as its upload goes on, ends or expires. *)
Progress(m) ==
    \/ att'[m] = att[m]
    \/ /\ Completable(m) /\ up[m] = "stored"
       /\ att'[m].state = "ready" /\ att'[m].pending = att[m].pending /\ up'[m] \in {"done", "failed"}
    \/ /\ att[m].state = "uploading" /\ att'[m].state = "deleting" /\ up[m] = "failed" /\ up'[m] = "ended"
    \/ /\ Exists(m) /\ att[m].pending = "live" /\ att'[m].state = att[m].state /\ att'[m].pending = "due"
       /\ up'[m] = up[m] /\ (up[m] = "put" => late'[m] = "flying")

UploadChange(m) ==
    /\ UNCHANGED <<refs, posts, on, held, shop, clean>>
    /\ att' \in [Media -> Rows]
    /\ \A x \in Media : Alike(att'[x], att[x])
    /\ \A x \in Media \ {m} : att'[x] = att[x] /\ up'[x] = up[x] /\ late'[x] = late[x]
    /\ stored' \subseteq Media /\ stored \subseteq stored' /\ stored' \subseteq stored \cup {m}
    /\ up' \in [Media -> {"idle", "put", "stored", "failed", "done", "ended"}]
    /\ late' \in [Media -> {"no", "flying", "landed"}]
    /\ Progress(m)
    /\ m \in stored' => m \in stored \/ up[m] = "put" \/ late'[m] # "no"
    /\ \/ up'[m] = up[m]
       \/ up[m] = "put" /\ up'[m] = "stored" /\ m \in stored'
       \/ up[m] \in {"put", "stored", "failed", "done"} /\ up'[m] \in {"failed", "done", "ended"}
    /\ late[m] # "no" => late'[m] # "no"

(* The steps of an upload do that. *)
LEMMA UploadEffect ==
  ASSUME TypeOK, NEW m \in Media, UploadStep(m)
  PROVE  UploadChange(m)
<1> USE DEF UploadChange, TypeOK
<1>0. /\ att[m] \in Rows /\ \A x \in Media : att[x] \in Rows /\ Alike(att[x], att[x])
  BY DEF Alike
<1>1. CASE Put(m)
  BY <1>0, <1>1 DEF Put, Progress, rows
<1>2. CASE PutFails(m)
  BY <1>0, <1>2 DEF PutFails, Progress, rows
<1>3. CASE Land(m)
  BY <1>0, <1>3 DEF Land, Progress, rows
<1>4. CASE Vanish(m)
  BY <1>0, <1>4 DEF Vanish, Progress, rows
<1>5. CASE Complete(m) \/ CompleteFails(m)
  <2> DEFINE n == [att[m] EXCEPT !.state = "ready"]
  <2>1. /\ UNCHANGED <<refs, posts, on, held, shop, stored, late, clean>>
        /\ up[m] = "stored" /\ (up' = [up EXCEPT ![m] = "done"] \/ up' = [up EXCEPT ![m] = "failed"])
        /\ att' = att \/ (Completable(m) /\ att' = [att EXCEPT ![m] = n])
    BY <1>5 DEF Complete, CompleteFails
  <2>2. n \in Rows /\ n.state = "ready" /\ n.pending = att[m].pending /\ Alike(n, att[m])
    BY <1>0 DEF Alike, Rows
  <2> HIDE DEF n
  <2>3. /\ att' \in [Media -> Rows] /\ \A x \in Media : Alike(att'[x], att[x])
        /\ \A x \in Media \ {m} : att'[x] = att[x] /\ up'[x] = up[x]
        /\ up' \in [Media -> {"idle", "put", "stored", "failed", "done", "ended"}]
        /\ up'[m] \in {"done", "failed"}
        /\ att'[m] = att[m] \/ (Completable(m) /\ att'[m] = n)
    BY <1>0, <2>1, <2>2
  <2>4. Progress(m)
    BY <2>1, <2>2, <2>3 DEF Progress
  <2> QED
    BY <2>1, <2>3, <2>4
<1>6. CASE Abort(m)
  <2> DEFINE n == [att[m] EXCEPT !.state = "deleting", !.pending = "due"]
  <2>1. /\ UNCHANGED <<refs, posts, on, held, shop, stored, late, clean>>
        /\ up[m] = "failed" /\ up' = [up EXCEPT ![m] = "ended"]
        /\ att' = att \/ (att[m].state = "uploading" /\ att' = [att EXCEPT ![m] = n])
    BY <1>6 DEF Abort
  <2>2. n \in Rows /\ n.state = "deleting" /\ Alike(n, att[m])
    BY <1>0 DEF Alike, Rows
  <2> HIDE DEF n
  <2>3. /\ att' \in [Media -> Rows] /\ \A x \in Media : Alike(att'[x], att[x])
        /\ \A x \in Media \ {m} : att'[x] = att[x]
        /\ att'[m] = att[m] \/ (att[m].state = "uploading" /\ att'[m] = n)
    BY <1>0, <2>1, <2>2
  <2>4. Progress(m)
    BY <2>1, <2>2, <2>3 DEF Progress
  <2> QED
    BY <2>1, <2>3, <2>4
<1>7. CASE Expire(m)
  <2> DEFINE n == [att[m] EXCEPT !.pending = "due"]
  <2>1. /\ UNCHANGED <<refs, posts, on, held, shop, stored, up, clean>>
        /\ Exists(m) /\ att[m].pending = "live" /\ att' = [att EXCEPT ![m] = n]
        /\ late' = IF up[m] = "put" THEN [late EXCEPT ![m] = "flying"] ELSE late
    BY <1>7 DEF Expire
  <2>2. n \in Rows /\ n.state = att[m].state /\ n.pending = "due" /\ Alike(n, att[m])
    BY <1>0 DEF Alike, Rows
  <2> HIDE DEF n
  <2>3. /\ att' \in [Media -> Rows] /\ \A x \in Media : Alike(att'[x], att[x])
        /\ \A x \in Media \ {m} : att'[x] = att[x]
        /\ att'[m] = n
    BY <1>0, <2>1, <2>2
  <2>4. Progress(m)
    BY <2>1, <2>2, <2>3 DEF Progress
  <2> QED
    BY <2>1, <2>3, <2>4
<1> QED
  BY <1>1, <1>2, <1>3, <1>4, <1>5, <1>6, <1>7 DEF UploadStep

(* A cleaner claims a row, removes its object, then the row, or stops. *)
CleanerChange(k, m) ==
    /\ UNCHANGED <<refs, posts, on, held, shop, up, late>>
    /\ m \in Media
    /\ att' \in [Media -> Rows]
    /\ clean' \in [Cleaners -> [at : {"idle", "looked", "claimed", "removed"}, m : Media \cup {None}]]
    /\ \A j \in Cleaners \ {k} : clean'[j] = clean[j]
    /\ \A x \in Media \ {m} : att'[x] = att[x]
    /\ \/ /\ StillExpired(m) /\ att'[m].state = "deleting" /\ Alike(att'[m], att[m])
          /\ clean'[k].at = "claimed" /\ clean'[k].m = m /\ stored' = stored
       \/ /\ clean[k].at = "claimed" /\ att' = att
          /\ clean'[k].at = "removed" /\ clean'[k].m = m /\ stored' = stored \ {m}
       \/ /\ clean[k].at = "removed" /\ att[m].state = "deleting" /\ att[m].owner = None /\ RefsOf(m) = {}
          /\ att'[m].mode = att[m].mode /\ att'[m].state = "none" /\ att'[m].owner = None
          /\ att'[m].kind = "post" /\ att'[m].ctx = None /\ ~att'[m].token
          /\ clean'[k].at = "idle" /\ clean'[k].m = None /\ stored' = stored
       \/ /\ att' = att /\ clean'[k].at = "idle" /\ clean'[k].m = None /\ stored' = stored

(* The steps of a cleaner do that. *)
LEMMA CleanerEffect ==
  ASSUME TypeOK, NEW k \in Cleaners, CleanerStep(k)
  PROVE  CleanerChange(k, clean[k].m)
<1> DEFINE m == clean[k].m
<1> USE DEF CleanerChange, TypeOK
<1>0. /\ clean[k].at # "idle" /\ m \in Media /\ att[m] \in Rows
  BY DEF CleanerStep, ClaimExpired, Skip, RemoveObject, DeleteClaimed, GiveUp, RowRemovable
<1>1. CASE ClaimExpired(k)
  <2> DEFINE n == [att[m] EXCEPT !.state = "deleting", !.pending = "live"]
  <2>1. /\ UNCHANGED <<refs, posts, on, held, shop, stored, up, late>>
        /\ StillExpired(m) /\ att' = [att EXCEPT ![m] = n] /\ clean' = [clean EXCEPT ![k].at = "claimed"]
    BY <1>1 DEF ClaimExpired
  <2>2. n \in Rows /\ n.state = "deleting" /\ Alike(n, att[m])
    BY <1>0 DEF Alike, Rows
  <2> HIDE DEF n
  <2> QED
    BY <1>0, <2>1, <2>2
<1>2. CASE RemoveObject(k)
  BY <1>0, <1>2 DEF RemoveObject, rows
<1>3. CASE DeleteClaimed(k)
  <2> DEFINE n == [NoRow EXCEPT !.mode = att[m].mode]
  <2>1. /\ UNCHANGED <<refs, posts, on, held, shop, stored, up, late>>
        /\ clean[k].at = "removed" /\ clean' = [clean EXCEPT ![k] = [at |-> "idle", m |-> None]]
        /\ \/ att' = att
           \/ att[m].state = "deleting" /\ att[m].owner = None /\ RefsOf(m) = {} /\ att' = [att EXCEPT ![m] = n]
    BY <1>3 DEF DeleteClaimed, RowRemovable
  <2>2. /\ n \in Rows /\ n.mode = att[m].mode /\ n.state = "none" /\ n.owner = None /\ n.ctx = None /\ n.kind = "post"
        /\ ~n.token
    BY <1>0 DEF NoRow, Rows
  <2> HIDE DEF n
  <2> QED
    BY <1>0, <2>1, <2>2
<1>4. CASE Skip(k) \/ GiveUp(k)
  BY <1>0, <1>4 DEF Skip, GiveUp, Stop, rows
<1> QED
  BY <1>1, <1>2, <1>3, <1>4 DEF CleanerStep

(* A file of an earlier release becomes managed: its row is ready, and the  *)
(* articles that had its address cite it.                                   *)
CopyChange(m) ==
    /\ UNCHANGED <<posts, on, stored, late, clean, shop, vis, serving>>
    /\ tool.at = "verified" /\ m \in Media /\ m \in Legacy /\ att[m].state = "ready" /\ m \notin shop
    /\ up' = [up EXCEPT ![m] = "ended"] /\ held' = held \cup {m}
    /\ old' = [old EXCEPT ![m] = [record |-> "copied", object |-> "stored"]]
    /\ refs' \subseteq Media \X Posts
    /\ \A x \in Media, q \in Posts :
         /\ <<x, q>> \in refs' <=> IF x = m THEN <<x, q>> \in links ELSE <<x, q>> \in refs
         /\ <<x, q>> \in links' <=> x # m /\ <<x, q>> \in links
    /\ links' \subseteq links
    /\ att' \in [Media -> Rows]
    /\ \A x \in Media \ {m} : att'[x] = att[x]
    /\ att'[m].mode = "managed" /\ att'[m].state = "ready" /\ att'[m].pending = "no" /\ ~att'[m].token
    /\ \/ /\ att[m].owner \in Comments /\ att[m].kind = "comment"
          /\ on[att[m].owner] \in Posts /\ Live(on[att[m].owner])
          /\ att'[m].owner = att[m].owner /\ att'[m].kind = "comment"
       \/ att'[m].owner \in Posts /\ <<m, att'[m].owner>> \in links /\ att'[m].kind = "post"
    /\ \/ tool' = [at |-> "copying", todo |-> tool.todo \ {m}, m |-> None]
       \/ tool' = Idle

(* commitCopy does that. *)
LEMMA CopyEffect ==
  ASSUME TypeOK, ToolTyped, links \subseteq Media \X Posts, commitCopy
  PROVE  CopyChange(tool.m)
<1> DEFINE m == tool.m
<1> USE DEF CopyChange
<1>1. /\ UNCHANGED <<posts, on, stored, late, clean, shop, vis, serving>>
      /\ tool.at = "verified" /\ m \in Legacy /\ att[m].state = "ready" /\ m \notin shop
      /\ up' = [up EXCEPT ![m] = "ended"] /\ held' = held \cup {m}
      /\ old' = [old EXCEPT ![m] = [record |-> "copied", object |-> "stored"]]
      /\ refs' = (refs \ ({m} \X Posts)) \cup ({m} \X LinksOf(m))
      /\ links' = links \ ({m} \X Posts)
      /\ \/ tool' = [at |-> "copying", todo |-> tool.todo \ {m}, m |-> None]
         \/ tool' = Idle
  BY DEF commitCopy, Known, Done, Tool
<1>2. m \in Media
  BY <1>1 DEF Legacy
<1>3. refs' \subseteq Media \X Posts
  BY <1>1, <1>2 DEF LinksOf, TypeOK
<1>4. \A x \in Media, q \in Posts :
        /\ <<x, q>> \in refs' <=> IF x = m THEN <<x, q>> \in links ELSE <<x, q>> \in refs
        /\ <<x, q>> \in links' <=> x # m /\ <<x, q>> \in links
  BY <1>1 DEF LinksOf
<1> DEFINE New(o, c, kind) == [NoRow EXCEPT !.state = "ready", !.owner = o, !.ctx = c, !.kind = kind]
<1> DEFINE kind == IF CommentPost(m) # None THEN "comment" ELSE "post"
<1>5. PICK owner \in NewOwner(m) : att' = [att EXCEPT ![m] = New(owner[1], owner[2], kind)]
  BY DEF commitCopy
<1> HIDE DEF New, kind
<1>6. CASE CommentPost(m) # None
  <2>1. /\ att[m].owner \in Comments /\ att[m].kind = "comment"
        /\ on[att[m].owner] \in Posts /\ Live(on[att[m].owner]) /\ CommentPost(m) = on[att[m].owner]
    BY <1>6, MediaAssumption DEF CommentPost, Comment
  <2>2. NewOwner(m) = {<<att[m].owner, CommentPost(m)>>}
    BY <1>6 DEF NewOwner
  <2> DEFINE n == New(att[m].owner, CommentPost(m), "comment")
  <2>3. att' = [att EXCEPT ![m] = n]
    <3>1. owner[1] = att[m].owner /\ owner[2] = CommentPost(m)
      BY <2>2
    <3>2. kind = "comment"
      BY <1>6 DEF kind
    <3> QED
      BY <1>5, <3>1, <3>2
  <2>4. /\ n \in Rows /\ n.mode = "managed" /\ n.state = "ready" /\ n.pending = "no" /\ ~n.token
        /\ n.owner = att[m].owner /\ n.kind = "comment"
    BY <2>1 DEF New, NoRow, Rows
  <2> HIDE DEF n
  <2>5. /\ att' \in [Media -> Rows] /\ \A x \in Media \ {m} : att'[x] = att[x]
        /\ att'[m] = n
    BY <1>2, <2>3, <2>4 DEF TypeOK
  <2> QED
    BY <1>1, <1>2, <1>3, <1>4, <2>1, <2>4, <2>5
<1>7. CASE CommentPost(m) = None
  <2>1. PICK p \in LinksOf(m) : att' = [att EXCEPT ![m] = New(p, p, "post")]
    <3>1. NewOwner(m) = {<<p, p>> : p \in LinksOf(m)}
      BY <1>7 DEF NewOwner
    <3>2. PICK p \in LinksOf(m) : owner[1] = p /\ owner[2] = p
      BY <3>1
    <3>3. kind = "post"
      BY <1>7 DEF kind
    <3> QED
      BY <1>5, <3>2, <3>3
  <2> DEFINE n == New(p, p, "post")
  <2>2. p \in Posts /\ <<m, p>> \in links
    BY DEF LinksOf
  <2>3. /\ n \in Rows /\ n.mode = "managed" /\ n.state = "ready" /\ n.pending = "no" /\ ~n.token
        /\ n.owner = p /\ n.kind = "post"
    BY <2>2 DEF New, NoRow, Rows
  <2>4. att' = [att EXCEPT ![m] = n]
    BY <2>1
  <2> HIDE DEF n
  <2>5. /\ att' \in [Media -> Rows] /\ \A x \in Media \ {m} : att'[x] = att[x]
        /\ att'[m] = n
    BY <1>2, <2>3, <2>4 DEF TypeOK
  <2> QED
    BY <1>1, <1>2, <1>3, <1>4, <2>2, <2>3, <2>5
<1> QED
  BY <1>6, <1>7

(* The steps, for what is said of rows, objects, uploads and cleaners only. *)
LEMMA CoreSteps ==
  ASSUME [MigrationNext]_allvars
  PROVE  \/ \E p \in Posts, visibility \in {"public", "hidden"}, body \in SUBSET Media, again \in SUBSET Media :
              \E claims \in SUBSET body : SavePost(p, visibility, body, claims, again)
         \/ Api /\ \E m \in Media, kind \in {"post", "comment"}, p \in Posts : Reserve(m, kind, p)
         \/ Api /\ \E m \in Media : UploadStep(m)
         \/ Api /\ \E p \in Posts : DeletePost(p)
         \/ Api /\ \E p \in Posts, c \in Comments, claims \in SUBSET Media : CreateComment(c, p, claims)
         \/ Api /\ \E k \in Cleaners, m \in Media : Look(k, m)
         \/ Api /\ \E k \in Cleaners : CleanerStep(k)
         \/ commitCopy
         \/ UNCHANGED <<att, refs, posts, on, stored, up, late, clean>>
<1>1. ASSUME NEW m, SaveProduct(m) PROVE UNCHANGED <<att, refs, posts, on, stored, up, late, clean>>
  BY <1>1 DEF SaveProduct
<1>2. UNCHANGED allvars => UNCHANGED <<att, refs, posts, on, stored, up, late, clean>>
  BY DEF allvars, vars, rows
<1>3. OpsStep => UNCHANGED <<att, refs, posts, on, stored, up, late, clean>>
  BY OpsFrame
<1> QED
  BY <1>1, <1>2, <1>3, Steps, ApiSteps, Zenon

(* What is committed, without the set of references. *)
Served(m) ==
    att[m].mode = "managed" /\ (att[m].owner # None \/ \E q \in Posts : <<m, q>> \in refs) =>
        /\ att[m].state = "ready" /\ att[m].pending = "no" /\ att[m].owner # None
        /\ m \in stored
CommittedServed == \A m \in Media : Served(m)

(* CommittedIsStored in that form *)
LEMMA CommittedForm == CommittedIsStored <=> CommittedServed
<1>1. \A m \in Media : RefsOf(m) # {} <=> \E q \in Posts : <<m, q>> \in refs
  BY DEF RefsOf
<1> QED
  BY <1>1 DEF CommittedIsStored, CommittedServed, Served, Managed

(***************************************************************************)
(* Each part of IInv is preserved                                          *)
(***************************************************************************)

(* Rows have their types. *)
LEMMA RowsStep == ASSUME IInv, [MigrationNext]_allvars PROVE att' \in [Media -> Rows]
<1>0. TypeOK /\ ToolTyped /\ links \subseteq Media \X Posts
  BY DEF IInv, MigrationTypeOK
<1>1. ASSUME NEW p \in Posts, NEW visibility, NEW body \in SUBSET Media, NEW again, NEW claims \in SUBSET body,
             SavePost(p, visibility, body, claims, again) PROVE att' \in [Media -> Rows]
  <2>1. SaveChange(p, body, claims)
    BY <1>0, <1>1, SaveEffect
  <2> QED
    BY <1>0, <2>1, MediaAssumption DEF SaveChange, TypeOK, Claimable, Reusable, Live
<1>2. ASSUME NEW m \in Media, NEW kind \in {"post", "comment"}, NEW p \in Posts, Reserve(m, kind, p) PROVE att' \in [Media -> Rows]
  <2>1. ReserveChange(m, kind)
    BY <1>0, <1>2, ReserveEffect
  <2> QED
    BY <1>0, <2>1, MediaAssumption DEF ReserveChange, TypeOK
<1>3. ASSUME NEW m \in Media, UploadStep(m) PROVE att' \in [Media -> Rows]
  <2>1. UploadChange(m)
    BY <1>0, <1>3, UploadEffect
  <2> QED
    BY <1>0, <2>1, MediaAssumption DEF UploadChange, TypeOK, Alike, Progress, Completable
<1>4. ASSUME NEW p \in Posts, DeletePost(p) PROVE att' \in [Media -> Rows]
  <2>1. DeleteChange(p)
    BY <1>0, <1>4, DeleteEffect
  <2> QED
    BY <1>0, <2>1, MediaAssumption DEF DeleteChange, TypeOK, Orphan, OwnedThrough, Live
<1>5. ASSUME NEW p \in Posts, NEW c \in Comments, NEW claims \in SUBSET Media, CreateComment(c, p, claims) PROVE att' \in [Media -> Rows]
  <2>1. CommentChange(p, c, claims)
    BY <1>0, <1>5, CommentEffect
  <2> QED
    BY <1>0, <2>1, MediaAssumption DEF CommentChange, TypeOK, CommentClaimable, Live
<1>6. ASSUME NEW k \in Cleaners, NEW m \in Media, Look(k, m) PROVE att' \in [Media -> Rows]
  BY <1>0, <1>6 DEF TypeOK, Look, rows
<1>7. ASSUME NEW k \in Cleaners, CleanerStep(k) PROVE att' \in [Media -> Rows]
  <2>1. CleanerChange(k, clean[k].m)
    BY <1>0, <1>7, CleanerEffect
  <2> QED
    BY <1>0, <2>1, MediaAssumption DEF CleanerChange, TypeOK, Alike, StillExpired
<1>8. CASE commitCopy
  <2>1. CopyChange(tool.m)
    BY <1>0, <1>8, CopyEffect
  <2> QED
    BY <1>0, <2>1, MediaAssumption DEF CopyChange, TypeOK, Live
<1>9. CASE UNCHANGED <<att, refs, posts, on, stored, up, late, clean>>
  BY <1>0, <1>9 DEF TypeOK
<1> QED
  BY <1>1, <1>2, <1>3, <1>4, <1>5, <1>6, <1>7, <1>8, <1>9, CoreSteps

(* The owner of a row is of its kind. *)
LEMMA OwnersStep == ASSUME IInv, [MigrationNext]_allvars PROVE OwnersTyped'
<1>0. TypeOK /\ ToolTyped /\ links \subseteq Media \X Posts /\ OwnersTyped
  BY DEF IInv, MigrationTypeOK, TypeOK, OwnersTyped
<1>1. ASSUME NEW p \in Posts, NEW visibility, NEW body \in SUBSET Media, NEW again, NEW claims \in SUBSET body,
             SavePost(p, visibility, body, claims, again) PROVE OwnersTyped'
  <2>1. SaveChange(p, body, claims)
    BY <1>0, <1>1, SaveEffect
  <2> QED
    BY <1>0, <2>1, MediaAssumption DEF SaveChange, TypeOK, OwnersTyped, Claimable, Reusable, Live
<1>2. ASSUME NEW m \in Media, NEW kind \in {"post", "comment"}, NEW p \in Posts, Reserve(m, kind, p) PROVE OwnersTyped'
  <2>1. ReserveChange(m, kind)
    BY <1>0, <1>2, ReserveEffect
  <2> QED
    BY <1>0, <2>1, MediaAssumption DEF ReserveChange, TypeOK, OwnersTyped
<1>3. ASSUME NEW m \in Media, UploadStep(m) PROVE OwnersTyped'
  <2>1. UploadChange(m)
    BY <1>0, <1>3, UploadEffect
  <2> QED
    BY <1>0, <2>1, MediaAssumption DEF UploadChange, TypeOK, OwnersTyped, Alike, Progress, Completable
<1>4. ASSUME NEW p \in Posts, DeletePost(p) PROVE OwnersTyped'
  <2>1. DeleteChange(p)
    BY <1>0, <1>4, DeleteEffect
  <2> QED
    BY <1>0, <2>1, MediaAssumption DEF DeleteChange, TypeOK, OwnersTyped, Orphan, OwnedThrough, Live
<1>5. ASSUME NEW p \in Posts, NEW c \in Comments, NEW claims \in SUBSET Media, CreateComment(c, p, claims) PROVE OwnersTyped'
  <2>1. CommentChange(p, c, claims)
    BY <1>0, <1>5, CommentEffect
  <2> QED
    BY <1>0, <2>1, MediaAssumption DEF CommentChange, TypeOK, OwnersTyped, CommentClaimable, Live
<1>6. ASSUME NEW k \in Cleaners, NEW m \in Media, Look(k, m) PROVE OwnersTyped'
  BY <1>0, <1>6 DEF TypeOK, OwnersTyped, Look, rows
<1>7. ASSUME NEW k \in Cleaners, CleanerStep(k) PROVE OwnersTyped'
  <2>1. CleanerChange(k, clean[k].m)
    BY <1>0, <1>7, CleanerEffect
  <2> QED
    BY <1>0, <2>1, MediaAssumption DEF CleanerChange, TypeOK, OwnersTyped, Alike, StillExpired, Rows
<1>8. CASE commitCopy
  <2>1. CopyChange(tool.m)
    BY <1>0, <1>8, CopyEffect
  <2> QED
    BY <1>0, <2>1, MediaAssumption DEF CopyChange, TypeOK, OwnersTyped, Live
<1>9. CASE UNCHANGED <<att, refs, posts, on, stored, up, late, clean>>
  BY <1>0, <1>9 DEF OwnersTyped
<1> QED
  BY <1>1, <1>2, <1>3, <1>4, <1>5, <1>6, <1>7, <1>8, <1>9, CoreSteps

(* Media nobody has uploaded stay blank. *)
LEMMA IdleStep == ASSUME IInv, [MigrationNext]_allvars PROVE IdleIsBlank'
<1>0. TypeOK /\ ToolTyped /\ links \subseteq Media \X Posts /\ IdleIsBlank
  BY DEF IInv, MigrationTypeOK
<1>1. ASSUME NEW p \in Posts, NEW visibility, NEW body \in SUBSET Media, NEW again, NEW claims \in SUBSET body,
             SavePost(p, visibility, body, claims, again) PROVE IdleIsBlank'
  <2>1. SaveChange(p, body, claims)
    BY <1>0, <1>1, SaveEffect
  <2> QED
    BY <1>0, <2>1, MediaAssumption DEF SaveChange, TypeOK, IdleIsBlank, Exists, Managed, Legacy, Claimable, Reusable, Live
<1>2. ASSUME NEW m \in Media, NEW kind \in {"post", "comment"}, NEW p \in Posts, Reserve(m, kind, p) PROVE IdleIsBlank'
  <2>1. ReserveChange(m, kind)
    BY <1>0, <1>2, ReserveEffect
  <2> QED
    BY <1>0, <2>1, MediaAssumption DEF ReserveChange, TypeOK, IdleIsBlank, Exists, Managed, Legacy
<1>3. ASSUME NEW m \in Media, UploadStep(m) PROVE IdleIsBlank'
  <2>1. UploadChange(m)
    BY <1>0, <1>3, UploadEffect
  <2> QED
    BY <1>0, <2>1, MediaAssumption DEF UploadChange, TypeOK, IdleIsBlank, Exists, Managed, Legacy, Alike, Progress, Completable
<1>4. ASSUME NEW p \in Posts, DeletePost(p) PROVE IdleIsBlank'
  <2>1. DeleteChange(p)
    BY <1>0, <1>4, DeleteEffect
  <2>2. ASSUME NEW x \in Media
        PROVE  /\ UNCHANGED <<stored, up, late, clean>>
               /\ att'[x].state = att[x].state /\ att'[x].mode = att[x].mode
               /\ att[x].pending # "no" => att'[x].pending = att[x].pending
    BY <2>1 DEF DeleteChange, Orphan, Scheduled
  <2>3. ASSUME NEW x \in Media, up'[x] = "idle"
        PROVE  att'[x].state = "none" /\ att'[x].mode = "managed" /\ \A k \in Cleaners : clean'[k].m # x
    BY <1>0, <2>2, <2>3 DEF IdleIsBlank, Exists, Managed
  <2> QED
    BY <2>3 DEF IdleIsBlank, Exists, Managed
<1>5. ASSUME NEW p \in Posts, NEW c \in Comments, NEW claims \in SUBSET Media, CreateComment(c, p, claims) PROVE IdleIsBlank'
  <2>1. CommentChange(p, c, claims)
    BY <1>0, <1>5, CommentEffect
  <2> QED
    BY <1>0, <2>1, MediaAssumption DEF CommentChange, TypeOK, IdleIsBlank, Exists, Managed, Legacy, CommentClaimable, Live
<1>6. ASSUME NEW k \in Cleaners, NEW m \in Media, Look(k, m) PROVE IdleIsBlank'
  BY <1>0, <1>6 DEF TypeOK, IdleIsBlank, Exists, Managed, Legacy, Look, rows
<1>7. ASSUME NEW k \in Cleaners, CleanerStep(k) PROVE IdleIsBlank'
  <2>1. CleanerChange(k, clean[k].m)
    BY <1>0, <1>7, CleanerEffect
  <2> QED
    BY <1>0, <2>1, MediaAssumption DEF CleanerChange, TypeOK, IdleIsBlank, Exists, Managed, Legacy, Alike, StillExpired
<1>8. CASE commitCopy
  <2>1. CopyChange(tool.m)
    BY <1>0, <1>8, CopyEffect
  <2> QED
    BY <1>0, <2>1, MediaAssumption DEF CopyChange, TypeOK, IdleIsBlank, Exists, Managed, Legacy, Live
<1>9. CASE UNCHANGED <<att, refs, posts, on, stored, up, late, clean>>
  BY <1>0, <1>9 DEF IdleIsBlank, Exists, Managed, Legacy
<1> QED
  BY <1>1, <1>2, <1>3, <1>4, <1>5, <1>6, <1>7, <1>8, <1>9, CoreSteps

(* What is ready to be claimed or completed stays stored. *)
LEMMA ReadyStep == ASSUME IInv, [MigrationNext]_allvars PROVE ReadyIsStored'
<1>0. TypeOK /\ ToolTyped /\ links \subseteq Media \X Posts /\ ReadyIsStored /\ ClaimedIsDead /\ ToolFindings
  BY DEF IInv, MigrationTypeOK
<1>1. ASSUME NEW p \in Posts, NEW visibility, NEW body \in SUBSET Media, NEW again, NEW claims \in SUBSET body,
             SavePost(p, visibility, body, claims, again) PROVE ReadyIsStored'
  <2>1. SaveChange(p, body, claims)
    BY <1>0, <1>1, SaveEffect
  <2> QED
    BY <1>0, <2>1, MediaAssumption DEF SaveChange, TypeOK, ReadyIsStored, ClaimedIsDead, ToolFindings, Managed, Legacy, Claimable, Reusable, Live
<1>2. ASSUME NEW m \in Media, NEW kind \in {"post", "comment"}, NEW p \in Posts, Reserve(m, kind, p) PROVE ReadyIsStored'
  <2>1. ReserveChange(m, kind)
    BY <1>0, <1>2, ReserveEffect
  <2> QED
    BY <1>0, <2>1, MediaAssumption DEF ReserveChange, TypeOK, ReadyIsStored, ClaimedIsDead, ToolFindings, Managed, Legacy
<1>3. ASSUME NEW m \in Media, UploadStep(m) PROVE ReadyIsStored'
  <2>1. UploadChange(m)
    BY <1>0, <1>3, UploadEffect
  <2> QED
    BY <1>0, <2>1, MediaAssumption DEF UploadChange, TypeOK, ReadyIsStored, ClaimedIsDead, ToolFindings, Managed, Legacy, Alike, Progress, Completable
<1>4. ASSUME NEW p \in Posts, DeletePost(p) PROVE ReadyIsStored'
  <2>1. DeleteChange(p)
    BY <1>0, <1>4, DeleteEffect
  <2> QED
    BY <1>0, <2>1, MediaAssumption DEF DeleteChange, TypeOK, ReadyIsStored, ClaimedIsDead, ToolFindings, Managed, Legacy, Orphan, OwnedThrough, Live
<1>5. ASSUME NEW p \in Posts, NEW c \in Comments, NEW claims \in SUBSET Media, CreateComment(c, p, claims) PROVE ReadyIsStored'
  <2>1. CommentChange(p, c, claims)
    BY <1>0, <1>5, CommentEffect
  <2> QED
    BY <1>0, <2>1, MediaAssumption DEF CommentChange, TypeOK, ReadyIsStored, ClaimedIsDead, ToolFindings, Managed, Legacy, CommentClaimable, Live
<1>6. ASSUME NEW k \in Cleaners, NEW m \in Media, Look(k, m) PROVE ReadyIsStored'
  BY <1>0, <1>6 DEF TypeOK, ReadyIsStored, ClaimedIsDead, ToolFindings, Managed, Legacy, Look, rows
<1>7. ASSUME NEW k \in Cleaners, CleanerStep(k) PROVE ReadyIsStored'
  <2>1. CleanerChange(k, clean[k].m)
    BY <1>0, <1>7, CleanerEffect
  <2> QED
    BY <1>0, <2>1, MediaAssumption DEF CleanerChange, TypeOK, ReadyIsStored, ClaimedIsDead, ToolFindings, Managed, Legacy, Alike, StillExpired
<1>8. CASE commitCopy
  <2>1. CopyChange(tool.m)
    BY <1>0, <1>8, CopyEffect
  <2> QED
    BY <1>0, <2>1, MediaAssumption DEF CopyChange, TypeOK, ReadyIsStored, ClaimedIsDead, ToolFindings, Managed, Legacy, Live
<1>9. CASE UNCHANGED <<att, refs, posts, on, stored, up, late, clean>>
  BY <1>0, <1>9 DEF ReadyIsStored, ClaimedIsDead, ToolFindings, Managed, Legacy
<1> QED
  BY <1>1, <1>2, <1>3, <1>4, <1>5, <1>6, <1>7, <1>8, <1>9, CoreSteps

(* A claimed row is not used again. *)
LEMMA ClaimedStep == ASSUME IInv, [MigrationNext]_allvars PROVE ClaimedIsDead'
<1>0. TypeOK /\ ToolTyped /\ links \subseteq Media \X Posts /\ ClaimedIsDead /\ WindowIsQuiet /\ IdleIsBlank
  BY DEF IInv, MigrationTypeOK
<1>1. ASSUME NEW p \in Posts, NEW visibility, NEW body \in SUBSET Media, NEW again, NEW claims \in SUBSET body,
             SavePost(p, visibility, body, claims, again) PROVE ClaimedIsDead'
  <2>1. SaveChange(p, body, claims)
    BY <1>0, <1>1, SaveEffect
  <2> QED
    BY <1>0, <2>1, MediaAssumption DEF SaveChange, TypeOK, ClaimedIsDead, WindowIsQuiet, IdleIsBlank, Claimable, Reusable, Live
<1>2. ASSUME NEW m \in Media, NEW kind \in {"post", "comment"}, NEW p \in Posts, Reserve(m, kind, p) PROVE ClaimedIsDead'
  <2>1. ReserveChange(m, kind)
    BY <1>0, <1>2, ReserveEffect
  <2> QED
    BY <1>0, <2>1, MediaAssumption DEF ReserveChange, TypeOK, ClaimedIsDead, WindowIsQuiet, IdleIsBlank
<1>3. ASSUME NEW m \in Media, UploadStep(m) PROVE ClaimedIsDead'
  <2>1. UploadChange(m)
    BY <1>0, <1>3, UploadEffect
  <2> QED
    BY <1>0, <2>1, MediaAssumption DEF UploadChange, TypeOK, ClaimedIsDead, WindowIsQuiet, IdleIsBlank, Alike, Progress, Completable
<1>4. ASSUME NEW p \in Posts, DeletePost(p) PROVE ClaimedIsDead'
  <2>1. DeleteChange(p)
    BY <1>0, <1>4, DeleteEffect
  <2> QED
    BY <1>0, <2>1, MediaAssumption DEF DeleteChange, TypeOK, ClaimedIsDead, WindowIsQuiet, IdleIsBlank, Orphan, OwnedThrough, Live
<1>5. ASSUME NEW p \in Posts, NEW c \in Comments, NEW claims \in SUBSET Media, CreateComment(c, p, claims) PROVE ClaimedIsDead'
  <2>1. CommentChange(p, c, claims)
    BY <1>0, <1>5, CommentEffect
  <2> QED
    BY <1>0, <2>1, MediaAssumption DEF CommentChange, TypeOK, ClaimedIsDead, WindowIsQuiet, IdleIsBlank, CommentClaimable, Live
<1>6. ASSUME NEW k \in Cleaners, NEW m \in Media, Look(k, m) PROVE ClaimedIsDead'
  BY <1>0, <1>6 DEF TypeOK, ClaimedIsDead, WindowIsQuiet, IdleIsBlank, Look, rows
<1>7. ASSUME NEW k \in Cleaners, CleanerStep(k) PROVE ClaimedIsDead'
  <2>1. CleanerChange(k, clean[k].m)
    BY <1>0, <1>7, CleanerEffect
  <2> QED
    BY <1>0, <2>1, MediaAssumption DEF CleanerChange, TypeOK, ClaimedIsDead, WindowIsQuiet, IdleIsBlank, Alike, StillExpired
<1>8. CASE commitCopy
  <2>1. CopyChange(tool.m)
    BY <1>0, <1>8, CopyEffect
  <2> QED
    BY <1>0, <2>1, MediaAssumption DEF CopyChange, TypeOK, ClaimedIsDead, WindowIsQuiet, IdleIsBlank, Live, ToolTyped
<1>9. CASE UNCHANGED <<att, refs, posts, on, stored, up, late, clean>>
  BY <1>0, <1>9 DEF ClaimedIsDead, WindowIsQuiet, IdleIsBlank
<1> QED
  BY <1>1, <1>2, <1>3, <1>4, <1>5, <1>6, <1>7, <1>8, <1>9, CoreSteps

(* A removed object does not come back. *)
LEMMA RemovedStep == ASSUME IInv, [MigrationNext]_allvars PROVE RemovedIsGone'
<1>0. TypeOK /\ ToolTyped /\ links \subseteq Media \X Posts /\ RemovedIsGone /\ ClaimedIsDead /\ PutHasRow
  BY DEF IInv, MigrationTypeOK
<1>1. ASSUME NEW p \in Posts, NEW visibility, NEW body \in SUBSET Media, NEW again, NEW claims \in SUBSET body,
             SavePost(p, visibility, body, claims, again) PROVE RemovedIsGone'
  <2>1. SaveChange(p, body, claims)
    BY <1>0, <1>1, SaveEffect
  <2> QED
    BY <1>0, <2>1, MediaAssumption DEF SaveChange, TypeOK, RemovedIsGone, ClaimedIsDead, PutHasRow, Claimable, Reusable, Live
<1>2. ASSUME NEW m \in Media, NEW kind \in {"post", "comment"}, NEW p \in Posts, Reserve(m, kind, p) PROVE RemovedIsGone'
  <2>1. ReserveChange(m, kind)
    BY <1>0, <1>2, ReserveEffect
  <2> QED
    BY <1>0, <2>1, MediaAssumption DEF ReserveChange, TypeOK, RemovedIsGone, ClaimedIsDead, PutHasRow
<1>3. ASSUME NEW m \in Media, UploadStep(m) PROVE RemovedIsGone'
  <2>1. UploadChange(m)
    BY <1>0, <1>3, UploadEffect
  <2> QED
    BY <1>0, <2>1, MediaAssumption DEF UploadChange, TypeOK, RemovedIsGone, ClaimedIsDead, PutHasRow, Alike, Progress, Completable
<1>4. ASSUME NEW p \in Posts, DeletePost(p) PROVE RemovedIsGone'
  <2>1. DeleteChange(p)
    BY <1>0, <1>4, DeleteEffect
  <2> QED
    BY <1>0, <2>1, MediaAssumption DEF DeleteChange, TypeOK, RemovedIsGone, ClaimedIsDead, PutHasRow, Orphan, OwnedThrough, Live
<1>5. ASSUME NEW p \in Posts, NEW c \in Comments, NEW claims \in SUBSET Media, CreateComment(c, p, claims) PROVE RemovedIsGone'
  <2>1. CommentChange(p, c, claims)
    BY <1>0, <1>5, CommentEffect
  <2> QED
    BY <1>0, <2>1, MediaAssumption DEF CommentChange, TypeOK, RemovedIsGone, ClaimedIsDead, PutHasRow, CommentClaimable, Live
<1>6. ASSUME NEW k \in Cleaners, NEW m \in Media, Look(k, m) PROVE RemovedIsGone'
  BY <1>0, <1>6 DEF TypeOK, RemovedIsGone, ClaimedIsDead, PutHasRow, Look, rows
<1>7. ASSUME NEW k \in Cleaners, CleanerStep(k) PROVE RemovedIsGone'
  <2>1. CleanerChange(k, clean[k].m)
    BY <1>0, <1>7, CleanerEffect
  <2> QED
    BY <1>0, <2>1, MediaAssumption DEF CleanerChange, TypeOK, RemovedIsGone, ClaimedIsDead, PutHasRow, Alike, StillExpired
<1>8. CASE commitCopy
  <2>1. CopyChange(tool.m)
    BY <1>0, <1>8, CopyEffect
  <2> QED
    BY <1>0, <2>1, MediaAssumption DEF CopyChange, TypeOK, RemovedIsGone, ClaimedIsDead, PutHasRow, Live
<1>9. CASE UNCHANGED <<att, refs, posts, on, stored, up, late, clean>>
  BY <1>0, <1>9 DEF RemovedIsGone, ClaimedIsDead, PutHasRow
<1> QED
  BY <1>1, <1>2, <1>3, <1>4, <1>5, <1>6, <1>7, <1>8, <1>9, CoreSteps

(* A write that is expected has its row. *)
LEMMA PutStep == ASSUME IInv, [MigrationNext]_allvars PROVE PutHasRow'
<1>0. TypeOK /\ ToolTyped /\ links \subseteq Media \X Posts /\ PutHasRow
  BY DEF IInv, MigrationTypeOK
<1>1. ASSUME NEW p \in Posts, NEW visibility, NEW body \in SUBSET Media, NEW again, NEW claims \in SUBSET body,
             SavePost(p, visibility, body, claims, again) PROVE PutHasRow'
  <2>1. SaveChange(p, body, claims)
    BY <1>0, <1>1, SaveEffect
  <2> QED
    BY <1>0, SchedulesOnce, <2>1, MediaAssumption DEF SaveChange, TypeOK, PutHasRow, Claimable, Reusable, Live
<1>2. ASSUME NEW m \in Media, NEW kind \in {"post", "comment"}, NEW p \in Posts, Reserve(m, kind, p) PROVE PutHasRow'
  <2>1. ReserveChange(m, kind)
    BY <1>0, <1>2, ReserveEffect
  <2> QED
    BY <1>0, <2>1, MediaAssumption DEF ReserveChange, TypeOK, PutHasRow
<1>3. ASSUME NEW m \in Media, UploadStep(m) PROVE PutHasRow'
  <2>1. UploadChange(m)
    BY <1>0, <1>3, UploadEffect
  <2> QED
    BY <1>0, <2>1, MediaAssumption DEF UploadChange, TypeOK, PutHasRow, Alike, Progress, Completable
<1>4. ASSUME NEW p \in Posts, DeletePost(p) PROVE PutHasRow'
  <2>1. DeleteChange(p)
    BY <1>0, <1>4, DeleteEffect
  <2>2. ASSUME NEW x \in Media
        PROVE  /\ UNCHANGED <<stored, up, late, clean>>
               /\ att'[x].state = att[x].state /\ att'[x].mode = att[x].mode
               /\ att[x].pending # "no" => att'[x].pending = att[x].pending
    BY <2>1 DEF DeleteChange, Orphan, Scheduled
  <2>3. ASSUME NEW x \in Media, up'[x] = "put", late'[x] = "no"
        PROVE  att'[x].state = "uploading" /\ att'[x].pending = "live"
    BY <1>0, <2>2, <2>3 DEF PutHasRow
  <2> QED
    BY <2>3 DEF PutHasRow
<1>5. ASSUME NEW p \in Posts, NEW c \in Comments, NEW claims \in SUBSET Media, CreateComment(c, p, claims) PROVE PutHasRow'
  <2>1. CommentChange(p, c, claims)
    BY <1>0, <1>5, CommentEffect
  <2> QED
    BY <1>0, <2>1, MediaAssumption DEF CommentChange, TypeOK, PutHasRow, CommentClaimable, Live
<1>6. ASSUME NEW k \in Cleaners, NEW m \in Media, Look(k, m) PROVE PutHasRow'
  BY <1>0, <1>6 DEF TypeOK, PutHasRow, Look, rows
<1>7. ASSUME NEW k \in Cleaners, CleanerStep(k) PROVE PutHasRow'
  <2>1. CleanerChange(k, clean[k].m)
    BY <1>0, <1>7, CleanerEffect
  <2> QED
    BY <1>0, <2>1, MediaAssumption DEF CleanerChange, TypeOK, PutHasRow, Alike, StillExpired
<1>8. CASE commitCopy
  <2>1. CopyChange(tool.m)
    BY <1>0, <1>8, CopyEffect
  <2> QED
    BY <1>0, <2>1, MediaAssumption DEF CopyChange, TypeOK, PutHasRow, Live
<1>9. CASE UNCHANGED <<att, refs, posts, on, stored, up, late, clean>>
  BY <1>0, <1>9 DEF PutHasRow
<1> QED
  BY <1>1, <1>2, <1>3, <1>4, <1>5, <1>6, <1>7, <1>8, <1>9, CoreSteps

(* Files of earlier releases have no context. *)
LEMMA ContextStep == ASSUME IInv, [MigrationNext]_allvars PROVE LegacyHasNoContext'
<1>0. TypeOK /\ ToolTyped /\ links \subseteq Media \X Posts /\ LegacyHasNoContext
  BY DEF IInv, MigrationTypeOK
<1>1. ASSUME NEW p \in Posts, NEW visibility, NEW body \in SUBSET Media, NEW again, NEW claims \in SUBSET body,
             SavePost(p, visibility, body, claims, again) PROVE LegacyHasNoContext'
  <2>1. SaveChange(p, body, claims)
    BY <1>0, <1>1, SaveEffect
  <2> QED
    BY <1>0, <2>1, MediaAssumption DEF SaveChange, TypeOK, LegacyHasNoContext, Managed, Legacy, Claimable, Reusable, Live
<1>2. ASSUME NEW m \in Media, NEW kind \in {"post", "comment"}, NEW p \in Posts, Reserve(m, kind, p) PROVE LegacyHasNoContext'
  <2>1. ReserveChange(m, kind)
    BY <1>0, <1>2, ReserveEffect
  <2> QED
    BY <1>0, <2>1, MediaAssumption DEF ReserveChange, TypeOK, LegacyHasNoContext, Managed, Legacy
<1>3. ASSUME NEW m \in Media, UploadStep(m) PROVE LegacyHasNoContext'
  <2>1. UploadChange(m)
    BY <1>0, <1>3, UploadEffect
  <2> QED
    BY <1>0, <2>1, MediaAssumption DEF UploadChange, TypeOK, LegacyHasNoContext, Managed, Legacy, Alike, Progress, Completable
<1>4. ASSUME NEW p \in Posts, DeletePost(p) PROVE LegacyHasNoContext'
  <2>1. DeleteChange(p)
    BY <1>0, <1>4, DeleteEffect
  <2> QED
    BY <1>0, <2>1, MediaAssumption DEF DeleteChange, TypeOK, LegacyHasNoContext, Managed, Legacy, Orphan, OwnedThrough, Live
<1>5. ASSUME NEW p \in Posts, NEW c \in Comments, NEW claims \in SUBSET Media, CreateComment(c, p, claims) PROVE LegacyHasNoContext'
  <2>1. CommentChange(p, c, claims)
    BY <1>0, <1>5, CommentEffect
  <2> QED
    BY <1>0, <2>1, MediaAssumption DEF CommentChange, TypeOK, LegacyHasNoContext, Managed, Legacy, CommentClaimable, Live
<1>6. ASSUME NEW k \in Cleaners, NEW m \in Media, Look(k, m) PROVE LegacyHasNoContext'
  BY <1>0, <1>6 DEF TypeOK, LegacyHasNoContext, Managed, Legacy, Look, rows
<1>7. ASSUME NEW k \in Cleaners, CleanerStep(k) PROVE LegacyHasNoContext'
  <2>1. CleanerChange(k, clean[k].m)
    BY <1>0, <1>7, CleanerEffect
  <2> QED
    BY <1>0, <2>1, MediaAssumption DEF CleanerChange, TypeOK, LegacyHasNoContext, Managed, Legacy, Alike, StillExpired
<1>8. CASE commitCopy
  <2>1. CopyChange(tool.m)
    BY <1>0, <1>8, CopyEffect
  <2> QED
    BY <1>0, <2>1, MediaAssumption DEF CopyChange, TypeOK, LegacyHasNoContext, Managed, Legacy, Live
<1>9. CASE UNCHANGED <<att, refs, posts, on, stored, up, late, clean>>
  BY <1>0, <1>9 DEF LegacyHasNoContext, Managed, Legacy
<1> QED
  BY <1>1, <1>2, <1>3, <1>4, <1>5, <1>6, <1>7, <1>8, <1>9, CoreSteps

Cite(m) == \E q \in Posts : <<m, q>> \in refs

(* What is committed stays served. *)
LEMMA ServedStep == ASSUME IInv, [MigrationNext]_allvars, NEW x \in Media PROVE Served(x)'
<1>0. /\ TypeOK /\ ToolTyped /\ links \subseteq Media \X Posts
      /\ Served(x) /\ ReadyIsStored /\ ClaimedIsDead /\ IdleIsBlank /\ ToolFindings
  BY CommittedForm DEF IInv, MigrationTypeOK, CommittedServed
<1>1. att[x].mode = "managed" /\ att[x].state = "ready" => x \in stored
  BY <1>0 DEF ReadyIsStored, Managed
<1>2. att'[x].mode = att[x].mode /\ UNCHANGED <<refs, stored>> /\ att'[x].state = att[x].state
        /\ att'[x].owner = att[x].owner /\ att'[x].pending = att[x].pending => Served(x)'
  BY <1>0 DEF Served, TypeOK
<1>3. ASSUME NEW p \in Posts, NEW visibility, NEW body \in SUBSET Media, NEW again, NEW claims \in SUBSET body,
             SavePost(p, visibility, body, claims, again) PROVE Served(x)'
  <2>1. SaveChange(p, body, claims)
    BY <1>0, <1>3, SaveEffect
  <2>2. /\ att' \in [Media -> Rows] /\ att'[x].mode = att[x].mode /\ att'[x].state = att[x].state /\ stored' = stored
        /\ x \in claims => Claimable(x, p) /\ att'[x].owner = p /\ att'[x].pending = "no"
        /\ x \notin claims =>
             /\ att'[x].owner = att[x].owner
             /\ att[x].owner # None \/ Cite(x)' => att'[x].pending = att[x].pending
        /\ x \in body \ claims => Reusable(x, p)
    BY <2>1 DEF SaveChange, Cite
  <2>3. Cite(x)' => Cite(x) \/ x \in body
    BY <2>1 DEF SaveChange, Cite
  <2>4. CASE x \in claims
    BY <1>0, <1>1, <2>2, <2>4, MediaAssumption DEF Served, Claimable
  <2>5. CASE x \notin claims /\ (att[x].owner # None \/ Cite(x))
    <3>1. Served(x) <=> (att[x].mode = "managed" =>
            att[x].state = "ready" /\ att[x].pending = "no" /\ att[x].owner # None /\ x \in stored)
      BY <2>5 DEF Served, Cite
    <3> QED
      BY <1>0, <2>2, <2>5, <3>1 DEF Served, Cite, TypeOK
  <2>6. CASE x \notin claims /\ x \in body
    <3>1. att[x].mode = "managed" => att[x].state = "ready" /\ att[x].pending = "no" /\ att[x].owner # None
      BY <2>2, <2>6 DEF Reusable, Legacy, Managed
    <3> QED
      BY <1>0, <1>1, <2>2, <2>6, <3>1 DEF Served, TypeOK
  <2>7. CASE x \notin claims /\ att[x].owner = None /\ ~Cite(x) /\ x \notin body
    BY <2>2, <2>3, <2>7 DEF Served, Cite
  <2> QED
    BY <2>4, <2>5, <2>6, <2>7
<1>4. ASSUME NEW m \in Media, NEW kind \in {"post", "comment"}, NEW p \in Posts, Reserve(m, kind, p) PROVE Served(x)'
  <2>1. ReserveChange(m, kind)
    BY <1>0, <1>4, ReserveEffect
  <2>2. /\ UNCHANGED <<refs, stored>> /\ att' \in [Media -> Rows] /\ (x # m => att'[x] = att[x])
        /\ x = m => ~Exists(x) /\ x \in Managed /\ att'[x].owner = None
    BY <1>0, <2>1 DEF ReserveChange, IdleIsBlank
  <2> QED
    BY <1>0, <2>2 DEF Served, Exists, Managed, TypeOK
<1>5. ASSUME NEW m \in Media, UploadStep(m) PROVE Served(x)'
  <2>1. UploadChange(m)
    BY <1>0, <1>5, UploadEffect
  <2>2. /\ UNCHANGED refs /\ att' \in [Media -> Rows] /\ (x \in stored => x \in stored')
        /\ att'[x].mode = att[x].mode /\ att'[x].owner = att[x].owner
        /\ \/ att'[x] = att[x]
           \/ att[x].state = "uploading" \/ att[x].pending = "live"
    BY <2>1 DEF UploadChange, Alike, Progress, Completable
  <2> QED
    BY <1>0, <2>2 DEF Served, TypeOK
<1>6. ASSUME NEW p \in Posts, DeletePost(p) PROVE Served(x)'
  <2>1. DeleteChange(p)
    BY <1>0, <1>6, DeleteEffect
  <2>2. /\ stored' = stored /\ att' \in [Media -> Rows]
        /\ Cite(x)' => Cite(x)
        /\ Orphan(x, p, refs', att'[x])
    BY <2>1 DEF DeleteChange, Cite
  <2>3. /\ att'[x].mode = att[x].mode /\ att'[x].state = att[x].state
        /\ Cite(x)' => att'[x].pending = att[x].pending /\ (att'[x].owner # None \/ att[x].owner = None)
        /\ att'[x].owner # None => att'[x].pending = att[x].pending /\ (att[x].owner # None \/ Cite(x)')
    BY <2>2, MediaAssumption DEF Orphan, Cite
  <2> HIDE DEF Cite
  <2>4. Served(x)' <=> (att'[x].mode = "managed" /\ (att'[x].owner # None \/ Cite(x)') =>
           att'[x].state = "ready" /\ att'[x].pending = "no" /\ att'[x].owner # None /\ x \in stored')
    BY DEF Served, Cite
  <2>5. Served(x) <=> (att[x].mode = "managed" /\ (att[x].owner # None \/ Cite(x)) =>
           att[x].state = "ready" /\ att[x].pending = "no" /\ att[x].owner # None /\ x \in stored)
    BY DEF Served, Cite
  <2> QED
    BY <1>0, <2>2, <2>3, <2>4, <2>5
<1>7. ASSUME NEW p \in Posts, NEW c \in Comments, NEW claims \in SUBSET Media, CreateComment(c, p, claims) PROVE Served(x)'
  <2>1. CommentChange(p, c, claims)
    BY <1>0, <1>7, CommentEffect
  <2>2. /\ UNCHANGED <<refs, stored>> /\ att' \in [Media -> Rows] /\ (x \notin claims => att'[x] = att[x])
        /\ x \in claims => /\ CommentClaimable(x, p) /\ att'[x].mode = att[x].mode
                           /\ att'[x].state = att[x].state /\ att'[x].owner = c /\ att'[x].pending = "no"
    BY <2>1 DEF CommentChange
  <2> QED
    BY <1>0, <1>1, <1>2, <2>2, MediaAssumption DEF Served, CommentClaimable, TypeOK
<1>8. ASSUME NEW k \in Cleaners, CleanerStep(k) PROVE Served(x)'
  <2>1. CleanerChange(k, clean[k].m)
    BY <1>0, <1>8, CleanerEffect
  <2> DEFINE m == clean[k].m
  <2>2. CASE x # m
    <3>1. refs' = refs /\ att'[x] = att[x] /\ (x \in stored => x \in stored')
      BY <2>1, <2>2 DEF CleanerChange
    <3> QED
      BY <1>0, <3>1 DEF Served
  <2>3. CASE x = m
    <3>1. /\ refs' = refs /\ att' \in [Media -> Rows]
          /\ \/ att[x].owner = None /\ att[x].pending = "due" /\ att'[x].owner = None
             \/ clean[k].at = "claimed" /\ att'[x] = att[x]
             \/ ~Cite(x) /\ att'[x].owner = None
             \/ att'[x] = att[x] /\ stored' = stored
      BY <2>1, <2>3 DEF CleanerChange, StillExpired, Alike, RefsOf, Cite
    <3>2. clean[k].at = "claimed" => att[x].state # "ready"
      BY <1>0, <2>3 DEF ClaimedIsDead
    <3> QED
      BY <1>0, <3>1, <3>2, <2>1 DEF Served, Cite, TypeOK, CleanerChange, StillExpired, Alike
  <2> QED
    BY <2>2, <2>3
<1>9. CASE commitCopy
  <2>1. CopyChange(tool.m)
    BY <1>0, <1>9, CopyEffect
  <2>2. CASE x # tool.m
    <3>1. /\ stored' = stored /\ att' \in [Media -> Rows] /\ att'[x] = att[x]
          /\ Cite(x)' <=> Cite(x)
      BY <2>1, <2>2 DEF CopyChange, Cite
    <3> QED
      BY <1>0, <3>1 DEF Served, Cite, TypeOK
  <2>3. CASE x = tool.m
    <3>1. /\ stored' = stored /\ tool.at = "verified" /\ att' \in [Media -> Rows]
          /\ att'[x].state = "ready" /\ att'[x].pending = "no"
          /\ att'[x].owner \in Posts \cup Comments
      BY <2>1, <2>3 DEF CopyChange
    <3> QED
      BY <1>0, <2>3, <3>1, MediaAssumption DEF Served, ToolFindings
  <2> QED
    BY <2>2, <2>3
<1>10. ASSUME NEW k \in Cleaners, NEW m \in Media, Look(k, m) PROVE Served(x)'
  BY <1>2, <1>10 DEF Look, rows
<1>11. CASE UNCHANGED <<att, refs, posts, on, stored, up, late, clean>>
  BY <1>2, <1>11
<1> QED
  BY <1>3, <1>4, <1>5, <1>6, <1>7, <1>8, <1>9, <1>10, <1>11, CoreSteps

(* What is committed stays ready and stored. *)
LEMMA CommittedStep == ASSUME IInv, [MigrationNext]_allvars PROVE CommittedServed'
  BY ServedStep DEF CommittedServed


(* Owners and references are of articles that are there. *)
LEMMA OwnerStep == ASSUME IInv, [MigrationNext]_allvars PROVE OwnerAlive'
<1>0. TypeOK /\ ToolTyped /\ links \subseteq Media \X Posts /\ OwnerAlive /\ CommittedServed /\ LinksLive
  BY CommittedForm DEF IInv, MigrationTypeOK
<1>1. ASSUME NEW p \in Posts, NEW visibility, NEW body \in SUBSET Media, NEW again, NEW claims \in SUBSET body,
             SavePost(p, visibility, body, claims, again) PROVE OwnerAlive'
  <2>1. SaveChange(p, body, claims)
    BY <1>0, <1>1, SaveEffect
  <2>2. \A q \in Posts : Live(q) => posts'[q] = "live"
    BY <1>0, <2>1 DEF SaveChange, Live, TypeOK
  <2>3. posts'[p] = "live"
    BY <1>0, <2>1 DEF SaveChange, Live, TypeOK
  <2>4. ASSUME NEW r \in refs' PROVE posts'[r[2]] = "live"
    <3>1. PICK m \in Media, q \in Posts : r = <<m, q>>
      BY <2>1 DEF SaveChange
    <3>2. q = p \/ <<m, q>> \in refs
      BY <2>1, <3>1 DEF SaveChange
    <3>3. q = p \/ Live(q)
      BY <1>0, <3>2 DEF OwnerAlive
    <3> QED
      BY <2>2, <2>3, <3>1, <3>3
  <2>5. ASSUME NEW m \in Managed', att'[m].owner # None
        PROVE  \/ att'[m].kind = "post" /\ att'[m].owner \in Posts /\ posts'[att'[m].owner] = "live"
               \/ att'[m].kind = "comment" /\ att'[m].owner \in Comments
                  /\ on'[att'[m].owner] \in Posts /\ posts'[on'[att'[m].owner]] = "live"
    <3>1. /\ m \in Media /\ m \in Managed /\ att'[m].kind = att[m].kind
          /\ \/ m \in claims /\ Claimable(m, p) /\ att'[m].owner = p
             \/ att'[m].owner = att[m].owner
          /\ on' = on
      BY <2>1, <2>5 DEF SaveChange, Managed
    <3>2. CASE m \in claims /\ Claimable(m, p) /\ att'[m].owner = p
      BY <2>3, <3>1, <3>2 DEF Claimable
    <3>3. CASE att'[m].owner = att[m].owner
      BY <1>0, <2>2, <2>5, <3>1, <3>3 DEF OwnerAlive
    <3> QED
      BY <3>1, <3>2, <3>3
  <2> QED
    BY <2>4, <2>5 DEF OwnerAlive, Live
<1>2. ASSUME NEW m \in Media, NEW kind \in {"post", "comment"}, NEW p \in Posts, Reserve(m, kind, p) PROVE OwnerAlive'
  <2>1. ReserveChange(m, kind)
    BY <1>0, <1>2, ReserveEffect
  <2> QED
    BY <1>0, <2>1, MediaAssumption DEF ReserveChange, TypeOK, OwnerAlive, LinksLive, Live, Managed, Legacy
<1>3. ASSUME NEW m \in Media, UploadStep(m) PROVE OwnerAlive'
  <2>1. UploadChange(m)
    BY <1>0, <1>3, UploadEffect
  <2> QED
    BY <1>0, <2>1, MediaAssumption DEF UploadChange, TypeOK, OwnerAlive, LinksLive, Live, Managed, Legacy, Alike, Progress, Completable
<1>4. ASSUME NEW p \in Posts, DeletePost(p) PROVE OwnerAlive'
  <2>1. DeleteChange(p)
    BY <1>0, <1>4, DeleteEffect
  <2>2. \A q \in Posts : Live(q) /\ q # p => posts'[q] = "live"
    BY <1>0, <2>1 DEF DeleteChange, Live, TypeOK
  <2>3. \A x \in Media, q \in Posts : <<x, q>> \in refs' => q # p /\ Live(q)
    BY <1>0, <2>1 DEF DeleteChange, OwnerAlive
  <2>4. ASSUME NEW r \in refs' PROVE posts'[r[2]] = "live"
    <3>1. PICK m \in Media, q \in Posts : r = <<m, q>>
      BY <2>1 DEF DeleteChange
    <3> QED
      BY <2>2, <2>3, <3>1
  <2>5. ASSUME NEW m \in Managed', att'[m].owner # None
        PROVE  \/ att'[m].kind = "post" /\ att'[m].owner \in Posts /\ posts'[att'[m].owner] = "live"
               \/ att'[m].kind = "comment" /\ att'[m].owner \in Comments
                  /\ on'[att'[m].owner] \in Posts /\ posts'[on'[att'[m].owner]] = "live"
    <3>1. m \in Media /\ Orphan(m, p, refs', att'[m]) /\ on' = on
      BY <2>1, <2>5 DEF DeleteChange, Managed
    <3>2. m \in Managed
      BY <2>5, <3>1 DEF Orphan, Managed
    <3>3. CASE att'[m].owner \in Posts /\ <<m, att'[m].owner>> \in refs' /\ att'[m].kind = "post"
      BY <2>2, <2>3, <3>1, <3>3
    <3>4. CASE ~OwnedThrough(m, p) /\ att'[m].owner = att[m].owner /\ att'[m].kind = att[m].kind
      <4>1. Exists(m)
        BY <1>0, <2>5, <3>2, <3>4 DEF CommittedServed, Served, Exists, Managed
      <4>2. \/ att[m].kind = "post" /\ att[m].owner \in Posts /\ Live(att[m].owner)
            \/ att[m].kind = "comment" /\ att[m].owner \in Comments
               /\ on[att[m].owner] \in Posts /\ Live(on[att[m].owner])
        BY <1>0, <2>5, <3>2, <3>4 DEF OwnerAlive
      <4>3. \/ att[m].kind = "post" /\ att[m].owner # p
            \/ att[m].kind = "comment" /\ on[att[m].owner] # p
        BY <3>4, <4>1, <4>2 DEF OwnedThrough
      <4> QED
        BY <2>2, <3>1, <3>4, <4>2, <4>3
    <3> QED
      BY <2>5, <3>1, <3>2, <3>3, <3>4 DEF Orphan
  <2> QED
    BY <2>4, <2>5 DEF OwnerAlive, Live
<1>5. ASSUME NEW p \in Posts, NEW c \in Comments, NEW claims \in SUBSET Media, CreateComment(c, p, claims) PROVE OwnerAlive'
  <2>1. CommentChange(p, c, claims)
    BY <1>0, <1>5, CommentEffect
  <2> QED
    BY <1>0, <2>1, MediaAssumption DEF CommentChange, TypeOK, OwnerAlive, LinksLive, Live, Managed, Legacy, CommentClaimable
<1>6. ASSUME NEW k \in Cleaners, NEW m \in Media, Look(k, m) PROVE OwnerAlive'
  BY <1>0, <1>6 DEF TypeOK, OwnerAlive, LinksLive, Live, Managed, Legacy, Look, rows
<1>7. ASSUME NEW k \in Cleaners, CleanerStep(k) PROVE OwnerAlive'
  <2>1. CleanerChange(k, clean[k].m)
    BY <1>0, <1>7, CleanerEffect
  <2> QED
    BY <1>0, <2>1, MediaAssumption DEF CleanerChange, TypeOK, OwnerAlive, LinksLive, Live, Managed, Legacy, Alike, StillExpired
<1>8. CASE commitCopy
  <2>1. CopyChange(tool.m)
    BY <1>0, <1>8, CopyEffect
  <2> QED
    BY <1>0, <2>1, MediaAssumption DEF CopyChange, TypeOK, OwnerAlive, LinksLive, Live, Managed, Legacy
<1>9. CASE UNCHANGED <<att, refs, posts, on, stored, up, late, clean>>
  BY <1>0, <1>9 DEF OwnerAlive, CommittedServed, Served, LinksLive, Live, Managed, Legacy
<1> QED
  BY <1>1, <1>2, <1>3, <1>4, <1>5, <1>6, <1>7, <1>8, <1>9, CoreSteps

(* Stored objects have rows. *)
LEMMA ObjectStep == ASSUME IInv, [MigrationNext]_allvars PROVE ObjectHasRow'
<1>0. TypeOK /\ ToolTyped /\ links \subseteq Media \X Posts /\ ObjectHasRow /\ PutHasRow /\ RemovedIsGone /\ IdleIsBlank
  BY DEF IInv, MigrationTypeOK
<1>1. ASSUME NEW p \in Posts, NEW visibility, NEW body \in SUBSET Media, NEW again, NEW claims \in SUBSET body,
             SavePost(p, visibility, body, claims, again) PROVE ObjectHasRow'
  <2>1. SaveChange(p, body, claims)
    BY <1>0, <1>1, SaveEffect
  <2>2. UNCHANGED <<stored, late>> /\ \A m \in Media : att'[m].state = att[m].state /\ att'[m].mode = att[m].mode
    BY <2>1 DEF SaveChange
  <2> QED
    BY <1>0, <2>2 DEF ObjectHasRow, Exists, Managed
<1>2. ASSUME NEW m \in Media, NEW kind \in {"post", "comment"}, NEW p \in Posts, Reserve(m, kind, p) PROVE ObjectHasRow'
  <2>1. ReserveChange(m, kind)
    BY <1>0, <1>2, ReserveEffect
  <2> QED
    BY <1>0, <2>1, MediaAssumption DEF ReserveChange, TypeOK, ObjectHasRow, PutHasRow, RemovedIsGone, IdleIsBlank, Exists, Managed, Legacy
<1>3. ASSUME NEW m \in Media, UploadStep(m) PROVE ObjectHasRow'
  <2>1. UploadChange(m)
    BY <1>0, <1>3, UploadEffect
  <2> QED
    BY <1>0, <2>1, MediaAssumption DEF UploadChange, TypeOK, ObjectHasRow, PutHasRow, RemovedIsGone, IdleIsBlank, Exists, Managed, Legacy, Alike, Progress, Completable
<1>4. ASSUME NEW p \in Posts, DeletePost(p) PROVE ObjectHasRow'
  <2>1. DeleteChange(p)
    BY <1>0, <1>4, DeleteEffect
  <2>2. ASSUME NEW x \in Media
        PROVE  /\ UNCHANGED <<stored, up, late, clean>>
               /\ att'[x].state = att[x].state /\ att'[x].mode = att[x].mode
               /\ att[x].pending # "no" => att'[x].pending = att[x].pending
    BY <2>1 DEF DeleteChange, Orphan, Scheduled
  <2>3. ASSUME NEW x \in Media, x \in stored', att'[x].mode = "managed", late'[x] = "no"
        PROVE  att'[x].state # "none"
    BY <1>0, <2>2, <2>3 DEF ObjectHasRow, Exists, Managed
  <2> QED
    BY <2>3 DEF ObjectHasRow, Exists, Managed
<1>5. ASSUME NEW p \in Posts, NEW c \in Comments, NEW claims \in SUBSET Media, CreateComment(c, p, claims) PROVE ObjectHasRow'
  <2>1. CommentChange(p, c, claims)
    BY <1>0, <1>5, CommentEffect
  <2> QED
    BY <1>0, <2>1, MediaAssumption DEF CommentChange, TypeOK, ObjectHasRow, PutHasRow, RemovedIsGone, IdleIsBlank, Exists, Managed, Legacy, CommentClaimable, Live
<1>6. ASSUME NEW k \in Cleaners, NEW m \in Media, Look(k, m) PROVE ObjectHasRow'
  BY <1>0, <1>6 DEF TypeOK, ObjectHasRow, PutHasRow, RemovedIsGone, IdleIsBlank, Exists, Managed, Legacy, Look, rows
<1>7. ASSUME NEW k \in Cleaners, CleanerStep(k) PROVE ObjectHasRow'
  <2>1. CleanerChange(k, clean[k].m)
    BY <1>0, <1>7, CleanerEffect
  <2> QED
    BY <1>0, <2>1, MediaAssumption DEF CleanerChange, TypeOK, ObjectHasRow, PutHasRow, RemovedIsGone, IdleIsBlank, Exists, Managed, Legacy, Alike, StillExpired
<1>8. CASE commitCopy
  <2>1. CopyChange(tool.m)
    BY <1>0, <1>8, CopyEffect
  <2> QED
    BY <1>0, <2>1, MediaAssumption DEF CopyChange, TypeOK, ObjectHasRow, PutHasRow, RemovedIsGone, IdleIsBlank, Exists, Managed, Legacy, Live
<1>9. CASE UNCHANGED <<att, refs, posts, on, stored, up, late, clean>>
  BY <1>0, <1>9 DEF ObjectHasRow, PutHasRow, RemovedIsGone, IdleIsBlank, Exists, Managed, Legacy
<1> QED
  BY <1>1, <1>2, <1>3, <1>4, <1>5, <1>6, <1>7, <1>8, <1>9, CoreSteps

(* Comments are on articles that were written. *)
LEMMA PlacedStep == ASSUME IInv, [MigrationNext]_allvars PROVE CommentsPlaced'
<1>0. TypeOK /\ ToolTyped /\ links \subseteq Media \X Posts /\ CommentsPlaced
  BY DEF IInv, MigrationTypeOK
<1>1. ASSUME NEW p \in Posts, NEW visibility, NEW body \in SUBSET Media, NEW again, NEW claims \in SUBSET body,
             SavePost(p, visibility, body, claims, again) PROVE CommentsPlaced'
  <2>1. SaveChange(p, body, claims)
    BY <1>0, <1>1, SaveEffect
  <2> QED
    BY <1>0, <2>1, MediaAssumption DEF SaveChange, TypeOK, CommentsPlaced, Live, Claimable, Reusable
<1>2. ASSUME NEW m \in Media, NEW kind \in {"post", "comment"}, NEW p \in Posts, Reserve(m, kind, p) PROVE CommentsPlaced'
  <2>1. ReserveChange(m, kind)
    BY <1>0, <1>2, ReserveEffect
  <2> QED
    BY <1>0, <2>1, MediaAssumption DEF ReserveChange, TypeOK, CommentsPlaced, Live
<1>3. ASSUME NEW m \in Media, UploadStep(m) PROVE CommentsPlaced'
  <2>1. UploadChange(m)
    BY <1>0, <1>3, UploadEffect
  <2> QED
    BY <1>0, <2>1, MediaAssumption DEF UploadChange, TypeOK, CommentsPlaced, Live, Alike, Progress, Completable
<1>4. ASSUME NEW p \in Posts, DeletePost(p) PROVE CommentsPlaced'
  <2>1. DeleteChange(p)
    BY <1>0, <1>4, DeleteEffect
  <2> QED
    BY <1>0, <2>1, MediaAssumption DEF DeleteChange, TypeOK, CommentsPlaced, Live, Orphan, OwnedThrough
<1>5. ASSUME NEW p \in Posts, NEW c \in Comments, NEW claims \in SUBSET Media, CreateComment(c, p, claims) PROVE CommentsPlaced'
  <2>1. CommentChange(p, c, claims)
    BY <1>0, <1>5, CommentEffect
  <2> QED
    BY <1>0, <2>1, MediaAssumption DEF CommentChange, TypeOK, CommentsPlaced, Live, CommentClaimable
<1>6. ASSUME NEW k \in Cleaners, NEW m \in Media, Look(k, m) PROVE CommentsPlaced'
  BY <1>0, <1>6 DEF TypeOK, CommentsPlaced, Live, Look, rows
<1>7. ASSUME NEW k \in Cleaners, CleanerStep(k) PROVE CommentsPlaced'
  <2>1. CleanerChange(k, clean[k].m)
    BY <1>0, <1>7, CleanerEffect
  <2> QED
    BY <1>0, <2>1, MediaAssumption DEF CleanerChange, TypeOK, CommentsPlaced, Live, Alike, StillExpired
<1>8. CASE commitCopy
  <2>1. CopyChange(tool.m)
    BY <1>0, <1>8, CopyEffect
  <2> QED
    BY <1>0, <2>1, MediaAssumption DEF CopyChange, TypeOK, CommentsPlaced, Live
<1>9. CASE UNCHANGED <<att, refs, posts, on, stored, up, late, clean>>
  BY <1>0, <1>9 DEF CommentsPlaced, Live
<1> QED
  BY <1>1, <1>2, <1>3, <1>4, <1>5, <1>6, <1>7, <1>8, <1>9, CoreSteps

(* The parts of TypeOK about neither rows nor the migration. *)
PlainTyped ==
    /\ refs \subseteq Media \X Posts
    /\ posts \in [Posts -> {"absent", "live", "deleted"}]
    /\ on \in [Comments -> Posts \cup {None}]
    /\ stored \subseteq Media
    /\ up \in [Media -> {"idle", "put", "stored", "failed", "done", "ended"}]
    /\ late \in [Media -> {"no", "flying", "landed"}]
    /\ clean \in [Cleaners -> [at : {"idle", "looked", "claimed", "removed"}, m : Media \cup {None}]]
    /\ \A k \in Cleaners : clean[k].at # "idle" => clean[k].m \in Media

(* What a step does not undo: files stay managed, and no upload takes up a  *)
(* copied one.                                                              *)
Settled ==
    \A m \in Media :
        /\ m \in Managed => att'[m].mode = "managed"
        /\ old[m].record # "none" => ~att'[m].token /\ up'[m] = "ended"

(* Everything but rows and the migration is of its type. *)
LEMMA PlainStep == ASSUME IInv, [MigrationNext]_allvars PROVE PlainTyped'
<1>0. TypeOK /\ ToolTyped /\ links \subseteq Media \X Posts /\ PlainTyped
  BY DEF IInv, MigrationTypeOK, TypeOK, PlainTyped
<1>1. ASSUME NEW p \in Posts, NEW visibility, NEW body \in SUBSET Media, NEW again, NEW claims \in SUBSET body,
             SavePost(p, visibility, body, claims, again) PROVE PlainTyped'
  <2>1. SaveChange(p, body, claims)
    BY <1>0, <1>1, SaveEffect
  <2> QED
    BY <1>0, <2>1, MediaAssumption DEF SaveChange, TypeOK, PlainTyped, Claimable, Reusable, Live
<1>2. ASSUME NEW m \in Media, NEW kind \in {"post", "comment"}, NEW p \in Posts, Reserve(m, kind, p) PROVE PlainTyped'
  <2>1. ReserveChange(m, kind)
    BY <1>0, <1>2, ReserveEffect
  <2> QED
    BY <1>0, <2>1, MediaAssumption DEF ReserveChange, TypeOK, PlainTyped
<1>3. ASSUME NEW m \in Media, UploadStep(m) PROVE PlainTyped'
  <2>1. UploadChange(m)
    BY <1>0, <1>3, UploadEffect
  <2> QED
    BY <1>0, <2>1, MediaAssumption DEF UploadChange, TypeOK, PlainTyped, Alike, Progress, Completable
<1>4. ASSUME NEW p \in Posts, DeletePost(p) PROVE PlainTyped'
  <2>1. DeleteChange(p)
    BY <1>0, <1>4, DeleteEffect
  <2> QED
    BY <1>0, <2>1, MediaAssumption DEF DeleteChange, TypeOK, PlainTyped, Orphan, OwnedThrough, Live
<1>5. ASSUME NEW p \in Posts, NEW c \in Comments, NEW claims \in SUBSET Media, CreateComment(c, p, claims) PROVE PlainTyped'
  <2>1. CommentChange(p, c, claims)
    BY <1>0, <1>5, CommentEffect
  <2> QED
    BY <1>0, <2>1, MediaAssumption DEF CommentChange, TypeOK, PlainTyped, CommentClaimable, Live
<1>6. ASSUME NEW k \in Cleaners, NEW m \in Media, Look(k, m) PROVE PlainTyped'
  BY <1>0, <1>6 DEF TypeOK, PlainTyped, Look, rows
<1>7. ASSUME NEW k \in Cleaners, CleanerStep(k) PROVE PlainTyped'
  <2>1. CleanerChange(k, clean[k].m)
    BY <1>0, <1>7, CleanerEffect
  <2> QED
    BY <1>0, <2>1, MediaAssumption DEF CleanerChange, TypeOK, PlainTyped, Alike, StillExpired
<1>8. CASE commitCopy
  <2>1. CopyChange(tool.m)
    BY <1>0, <1>8, CopyEffect
  <2> QED
    BY <1>0, <2>1, MediaAssumption DEF CopyChange, TypeOK, PlainTyped, Live
<1>9. CASE UNCHANGED <<att, refs, posts, on, stored, up, late, clean>>
  BY <1>0, <1>9 DEF PlainTyped
<1> QED
  BY <1>1, <1>2, <1>3, <1>4, <1>5, <1>6, <1>7, <1>8, <1>9, CoreSteps

(* A comment that has media was written. *)
LEMMA WrittenStep == ASSUME IInv, [MigrationNext]_allvars PROVE CommentsWritten'
<1>0. TypeOK /\ ToolTyped /\ links \subseteq Media \X Posts /\ CommentsWritten /\ OwnersTyped
  BY DEF IInv, MigrationTypeOK, TypeOK, OwnersTyped
<1>1. ASSUME NEW p \in Posts, NEW visibility, NEW body \in SUBSET Media, NEW again, NEW claims \in SUBSET body,
             SavePost(p, visibility, body, claims, again) PROVE CommentsWritten'
  <2>1. SaveChange(p, body, claims)
    BY <1>0, <1>1, SaveEffect
  <2> QED
    BY <1>0, <2>1, MediaAssumption DEF SaveChange, TypeOK, CommentsWritten, OwnersTyped, Claimable, Reusable, Live
<1>2. ASSUME NEW m \in Media, NEW kind \in {"post", "comment"}, NEW p \in Posts, Reserve(m, kind, p) PROVE CommentsWritten'
  <2>1. ReserveChange(m, kind)
    BY <1>0, <1>2, ReserveEffect
  <2> QED
    BY <1>0, <2>1, MediaAssumption DEF ReserveChange, TypeOK, CommentsWritten, OwnersTyped
<1>3. ASSUME NEW m \in Media, UploadStep(m) PROVE CommentsWritten'
  <2>1. UploadChange(m)
    BY <1>0, <1>3, UploadEffect
  <2> QED
    BY <1>0, <2>1, MediaAssumption DEF UploadChange, TypeOK, CommentsWritten, OwnersTyped, Alike, Progress, Completable
<1>4. ASSUME NEW p \in Posts, DeletePost(p) PROVE CommentsWritten'
  <2>1. DeleteChange(p)
    BY <1>0, <1>4, DeleteEffect
  <2>2. ASSUME NEW x \in Media, att'[x].kind = "comment", att'[x].owner # None PROVE on'[att'[x].owner] # None
    <3>1. Orphan(x, p, refs', att'[x]) /\ on' = on
      BY <2>1 DEF DeleteChange
    <3>2. att'[x].owner = att[x].owner /\ att'[x].kind = att[x].kind
      BY <2>2, <3>1 DEF Orphan
    <3> QED
      BY <1>0, <2>2, <3>1, <3>2 DEF CommentsWritten
  <2> QED
    BY <2>2 DEF CommentsWritten
<1>5. ASSUME NEW p \in Posts, NEW c \in Comments, NEW claims \in SUBSET Media, CreateComment(c, p, claims) PROVE CommentsWritten'
  <2>1. CommentChange(p, c, claims)
    BY <1>0, <1>5, CommentEffect
  <2> QED
    BY <1>0, <2>1, MediaAssumption DEF CommentChange, TypeOK, CommentsWritten, OwnersTyped, CommentClaimable, Live
<1>6. ASSUME NEW k \in Cleaners, NEW m \in Media, Look(k, m) PROVE CommentsWritten'
  BY <1>0, <1>6 DEF TypeOK, CommentsWritten, OwnersTyped, Look, rows
<1>7. ASSUME NEW k \in Cleaners, CleanerStep(k) PROVE CommentsWritten'
  <2>1. CleanerChange(k, clean[k].m)
    BY <1>0, <1>7, CleanerEffect
  <2> QED
    BY <1>0, <2>1, MediaAssumption DEF CleanerChange, TypeOK, CommentsWritten, OwnersTyped, Alike, StillExpired, Rows
<1>8. CASE commitCopy
  <2>1. CopyChange(tool.m)
    BY <1>0, <1>8, CopyEffect
  <2> QED
    BY <1>0, <2>1, MediaAssumption DEF CopyChange, TypeOK, CommentsWritten, OwnersTyped, Live
<1>9. CASE UNCHANGED <<att, refs, posts, on, stored, up, late, clean>>
  BY <1>0, <1>9 DEF CommentsWritten, OwnersTyped
<1> QED
  BY <1>1, <1>2, <1>3, <1>4, <1>5, <1>6, <1>7, <1>8, <1>9, CoreSteps

(* Managed media stay so; copied ones are settled. *)
LEMMA SettledStep == ASSUME IInv, [MigrationNext]_allvars PROVE Settled
<1>0. TypeOK /\ ToolTyped /\ links \subseteq Media \X Posts /\ CopiedIsSettled /\ IdleIsBlank
  BY DEF IInv, MigrationTypeOK
<1>1. ASSUME NEW p \in Posts, NEW visibility, NEW body \in SUBSET Media, NEW again, NEW claims \in SUBSET body,
             SavePost(p, visibility, body, claims, again) PROVE Settled
  <2>1. SaveChange(p, body, claims)
    BY <1>0, <1>1, SaveEffect
  <2> QED
    BY <1>0, <2>1, MediaAssumption DEF SaveChange, TypeOK, CopiedIsSettled, IdleIsBlank, Settled, Exists, Managed, Legacy, Claimable, Reusable, Live
<1>2. ASSUME NEW m \in Media, NEW kind \in {"post", "comment"}, NEW p \in Posts, Reserve(m, kind, p) PROVE Settled
  <2>1. ReserveChange(m, kind)
    BY <1>0, <1>2, ReserveEffect
  <2> QED
    BY <1>0, <2>1, MediaAssumption DEF ReserveChange, TypeOK, CopiedIsSettled, IdleIsBlank, Settled, Exists, Managed, Legacy
<1>3. ASSUME NEW m \in Media, UploadStep(m) PROVE Settled
  <2>1. UploadChange(m)
    BY <1>0, <1>3, UploadEffect
  <2> QED
    BY <1>0, <2>1, MediaAssumption DEF UploadChange, TypeOK, CopiedIsSettled, IdleIsBlank, Settled, Exists, Managed, Legacy, Alike, Progress, Completable
<1>4. ASSUME NEW p \in Posts, DeletePost(p) PROVE Settled
  <2>1. DeleteChange(p)
    BY <1>0, <1>4, DeleteEffect
  <2> QED
    BY <1>0, <2>1, MediaAssumption DEF DeleteChange, TypeOK, CopiedIsSettled, IdleIsBlank, Settled, Exists, Managed, Legacy, Orphan, OwnedThrough, Live
<1>5. ASSUME NEW p \in Posts, NEW c \in Comments, NEW claims \in SUBSET Media, CreateComment(c, p, claims) PROVE Settled
  <2>1. CommentChange(p, c, claims)
    BY <1>0, <1>5, CommentEffect
  <2> QED
    BY <1>0, <2>1, MediaAssumption DEF CommentChange, TypeOK, CopiedIsSettled, IdleIsBlank, Settled, Exists, Managed, Legacy, CommentClaimable, Live
<1>6. ASSUME NEW k \in Cleaners, NEW m \in Media, Look(k, m) PROVE Settled
  BY <1>0, <1>6 DEF TypeOK, CopiedIsSettled, IdleIsBlank, Settled, Exists, Managed, Legacy, Look, rows
<1>7. ASSUME NEW k \in Cleaners, CleanerStep(k) PROVE Settled
  <2>1. CleanerChange(k, clean[k].m)
    BY <1>0, <1>7, CleanerEffect
  <2> QED
    BY <1>0, <2>1, MediaAssumption DEF CleanerChange, TypeOK, CopiedIsSettled, IdleIsBlank, Settled, Exists, Managed, Legacy, Alike, StillExpired
<1>8. CASE commitCopy
  <2>1. CopyChange(tool.m)
    BY <1>0, <1>8, CopyEffect
  <2> QED
    BY <1>0, <2>1, MediaAssumption DEF CopyChange, TypeOK, CopiedIsSettled, IdleIsBlank, Settled, Exists, Managed, Legacy, Live
<1>9. CASE UNCHANGED <<att, refs, posts, on, stored, up, late, clean>>
  BY <1>0, <1>9 DEF CopiedIsSettled, IdleIsBlank, Settled, Exists, Managed, Legacy
<1> QED
  BY <1>1, <1>2, <1>3, <1>4, <1>5, <1>6, <1>7, <1>8, <1>9, CoreSteps

(***************************************************************************)
(* The migration                                                           *)
(***************************************************************************)

Sources == {NoSource} \cup [record : {"copied"}, object : {"stored", "cached", "gone"}]
                      \cup [record : {"retired"}, object : {"cached", "gone"}]
                      \cup [record : {"purged"}, object : {"gone"}]

(* The fields of a source, and how they agree *)
LEMMA SourceFields ==
  ASSUME NEW r \in Sources
  PROVE  /\ r \in [record : {"none", "copied", "retired", "purged"}, object : {"stored", "cached", "gone"}]
         /\ r.object = "stored" => r.record = "copied"
         /\ r.object # "gone" => r.record \in {"copied", "retired"}
  BY DEF Sources, NoSource

(* and the other way round. *)
LEMMA IsSource ==
  ASSUME NEW r \in [record : {"none", "copied", "retired", "purged"}, object : {"stored", "cached", "gone"}],
         r.object = "stored" => r.record = "copied",
         r.object # "gone" => r.record \in {"copied", "retired"}
  PROVE  r \in Sources
  BY DEF Sources, NoSource

(* What the migration knows, apart from rows. *)
OldTyped ==
    /\ old \in [Media -> Sources]
    /\ held = {m \in Media : Unpurged(m)}

WindowTyped ==
    /\ serving \in BOOLEAN
    /\ tool.at \in {"copying", "verified", "retiring", "checked", "deleted"} => ~serving

(* MigrationTypeOK in those parts *)
LEMMA TypeForm ==
  MigrationTypeOK <=>
    /\ TypeOK /\ OldTyped /\ WindowTyped
    /\ \A m \in Media : old[m].record # "none" => m \in Managed
    /\ links \subseteq Media \X Posts /\ vis \in [Posts -> {"public", "hidden", "before"}]
    /\ tool.todo \subseteq Media
  BY DEF MigrationTypeOK, OldTyped, WindowTyped, Sources

(* The command keeps its own state and its window. *)
LEMMA ToolOps == ASSUME ToolTyped, WindowTyped, OpsStep PROVE ToolTyped' /\ WindowTyped'
<1> USE DEF ToolTyped, WindowTyped, Idle, Tool, Done
<1>1. CASE OpenWindow \/ CloseWindow
  BY <1>1 DEF OpenWindow, CloseWindow
<1>2. CASE ClearCaches
  BY <1>2 DEF ClearCaches
<1>3. CASE Audit
  BY <1>3 DEF Audit, Planned
<1>4. ASSUME NEW m \in Media, Copy(m) PROVE ToolTyped' /\ WindowTyped'
  BY <1>4 DEF Copy
<1>5. CASE Retire
  BY <1>5 DEF Retire
<1>6. ASSUME NEW m \in Media, CheckOriginal(m) PROVE ToolTyped' /\ WindowTyped'
  BY <1>6 DEF CheckOriginal
<1>7. CASE DeleteOriginal
  BY <1>7 DEF DeleteOriginal
<1>8. CASE RecordRetired
  BY <1>8 DEF RecordRetired
<1>9. CASE ConfirmPurge
  BY <1>9 DEF ConfirmPurge
<1>10. ASSUME NEW m \in Media, VerifyAbsent(m) PROVE ToolTyped' /\ WindowTyped'
  BY <1>10 DEF VerifyAbsent
<1>11. CASE RecordPurged
  BY <1>11 DEF RecordPurged
<1>12. CASE EndTool
  BY <1>12 DEF EndTool
<1> QED
  BY <1>1, <1>2, <1>3, <1>4, <1>5, <1>6, <1>7, <1>8, <1>9, <1>10, <1>11, <1>12 DEF OpsStep

(* What becomes of the originals. *)
OldChange(m) ==
    /\ old'[m] \in Sources
    /\ old'[m].record # "none" <=> old[m].record # "none"
    /\ old[m].object # "stored" => old'[m].object # "stored"
    /\ old[m].object = "gone" => old'[m].object = "gone"
    /\ m \in held' <=> Unpurged(m)'
    /\ old[m].object = "stored" /\ old'[m].object # "stored" => tool.at = "checked" /\ tool.m = m

(* The command and the clearing of caches change records in that way. *)
LEMMA OldOps ==
  ASSUME ToolTyped, OldTyped, ToolFindings, OpsStep, NEW m \in Media
  PROVE  OldChange(m)
<1>1. /\ old[m] \in Sources /\ old[m] \in [record : {"none", "copied", "retired", "purged"}, object : {"stored", "cached", "gone"}]
      /\ old[m].object = "stored" => old[m].record = "copied"
      /\ old[m].object # "gone" => old[m].record \in {"copied", "retired"}
      /\ held \subseteq Media /\ (m \in held <=> Unpurged(m)) /\ old = [x \in Media |-> old[x]]
  BY SourceFields DEF OldTyped
<1>2. CASE UNCHANGED <<old, held>>
  BY <1>1, <1>2 DEF OldChange, Unpurged
<1>3. CASE ClearCaches
  <2>1. /\ held' = held /\ old' = [x \in Media |-> old'[x]]
        /\ \/ old'[m] = old[m]
           \/ old[m].object = "cached" /\ old'[m] = [old[m] EXCEPT !.object = "gone"]
    BY <1>3 DEF ClearCaches, vars, rows
  <2>2. old'[m] \in Sources
    BY <1>1, <2>1, IsSource
  <2> QED
    BY <1>1, <2>1, <2>2 DEF OldChange, Unpurged
<1>4. CASE DeleteOriginal
  <2>1. /\ held' = held /\ old' = [x \in Media |-> old'[x]]
        /\ \/ old'[m] = old[m]
           \/ m = tool.m /\ tool.at = "checked" /\ old[m].object = "stored" /\ old'[m] = [old[m] EXCEPT !.object = "cached"]
    BY <1>1, <1>4 DEF DeleteOriginal, vars, rows, OldTyped
  <2>2. old'[m] \in Sources
    BY <1>1, <2>1, IsSource
  <2> QED
    BY <1>1, <2>1, <2>2 DEF OldChange, Unpurged
<1>5. CASE RecordRetired
  <2>1. /\ held' = held /\ old' = [x \in Media |-> old'[x]]
        /\ \/ old'[m] = old[m]
           \/ /\ m = tool.m /\ old[m].record = "copied" /\ old[m].object # "stored"
              /\ old'[m] = [old[m] EXCEPT !.record = "retired"]
    BY <1>1, <1>5 DEF RecordRetired, vars, rows, OldTyped, ToolFindings, ToolTyped
  <2>2. old'[m] \in Sources
    BY <1>1, <2>1, IsSource
  <2> QED
    BY <1>1, <2>1, <2>2 DEF OldChange, Unpurged
<1>6. CASE RecordPurged
  <2>1. /\ held' = held \ {tool.m} /\ old' = [x \in Media |-> old'[x]]
        /\ \/ m # tool.m /\ old'[m] = old[m]
           \/ /\ m = tool.m /\ old[m].record = "retired" /\ old[m].object \notin {"stored", "cached"}
              /\ old'[m] = [old[m] EXCEPT !.record = "purged"]
    BY <1>1, <1>6 DEF RecordPurged, OldTyped, ToolFindings, ToolTyped
  <2>2. old'[m] \in Sources
    BY <1>1, <2>1, IsSource
  <2> QED
    BY <1>1, <2>1, <2>2 DEF OldChange, Unpurged
<1> QED
  BY <1>2, <1>3, <1>4, <1>5, <1>6
  DEF OpsStep, OpenWindow, CloseWindow, Audit, Copy, Retire, CheckOriginal, ConfirmPurge, VerifyAbsent, EndTool, vars, rows

(* What the command found out holds until it acts on it. *)
LEMMA FindingsOps ==
  ASSUME TypeOK, ToolTyped, OldTyped, ToolFindings, OpsStep
  PROVE  ToolFindings'
<1> USE DEF ToolTyped, ToolFindings, Idle, Tool, Done, Unused, LinksOf, Managed
<1>0. /\ UNCHANGED <<att, refs, posts, on, shop, stored, up, late, clean, links, vis>>
      /\ \A m \in Media : old[m] \in [record : {"none", "copied", "retired", "purged"}, object : {"stored", "cached", "gone"}]
      /\ old \in [Media -> [record : {"none", "copied", "retired", "purged"}, object : {"stored", "cached", "gone"}]]
  BY OpsFrame, SourceFields DEF OldTyped
<1>1. CASE OpenWindow \/ CloseWindow
  BY <1>0, <1>1 DEF OpenWindow, CloseWindow
<1>2. CASE ClearCaches
  BY <1>0, <1>2 DEF ClearCaches
<1>3. CASE Audit \/ EndTool
  BY <1>0, <1>3 DEF Audit, EndTool
<1>4. ASSUME NEW m \in Media, Copy(m) PROVE ToolFindings'
  BY <1>0, <1>4 DEF Copy
<1>5. CASE Retire
  BY <1>0, <1>5 DEF Retire
<1>6. ASSUME NEW m \in Media, CheckOriginal(m) PROVE ToolFindings'
  BY <1>0, <1>6 DEF CheckOriginal
<1>7. CASE DeleteOriginal
  BY <1>0, <1>7 DEF DeleteOriginal
<1>8. CASE RecordRetired
  BY <1>0, <1>8 DEF RecordRetired
<1>9. CASE ConfirmPurge
  BY <1>0, <1>9 DEF ConfirmPurge
<1>10. ASSUME NEW m \in Media, VerifyAbsent(m) PROVE ToolFindings'
  BY <1>0, <1>10 DEF VerifyAbsent
<1>11. CASE RecordPurged
  BY <1>0, <1>11 DEF RecordPurged
<1> QED
  BY <1>1, <1>2, <1>3, <1>4, <1>5, <1>6, <1>7, <1>8, <1>9, <1>10, <1>11 DEF OpsStep

(* Requests to the API, saves included, leave the migration alone; only the *)
(* confirmation may run at the same time.                                   *)
LEMMA ApiWindow ==
  ASSUME IInv,
         \/ \E p \in Posts, visibility \in {"public", "hidden"}, body \in SUBSET Media, again \in SUBSET Media :
              \E claims \in SUBSET body : SavePost(p, visibility, body, claims, again)
         \/ Serve(Others)
  PROVE  /\ serving /\ UNCHANGED <<old, held, serving, tool>>
         /\ tool.at \in {"idle", "purging", "absent"}
<1>1. TypeOK /\ ToolTyped /\ WindowTyped
  BY TypeForm DEF IInv
<1>2. serving /\ UNCHANGED <<old, serving, tool>>
  BY DEF SavePost, Serve
<1>3. tool.at \in {"idle", "purging", "absent"}
  BY <1>1, <1>2 DEF ToolTyped, WindowTyped
<1>4. ASSUME NEW p, NEW visibility, NEW body, NEW again, NEW claims, SavePost(p, visibility, body, claims, again)
      PROVE held' = held
  BY <1>4 DEF SavePost, Save, CreatePost, UpdatePost
<1>5. ASSUME Serve(Others) PROVE held' = held
  <2>1. ASSUME NEW m \in Media, UploadStep(m) PROVE held' = held
    BY <1>1, <2>1, UploadEffect DEF UploadChange
  <2>2. ASSUME NEW k \in Cleaners, CleanerStep(k) PROVE held' = held
    BY <1>1, <2>2, CleanerEffect DEF CleanerChange
  <2>3. \A m, kind, p : Reserve(m, kind, p) => held' = held
    BY DEF Reserve
  <2>4. (\A p : DeletePost(p) => held' = held) /\ (\A p, c, claims : CreateComment(c, p, claims) => held' = held)
    BY DEF DeletePost, CreateComment
  <2>5. (\A m : SaveProduct(m) => held' = held) /\ (\A k, m : Look(k, m) => held' = held)
    BY DEF SaveProduct, Look, rows
  <2> QED
    BY <1>5, <2>1, <2>2, <2>3, <2>4, <2>5, ApiSteps, Zenon
<1> QED
  BY <1>2, <1>3, <1>4, <1>5

(* What the command found out stays so, and it runs where it may. *)
LEMMA WindowStep == ASSUME IInv, [MigrationNext]_allvars PROVE ToolTyped' /\ WindowTyped' /\ ToolFindings'
<1>1. TypeOK /\ ToolTyped /\ WindowTyped /\ OldTyped /\ ToolFindings /\ links \subseteq Media \X Posts
  BY TypeForm DEF IInv
<1>2. CASE tool.at \in {"idle", "purging", "absent"} /\ UNCHANGED <<old, serving, tool>>
  BY <1>1, <1>2 DEF ToolTyped, WindowTyped, ToolFindings
<1>3. CASE commitCopy
  BY <1>1, <1>3, CopyEffect DEF CopyChange, ToolTyped, WindowTyped, ToolFindings, Idle
<1>4. CASE OpsStep
  BY <1>1, <1>4, ToolOps, FindingsOps
<1>5. CASE UNCHANGED allvars
  BY <1>1, <1>5 DEF allvars, vars, rows, migration, ToolTyped, WindowTyped, ToolFindings, Unused, LinksOf, Managed
<1> QED
  BY <1>2, <1>3, <1>4, <1>5, ApiWindow, Steps, Zenon

(* The records of originals change as OldChange says. *)
LEMMA OldStep ==
  ASSUME IInv, [MigrationNext]_allvars
  PROVE  /\ OldTyped'
         /\ \A m \in Media : /\ old[m].record # "none" => old'[m].record # "none"
                             /\ m \in Managed /\ old[m].object = "gone" => old'[m].object = "gone"
                             /\ old'[m].record # "none" => old[m].record # "none" \/ (commitCopy /\ m = tool.m)
                             /\ old[m].object = "stored" /\ old'[m].object # "stored" =>
                                  OpsStep /\ tool.at = "checked" /\ tool.m = m
<1>1. TypeOK /\ ToolTyped /\ WindowTyped /\ OldTyped /\ ToolFindings /\ links \subseteq Media \X Posts
  BY TypeForm DEF IInv
<1>2. CASE UNCHANGED <<old, held>>
  BY <1>1, <1>2 DEF OldTyped, Unpurged
<1>3. CASE commitCopy
  <2>1. CopyChange(tool.m)
    BY <1>1, <1>3, CopyEffect
  <2>2. [record |-> "copied", object |-> "stored"] \in Sources
    BY DEF Sources
  <2> QED
    BY <1>1, <1>3, <2>1, <2>2 DEF CopyChange, OldTyped, Unpurged, Legacy
<1>4. CASE OpsStep
  <2>1. ASSUME NEW m \in Media PROVE OldChange(m)
    BY <1>1, <1>4, OldOps
  <2>2. old' = [x \in Media |-> old'[x]] /\ held' \subseteq held
    BY <1>1, <1>4 DEF OpsStep, OpenWindow, CloseWindow, ClearCaches, Audit, Copy, Retire, CheckOriginal, DeleteOriginal,
         RecordRetired, ConfirmPurge, VerifyAbsent, RecordPurged, EndTool, vars, rows, OldTyped
  <2>3. \A m \in Media : m \in held' <=> Unpurged(m)'
    BY <2>1 DEF OldChange
  <2>4. held' = {m \in Media : Unpurged(m)'} 
    BY <1>1, <2>2, <2>3 DEF OldTyped
  <2>5. old' \in [Media -> Sources]
    BY <2>1, <2>2 DEF OldChange
  <2>6. OldTyped'
    BY <2>4, <2>5 DEF OldTyped
  <2> QED
    BY <1>4, <2>1, <2>6 DEF OldChange
<1>5. CASE UNCHANGED allvars
  BY <1>2, <1>5 DEF allvars, vars, rows, migration
<1> QED
  BY <1>2, <1>3, <1>4, <1>5, ApiWindow, Steps, Zenon

(* The rest of TypeOK. *)
LEMMA ShopStep == ASSUME IInv, [MigrationNext]_allvars PROVE shop' \subseteq Media
<1>1. TypeOK /\ ToolTyped /\ links \subseteq Media \X Posts
  BY TypeForm DEF IInv
<1>2. ASSUME NEW p \in Posts, NEW visibility, NEW body, NEW again, NEW claims, SavePost(p, visibility, body, claims, again)
      PROVE shop' \subseteq Media
  BY <1>1, <1>2 DEF SavePost, Save, CreatePost, UpdatePost, TypeOK
<1>3. ASSUME Serve(Others) PROVE shop' \subseteq Media
  <2>1. ASSUME NEW m \in Media, UploadStep(m) PROVE shop' \subseteq Media
    BY <1>1, <2>1, UploadEffect DEF UploadChange, TypeOK
  <2>2. ASSUME NEW k \in Cleaners, CleanerStep(k) PROVE shop' \subseteq Media
    BY <1>1, <2>2, CleanerEffect DEF CleanerChange, TypeOK
  <2>3. ASSUME NEW m, NEW kind, NEW p, Reserve(m, kind, p) PROVE shop' \subseteq Media
    BY <1>1, <2>3 DEF Reserve, TypeOK
  <2>4. ASSUME NEW p, DeletePost(p) PROVE shop' \subseteq Media
    BY <1>1, <2>4 DEF DeletePost, TypeOK
  <2>5. ASSUME NEW p, NEW c, NEW claims, CreateComment(c, p, claims) PROVE shop' \subseteq Media
    BY <1>1, <2>5 DEF CreateComment, TypeOK
  <2>6. ASSUME NEW m \in Media, SaveProduct(m) PROVE shop' \subseteq Media
    BY <1>1, <2>6 DEF SaveProduct, TypeOK
  <2>7. ASSUME NEW k, NEW m, Look(k, m) PROVE shop' \subseteq Media
    BY <1>1, <2>7 DEF Look, rows, TypeOK
  <2> QED
    BY <1>3, <2>1, <2>2, <2>3, <2>4, <2>5, <2>6, <2>7, ApiSteps, Zenon
<1>4. ASSUME commitCopy PROVE shop' \subseteq Media
  BY <1>1, <1>4 DEF commitCopy, TypeOK
<1>5. ASSUME OpsStep PROVE shop' \subseteq Media
  BY <1>1, <1>5, OpsFrame DEF TypeOK
<1>6. ASSUME UNCHANGED allvars PROVE shop' \subseteq Media
  BY <1>1, <1>6 DEF allvars, vars, rows, TypeOK
<1> QED
  BY <1>2, <1>3, <1>4, <1>5, <1>6, Steps, Zenon

(* Addresses in articles, and the window *)
LEMMA LinksStep == ASSUME IInv, [MigrationNext]_allvars PROVE LinksLive' /\ links' \subseteq Media \X Posts
<1>1. TypeOK /\ ToolTyped /\ links \subseteq Media \X Posts /\ LinksLive
  BY TypeForm DEF IInv
<1>2. ASSUME NEW p \in Posts, NEW visibility, NEW body \in SUBSET Media, NEW again \in SUBSET Media,
             NEW claims \in SUBSET body, SavePost(p, visibility, body, claims, again)
      PROVE  LinksLive' /\ links' \subseteq Media \X Posts
  <2>1. SaveChange(p, body, claims)
    BY <1>1, <1>2, SaveEffect
  <2>2. PICK urls : urls \subseteq Media /\ links' = (links \ (Media \X {p})) \cup (urls \X {p})
    BY <1>2 DEF SavePost
  <2> QED
    BY <1>1, <2>1, <2>2 DEF SaveChange, LinksLive, Live, TypeOK
<1>3. ASSUME Serve(Others) PROVE LinksLive' /\ links' \subseteq Media \X Posts
  <2>1. Api
    BY <1>3, ApiSteps, Zenon
  <2> QED
    BY <1>1, <2>1 DEF Api, LinksLive, Live
<1>4. ASSUME commitCopy PROVE LinksLive' /\ links' \subseteq Media \X Posts
  BY <1>1, <1>4, CopyEffect DEF CopyChange, LinksLive, Live
<1>5. ASSUME OpsStep PROVE LinksLive' /\ links' \subseteq Media \X Posts
  BY <1>1, <1>5, OpsFrame DEF LinksLive, Live
<1>6. ASSUME UNCHANGED allvars PROVE LinksLive' /\ links' \subseteq Media \X Posts
  BY <1>1, <1>6 DEF allvars, vars, rows, migration, LinksLive, Live
<1> QED
  BY <1>2, <1>3, <1>4, <1>5, <1>6, Steps, Zenon

(* The visibility of articles *)
LEMMA VisStep == ASSUME IInv, [MigrationNext]_allvars PROVE vis' \in [Posts -> {"public", "hidden", "before"}]
<1>1. TypeOK /\ ToolTyped /\ links \subseteq Media \X Posts /\ vis \in [Posts -> {"public", "hidden", "before"}]
  BY TypeForm DEF IInv
<1>2. ASSUME NEW p \in Posts, NEW visibility \in {"public", "hidden"}, NEW body, NEW again, NEW claims,
             SavePost(p, visibility, body, claims, again)
      PROVE  vis' \in [Posts -> {"public", "hidden", "before"}]
  BY <1>1, <1>2 DEF SavePost
<1>3. ASSUME Serve(Others) PROVE vis' \in [Posts -> {"public", "hidden", "before"}]
  <2>1. Api
    BY <1>3, ApiSteps, Zenon
  <2> QED
    BY <1>1, <2>1 DEF Api
<1>4. ASSUME commitCopy PROVE vis' = vis
  BY <1>4 DEF commitCopy
<1>5. ASSUME OpsStep PROVE vis' = vis
  BY <1>5, OpsFrame
<1>6. ASSUME UNCHANGED allvars PROVE vis' = vis
  BY <1>6 DEF allvars, migration
<1> QED
  BY <1>1, <1>2, <1>3, <1>4, <1>5, <1>6, Steps, Zenon

(* Cleaners do not start in a window. *)
LEMMA QuietStep == ASSUME IInv, [MigrationNext]_allvars PROVE WindowIsQuiet'
<1>1. TypeOK /\ ToolTyped /\ WindowTyped /\ links \subseteq Media \X Posts /\ WindowIsQuiet
  BY TypeForm DEF IInv
<1>2. ASSUME serving, serving' = serving PROVE WindowIsQuiet'
  BY <1>2 DEF WindowIsQuiet
<1>3. ASSUME commitCopy PROVE WindowIsQuiet'
  BY <1>1, <1>3 DEF commitCopy, WindowIsQuiet
<1>4. ASSUME OpsStep PROVE WindowIsQuiet'
  <2>1. clean' = clean /\ (serving' = serving \/ OpenWindow \/ CloseWindow)
    BY <1>4, OpsFrame DEF OpsStep, ClearCaches, Audit, Copy, Retire, CheckOriginal, DeleteOriginal,
         RecordRetired, ConfirmPurge, VerifyAbsent, RecordPurged, EndTool
  <2> QED
    BY <1>1, <2>1 DEF OpenWindow, CloseWindow, WindowIsQuiet
<1>5. ASSUME UNCHANGED allvars PROVE WindowIsQuiet'
  BY <1>1, <1>5 DEF allvars, vars, rows, migration, WindowIsQuiet
<1>6. ASSUME \/ \E p \in Posts, visibility \in {"public", "hidden"}, body \in SUBSET Media, again \in SUBSET Media :
                  \E claims \in SUBSET body : SavePost(p, visibility, body, claims, again)
             \/ Serve(Others)
      PROVE  serving /\ serving' = serving
  BY <1>6, ApiWindow, Zenon
<1> QED
  BY <1>2, <1>3, <1>4, <1>5, <1>6, Steps, Zenon

(* Copied files stay out of reach of uploads. *)
LEMMA CopiedStep == ASSUME IInv, [MigrationNext]_allvars PROVE CopiedIsSettled'
<1>1. TypeOK /\ ToolTyped /\ links \subseteq Media \X Posts /\ CopiedIsSettled
  BY TypeForm DEF IInv
<1>2. ASSUME NEW m \in Media, old[m].record # "none" PROVE ~att'[m].token /\ up'[m] = "ended"
  BY <1>2, SettledStep DEF Settled
<1>3. ASSUME commitCopy PROVE ~att'[tool.m].token /\ up'[tool.m] = "ended"
  BY <1>1, <1>3, CopyEffect DEF CopyChange, TypeOK
<1> QED
  BY <1>2, <1>3, OldStep DEF CopiedIsSettled

(* Copied files are managed, so everything has its type. *)
LEMMA TypeStep == ASSUME IInv, [MigrationNext]_allvars PROVE MigrationTypeOK'
<1>1. TypeOK /\ ToolTyped /\ links \subseteq Media \X Posts /\ OldTyped
      /\ \A m \in Media : old[m].record # "none" => m \in Managed
  BY TypeForm DEF IInv
<1>2. ASSUME NEW m \in Media, old'[m].record # "none" PROVE att'[m].mode = "managed"
  <2>1. CASE old[m].record # "none"
    BY <1>1, <2>1, SettledStep DEF Settled
  <2>2. CASE commitCopy /\ m = tool.m
    BY <1>1, <2>2, CopyEffect DEF CopyChange
  <2> QED
    BY <1>2, <2>1, <2>2, OldStep
<1>3. OldTyped' /\ WindowTyped' /\ ToolTyped' /\ PlainTyped' /\ OwnersTyped' /\ att' \in [Media -> Rows]
  BY OldStep, WindowStep, PlainStep, OwnersStep, RowsStep
<1>4. held' \subseteq {m \in Media : att'[m].mode = "managed"}
  <2>1. \A m \in held' : m \in Media /\ old'[m].record # "none"
    BY <1>3 DEF OldTyped, Unpurged
  <2> QED
    BY <1>2, <2>1
<1>5. TypeOK'
  BY <1>3, <1>4, ShopStep DEF TypeOK, PlainTyped, OwnersTyped, Managed
<1> QED
  BY <1>2, <1>3, <1>5, LinksStep, VisStep DEF MigrationTypeOK, OldTyped, WindowTyped, Sources, ToolTyped, Managed

(***************************************************************************)
(* Hidden articles                                                         *)
(***************************************************************************)

(* m belongs to a comment on p. *)
InComment(m, p) == att[m].kind = "comment" /\ att[m].owner \in Comments /\ on[att[m].owner] = p /\ posts[p] = "live"

(* No public original of m is left. *)
Gone(m) == att[m].mode = "managed" /\ old[m].object = "gone"

HiddenPrivate ==
    \A p \in Posts, m \in Media : posts[p] = "live" /\ vis[p] = "hidden" =>
        <<m, p>> \notin links /\ (<<m, p>> \in refs \/ InComment(m, p) => Gone(m))

(* CommentPost in that form *)
LEMMA CommentPlace == ASSUME NEW m, NEW p \in Posts PROVE CommentPost(m) = p <=> InComment(m, p)
  BY MediaAssumption DEF CommentPost, Comment, InComment, Live

(* HiddenIsMigrated in that form *)
LEMMA HiddenForm == HiddenIsMigrated <=> HiddenPrivate
<1>1. \A p \in Posts, m \in Media : p \in LinksOf(m) <=> <<m, p>> \in links
  BY DEF LinksOf
<1> QED
  BY <1>1, CommentPlace DEF HiddenIsMigrated, HiddenPrivate, Gone, Managed, Live

(* What is gone stays gone. *)
LEMMA GoneStays == ASSUME IInv, [MigrationNext]_allvars, NEW m \in Media, Gone(m) PROVE Gone(m)'
  BY OldStep, SettledStep DEF Gone, Settled, Managed

(* The article and the file that a step leaves as they were for one another. *)
LEMMA HiddenKept ==
  ASSUME IInv, [MigrationNext]_allvars, NEW p \in Posts, NEW m \in Media,
         posts[p] = "live" /\ vis[p] = "hidden",
         <<m, p>> \in links' => <<m, p>> \in links,
         <<m, p>> \in refs' => <<m, p>> \in refs,
         InComment(m, p)' => InComment(m, p)
  PROVE  <<m, p>> \notin links' /\ (<<m, p>> \in refs' \/ InComment(m, p)' => Gone(m)')
<1>1. HiddenPrivate
  BY HiddenForm DEF IInv
<1> QED
  BY <1>1, GoneStays DEF HiddenPrivate

(* An article that is saved as hidden has no public file: those of its body *)
(* are managed, and those of the comments on it were on it before.          *)
LEMMA HiddenSave ==
  ASSUME IInv, [MigrationNext]_allvars,
         NEW q \in Posts, NEW visibility, NEW body \in SUBSET Media, NEW again \in SUBSET Media, NEW claims \in SUBSET body,
         SavePost(q, visibility, body, claims, again)
  PROVE  HiddenPrivate'
<1>1. TypeOK /\ OldTyped /\ CommentsPlaced
  BY TypeForm DEF IInv
<1>2. SaveChange(q, body, claims)
  BY <1>1, SaveEffect
<1> DEFINE urls == (body \cap Legacy) \cup again
<1>3. /\ links' = (links \ (Media \X {q})) \cup (urls \X {q})
      /\ vis' = [vis EXCEPT ![q] = visibility]
      /\ requireProtectedPostMedia(q, visibility, urls, body \cap Managed)
  BY DEF SavePost
<1>4. vis \in [Posts -> {"public", "hidden", "before"}] /\ links \subseteq Media \X Posts
  BY TypeForm DEF IInv
<1>5. ASSUME NEW m \in Media, NEW p \in Posts, InComment(m, p)', posts[p] = "live"
      PROVE  InComment(m, p)
  <2>1. att'[m].kind = att[m].kind /\ on' = on /\ (att'[m].owner = att[m].owner \/ Claimable(m, q))
    BY <1>2 DEF SaveChange
  <2> QED
    BY <1>5, <2>1 DEF InComment, Claimable
<1>6. ASSUME NEW p \in Posts, NEW m \in Media, posts'[p] = "live", vis'[p] = "hidden", p # q
      PROVE  <<m, p>> \notin links' /\ (<<m, p>> \in refs' \/ InComment(m, p)' => Gone(m)')
  <2>1. posts[p] = "live" /\ vis[p] = "hidden" /\ (<<m, p>> \in links' => <<m, p>> \in links)
    BY <1>1, <1>2, <1>3, <1>4, <1>6 DEF SaveChange, TypeOK
  <2>2. <<m, p>> \in refs' => <<m, p>> \in refs
    BY <1>2, <1>6 DEF SaveChange
  <2> QED
    BY <1>5, <2>1, <2>2, HiddenKept
<1>7. ASSUME NEW m \in Media, vis'[q] = "hidden"
      PROVE  <<m, q>> \notin links' /\ (<<m, q>> \in refs' \/ InComment(m, q)' => Gone(m)')
  <2>1. /\ urls = {}
        /\ \A x \in body \cap Managed : ~Unpurged(x)
        /\ \A x \in Media : CommentPost(x) = q => x \in Managed /\ ~Unpurged(x)
    BY <1>3, <1>4, <1>7 DEF requireProtectedPostMedia, Exposed
  <2>2. <<m, q>> \notin links'
    BY <1>3, <2>1
  <2>3. ASSUME m \in Managed, ~Unpurged(m) PROVE Gone(m)
    <3>1. old[m] \in Sources
      BY <1>1 DEF OldTyped
    <3> QED
      BY <2>3, <3>1, SourceFields DEF Unpurged, Gone, Managed
  <2>4. ASSUME <<m, q>> \in refs' PROVE Gone(m)
    <3>1. m \in body
      BY <1>2, <2>4 DEF SaveChange
    <3> QED
      BY <2>1, <2>3, <3>1 DEF Legacy
  <2>5. ASSUME InComment(m, q)' PROVE Gone(m)
    <3>1. posts[q] = "live"
      <4>1. on'[att'[m].owner] = q /\ att'[m].owner \in Comments /\ on' = on
        BY <1>2, <2>5 DEF InComment, SaveChange
      <4> QED
        BY <1>1, <1>2, <4>1 DEF CommentsPlaced, SaveChange, TypeOK
    <3>2. CommentPost(m) = q
      BY <1>5, <2>5, <3>1, CommentPlace
    <3> QED
      BY <2>1, <2>3, <3>2
  <2> QED
    BY <2>2, <2>4, <2>5, GoneStays
<1> QED
  BY <1>6, <1>7 DEF HiddenPrivate

(* Nor does the deletion of another article bring it one. *)
LEMMA HiddenDelete ==
  ASSUME IInv, [MigrationNext]_allvars, Api, NEW q \in Posts, DeletePost(q)
  PROVE  HiddenPrivate'
<1>1. TypeOK
  BY TypeForm DEF IInv
<1>2. DeleteChange(q)
  BY <1>1, DeleteEffect
<1>3. ASSUME NEW p \in Posts, NEW m \in Media, posts'[p] = "live", vis'[p] = "hidden"
      PROVE  <<m, p>> \notin links' /\ (<<m, p>> \in refs' \/ InComment(m, p)' => Gone(m)')
  <2>1. p # q /\ posts[p] = "live" /\ vis[p] = "hidden" /\ (<<m, p>> \in links' => <<m, p>> \in links)
    BY <1>1, <1>2, <1>3 DEF DeleteChange, Api, TypeOK
  <2>2. <<m, p>> \in refs' => <<m, p>> \in refs
    BY <1>2 DEF DeleteChange
  <2>3. Orphan(m, q, refs', att'[m]) /\ on' = on
    BY <1>2 DEF DeleteChange
  <2>4. ASSUME InComment(m, p)' PROVE InComment(m, p)
    <3>1. att'[m].kind = "comment" /\ att'[m].owner \in Comments /\ on'[att'[m].owner] = p
      BY <2>4 DEF InComment
    <3>2. att'[m].owner = att[m].owner /\ att'[m].kind = att[m].kind
      BY <2>3, <3>1, MediaAssumption DEF Orphan
    <3> QED
      BY <2>1, <2>3, <3>1, <3>2 DEF InComment
  <2> QED
    BY <2>1, <2>2, <2>4, HiddenKept
<1> QED
  BY <1>3 DEF HiddenPrivate

(* A comment brings no public file to its article. *)
LEMMA HiddenComment ==
  ASSUME IInv, [MigrationNext]_allvars, Api, NEW q \in Posts, NEW c \in Comments, NEW claims \in SUBSET Media,
         CreateComment(c, q, claims)
  PROVE  HiddenPrivate'
<1>1. TypeOK /\ OldTyped /\ CopiedIsSettled /\ LegacyHasNoContext /\ CommentsWritten
  BY TypeForm DEF IInv
<1>2. CommentChange(q, c, claims)
  BY <1>1, CommentEffect
<1>3. ASSUME NEW p \in Posts, NEW m \in Media, posts'[p] = "live", vis'[p] = "hidden"
      PROVE  <<m, p>> \notin links' /\ (<<m, p>> \in refs' \/ InComment(m, p)' => Gone(m)')
  <2>1. posts[p] = "live" /\ vis[p] = "hidden" /\ (<<m, p>> \in links' => <<m, p>> \in links)
    BY <1>2, <1>3 DEF CommentChange, Api
  <2>2. <<m, p>> \in refs' => <<m, p>> \in refs
    BY <1>2 DEF CommentChange
  <2>3. CASE m \in claims
    <3>1. m \in Managed
      BY <1>1, <1>2, <2>3, MediaAssumption DEF CommentChange, CommentClaimable, LegacyHasNoContext, Legacy
    <3>2. old[m].record = "none" /\ old[m] \in Sources
      BY <1>1, <1>2, <2>3 DEF CommentChange, CommentClaimable, CopiedIsSettled, OldTyped
    <3>3. Gone(m)
      BY <3>1, <3>2, SourceFields DEF Gone, Managed
    <3>4. Gone(m)'
      BY <3>3, GoneStays
    <3>5. <<m, p>> \notin links
      BY <2>1, HiddenForm DEF IInv, HiddenPrivate
    <3> QED
      BY <2>1, <3>4, <3>5
  <2>4. CASE m \notin claims
    <3>1. att'[m] = att[m] /\ on' = [on EXCEPT ![c] = q] /\ on[c] = None
      BY <1>2, <2>4 DEF CommentChange
    <3>2. InComment(m, p)' => InComment(m, p)
      BY <1>1, <2>1, <3>1, MediaAssumption DEF InComment, CommentsWritten, TypeOK
    <3> QED
      BY <2>1, <2>2, <3>2, HiddenKept
  <2> QED
    BY <2>3, <2>4
<1> QED
  BY <1>3 DEF HiddenPrivate

(* A copy is made of files that no hidden article has. *)
LEMMA HiddenCopy ==
  ASSUME IInv, [MigrationNext]_allvars, commitCopy
  PROVE  HiddenPrivate'
<1>1. TypeOK /\ ToolTyped /\ links \subseteq Media \X Posts
  BY TypeForm DEF IInv
<1>2. CopyChange(tool.m)
  BY <1>1, CopyEffect
<1>3. ASSUME NEW p \in Posts, NEW m \in Media, posts'[p] = "live", vis'[p] = "hidden"
      PROVE  <<m, p>> \notin links' /\ (<<m, p>> \in refs' \/ InComment(m, p)' => Gone(m)')
  <2>1. posts[p] = "live" /\ vis[p] = "hidden" /\ (<<m, p>> \in links' => <<m, p>> \in links)
    BY <1>2, <1>3 DEF CopyChange
  <2>2. <<m, p>> \notin links /\ (<<m, p>> \in refs \/ InComment(m, p) => Gone(m))
    BY <2>1, HiddenForm DEF IInv, HiddenPrivate
  <2>3. <<m, p>> \in refs' => <<m, p>> \in refs
    BY <1>2, <2>2 DEF CopyChange
  <2>4. InComment(m, p)' => InComment(m, p)
    <3>1. CASE m # tool.m
      BY <1>2, <3>1 DEF CopyChange, InComment
    <3>2. CASE m = tool.m
      BY <1>2, <3>2, MediaAssumption DEF CopyChange, InComment
    <3> QED
      BY <3>1, <3>2
  <2> QED
    BY <2>1, <2>3, <2>4, HiddenKept
<1> QED
  BY <1>3 DEF HiddenPrivate

(* The other steps move nothing between articles. *)
LEMMA HiddenOther ==
  ASSUME IInv, [MigrationNext]_allvars,
         UNCHANGED <<refs, posts, on>>, links' \subseteq links,
         \A p \in Posts : vis'[p] = "hidden" => vis[p] = "hidden",
         \A m \in Media : att'[m].owner # None => att'[m].owner = att[m].owner /\ att'[m].kind = att[m].kind
  PROVE  HiddenPrivate'
<1>1. ASSUME NEW p \in Posts, NEW m \in Media, posts'[p] = "live", vis'[p] = "hidden"
      PROVE  <<m, p>> \notin links' /\ (<<m, p>> \in refs' \/ InComment(m, p)' => Gone(m)')
  <2>1. posts[p] = "live" /\ vis[p] = "hidden"
    BY <1>1
  <2>2. InComment(m, p)' => InComment(m, p)
    BY MediaAssumption DEF InComment
  <2> QED
    BY <2>1, <2>2, HiddenKept
<1> QED
  BY <1>1 DEF HiddenPrivate

(* So no step does. *)
LEMMA HiddenStep == ASSUME IInv, [MigrationNext]_allvars PROVE HiddenPrivate'
<1>1. TypeOK /\ ToolTyped /\ links \subseteq Media \X Posts
  BY TypeForm DEF IInv
<1>2. ASSUME NEW p \in Posts, NEW visibility \in {"public", "hidden"}, NEW body \in SUBSET Media, NEW again \in SUBSET Media,
             NEW claims \in SUBSET body, SavePost(p, visibility, body, claims, again)
      PROVE  HiddenPrivate'
  BY <1>2, HiddenSave
<1>3. ASSUME Serve(Others) PROVE HiddenPrivate'
  <2>1. Api
    BY <1>3, ApiSteps, Zenon
  <2>2. links' \subseteq links /\ \A p \in Posts : vis'[p] = "hidden" => vis[p] = "hidden"
    BY <2>1 DEF Api
  <2>3. ASSUME NEW m \in Media, NEW kind \in {"post", "comment"}, NEW p \in Posts, Reserve(m, kind, p) PROVE HiddenPrivate'
    <3>1. /\ UNCHANGED <<refs, posts, on>>
          /\ \A x \in Media : att'[x].owner # None => att'[x].owner = att[x].owner /\ att'[x].kind = att[x].kind
      BY <1>1, <2>3, ReserveEffect DEF ReserveChange
    <3> QED
      BY <2>2, <3>1, HiddenOther
  <2>4. ASSUME NEW m \in Media, UploadStep(m) PROVE HiddenPrivate'
    <3>1. /\ UNCHANGED <<refs, posts, on>>
          /\ \A x \in Media : att'[x].owner # None => att'[x].owner = att[x].owner /\ att'[x].kind = att[x].kind
      BY <1>1, <2>4, UploadEffect DEF UploadChange, Alike
    <3> QED
      BY <2>2, <3>1, HiddenOther
  <2>5. ASSUME NEW p \in Posts, DeletePost(p) PROVE HiddenPrivate'
    BY <2>1, <2>5, HiddenDelete
  <2>6. ASSUME NEW p \in Posts, NEW c \in Comments, NEW claims \in SUBSET Media, CreateComment(c, p, claims)
        PROVE  HiddenPrivate'
    BY <2>1, <2>6, HiddenComment
  <2>7. ASSUME NEW k \in Cleaners, CleanerStep(k) PROVE HiddenPrivate'
    <3>1. /\ UNCHANGED <<refs, posts, on>>
          /\ \A x \in Media : att'[x].owner # None => att'[x].owner = att[x].owner /\ att'[x].kind = att[x].kind
      BY <1>1, <2>7, CleanerEffect DEF CleanerChange, Alike
    <3> QED
      BY <2>2, <3>1, HiddenOther
  <2>8. ASSUME NEW k \in Cleaners, NEW m \in Media, Look(k, m) PROVE HiddenPrivate'
    BY <2>2, <2>8, HiddenOther DEF Look, rows
  <2>9. ASSUME NEW m \in Media, SaveProduct(m) PROVE HiddenPrivate'
    BY <2>2, <2>9, HiddenOther DEF SaveProduct
  <2> QED
    BY <1>3, <2>3, <2>4, <2>5, <2>6, <2>7, <2>8, <2>9, ApiSteps, Zenon
<1>4. ASSUME commitCopy PROVE HiddenPrivate'
  BY <1>4, HiddenCopy
<1>5. ASSUME OpsStep PROVE HiddenPrivate'
  BY <1>5, OpsFrame, HiddenOther
<1>6. ASSUME UNCHANGED allvars PROVE HiddenPrivate'
  BY <1>6, HiddenOther DEF allvars, vars, rows, migration
<1> QED
  BY <1>2, <1>3, <1>4, <1>5, <1>6, Steps, Zenon

(***************************************************************************)
(* The initial states                                                      *)
(***************************************************************************)

(* What earlier releases left: rows and references of articles and comments *)
(* that are there, and nothing in hidden articles.                          *)
LEMMA InitRows ==
  ASSUME MigrationInit
  PROVE  /\ att \in [Media -> Rows]
         /\ \A m \in Media :
              \/ att[m] = NoRow
              \/ /\ att[m].mode = "legacy" /\ att[m].ctx = None
                 /\ att[m].owner # None =>
                      /\ att[m].owner \in IF att[m].kind = "post" THEN Posts ELSE Comments
                      /\ att[m].owner \in Comments => on[att[m].owner] # None
         /\ Legacy = {m \in Media : att[m] # NoRow}
<1>1. att \in [Media -> {NoRow} \cup {r \in LegacyRows : /\ r.owner \in Posts => Live(r.owner)
                                                         /\ r.owner \in Comments => on[r.owner] # None}]
  BY DEF MigrationInit, Init
<1>2. \A m \in Media : \/ att[m] = NoRow
                       \/ att[m] \in LegacyRows /\ (att[m].owner \in Comments => on[att[m].owner] # None)
  BY <1>1
<1>3. \A r \in LegacyRows : /\ r \in Rows /\ r.mode = "legacy" /\ r.ctx = None
                            /\ r.owner # None => r.owner \in IF r.kind = "post" THEN Posts ELSE Comments
  BY DEF LegacyRows
<1>4. att \in [Media -> Rows]
  BY <1>1, <1>2, <1>3, BlankRow
<1>5. Legacy = {m \in Media : att[m] # NoRow}
  BY <1>2, <1>3, BlankRow DEF Legacy, Managed
<1> QED
  BY <1>2, <1>3, <1>4, <1>5

(* A new database, or one of an earlier release *)
LEMMA InitEstablishesIInv == MigrationInit => IInv
<1> SUFFICES ASSUME MigrationInit PROVE IInv
  OBVIOUS
<1>1. /\ att \in [Media -> Rows]
      /\ \A m \in Media :
           \/ att[m] = NoRow
           \/ /\ att[m].mode = "legacy" /\ att[m].ctx = None
              /\ att[m].owner # None =>
                   /\ att[m].owner \in IF att[m].kind = "post" THEN Posts ELSE Comments
                   /\ att[m].owner \in Comments => on[att[m].owner] # None
      /\ Legacy = {m \in Media : att[m] # NoRow}
  BY InitRows
<1>2. /\ held = {} /\ posts \in [Posts -> {"absent", "live"}]
      /\ on \in [Comments -> {p \in Posts : Live(p)} \cup {None}]
      /\ refs \subseteq Legacy \X {p \in Posts : Live(p)} /\ shop \subseteq Legacy /\ stored = Legacy
      /\ up = [m \in Media |-> IF m \in Legacy THEN "done" ELSE "idle"]
      /\ late = [m \in Media |-> "no"]
      /\ clean = [k \in Cleaners |-> [at |-> "idle", m |-> None]]
  BY DEF MigrationInit, Init
<1>3. /\ old = [m \in Media |-> NoSource] /\ links = refs
      /\ vis \in [Posts -> {"public", "before"}] /\ serving = TRUE
      /\ tool = [at |-> "idle", todo |-> {}, m |-> None]
  BY DEF MigrationInit, Idle
<1>4. Legacy \subseteq Media /\ Managed = Media \ Legacy
  BY DEF Legacy, Managed
<1>5. TypeOK
  BY <1>1, <1>2, <1>4, BlankRow DEF TypeOK
<1>6. MigrationTypeOK
  <2>1. OldTyped
    BY <1>2, <1>3 DEF OldTyped, Unpurged, Sources, NoSource
  <2> QED
    BY <1>2, <1>3, <1>4, <1>5, <2>1, TypeForm DEF WindowTyped, NoSource
<1>7. ToolTyped /\ ToolFindings
  BY <1>3 DEF ToolTyped, ToolFindings
<1>8. CommittedIsStored
  BY <1>1, <1>2, <1>4, BlankRow, CommittedForm DEF CommittedServed, Served
<1>9. OwnerAlive
  BY <1>1, <1>2, <1>4, BlankRow DEF OwnerAlive
<1>10. ObjectHasRow /\ ReadyIsStored /\ LegacyHasNoContext
  BY <1>1, <1>2, <1>4, BlankRow DEF ObjectHasRow, ReadyIsStored, LegacyHasNoContext
<1>11. HiddenIsMigrated
  BY <1>3 DEF HiddenIsMigrated
<1>12. IdleIsBlank
  BY <1>1, <1>2, <1>4, BlankRow, MediaAssumption DEF IdleIsBlank, Exists
<1>13. ClaimedIsDead /\ RemovedIsGone /\ PutHasRow /\ WindowIsQuiet
  BY <1>2, <1>3 DEF ClaimedIsDead, RemovedIsGone, PutHasRow, WindowIsQuiet
<1>14. CopiedIsSettled /\ LinksLive /\ CommentsPlaced
  BY <1>2, <1>3, MediaAssumption DEF CopiedIsSettled, LinksLive, CommentsPlaced, NoSource, Live
<1>15. CommentsWritten
  BY <1>1, BlankRow DEF CommentsWritten
<1> QED
  BY <1>6, <1>7, <1>8, <1>9, <1>10, <1>11, <1>12, <1>13, <1>14, <1>15 DEF IInv

(***************************************************************************)
(* The theorems                                                            *)
(***************************************************************************)

(* Every step preserves IInv. *)
LEMMA IInvStep == IInv /\ [MigrationNext]_allvars => IInv'
<1> SUFFICES ASSUME IInv, [MigrationNext]_allvars PROVE IInv'
  OBVIOUS
<1>1. CommittedIsStored' <=> CommittedServed'
  BY CommittedForm, PTL
<1>2. HiddenIsMigrated' <=> HiddenPrivate'
  BY HiddenForm, PTL
<1>3. MigrationTypeOK' /\ CommittedIsStored' /\ OwnerAlive' /\ ObjectHasRow' /\ HiddenIsMigrated'
  BY <1>1, <1>2, TypeStep, CommittedStep, OwnerStep, ObjectStep, HiddenStep
<1>4. IdleIsBlank' /\ ReadyIsStored' /\ ClaimedIsDead' /\ RemovedIsGone' /\ PutHasRow' /\ LegacyHasNoContext'
  BY IdleStep, ReadyStep, ClaimedStep, RemovedStep, PutStep, ContextStep
<1>5. /\ CopiedIsSettled' /\ LinksLive' /\ CommentsPlaced' /\ CommentsWritten' /\ WindowIsQuiet'
      /\ ToolTyped' /\ ToolFindings'
  BY CopiedStep, LinksStep, PlacedStep, WrittenStep, QuietStep, WindowStep
<1> QED
  BY <1>3, <1>4, <1>5 DEF IInv

(* IInv is inductive: whatever articles, comments, uploads, cleaners and    *)
(* the command do, wherever the command is stopped.                         *)
THEOREM Invariance == MigrationSpec => []IInv
  BY InitEstablishesIInv, IInvStep, PTL DEF MigrationSpec

(* Records of originals agree with the rows and the objects.                *)
THEOREM TypeCorrect == MigrationSpec => []MigrationTypeOK
<1>1. IInv => MigrationTypeOK
  BY DEF IInv
<1> QED
  BY <1>1, Invariance, PTL

(* What an article cites, or an article or comment owns, is there.          *)
THEOREM CommittedStays == MigrationSpec => []CommittedIsStored
<1>1. IInv => CommittedIsStored
  BY DEF IInv
<1> QED
  BY <1>1, Invariance, PTL

(* No article that is deleted owns or cites anything.                       *)
THEOREM OwnersLive == MigrationSpec => []OwnerAlive
<1>1. IInv => OwnerAlive
  BY DEF IInv
<1> QED
  BY <1>1, Invariance, PTL

(* Every object but one of a write that came late has its row.              *)
THEOREM ObjectsCounted == MigrationSpec => []ObjectHasRow
<1>1. IInv => ObjectHasRow
  BY DEF IInv
<1> QED
  BY <1>1, Invariance, PTL

(* What was saved as private or paid has no file that is, or may be, had    *)
(* from the public store.                                                   *)
THEOREM HiddenIsPrivate == MigrationSpec => []HiddenIsMigrated
<1>1. IInv => HiddenIsMigrated
  BY DEF IInv
<1> QED
  BY <1>1, Invariance, PTL

(* An original is deleted only while nothing has its address and its copy   *)
(* is stored: what the command checked holds until it acts.                 *)
THEOREM OriginalsUnused == MigrationSpec => DeletedIsUnused
<1> DEFINE Deletes(m) == old[m].object = "stored" /\ old'[m].object # "stored"
<1> DEFINE Free(m) == LinksOf(m) = {} /\ m \notin shop /\ m \in Managed /\ m \in stored
<1>1. IInv /\ [MigrationNext]_allvars => [\A m \in Media : Deletes(m) => Free(m)]_allvars
  <2> SUFFICES ASSUME IInv, [MigrationNext]_allvars, NEW m \in Media, Deletes(m) PROVE Free(m)
    OBVIOUS
  <2>1. tool.at = "checked" /\ tool.m = m
    BY OldStep
  <2> QED
    BY <2>1 DEF IInv, ToolFindings, Unused
<1> QED
  BY <1>1, Invariance, PTL DEF MigrationSpec, DeletedIsUnused
=============================================================================
