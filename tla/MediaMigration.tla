--------------------------- MODULE MediaMigration ---------------------------
(***************************************************************************)
(* ManagedMedia with the command media-migrate, which moves the files of   *)
(* earlier releases from the public store to the private one, and with     *)
(* the rule that keeps an article public while a file of its is.           *)
(*                                                                         *)
(* The operator runs three stages, each any number of times: a copy, which *)
(* rewrites the articles; the deletion of the originals; and, after the    *)
(* caches of the old addresses were cleared, their confirmation.  Copy and *)
(* deletion run in a maintenance window, with the API stopped (the command *)
(* asks for a flag that says so).  The command may stop at any step, and   *)
(* an answer of the store or of PostgreSQL may be lost.                    *)
(***************************************************************************)
EXTENDS ManagedMedia

VARIABLES
    old,       \* [Media -> row of managed_media_legacy_sources, and its object]
    links,     \* pairs of a file and an article whose body has its public URL
    vis,       \* [Posts -> "public"; "hidden": saved as private or paid; "before": so before 0016]
    serving,   \* whether the API runs
    tool       \* media-migrate: [at, todo, m]

migration == <<old, links, vis, serving, tool>>
allvars == <<vars, migration>>

(* object: stored in public, served by caches only, or gone. *)
NoSource == [record |-> "none", object |-> "gone"]
Idle == [at |-> "idle", todo |-> {}, m |-> None]

MigrationInit ==
    /\ Init
    /\ old = [m \in Media |-> NoSource]
    /\ links = refs
    /\ vis \in [Posts -> {"public", "before"}] /\ \A p \in Posts : vis[p] = "before" => Live(p)
    /\ serving = TRUE
    /\ tool = Idle

LinksOf(m) == {p \in Posts : <<m, p>> \in links}
Comment(m) == IF att[m].kind = "comment" /\ att[m].owner \in Comments THEN on[att[m].owner] ELSE None
CommentPost(m) == IF Comment(m) \in Posts /\ Live(Comment(m)) THEN Comment(m) ELSE None
Unpurged(m) == old[m].record \in {"copied", "retired"}

-----------------------------------------------------------------------------
(* The API *)

(* Mutant: the caches of a retired file do not matter. *)
UnretiredOnly(m) == old[m].record = "copied"
Exposed(m) == Unpurged(m)

(* The body has the public addresses in urls and the private ones in own.  *)
(* An old address never comes back, and an article is not hidden while a   *)
(* file of its body or of its comments is, or may be cached, in public.    *)
requireProtectedPostMedia(p, visibility, urls, own) ==
    /\ \A m \in urls : old[m].record = "none"
    /\ visibility = "hidden" =>
          /\ urls = {}
          /\ \A m \in own : ~Exposed(m)
          /\ \A m \in Media : CommentPost(m) = p => m \in Managed /\ ~Exposed(m)

(* A save whose body has the media in body, and the old addresses of those *)
(* in again.                                                               *)
SavePost(p, visibility, body, claims, again) ==
    LET urls == (body \cap Legacy) \cup again IN
    /\ serving
    /\ again \subseteq {m \in Managed : old[m].record # "none"}
    /\ requireProtectedPostMedia(p, visibility, urls, body \cap Managed)
    /\ Save(p, body, claims)
    /\ links' = (links \ (Media \X {p})) \cup (urls \X {p})
    /\ vis' = [vis EXCEPT ![p] = visibility]
    /\ UNCHANGED <<old, serving, tool>>

(* The rest of ManagedMedia; a deleted article has neither body nor        *)
(* visibility.                                                             *)
Serve(A) ==
    /\ serving
    /\ A
    /\ links' = {l \in links : posts'[l[2]] = "live"}
    /\ vis' = [p \in Posts |-> IF posts'[p] = "deleted" THEN "public" ELSE vis[p]]
    /\ UNCHANGED <<old, serving, tool>>

-----------------------------------------------------------------------------
(* The operator *)

(* The gateway and the API are stopped when no request is in flight. *)
OpenWindow ==
    /\ serving
    /\ tool = Idle
    /\ \A k \in Cleaners : clean[k].at = "idle"
    /\ \A m \in Media : up[m] \notin {"put", "stored", "failed"} /\ late[m] # "flying"
    /\ serving' = FALSE
    /\ UNCHANGED <<vars, old, links, vis, tool>>

CloseWindow ==
    /\ ~serving
    /\ tool.at \in {"idle", "purging", "absent"}
    /\ serving' = TRUE
    /\ UNCHANGED <<vars, old, links, vis, tool>>

(* The caches of originals that were deleted. *)
ClearCaches ==
    /\ \E m \in Media : old[m].object = "cached"
    /\ old' = [m \in Media |-> IF old[m].object = "cached" THEN [old[m] EXCEPT !.object = "gone"] ELSE old[m]]
    /\ UNCHANGED <<vars, links, vis, serving, tool>>

-----------------------------------------------------------------------------
(* media-migrate *)

Tool(at, todo, m) == tool' = [at |-> at, todo |-> todo, m |-> m]
Done(at) == Tool(at, tool.todo \ {tool.m}, None)

(* The command ends, its work done or not, or is stopped. *)
EndTool ==
    /\ tool # Idle
    /\ tool' = Idle
    /\ UNCHANGED <<vars, old, links, vis, serving>>

Known(m) == m \in Legacy /\ att[m].state = "ready"
Planned == {m \in Media : Known(m) /\ (LinksOf(m) # {} \/ CommentPost(m) # None)}

(* Refused with a link to a file no row counts, or a planned file that a   *)
(* product has too.                                                        *)
Audit ==
    /\ tool = Idle /\ ~serving
    /\ \A l \in links : Known(l[1])
    /\ Planned \cap shop = {}
    /\ Tool("copying", Planned, None)
    /\ UNCHANGED <<vars, old, links, vis, serving>>

(* The original is read, and a private copy written and read again; the    *)
(* copy of a run that ends here is left over and counts nowhere.           *)
Copy(m) ==
    /\ tool.at = "copying" /\ m \in tool.todo
    /\ m \in stored
    /\ Tool("verified", tool.todo, m)
    /\ UNCHANGED <<vars, old, links, vis, serving>>

(* The comment the file belongs to, or an article that had its URL. *)
NewOwner(m) == IF CommentPost(m) # None THEN {<<att[m].owner, CommentPost(m)>>}
               ELSE {<<p, p>> : p \in LinksOf(m)}

(* Every article gets the private address; the owner of a comment's file   *)
(* has to exist.                                                           *)
commitCopy ==
    LET m == tool.m IN
    /\ tool.at = "verified"
    /\ Known(m) /\ m \notin shop
    /\ att[m].kind = "comment" /\ att[m].owner # None => CommentPost(m) # None
    /\ \E owner \in NewOwner(m) :
          att' = [att EXCEPT ![m] = [NoRow EXCEPT !.state = "ready", !.owner = owner[1], !.ctx = owner[2],
                                                  !.kind = IF CommentPost(m) # None THEN "comment" ELSE "post"]]
    /\ refs' = (refs \ ({m} \X Posts)) \cup ({m} \X LinksOf(m))
    /\ links' = links \ ({m} \X Posts)
    /\ old' = [old EXCEPT ![m] = [record |-> "copied", object |-> "stored"]]
    /\ held' = held \cup {m}
    /\ up' = [up EXCEPT ![m] = "ended"]
    /\ Done("copying") \/ tool' = Idle
    /\ UNCHANGED <<posts, on, stored, late, clean, shop, vis, serving>>

Retire ==
    /\ tool = Idle /\ ~serving
    /\ Tool("retiring", {m \in Media : old[m].record = "copied"}, None)
    /\ UNCHANGED <<vars, old, links, vis, serving>>

(* Mutant: products are not asked again. *)
UnlinkedOnly(m) == LinksOf(m) = {}
Unused(m) == LinksOf(m) = {} /\ m \notin shop

(* Nothing has the old address, and the private copy is as it was copied. *)
CheckOriginal(m) ==
    /\ tool.at = "retiring" /\ m \in tool.todo
    /\ Unused(m)
    /\ m \in Managed /\ Exists(m) /\ m \in stored
    /\ Tool("checked", tool.todo, m)
    /\ UNCHANGED <<vars, old, links, vis, serving>>

(* It may have been deleted by an earlier run. *)
DeleteOriginal ==
    /\ tool.at = "checked"
    /\ old' = [old EXCEPT ![tool.m].object = IF @ = "stored" THEN "cached" ELSE @]
    /\ Tool("deleted", tool.todo, tool.m) \/ tool' = Idle
    /\ UNCHANGED <<vars, links, vis, serving>>

RecordRetired ==
    /\ tool.at = "deleted"
    /\ old' = [old EXCEPT ![tool.m].record = "retired"]
    /\ Done("retiring") \/ tool' = Idle
    /\ UNCHANGED <<vars, links, vis, serving>>

(* The operator says that no old address is served any more. *)
ConfirmPurge ==
    /\ tool = Idle
    /\ \A m \in Media : old[m].object # "cached"
    /\ Tool("purging", {m \in Media : Unpurged(m)}, None)
    /\ UNCHANGED <<vars, old, links, vis, serving>>

VerifyAbsent(m) ==
    /\ tool.at = "purging" /\ m \in tool.todo
    /\ old[m].object # "stored"
    /\ Tool("absent", tool.todo, m)
    /\ UNCHANGED <<vars, old, links, vis, serving>>

(* A retirement that was not recorded has to be repeated first. *)
RecordPurged ==
    /\ tool.at = "absent"
    /\ old[tool.m].record = "retired"
    /\ old' = [old EXCEPT ![tool.m].record = "purged"]
    /\ held' = held \ {tool.m}
    /\ Done("purging") \/ tool' = Idle
    /\ UNCHANGED <<att, refs, posts, on, shop, stored, up, late, clean, links, vis, serving>>

Migrate ==
    \/ Audit \/ \E m \in Media : Copy(m)
    \/ commitCopy
    \/ Retire \/ \E m \in Media : CheckOriginal(m)
    \/ DeleteOriginal \/ RecordRetired
    \/ ConfirmPurge \/ \E m \in Media : VerifyAbsent(m)
    \/ RecordPurged
    \/ EndTool

MigrationNext ==
    \/ \E p \in Posts, visibility \in {"public", "hidden"}, body \in SUBSET Media, again \in SUBSET Media :
          \E claims \in SUBSET body : SavePost(p, visibility, body, claims, again)
    \/ Serve(Others)
    \/ OpenWindow \/ CloseWindow \/ ClearCaches
    \/ Migrate

MigrationSpec == MigrationInit /\ [][MigrationNext]_allvars

(* Time passes and uploads end.  Cleaners run every 10 minutes with        *)
(* batches that reach every expired row (a claimed one steps back for 5    *)
(* minutes).  The store does not fail for ever, and the API is not stopped *)
(* for maintenance for ever.                                               *)
Fairness ==
    /\ \A m \in Media : WF_allvars(Serve(Expire(m))) /\ WF_allvars(Serve(Upload(m)))
    /\ \A k \in Cleaners : WF_allvars(Serve(Proceed(k) \/ \E m \in Media : Look(k, m)))
    /\ <>[][\A k \in Cleaners : ~GiveUp(k) \/ Skip(k)]_allvars
    /\ <>[]serving

FairSpec == MigrationSpec /\ Fairness

-----------------------------------------------------------------------------
(* The records of the migration agree with the rows and the objects,       *)
(* wherever the command stopped; everything else is of its type.           *)
MigrationTypeOK ==
    /\ TypeOK
    /\ old \in [Media -> {NoSource} \cup [record : {"copied"}, object : {"stored", "cached", "gone"}]
                                    \cup [record : {"retired"}, object : {"cached", "gone"}]
                                    \cup [record : {"purged"}, object : {"gone"}]]
    /\ held = {m \in Media : Unpurged(m)}
    /\ \A m \in Media : old[m].record # "none" => m \in Managed
    /\ links \subseteq Media \X Posts
    /\ vis \in [Posts -> {"public", "hidden", "before"}] /\ serving \in BOOLEAN
    /\ tool.todo \subseteq Media
    /\ tool.at \in {"copying", "verified", "retiring", "checked", "deleted"} => ~serving

(* docs/managed-media.md:50: an article that was saved as private or paid  *)
(* has no file, in its body or in a comment, that is or was public and may *)
(* still be had without a right, however saves, comments, shared files and *)
(* interrupted stages of the migration are ordered.                        *)
HiddenIsMigrated ==
    \A p \in Posts : Live(p) /\ vis[p] = "hidden" =>
        /\ \A m \in Media : p \notin LinksOf(m)
        /\ \A m \in Media : <<m, p>> \in refs \/ CommentPost(m) = p =>
              m \in Managed /\ old[m].object = "gone"

(* An original is deleted when no article, product or tool has its address *)
(* and its attachment has a private copy, although what was copied may be  *)
(* saved, cited or deleted before the next window.                         *)
DeletedIsUnused ==
    [][\A m \in Media : old[m].object = "stored" /\ old'[m].object # "stored" =>
          LinksOf(m) = {} /\ m \notin shop /\ m \in Managed /\ m \in stored]_allvars
=============================================================================
