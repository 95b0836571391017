------------------------------ MODULE WebWorks ------------------------------
(***************************************************************************)
(* The works of a customer: their creation from a generated asset, the     *)
(* publication in the gallery, favourites and downloads (web_works.rs, and *)
(* store_ai_asset of the gateway and of the jobs).  A handler reads the    *)
(* work and then sends statement after statement without a transaction.    *)
(***************************************************************************)
EXTENDS Integers, FiniteSets

CONSTANTS
    Works,          \* rows of customer_works, each with an asset of its own
    WorkRequests,   \* HTTP requests
    MaxWorkStops    \* handlers that stop between two statements

ASSUME WorksAssumption == Works # {} /\ IsFiniteSet(WorkRequests) /\ MaxWorkStops \in Nat

VARIABLES
    work,        \* customer_works
    made,        \* what the creation of a work has left behind
    pub,         \* the status in work_publications
    favorite,    \* work_favorites that are not deleted: <<work, customer, row>>
    downloads,   \* download_count of each work and customer
    workReq,     \* the handlers
    workRaced,   \* whether a request wrote while another was under way
    workStops    \* handlers that have stopped half way

workVars == <<work, made, pub, favorite, downloads, workReq, workRaced, workStops>>

Owner == "owner"

Viewers == {Owner, "visitor"}

WorkRow == [st : {"none", "active", "deleted"}, vis : {"private", "public"}]

\* The object, the rows of ai_assets and customer_assets, the link in work_assets.
Traces == {"object", "ai_asset", "asset", "link"}

WorkOps == {"create", "publish", "unpublish", "delete", "favorite", "unfavorite", "download"}

WorkRequest == [pc : {"idle", "read", "half", "done", "stopped"},
                op : WorkOps \cup {"none"}, w : Works, c : Viewers]

WorksTypeOK ==
    /\ work \in [Works -> WorkRow]
    /\ made \in [Works -> SUBSET Traces]
    /\ pub \in [Works -> {"none", "published", "unpublished"}]
    /\ favorite \in SUBSET (Works \X Viewers \X WorkRequests)
    /\ downloads \in [Works \X Viewers -> 0 .. Cardinality(WorkRequests)]
    /\ workReq \in [WorkRequests -> WorkRequest]
    /\ workRaced \in BOOLEAN /\ workStops \in 0 .. MaxWorkStops

WorksInit ==
    /\ work = [w \in Works |-> [st |-> "none", vis |-> "private"]]
    /\ made = [w \in Works |-> {}]
    /\ pub = [w \in Works |-> "none"]
    /\ favorite = {}
    /\ downloads = [wc \in Works \X Viewers |-> 0]
    /\ workReq = [r \in WorkRequests |->
          [pc |-> "idle", op |-> "none", w |-> CHOOSE w \in Works : TRUE, c |-> Owner]]
    /\ workRaced = FALSE /\ workStops = 0

-----------------------------------------------------------------------------
(* Who sees a work. *)

\* find_owner_work.
FindOwnerWork(w, c) == c = Owner /\ work[w].st = "active"

\* find_visible_work.
FindVisibleWork(w, c) ==
    work[w].st = "active" /\ (c = Owner \/ pub[w] = "published")

\* list_published_gallery.
InGallery(w) == work[w].st = "active" /\ work[w].vis = "public" /\ pub[w] = "published"

\* list_favorite_works.
FavoriteWorks(c) == {w \in Works : work[w].st = "active" /\ \E r \in WorkRequests : <<w, c, r>> \in favorite}

-----------------------------------------------------------------------------
(* The handlers. *)

\* The id of a work to be is new.
NewWork(w) ==
    work[w].st = "none" /\ \A r \in WorkRequests : ~(workReq[r].op = "create" /\ workReq[r].w = w)

WorkRead(r) ==
    /\ workReq[r].pc = "idle"
    /\ \E op \in WorkOps, w \in Works, c \in Viewers :
          /\ CASE op = "create"     -> c = Owner /\ NewWork(w)
               [] op = "unfavorite" -> TRUE
               [] op \in {"favorite", "download"} -> FindVisibleWork(w, c)
               [] OTHER             -> FindOwnerWork(w, c)
          /\ workReq' = [workReq EXCEPT ![r] = [pc |-> "read", op |-> op, w |-> w, c |-> c]]
    /\ UNCHANGED <<work, made, pub, favorite, downloads, workRaced, workStops>>

At(r, op, pc) == workReq[r].op = op /\ workReq[r].pc = pc

\* The request sends a statement, its last one when pc is "done".
Sent(r, pc) ==
    /\ workReq' = [workReq EXCEPT ![r].pc = pc]
    /\ workRaced' = (workRaced \/ \E q \in WorkRequests \ {r} :
                        workReq[q].pc \in {"read", "half"} /\ workReq[q].w = workReq[r].w)
    /\ UNCHANGED workStops

\* store_ai_asset puts the object, inserts the row of ai_assets and mirrors it
\* into customer_assets (mirror_generated_ai_asset), each under a new id: a
\* result that is cached again leaves all of it again.
StoreAiAsset(r) ==
    /\ At(r, "create", "read")
    /\ \E x \in Traces \ {"link"} :
          /\ made[workReq[r].w] = CASE x = "object" -> {} [] x = "ai_asset" -> {"object"}
                                     [] x = "asset" -> {"object", "ai_asset"}
          /\ made' = [made EXCEPT ![workReq[r].w] = @ \cup {x}]
    /\ UNCHANGED <<work, pub, favorite, downloads, workReq, workRaced, workStops>>

\* create_work_for_generated_asset, first statement.  The index on the asset
\* never refuses it, because the asset is new.
CreateWork(r) ==
    /\ At(r, "create", "read") /\ "asset" \in made[workReq[r].w]
    /\ work' = [work EXCEPT ![workReq[r].w].st = "active"]
    /\ Sent(r, "half")
    /\ UNCHANGED <<made, pub, favorite, downloads>>

\* The second statement: work_assets.
LinkAsset(r) ==
    /\ At(r, "create", "half")
    /\ made' = [made EXCEPT ![workReq[r].w] = @ \cup {"link"}]
    /\ Sent(r, "done")
    /\ UNCHANGED <<work, pub, favorite, downloads>>

\* update customer_works set visibility, where deleted_at is null.
SetVisibility(w, v) ==
    work' = [work EXCEPT ![w].vis = IF work[w].st = "active" THEN v ELSE @]

PublishWork(r) ==
    /\ At(r, "publish", "read")
    /\ SetVisibility(workReq[r].w, "public")
    /\ Sent(r, "half")
    /\ UNCHANGED <<made, pub, favorite, downloads>>

\* The upsert of work_publications looks at nothing else.
PublishUpsert(r) ==
    /\ At(r, "publish", "half")
    /\ pub' = [pub EXCEPT ![workReq[r].w] = "published"]
    /\ Sent(r, "done")
    /\ UNCHANGED <<work, made, favorite, downloads>>

UnpublishWork(r) ==
    /\ At(r, "unpublish", "read")
    /\ SetVisibility(workReq[r].w, "private")
    /\ Sent(r, "half")
    /\ UNCHANGED <<made, pub, favorite, downloads>>

\* Mutant: the publication is left alone.
UnpublishRowKept(r) ==
    /\ At(r, "unpublish", "half")
    /\ Sent(r, "done")
    /\ UNCHANGED <<work, made, pub, favorite, downloads>>

UnpublishRow(r) ==
    /\ At(r, "unpublish", "half")
    /\ pub' = [pub EXCEPT ![workReq[r].w] = IF @ = "none" THEN @ ELSE "unpublished"]
    /\ Sent(r, "done")
    /\ UNCHANGED <<work, made, favorite, downloads>>

DeleteWork(r) ==
    /\ At(r, "delete", "read")
    /\ work' = [work EXCEPT ![workReq[r].w] =
                  IF @.st = "active" THEN [@ EXCEPT !.st = "deleted", !.vis = "private"] ELSE @]
    /\ Sent(r, "half")
    /\ UNCHANGED <<made, pub, favorite, downloads>>

DeletePublication(r) ==
    /\ At(r, "delete", "half")
    /\ pub' = [pub EXCEPT ![workReq[r].w] = IF @ = "published" THEN "unpublished" ELSE @]
    /\ Sent(r, "done")
    /\ UNCHANGED <<work, made, favorite, downloads>>

\* The insert of favorite_work, on conflict do nothing.
FavoriteWork(r) ==
    /\ At(r, "favorite", "read")
    /\ favorite' = favorite \cup
          (IF \E q \in WorkRequests : <<workReq[r].w, workReq[r].c, q>> \in favorite THEN {}
           ELSE {<<workReq[r].w, workReq[r].c, r>>})
    /\ Sent(r, "done")
    /\ UNCHANGED <<work, made, pub, downloads>>

UnfavoriteWork(r) ==
    /\ At(r, "unfavorite", "read")
    /\ favorite' = {x \in favorite : ~(x[1] = workReq[r].w /\ x[2] = workReq[r].c)}
    /\ Sent(r, "done")
    /\ UNCHANGED <<work, made, pub, downloads>>

\* The upsert of download_work.
DownloadWork(r) ==
    /\ At(r, "download", "read")
    /\ downloads' = [downloads EXCEPT ![<<workReq[r].w, workReq[r].c>>] = @ + 1]
    /\ Sent(r, "done")
    /\ UNCHANGED <<work, made, pub, favorite>>

\* The process ends or the database fails between two statements.
StopWorkRequest(r) ==
    /\ workReq[r].pc = "half" \/ At(r, "create", "read")
    /\ workStops < MaxWorkStops
    /\ workReq' = [workReq EXCEPT ![r].pc = "stopped"]
    /\ workStops' = workStops + 1
    /\ UNCHANGED <<work, made, pub, favorite, downloads, workRaced>>

WorksNext ==
    \E r \in WorkRequests :
       \/ WorkRead(r) \/ StoreAiAsset(r) \/ CreateWork(r) \/ LinkAsset(r)
       \/ PublishWork(r) \/ PublishUpsert(r) \/ UnpublishWork(r) \/ UnpublishRow(r)
       \/ DeleteWork(r) \/ DeletePublication(r)
       \/ FavoriteWork(r) \/ UnfavoriteWork(r) \/ DownloadWork(r)
       \/ StopWorkRequest(r)

-----------------------------------------------------------------------------
\* However publication and deletion interleave or stop half way, nobody sees a
\* work that is deleted (publish_work upserts the publication of a work that a
\* request may have deleted in between).
DeletedIsNotShown ==
    \A w \in Works : work[w].st # "active" =>
        ~InGallery(w) /\ \A c \in Viewers : ~FindVisibleWork(w, c)

\* Requests that run one after the other to their end leave the visibility of a
\* work and its publication in agreement (publish_work, unpublish_work and
\* delete_work write both).
PublicationAgreesByTurns ==
    (~workRaced /\ workStops = 0 /\ \A r \in WorkRequests : workReq[r].pc # "half") =>
        \A w \in Works : work[w].vis = "public" <=> pub[w] = "published"

\* A customer has a work at most once among the favourites, however many of the
\* requests overlap, and favorite_work answers that it is one.
OneFavoriteRow ==
    \A x, y \in favorite : (x[1] = y[1] /\ x[2] = y[2]) => x = y

\* Every download is counted, those at the same time included (download_work).
DownloadsCounted ==
    \A w \in Works, c \in Viewers :
        downloads[<<w, c>>] = Cardinality({r \in WorkRequests :
            workReq[r].op = "download" /\ workReq[r].pc = "done"
              /\ workReq[r].w = w /\ workReq[r].c = c})

\* A work that is listed has its file, its AI asset and its asset, and lacks the
\* link to it only when its creation was stopped just before the last statement
\* (store_ai_asset, create_work_for_generated_asset).
WorkIsBacked ==
    \A w \in Works : work[w].st # "none" =>
        /\ Traces \ {"link"} \subseteq made[w]
        /\ "link" \notin made[w] => \E r \in WorkRequests :
              workReq[r].op = "create" /\ workReq[r].w = w /\ workReq[r].pc \in {"half", "stopped"}
=============================================================================
