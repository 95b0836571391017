------------------------------ MODULE WebAssets -----------------------------
(***************************************************************************)
(* Uploads of customers and the media worker that makes videos ready       *)
(* (web_assets.rs, media.rs).                                              *)
(*                                                                         *)
(* An upload stores the bytes, then consumes its one-time session, then    *)
(* inserts the asset.  Videos start as "processing"; the task spawned by   *)
(* the upload and the worker of the process claim them under a lease of    *)
(* ten minutes that is nothing but updated_at, put a thumbnail into the    *)
(* object store and write the metadata they read at the claim back.        *)
(* What the worker notes there (processingStartedAt, thumbnail) a customer *)
(* may write as well: metadata is any JSON object.                         *)
(***************************************************************************)
EXTENDS Integers, FiniteSets

CONSTANTS
    Uploads,          \* upload requests; each names the asset it makes
    MaxMediaFaults,   \* crashes and failed statements
    MaxEdits,         \* updates by customers
    MaxLapses         \* leases that run out

ASSUME AssetsAssumption ==
    /\ Uploads \cap {"session", "loop", "nobody"} = {}
    /\ MaxMediaFaults \in Nat /\ MaxEdits \in Nat /\ MaxLapses \in Nat

VARIABLES
    session,      \* the upload session: asset_uploads
    asset,        \* customer_assets
    object,       \* the object store: whose bytes a key holds
    thumb,        \* the thumbnails in the object store
    upload,       \* the upload handlers
    task,         \* what each media task has claimed: the rows as it read them
    quietEdit,    \* assets with an edit made while no task had them in hand
    doubled,      \* assets claimed while another task had them in hand
    mediaFaults, edits, lapses

assetVars == <<session, asset, object, thumb, upload, task, quietEdit, doubled,
               mediaFaults, edits, lapses>>

NoUpload == "nobody"

\* The object of a session is named after the session, that of a direct upload
\* after the asset.
Keys == Uploads \cup {"session"}

\* The worker loop of the process, and the task each upload may spawn.
MediaTasks == Uploads \cup {"loop"}

\* processingStartedAt; whose thumbnail.storage_key it is, the worker's or one
\* that a client wrote; whether it is from an update of the asset.
Metadata == [started : BOOLEAN, thumb : {"none", "own", "client"}, edit : BOOLEAN]

\* normalize_metadata of what a client sends, at the upload or in an update.
ClientMetadata(edit) == [started : BOOLEAN, thumb : {"none", "client"}, edit : {edit}]

AssetRow == [st : {"none", "processing", "ready", "failed", "deleted"}, video : BOOLEAN,
             key : Keys, sum : Uploads, meta : Metadata, lapsed : BOOLEAN]

\* "spawned": the asset is there, and the task for it has not started yet.
UploadRow == [pc : {"idle", "checked", "stored", "consumed", "refused", "lost", "spawned", "done"},
              direct : BOOLEAN, video : BOOLEAN]

\* has are the videos a task has claimed, read their metadata as the claim
\* returned it, now the one it works on, put whether the thumbnail is stored,
\* err whether process_video_asset has returned an error.
TaskRow == [has : SUBSET Uploads, read : [Uploads -> Metadata], now : Uploads \cup {NoUpload},
            put : BOOLEAN, err : BOOLEAN]

AssetsTypeOK ==
    /\ session \in {"none", "open", "consumed", "expired"}
    /\ asset \in [Uploads -> AssetRow]
    /\ object \in [Keys -> Uploads \cup {NoUpload}] /\ thumb \in SUBSET Uploads
    /\ upload \in [Uploads -> UploadRow] /\ task \in [MediaTasks -> TaskRow]
    /\ quietEdit \in SUBSET Uploads /\ doubled \in SUBSET Uploads
    /\ mediaFaults \in 0 .. MaxMediaFaults /\ edits \in 0 .. MaxEdits /\ lapses \in 0 .. MaxLapses

NoMetadata == [started |-> FALSE, thumb |-> "none", edit |-> FALSE]

IdleTask == [has |-> {}, read |-> [u \in Uploads |-> NoMetadata], now |-> NoUpload,
             put |-> FALSE, err |-> FALSE]

AssetsInit ==
    /\ session = "none"
    /\ asset = [u \in Uploads |-> [st |-> "none", video |-> FALSE, key |-> u, sum |-> u,
                                   meta |-> NoMetadata, lapsed |-> FALSE]]
    /\ object = [k \in Keys |-> NoUpload] /\ thumb = {}
    /\ upload = [u \in Uploads |-> [pc |-> "idle", direct |-> FALSE, video |-> FALSE]]
    /\ task = [t \in MediaTasks |-> IdleTask]
    /\ quietEdit = {} /\ doubled = {}
    /\ mediaFaults = 0 /\ edits = 0 /\ lapses = 0

InHand(u) == \E t \in MediaTasks : u \in task[t].has

counters == <<mediaFaults, edits, lapses>>

history == <<quietEdit, doubled>>

-----------------------------------------------------------------------------
(* Uploads. *)

CreateAssetUploadUrl ==
    /\ session = "none"
    /\ session' = "open"
    /\ UNCHANGED <<asset, object, thumb, upload, task, history, counters>>

\* Fifteen minutes.
ExpireUpload ==
    /\ session = "open"
    /\ session' = "expired"
    /\ UNCHANGED <<asset, object, thumb, upload, task, history, counters>>

\* find_upload and ensure_upload_is_usable; a direct upload needs no session.
\* The session fixes the type of the asset, here a video.
StartUpload(u) ==
    /\ upload[u].pc = "idle"
    /\ \E d, v \in BOOLEAN :
          /\ d \/ (session = "open" /\ v)
          /\ upload' = [upload EXCEPT ![u] = [pc |-> "checked", direct |-> d, video |-> v]]
    /\ UNCHANGED <<session, asset, object, thumb, task, history, counters>>

\* storage_key of upload_customer_asset and direct_upload_customer_asset.
StorageKey(u) == IF upload[u].direct THEN u ELSE "session"

PutObject(u) ==
    /\ upload[u].pc = "checked"
    /\ object' = [object EXCEPT ![StorageKey(u)] = u]
    /\ upload' = [upload EXCEPT ![u].pc = IF upload[u].direct THEN "consumed" ELSE "stored"]
    /\ UNCHANGED <<session, asset, thumb, task, history, counters>>

\* The where clause of consume_upload.
Consumable == session = "open"

ConsumeUpload(u) ==
    /\ upload[u].pc = "stored"
    /\ session' = IF Consumable THEN "consumed" ELSE session
    /\ upload' = [upload EXCEPT ![u].pc = IF Consumable THEN "consumed" ELSE "refused"]
    /\ UNCHANGED <<asset, object, thumb, task, history, counters>>

\* initial_asset_status.
InitialAssetStatus(video) == IF video THEN "processing" ELSE "ready"

\* The metadata is that of the session, which nobody reads before: any object.  A
\* direct upload carries none.  For a video spawn_video_asset_processing_if_needed
\* starts a task.
InsertCustomerAsset(u) ==
    /\ upload[u].pc = "consumed"
    /\ \E m \in IF upload[u].direct THEN {NoMetadata} ELSE ClientMetadata(FALSE) :
          asset' = [asset EXCEPT ![u] =
                      [st |-> InitialAssetStatus(upload[u].video), video |-> upload[u].video,
                       key |-> StorageKey(u), sum |-> u, meta |-> m, lapsed |-> FALSE]]
    /\ upload' = [upload EXCEPT ![u].pc = IF upload[u].video THEN "spawned" ELSE "done"]
    /\ UNCHANGED <<session, object, thumb, task, history, counters>>

\* update_customer_asset: new metadata replaces the old, and with it what the
\* worker has noted there; without any, updated_at is still set.
UpdateCustomerAsset(u) ==
    /\ asset[u].st \notin {"none", "deleted"} /\ edits < MaxEdits
    /\ edits' = edits + 1
    /\ \E m \in ClientMetadata(TRUE) \cup {asset[u].meta} :
          /\ asset' = [asset EXCEPT ![u].meta = m, ![u].lapsed = FALSE]
          /\ quietEdit' = IF m.edit /\ ~InHand(u) THEN quietEdit \cup {u} ELSE quietEdit
    /\ UNCHANGED <<session, object, thumb, upload, task, doubled, mediaFaults, lapses>>

DeleteCustomerAsset(u) ==
    /\ asset[u].st \notin {"none", "deleted"}
    /\ asset' = [asset EXCEPT ![u].st = "deleted"]
    /\ UNCHANGED <<session, object, thumb, upload, task, history, counters>>

-----------------------------------------------------------------------------
(* The media worker. *)

\* updated_at is ten minutes old.  Tasks that are slower than that are bounded.
LeaseLapses(u) ==
    /\ asset[u].st = "processing" /\ asset[u].meta.started /\ ~asset[u].lapsed
    /\ IF InHand(u) THEN lapses < MaxLapses /\ lapses' = lapses + 1 ELSE lapses' = lapses
    /\ asset' = [asset EXCEPT ![u].lapsed = TRUE]
    /\ UNCHANGED <<session, object, thumb, upload, task, history, mediaFaults, edits>>

\* Mutant: a video that has been started is never taken again.
ClaimableOnce(u) == asset[u].video /\ asset[u].st = "processing" /\ ~asset[u].meta.started

\* The where clause of both claims.
Claimable(u) ==
    /\ asset[u].video /\ asset[u].st = "processing"
    /\ ~asset[u].meta.started \/ asset[u].lapsed

Started(u) == [asset[u] EXCEPT !.meta.started = TRUE, !.lapsed = FALSE]

\* Task t claims the set us.
Claims(t, us) ==
    /\ us # {}
    /\ asset' = [u \in Uploads |-> IF u \in us THEN Started(u) ELSE asset[u]]
    /\ task' = [task EXCEPT ![t].has = us, ![t].read =
                  [u \in Uploads |-> IF u \in us THEN Started(u).meta ELSE NoMetadata]]
    /\ doubled' = doubled \cup {u \in us : InHand(u)}
    /\ UNCHANGED <<session, object, thumb, quietEdit, counters>>

\* claim_pending_video_assets: a batch of all that can be claimed; the next one
\* when every asset of the batch has been processed.
ClaimPendingVideoAssets ==
    /\ task["loop"] = IdleTask
    /\ Claims("loop", {u \in Uploads : Claimable(u)})
    /\ UNCHANGED upload

\* The task of the upload and claim_video_asset_by_id, once and whenever the
\* task gets to run; a crash loses it.
ClaimVideoAssetById(u) ==
    /\ upload[u].pc = "spawned" /\ Claimable(u)
    /\ upload' = [upload EXCEPT ![u].pc = "done"]
    /\ Claims(u, {u})

\* The claim finds nothing to do, or fails.
SpawnedTaskEnds(u) ==
    /\ upload[u].pc = "spawned"
    /\ IF Claimable(u) THEN mediaFaults < MaxMediaFaults /\ mediaFaults' = mediaFaults + 1
                       ELSE mediaFaults' = mediaFaults
    /\ upload' = [upload EXCEPT ![u].pc = "done"]
    /\ UNCHANGED <<session, asset, object, thumb, task, history, edits, lapses>>

PutBack(t, u) == [task EXCEPT ![t] = [has |-> @.has \ {u}, now |-> NoUpload, put |-> FALSE, err |-> FALSE,
                                      read |-> [@.read EXCEPT ![u] = NoMetadata]]]

\* process_video_asset: the bytes are read and run through ffprobe and ffmpeg.
ProcessVideoAsset(t, u) ==
    /\ u \in task[t].has /\ task[t].now = NoUpload
    /\ task' = [task EXCEPT ![t].now = u]
    /\ UNCHANGED <<session, asset, object, thumb, upload, history, counters>>

PutThumbnail(t, u) ==
    /\ task[t].now = u /\ ~task[t].put /\ ~task[t].err
    /\ thumb' = thumb \cup {u}
    /\ task' = [task EXCEPT ![t].put = TRUE]
    /\ UNCHANGED <<session, asset, object, upload, history, counters>>

\* Mutant: the metadata is built from nothing.
MergeFreshMetadata(meta) == [started |-> FALSE, thumb |-> "own", edit |-> FALSE]

\* merge_media_metadata of the metadata that the claim returned.
MergeMediaMetadata(meta) == [meta EXCEPT !.started = FALSE, !.thumb = "own"]

\* Mutant: deleted_at is not looked at.
MarkableAlways(u) == TRUE

\* where id = $1 and deleted_at is null.
Markable(u) == asset[u].st # "deleted"

MarkedReady(t, u) ==
    IF Markable(u)
    THEN [asset EXCEPT ![u].st = "ready", ![u].lapsed = FALSE,
                       ![u].meta = MergeMediaMetadata(task[t].read[u])]
    ELSE asset

MarkVideoAssetReady(t, u) ==
    /\ task[t].now = u /\ task[t].put /\ ~task[t].err
    /\ asset' = MarkedReady(t, u)
    /\ task' = PutBack(t, u)
    /\ UNCHANGED <<session, object, thumb, upload, history, counters>>

\* process_video_asset returns an error: a step of it fails, the mark included,
\* or the mark is made and its answer lost.
ProcessingFails(t, u) ==
    /\ task[t].now = u /\ ~task[t].err /\ mediaFaults < MaxMediaFaults
    /\ mediaFaults' = mediaFaults + 1
    /\ task' = [task EXCEPT ![t].err = TRUE]
    /\ \/ UNCHANGED asset
       \/ task[t].put /\ asset' = MarkedReady(t, u)
    /\ UNCHANGED <<session, object, thumb, upload, history, edits, lapses>>

\* mark_video_asset_failed, whatever the status is by now.
MarkVideoAssetFailed(t, u) ==
    /\ task[t].now = u /\ task[t].err
    /\ asset' = IF Markable(u) THEN [asset EXCEPT ![u].st = "failed", ![u].lapsed = FALSE] ELSE asset
    /\ task' = PutBack(t, u)
    /\ UNCHANGED <<session, object, thumb, upload, history, counters>>

\* The database that failed the ready mark fails this one too.
MarkLost(t, u) ==
    /\ task[t].now = u /\ task[t].err
    /\ task' = PutBack(t, u)
    /\ UNCHANGED <<session, asset, object, thumb, upload, history, counters>>

\* The process ends: handlers and tasks are gone, rows and objects stay.
CrashMedia ==
    /\ mediaFaults < MaxMediaFaults
    /\ mediaFaults' = mediaFaults + 1
    /\ task' = [t \in MediaTasks |-> IdleTask]
    /\ upload' = [u \in Uploads |->
                    CASE upload[u].pc \in {"checked", "stored", "consumed"} -> [upload[u] EXCEPT !.pc = "lost"]
                      [] upload[u].pc = "spawned" -> [upload[u] EXCEPT !.pc = "done"]
                      [] OTHER -> upload[u]]
    /\ UNCHANGED <<session, asset, object, thumb, history, edits, lapses>>

MediaStep(t, u) ==
    \/ ProcessVideoAsset(t, u) \/ PutThumbnail(t, u) \/ MarkVideoAssetReady(t, u)
    \/ ProcessingFails(t, u) \/ MarkVideoAssetFailed(t, u) \/ MarkLost(t, u)

AssetsNext ==
    \/ CreateAssetUploadUrl \/ ExpireUpload \/ ClaimPendingVideoAssets \/ CrashMedia
    \/ \E u \in Uploads :
          \/ StartUpload(u) \/ PutObject(u) \/ ConsumeUpload(u) \/ InsertCustomerAsset(u)
          \/ UpdateCustomerAsset(u) \/ DeleteCustomerAsset(u)
          \/ LeaseLapses(u) \/ ClaimVideoAssetById(u) \/ SpawnedTaskEnds(u)
          \/ \E t \in MediaTasks : MediaStep(t, u)

-----------------------------------------------------------------------------
\* download_customer_asset, for the file and for the thumbnail.
Downloadable(u) == asset[u].st = "ready"

\* With the key the worker wrote.  (A key that a client wrote is read as well,
\* and says nothing of what is stored.)
ThumbnailDownloadable(u) == asset[u].st = "ready" /\ asset[u].meta.thumb = "own"

\* A session makes at most one asset, however many requests carry its token
\* ("只能使用一次": consume_upload).
SessionMakesOneAsset ==
    Cardinality({u \in Uploads : asset[u].st # "none" /\ asset[u].key = "session"}) <= 1

\* Bytes under an asset that are not those of its checksum were put there by a
\* request that is refused, is about to be, or was lost: whoever is told that
\* the upload succeeded finds their own bytes unless a second request was sent
\* with the same token (upload_customer_asset puts before it consumes).
OverwrittenByRefused ==
    \A u \in Uploads : (asset[u].st # "none" /\ object[asset[u].key] # u) =>
        /\ asset[u].key = "session"
        /\ upload[object["session"]].pc \in {"stored", "refused", "lost"}

\* What download_customer_asset offers is in the object store: the file of an
\* asset, and the thumbnail the worker has noted.  A video is ready only with
\* such a thumbnail, whichever task marks it and whatever crashes, until an
\* update of the metadata drops or replaces it.
DownloadsExist ==
    \A u \in Uploads :
        /\ Downloadable(u) => object[asset[u].key] # NoUpload
        /\ ThumbnailDownloadable(u) => u \in thumb
        /\ (asset[u].video /\ Downloadable(u) /\ ~ThumbnailDownloadable(u)) => asset[u].meta.edit

\* Metadata written by a customer while no task has the video in hand survives
\* the processing that follows (merge_media_metadata keeps what the claim read).
QuietEditsSurvive == \A u \in quietEdit : asset[u].meta.edit

\* A deleted asset stays deleted, although tasks that claimed it before go on
\* and mark it.  A video that failed stays failed, and one that is ready stays
\* ready, unless two tasks had it in hand (its lease ran out, or a customer
\* replaced its metadata) or the answer to the mark was lost: then the task that
\* made it ready makes it failed (mark_video_asset_ready,
\* mark_video_asset_failed, claim_pending_video_assets).
AssetOutcomesKept ==
    [][\A u \in Uploads :
          /\ asset[u].st = "deleted" => asset'[u].st = "deleted"
          /\ (asset[u].st = "failed" /\ u \notin doubled) => asset'[u].st \in {"failed", "deleted"}
          /\ (asset[u].st = "ready" /\ u \notin doubled) =>
                \/ asset'[u].st \in {"ready", "deleted"}
                \/ asset'[u].st = "failed" /\ \E t \in MediaTasks : task[t].now = u /\ task[t].put /\ task[t].err]_assetVars

\* Tasks go on, the worker ticks, and ten minutes pass: of these steps one is
\* taken as long as there is one, which is all that is asked.
AssetsFairness ==
    WF_assetVars(\/ ClaimPendingVideoAssets
                 \/ \E u \in Uploads : LeaseLapses(u) \/ \E t \in MediaTasks : MediaStep(t, u))

\* Videos that wait to be processed all become ready or failed, or are deleted,
\* although processes crash and statements fail (the lease of
\* claim_pending_video_assets).
VideoSettles ==
    (\E u \in Uploads : asset[u].st = "processing") ~> (\A u \in Uploads : asset[u].st # "processing")
=============================================================================
