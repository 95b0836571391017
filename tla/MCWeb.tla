------------------------------- MODULE MCWeb --------------------------------
(***************************************************************************)
(* Model checking of the web product: folders, assets and works.  They     *)
(* share no rows here, so a behaviour is one of a single part, its cast.   *)
(* Assets have two, of which TLC sees a batch of uploads that nobody edits *)
(* and a single video that somebody does.                                  *)
(***************************************************************************)
EXTENDS WebFolders, WebAssets, WebWorks

VARIABLE webCast

webVars == <<webCast, folderVars, assetVars, workVars>>

WebInit ==
    /\ webCast \in {"folders", "batch", "video", "works"} /\ FoldersInit /\ AssetsInit /\ WorksInit
    /\ webCast # "folders" => place = "none"

WebNext ==
    \/ webCast = "folders" /\ FoldersNext /\ UNCHANGED <<webCast, assetVars, workVars>>
    \/ webCast \in {"batch", "video"} /\ AssetsNext /\ UNCHANGED <<webCast, folderVars, workVars>>
    \/ webCast = "works" /\ WorksNext /\ UNCHANGED <<webCast, folderVars, assetVars>>

WebSpec == WebInit /\ [][WebNext]_webVars /\ AssetsFairness

\* What keeps the instance small: a batch without edits, or a single video.
InCast ==
    /\ webCast = "batch" => edits = 0 /\ mediaFaults <= 1
    /\ webCast = "video" => \A u, v \in Uploads : upload[u].pc # "idle" /\ upload[v].pc # "idle" => u = v

SmallWebSpec == WebInit /\ [][WebNext /\ InCast']_webVars /\ AssetsFairness

\* Folders keep their types, requests that do not overlap lose nothing but what
\* an upload files in a folder deleted since its session was opened, and only
\* overlapping moves close a cycle (update_asset_folder, delete_asset_folder,
\* create_asset_upload_url).
FoldersKept == FoldersTypeOK /\ NothingLostByTurns /\ NoCycleUnlessMovesRace

\* An upload session makes one asset, whose bytes only a refused request with
\* the same token can have overwritten (upload_customer_asset); what can be
\* downloaded is stored, and the processing of a video keeps the metadata that
\* was there when it was claimed (process_video_asset).
AssetsKept ==
    /\ AssetsTypeOK /\ SessionMakesOneAsset /\ OverwrittenByRefused
    /\ DownloadsExist /\ QuietEditsSurvive

\* Works: what is deleted is not shown, visibility and publication agree after
\* requests that take turns, favourites and downloads are counted right, and a
\* work is backed by its file (web_works.rs, store_ai_asset).
WorksKept == /\ WorksTypeOK
             /\ DeletedIsNotShown /\ PublicationAgreesByTurns
             /\ OneFavoriteRow /\ DownloadsCounted /\ WorkIsBacked
=============================================================================
