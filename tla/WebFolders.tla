----------------------------- MODULE WebFolders -----------------------------
(***************************************************************************)
(* The folders in which a customer keeps assets (web_assets.rs).           *)
(*                                                                         *)
(* Each handler checks the tree with plain reads and then writes one row   *)
(* without a transaction.  An upload is two requests: the first checks the *)
(* folder and keeps it in an upload session, the second files the asset    *)
(* there without another look.  raced and movesRaced record whether        *)
(* requests (or moves of folders among them) have overlapped.              *)
(***************************************************************************)
EXTENDS Integers, FiniteSets

CONSTANTS
    Folders,          \* rows of asset_folders
    FolderRequests    \* HTTP requests

ASSUME FoldersAssumption == Folders # {} /\ Folders \cap {"root", "none", "deleted"} = {}

VARIABLES
    folder,      \* asset_folders
    place,       \* folder_id of one asset, "none" before its upload, or "deleted"
    uploadTo,    \* folder_id of its open upload session (asset_uploads), or "none"
    orphans,     \* folders deleted while the session was open for them
    folderReq,   \* the handlers
    raced,       \* whether a request has written between another's read and write
    movesRaced   \* whether two moves of folders have

folderVars == <<folder, place, uploadTo, orphans, folderReq, raced, movesRaced>>

Root == "root"

Parents == Folders \cup {Root}

FolderRow == [st : {"none", "live", "deleted"}, parent : Parents]

FolderRequest == [pc : {"idle", "checked", "done"},
                  op : {"none", "create", "move", "delete", "file", "grant", "upload", "direct"},
                  f : Folders, to : Parents]

FoldersTypeOK ==
    /\ folder \in [Folders -> FolderRow]
    /\ place \in Parents \cup {"none", "deleted"}
    /\ uploadTo \in Parents \cup {"none"} /\ orphans \in SUBSET Folders
    /\ folderReq \in [FolderRequests -> FolderRequest]
    /\ raced \in BOOLEAN /\ movesRaced \in BOOLEAN

\* A customer has made all folders but one, and has the asset or has not.
FoldersInit ==
    /\ folder = [f \in Folders |->
          [st |-> IF f = CHOOSE g \in Folders : TRUE THEN "none" ELSE "live", parent |-> Root]]
    /\ place \in {"none", Root} /\ uploadTo = "none" /\ orphans = {}
    /\ folderReq = [r \in FolderRequests |->
          [pc |-> "idle", op |-> "none", f |-> CHOOSE f \in Folders : TRUE, to |-> Root]]
    /\ raced = FALSE /\ movesRaced = FALSE

-----------------------------------------------------------------------------
\* find_folder and ensure_folder_belongs.
FolderBelongs(p) == p # Root => folder[p].st = "live"

Children(p) == {f \in Folders : folder[f].st = "live" /\ folder[f].parent = p}

\* The recursive query of ensure_folder_can_move: the smallest set that has the
\* children of p and with a folder its children.  (On a cycle the query itself
\* would not end.)
Descendants(p) ==
    {f \in Folders : \A S \in SUBSET Folders :
        (Children(p) \subseteq S /\ \A g \in S : Children(g) \subseteq S) => f \in S}

\* Mutant: only the folder itself and its children are refused.
FolderCanMoveShallow(f, p) == p # f /\ p \notin Children(f)

\* ensure_folder_can_move.
FolderCanMove(f, p) == p # f /\ p \notin Descendants(f)

\* ensure_folder_empty.
FolderEmpty(f) == Children(f) = {} /\ place # f

\* The checks of create_asset_folder, update_asset_folder, delete_asset_folder,
\* update_customer_asset, create_asset_upload_url, upload_customer_asset and
\* direct_upload_customer_asset, of the last four for the folder of the asset.
FolderChecks(op, f, p) ==
    CASE op = "create" -> folder[f].st = "none" /\ FolderBelongs(p)
      [] op = "move"   -> folder[f].st = "live" /\ FolderBelongs(p) /\ FolderCanMove(f, p)
      [] op = "delete" -> folder[f].st = "live" /\ FolderEmpty(f)
      [] op = "file"   -> place \in Parents /\ FolderBelongs(p)
      [] op = "upload" -> uploadTo # "none"
      [] op \in {"grant", "direct"} -> place = "none" /\ FolderBelongs(p)

\* Requests with the same op get the same new id (of a folder, of an asset).
SameId(op, f, q) ==
    \/ op = "create" /\ folderReq[q].op = "create" /\ folderReq[q].f = f
    \/ op \in {"grant", "direct"} /\ folderReq[q].op \in {"grant", "direct"}

\* A folder that has a parent cannot go back to the root, nor can an asset: to
\* serde a null is the absent field (UpdateAssetFolderRequest).
FolderRead(r) ==
    /\ folderReq[r].pc = "idle"
    /\ \E op \in {"create", "move", "delete", "file", "grant", "upload", "direct"},
          f \in Folders, p \in Parents :
          /\ FolderChecks(op, f, p)
          /\ op \in {"move", "file"} => p # Root
          \* What the request does not carry.
          /\ op \in {"delete", "upload"} => p = Root
          /\ op \in {"file", "grant", "upload", "direct"} => f = CHOOSE g \in Folders : TRUE
          /\ \A q \in FolderRequests : ~SameId(op, f, q)
          /\ folderReq' = [folderReq EXCEPT ![r] = [pc |-> "checked", op |-> op, f |-> f, to |-> p]]
    /\ UNCHANGED <<folder, place, uploadTo, orphans, raced, movesRaced>>

\* The request writes: it has raced with every other that is still to write.
FolderWritten(r) ==
    /\ folderReq' = [folderReq EXCEPT ![r].pc = "done"]
    /\ LET others == {q \in FolderRequests \ {r} : folderReq[q].pc = "checked"} IN
          /\ raced' = (raced \/ others # {})
          /\ movesRaced' = (movesRaced \/ (folderReq[r].op = "move"
                              /\ \E q \in others : folderReq[q].op = "move"))

CreateAssetFolder(r) ==
    /\ folderReq[r].pc = "checked" /\ folderReq[r].op = "create"
    /\ folder' = [folder EXCEPT ![folderReq[r].f] = [st |-> "live", parent |-> folderReq[r].to]]
    /\ FolderWritten(r)
    /\ UNCHANGED <<place, uploadTo, orphans>>

\* where deleted_at is null: a folder deleted in the meantime stays as it is.
UpdateAssetFolder(r) ==
    /\ folderReq[r].pc = "checked" /\ folderReq[r].op = "move"
    /\ folder' = [folder EXCEPT ![folderReq[r].f].parent =
                    IF folder[folderReq[r].f].st = "live" THEN folderReq[r].to ELSE @]
    /\ FolderWritten(r)
    /\ UNCHANGED <<place, uploadTo, orphans>>

\* An upload session that is open for the folder does not keep it.
DeleteAssetFolder(r) ==
    /\ folderReq[r].pc = "checked" /\ folderReq[r].op = "delete"
    /\ folder' = [folder EXCEPT ![folderReq[r].f].st = "deleted"]
    /\ orphans' = orphans \cup ({folderReq[r].f} \cap {uploadTo})
    /\ FolderWritten(r)
    /\ UNCHANGED <<place, uploadTo>>

FileAsset(r) ==
    /\ folderReq[r].pc = "checked" /\ folderReq[r].op = "file"
    /\ place' = IF place \in Parents THEN folderReq[r].to ELSE place
    /\ FolderWritten(r)
    /\ UNCHANGED <<folder, uploadTo, orphans>>

\* create_asset_upload_url.
GrantUpload(r) ==
    /\ folderReq[r].pc = "checked" /\ folderReq[r].op = "grant"
    /\ uploadTo' = folderReq[r].to
    /\ FolderWritten(r)
    /\ UNCHANGED <<folder, place, orphans>>

\* upload_customer_asset, within fifteen minutes: who consumes the session
\* inserts the asset where the session says.  (Between the two statements no
\* other handler looks at either row.)
UploadIntoFolder(r) ==
    /\ folderReq[r].pc = "checked" /\ folderReq[r].op = "upload"
    /\ place' = IF uploadTo = "none" THEN place ELSE uploadTo
    /\ uploadTo' = "none"
    /\ FolderWritten(r)
    /\ UNCHANGED <<folder, orphans>>

\* direct_upload_customer_asset: the check and the insert in one request.
DirectUploadIntoFolder(r) ==
    /\ folderReq[r].pc = "checked" /\ folderReq[r].op = "direct"
    /\ place' = folderReq[r].to
    /\ FolderWritten(r)
    /\ UNCHANGED <<folder, uploadTo, orphans>>

\* delete_customer_asset.
RemoveAsset ==
    /\ place \in Parents
    /\ place' = "deleted"
    /\ UNCHANGED <<folder, uploadTo, orphans, folderReq, raced, movesRaced>>

FoldersNext ==
    \/ \E r \in FolderRequests :
          \/ FolderRead(r) \/ CreateAssetFolder(r) \/ UpdateAssetFolder(r) \/ DeleteAssetFolder(r)
          \/ FileAsset(r) \/ GrantUpload(r) \/ UploadIntoFolder(r) \/ DirectUploadIntoFolder(r)
    \/ RemoveAsset

-----------------------------------------------------------------------------
\* What list_asset_folders shows when a user descends from the root.
Shown == Descendants(Root)

\* Requests that do not overlap lose no folder: every live one can be reached
\* from the root.  They lose the asset in one way only, in a folder that was
\* deleted between the two requests of its upload (ensure_folder_belongs,
\* ensure_folder_can_move and ensure_folder_empty together).
NothingLostByTurns ==
    ~raced => /\ \A f \in Folders : folder[f].st = "live" => f \in Shown
              /\ place \in Folders \ orphans => place \in Shown

\* Whatever else overlaps, folders form no cycle as long as moves do not: only
\* two moves, each checked before the other writes, can close one
\* (update_asset_folder).
NoCycleUnlessMovesRace ==
    ~movesRaced => \A f \in Folders : folder[f].st = "live" => f \notin Descendants(f)
=============================================================================
