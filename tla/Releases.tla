------------------------------ MODULE Releases ------------------------------
(***************************************************************************)
(* Releases of an application (release/admin.rs, release/repository.rs,    *)
(* release/client.rs): files, drafts, publication with a signature over    *)
(* the row, the update check of the client and the download with a token.  *)
(*                                                                         *)
(* Every handler of the back office reads the row first, checks its status *)
(* and then runs a transaction whose update asks for the status again.     *)
(***************************************************************************)
EXTENDS Integers, FiniteSets

CONSTANTS
    ReleaseIds,      \* each is made from the file of the same name
    Versions,        \* version and version_code
    OfficeCalls,     \* concurrent requests of the back office on a release
    DownloadCalls    \* requests of a client with the download token

ASSUME ReleasesAssumption == ReleaseIds # {} /\ Versions \subseteq Nat \ {0}

VARIABLES
    file,        \* release_files and the object store
    release,     \* releases
    office,      \* the handlers of the back office
    offer,       \* download_tokens: the one token of the client
    download,    \* the handlers of the downloads
    device       \* whether device, entitlement and application are active

releaseVars == <<file, release, office, offer, download, device>>

NoVersion == 0

\* What release_metadata_signature_payload is made of.
Payload == [v : Versions \cup {NoVersion}, file : ReleaseIds]

Unsigned(r) == [v |-> NoVersion, file |-> r]

ReleaseRow == [st : {"none", "draft", "published", "deprecated"}, deleted : BOOLEAN,
               v : Versions \cup {NoVersion}, sig : Payload]

Operations == {"update", "publish", "deprecate", "delete"}

OfficeRow == [pc : {"idle", "checked"}, op : Operations, r : ReleaseIds,
              v : Versions \cup {NoVersion}, before : ReleaseRow]

OfferRow == [st : {"none", "open", "used", "expired"}, r : ReleaseIds \cup {"none"}]

ReleasesTypeOK ==
    /\ file \in [ReleaseIds -> [row : BOOLEAN, object : BOOLEAN]]
    /\ release \in [ReleaseIds -> ReleaseRow]
    /\ office \in [OfficeCalls -> OfficeRow]
    /\ offer \in OfferRow
    /\ download \in [DownloadCalls -> {"idle", "consumed", "served", "refused"}]
    /\ device \in BOOLEAN

NoRelease(r) == [st |-> "none", deleted |-> FALSE, v |-> NoVersion, sig |-> Unsigned(r)]

\* Between two requests.
IdleOffice ==
    LET r == CHOOSE r \in ReleaseIds : TRUE
    IN [pc |-> "idle", op |-> "update", r |-> r, v |-> NoVersion, before |-> NoRelease(r)]

ReleasesInit ==
    /\ file = [r \in ReleaseIds |-> [row |-> FALSE, object |-> FALSE]]
    /\ release = [r \in ReleaseIds |-> NoRelease(r)]
    /\ office = [o \in OfficeCalls |-> IdleOffice]
    /\ offer = [st |-> "none", r |-> "none"]
    /\ download = [d \in DownloadCalls |-> "idle"]
    /\ device = TRUE

-----------------------------------------------------------------------------
(* The back office. *)

\* upload_release_file puts the bytes before it registers the file.
PutReleaseObject(r) ==
    /\ ~file[r].row /\ ~file[r].object
    /\ file' = [file EXCEPT ![r].object = TRUE]
    /\ UNCHANGED <<release, office, offer, download, device>>

\* create_signed_release_file: after an upload, or for register_release_file,
\* which takes the word of the caller that there is an object.
CreateReleaseFile(r) ==
    /\ ~file[r].row
    /\ file' = [file EXCEPT ![r].row = TRUE]
    /\ UNCHANGED <<release, office, offer, download, device>>

\* idx_releases_app_version.
VersionFree(r, v) == \A q \in ReleaseIds \ {r} :
    (release[q].st # "none" /\ ~release[q].deleted) => release[q].v # v

CreateRelease(r, v) ==
    /\ release[r].st = "none" /\ file[r].row /\ VersionFree(r, v)
    /\ release' = [release EXCEPT ![r] = [@ EXCEPT !.st = "draft", !.v = v]]
    /\ UNCHANGED <<file, office, offer, download, device>>

\* The status a handler asks for, before and in its transaction.
ExpectedStatus(op) == IF op = "deprecate" THEN "published" ELSE "draft"

\* find_by_id and ensure_release_state.
CheckRelease(o, op, r, v) ==
    /\ office[o].pc = "idle"
    /\ op # "update" => v = NoVersion
    /\ op = "update" => v # NoVersion
    /\ release[r].st = ExpectedStatus(op) /\ ~release[r].deleted
    /\ office' = [office EXCEPT ![o] = [pc |-> "checked", op |-> op, r |-> r, v |-> v,
                                        before |-> release[r]]]
    /\ UNCHANGED <<file, release, offer, download, device>>

\* Mutant: the update trusts the check that the handler made before.
StillExpectedAlways(o) == TRUE

\* The where clause of the update.
StillExpected(o) ==
    LET r == office[o].r IN release[r].st = ExpectedStatus(office[o].op) /\ ~release[r].deleted

\* Mutant: the signature is made of the row read before the transaction.
SignedPayloadBefore(o, row) == [v |-> office[o].before.v, file |-> office[o].r]

\* release_metadata_signature_payload of the row the update returned.
SignedPayload(o, row) == [v |-> row.v, file |-> office[o].r]

\* publish_release_in_transaction and sign_release_in_transaction, and the
\* single updates of the other handlers.
UpdatedRelease(o) ==
    LET row == release[office[o].r] IN
    CASE office[o].op = "update" -> [row EXCEPT !.v = office[o].v]
      [] office[o].op = "publish" -> [row EXCEPT !.st = "published", !.sig = SignedPayload(o, row)]
      [] office[o].op = "deprecate" -> [row EXCEPT !.st = "deprecated"]
      [] office[o].op = "delete" -> [row EXCEPT !.deleted = TRUE]

CommitRelease(o) ==
    /\ office[o].pc = "checked"
    /\ StillExpected(o)
    /\ office[o].op = "update" => VersionFree(office[o].r, office[o].v)
    /\ release' = [release EXCEPT ![office[o].r] = UpdatedRelease(o)]
    /\ office' = [office EXCEPT ![o] = IdleOffice]
    /\ UNCHANGED <<file, offer, download, device>>

RefuseRelease(o) ==
    /\ office[o].pc = "checked"
    /\ ~StillExpected(o) \/ (office[o].op = "update" /\ ~VersionFree(office[o].r, office[o].v))
    /\ office' = [office EXCEPT ![o] = IdleOffice]
    /\ UNCHANGED <<file, release, offer, download, device>>

\* The licence is revoked, the device blocked or the application disabled.
LoseEntitlement ==
    /\ device
    /\ device' = FALSE
    /\ UNCHANGED <<file, release, office, offer, download>>

-----------------------------------------------------------------------------
(* The client. *)

\* The where clause of latest_published.
Offered(r) == release[r].st = "published" /\ ~release[r].deleted /\ release[r].sig.v # NoVersion

\* latest_release: the highest version, and a token for its file.
LatestRelease(r) ==
    /\ offer.st = "none" /\ device
    /\ Offered(r)
    /\ \A q \in ReleaseIds : Offered(q) => release[q].v <= release[r].v
    /\ offer' = [st |-> "open", r |-> r]
    /\ UNCHANGED <<file, release, office, download, device>>

ExpireDownloadToken ==
    /\ offer.st = "open"
    /\ offer' = [offer EXCEPT !.st = "expired"]
    /\ UNCHANGED <<file, release, office, download, device>>

\* The where clause of consume_download_token.
TokenUsable == offer.st = "open" /\ device

ConsumeDownloadToken(d) ==
    /\ download[d] = "idle" /\ offer.st # "none"
    /\ offer' = IF TokenUsable THEN [offer EXCEPT !.st = "used"] ELSE offer
    /\ download' = [download EXCEPT ![d] = IF TokenUsable THEN "consumed" ELSE "refused"]
    /\ UNCHANGED <<file, release, office, device>>

\* download_release: the rate limit, the object and its size; the token is
\* used up either way.
ServeDownload(d) ==
    /\ download[d] = "consumed"
    /\ \/ file[offer.r].object /\ download' = [download EXCEPT ![d] = "served"]
       \/ download' = [download EXCEPT ![d] = "refused"]
    /\ UNCHANGED <<file, release, office, offer, device>>

ReleasesNext ==
    \/ LoseEntitlement \/ ExpireDownloadToken
    \/ \E r \in ReleaseIds :
          \/ PutReleaseObject(r) \/ CreateReleaseFile(r) \/ LatestRelease(r)
          \/ \E v \in Versions : CreateRelease(r, v)
          \/ \E o \in OfficeCalls, op \in Operations, v \in Versions \cup {NoVersion} :
                CheckRelease(o, op, r, v)
    \/ \E o \in OfficeCalls : CommitRelease(o) \/ RefuseRelease(o)
    \/ \E d \in DownloadCalls : ConsumeDownloadToken(d) \/ ServeDownload(d)

-----------------------------------------------------------------------------
\* The signature the client checks is over the very version and file that the
\* row shows, although drafts are updated while they are published
\* (publish_release).
SignatureCoversRelease ==
    \A r \in ReleaseIds : release[r].st \in {"published", "deprecated"} =>
        release[r].sig = [v |-> release[r].v, file |-> r]

\* A download token serves one download, of a file whose release was published,
\* however many requests carry it (consume_download_token).
TokenServesOnce ==
    /\ Cardinality({d \in DownloadCalls : download[d] \in {"consumed", "served"}}) <= 1
    /\ offer.st # "none" => release[offer.r].st \in {"published", "deprecated"}

\* What has been published never changes or disappears, and what is deprecated
\* is not offered again, whatever handlers read the row when it was a draft
\* (update_release_in_transaction, delete_draft_release_in_transaction).
PublishedIsFixed ==
    [][\A r \in ReleaseIds : release[r].st \in {"published", "deprecated"} =>
          /\ release'[r].v = release[r].v /\ release'[r].sig = release[r].sig
          /\ release'[r].deleted = release[r].deleted
          /\ release'[r].st \in {release[r].st, "deprecated"}]_releaseVars
=============================================================================
