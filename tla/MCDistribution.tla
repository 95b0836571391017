--------------------------- MODULE MCDistribution ---------------------------
(***************************************************************************)
(* Model checking of what reaches the clients: signing keys, releases,     *)
(* scripts and the SDK that verifies them.  The parts share no state here, *)
(* so a behaviour is one of a single part, its cast.                       *)
(***************************************************************************)
EXTENDS SigningKeys, Releases, SecureScripts, ClientSdk, SdkDownloads, TLC

VARIABLE cast

mcVars == <<cast, keyVars, releaseVars, scriptVars, sdkVars, downloadVars, dateVars>>

Casts == {"jwt keys", "application keys", "releases", "scripts", "session", "downloads", "dates"}

Init ==
    /\ cast \in Casts
    /\ KeysInit /\ ReleasesInit /\ ScriptsInit /\ SdkInit /\ DownloadsInit /\ DatesInit

Next ==
    \/ /\ \/ cast = "jwt keys" /\ JwtNext
          \/ cast = "application keys" /\ ApplicationNext
       /\ UNCHANGED <<cast, releaseVars, scriptVars, sdkVars, downloadVars, dateVars>>
    \/ /\ cast = "releases" /\ ReleasesNext
       /\ UNCHANGED <<cast, keyVars, scriptVars, sdkVars, downloadVars, dateVars>>
    \/ /\ cast = "scripts" /\ ScriptsNext
       /\ UNCHANGED <<cast, keyVars, releaseVars, sdkVars, downloadVars, dateVars>>
    \/ /\ cast = "session" /\ SdkNext
       /\ UNCHANGED <<cast, keyVars, releaseVars, scriptVars, downloadVars, dateVars>>
    \/ /\ cast = "downloads" /\ DownloadsNext
       /\ UNCHANGED <<cast, keyVars, releaseVars, scriptVars, sdkVars, dateVars>>
    \/ /\ cast = "dates" /\ NextDay
       /\ UNCHANGED <<cast, keyVars, releaseVars, scriptVars, sdkVars, downloadVars>>

Spec == Init /\ [][Next]_mcVars

\* The threads of the SDK are alike.
DistributionSymmetry == Permutations(Threads)

\* What clients are given verifies: releases and scripts are signed as they are
\* shown, and a download token serves once (publish_release,
\* update_secure_script_content, consume_download_token).
PublicationKept == ReleasesTypeOK /\ ScriptsTypeOK /\ SignatureCoversRelease /\ TokenServesOnce /\ ScriptSignatureFits

\* The SDK keeps its session and its key in step with the server
\* (session_after_refresh_if_needed, apply_device_key_rotation), and what it lets
\* through has been checked: update files and dates of expiry
\* (download_update_from_reader, parse_rfc3339_to_unix).
SdkKept == /\ SdkTypeOK /\ DownloadsTypeOK /\ DatesTypeOK
           /\ ReuseOnlyFromOldDisk /\ DeviceKeyAgrees /\ TargetIsVerified /\ DatesCount
=============================================================================
