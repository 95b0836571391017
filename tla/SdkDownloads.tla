---------------------------- MODULE SdkDownloads ----------------------------
(***************************************************************************)
(* What the SDK does with what it downloads (client-sdk: update.rs and the *)
(* dates of script.rs).                                                    *)
(*                                                                         *)
(* An update is written to a temporary file beside the target, verified    *)
(* and renamed.  The temporary file has a fixed name, so two downloads to  *)
(* one target share it.  The contents of a file are the sets of the        *)
(* streams that were written to it to the end since it was truncated.      *)
(***************************************************************************)
EXTENDS Integers

CONSTANTS
    Downloads,        \* calls that download one update each
    Corrupt,          \* those whose bytes are not the ones that were signed
    Old,              \* those of a version below the running one
    Compared,         \* those made with download_update_from_reader_for_current_version
    MaxDownloadStops, \* bound of the processes that end
    LastYear          \* bound of the calendar

ASSUME DownloadsAssumption == MaxDownloadStops \in Nat /\ LastYear \in Nat /\ LastYear >= 1970

VARIABLES
    temp,         \* the temporary file
    target,       \* the target file
    handle,       \* the file the stream of a download writes to
    stage,        \* how far a download is
    overlapped,   \* two downloads ran at the same time
    downloadStops,
    date, days    \* a day of the calendar and its number

downloadVars == <<temp, target, handle, stage, overlapped, downloadStops>>

dateVars == <<date, days>>

None == "none"

File == [there : BOOLEAN, bytes : SUBSET Downloads]

NoFile == [there |-> FALSE, bytes |-> {}]

DownloadsTypeOK ==
    /\ temp \in File /\ target \in File
    /\ handle \in [Downloads -> {None, "temp", "target"}]
    /\ stage \in [Downloads -> {"idle", "streaming", "streamed", "verified", "failed", "done"}]
    /\ overlapped \in BOOLEAN /\ downloadStops \in 0 .. MaxDownloadStops

DownloadsInit ==
    /\ temp = NoFile /\ target = NoFile
    /\ handle = [d \in Downloads |-> None] /\ stage = [d \in Downloads |-> "idle"]
    /\ overlapped = FALSE /\ downloadStops = 0

Running(d) == stage[d] \in {"streaming", "streamed", "verified"}

\* ensure_update_not_downgrade.
NotDowngrade(d) == d \notin Old

\* Up to File::create: download_update_from_reader takes any update,
\* download_update_from_reader_for_current_version compares the versions first.
StartDownload(d) ==
    /\ stage[d] = "idle" /\ (d \in Compared => NotDowngrade(d))
    /\ temp' = [there |-> TRUE, bytes |-> {}]
    /\ handle' = [handle EXCEPT ![d] = "temp"]
    /\ stage' = [stage EXCEPT ![d] = "streaming"]
    /\ overlapped' = (overlapped \/ \E e \in Downloads \ {d} : Running(e))
    /\ UNCHANGED <<target, downloadStops>>

\* stream_to_file is through.
StreamToFile(d) ==
    /\ stage[d] = "streaming"
    /\ temp' = IF handle[d] = "temp" THEN [temp EXCEPT !.bytes = @ \cup {d}] ELSE temp
    /\ target' = IF handle[d] = "target" THEN [target EXCEPT !.bytes = @ \cup {d}] ELSE target
    /\ handle' = [handle EXCEPT ![d] = None]
    /\ stage' = [stage EXCEPT ![d] = "streamed"]
    /\ UNCHANGED <<overlapped, downloadStops>>

\* verify_downloaded_update: hash and signature of the file under the name of
\* the temporary file.
MatchesSignature(d) == temp = [there |-> TRUE, bytes |-> {d}] /\ d \notin Corrupt

VerifyDownload(d) ==
    /\ stage[d] = "streamed" /\ MatchesSignature(d)
    /\ stage' = [stage EXCEPT ![d] = "verified"]
    /\ UNCHANGED <<temp, target, handle, overlapped, downloadStops>>

MoveHandles(from, to) == [d \in Downloads |-> IF handle[d] = from THEN to ELSE handle[d]]

\* fs::rename: whoever still writes writes to the target now.
RenameDownload(d) ==
    /\ stage[d] = "verified" /\ temp.there
    /\ target' = temp /\ temp' = NoFile
    /\ handle' = [e \in Downloads |-> IF handle[e] = "temp" THEN "target"
                                      ELSE IF handle[e] = "target" THEN None ELSE handle[e]]
    /\ stage' = [stage EXCEPT ![d] = "done"]
    /\ UNCHANGED <<overlapped, downloadStops>>

\* The stream breaks, the check refuses or the rename fails: remove_file.
FailDownload(d) ==
    /\ \/ stage[d] = "streaming"
       \/ stage[d] = "streamed" /\ ~MatchesSignature(d)
       \/ stage[d] = "verified" /\ ~temp.there
    /\ temp' = NoFile
    /\ handle' = [MoveHandles("temp", None) EXCEPT ![d] = None]
    /\ stage' = [stage EXCEPT ![d] = "failed"]
    /\ UNCHANGED <<target, overlapped, downloadStops>>

\* The process ends; the temporary file stays.
StopDownloads ==
    /\ downloadStops < MaxDownloadStops
    /\ downloadStops' = downloadStops + 1
    /\ handle' = [d \in Downloads |-> None]
    /\ stage' = [d \in Downloads |-> IF Running(d) THEN "idle" ELSE stage[d]]
    /\ UNCHANGED <<temp, target, overlapped>>

DownloadsNext ==
    \/ StopDownloads
    \/ \E d \in Downloads : StartDownload(d) \/ StreamToFile(d) \/ VerifyDownload(d)
                            \/ RenameDownload(d) \/ FailDownload(d)

\* The target holds one whole update whose hash and signature were checked,
\* whatever breaks off, unless two downloads to the same target overlapped and
\* shared the temporary file (download_update_from_reader, temp_update_path).  It is
\* no downgrade if it was downloaded with the version check.
TargetIsVerified ==
    (target.there /\ ~overlapped) =>
        \E d \in Downloads \ (Corrupt \cup (Old \cap Compared)) : target.bytes = {d}

-----------------------------------------------------------------------------
(* Dates: expires_at of a script arrives as text and is compared as seconds. *)

IsLeapYear(y) == (y % 4 = 0 /\ y % 100 # 0) \/ y % 400 = 0

DaysInMonth(y, m) ==
    IF m = 2 THEN (IF IsLeapYear(y) THEN 29 ELSE 28)
    ELSE IF m \in {4, 6, 9, 11} THEN 30 ELSE 31

\* The eras of days_from_civil: the days before the dayOfYear-th day of the year
\* that begins in March of year y.  The code's division rounds like \div for years
\* from 0 on, and a year has four digits.
DaysInEras(y, dayOfYear) ==
    LET era == y \div 400
        yearOfEra == y - era * 400
        dayOfEra == yearOfEra * 365 + yearOfEra \div 4 - yearOfEra \div 100 + dayOfYear
    IN era * 146097 + dayOfEra - 719468

\* days_from_civil.
DaysFromCivil(year, month, day) ==
    LET monthPrime == IF month > 2 THEN month - 3 ELSE month + 9
    IN DaysInEras(IF month <= 2 THEN year - 1 ELSE year, (153 * monthPrime + 2) \div 5 + day - 1)

\* parse_rfc3339_to_unix in minutes, for a time of day and the offset of its zone.
UnixMinutes(d, minute, offset) == DaysFromCivil(d.y, d.m, d.d) * 1440 + minute - offset

DatesTypeOK == date \in [y : 1970 .. LastYear, m : 1 .. 12, d : 1 .. 31] /\ days \in Nat

DatesInit == date = [y |-> 1970, m |-> 1, d |-> 1] /\ days = 0

\* The day after, by the lengths of the months.
NextDay ==
    /\ date # [y |-> LastYear, m |-> 12, d |-> 31]
    /\ days' = days + 1
    /\ date' = IF date.d < DaysInMonth(date.y, date.m) THEN [date EXCEPT !.d = @ + 1]
               ELSE IF date.m < 12 THEN [y |-> date.y, m |-> date.m + 1, d |-> 1]
               ELSE [y |-> date.y + 1, m |-> 1, d |-> 1]

\* The closed formula of days_from_civil counts the days of the calendar from
\* 1970 on, leap years and the year 2100 included, and a time with an offset is
\* the same instant as the one of UTC (parse_rfc3339_to_unix).
DatesCount ==
    /\ DaysFromCivil(date.y, date.m, date.d) = days
    /\ \A offset \in {-720, 0, 330, 840} :
          UnixMinutes(date, 1439, offset) + 1 + offset = (days + 1) * 1440
=============================================================================
