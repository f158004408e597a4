------------------------------ MODULE Download ------------------------------
(* The downloader of the standalone program: tools/make_standalone_bundle.py *)
(* holds its text, v40_standalone.py is the text it writes.  A download goes *)
(* through its mirrors, several attempts each, and every attempt resumes the *)
(* file that is on the disk, whoever left it there: an earlier attempt,      *)
(* another mirror, or a run that was killed.                                 *)
(*                                                                           *)
(* A file is the sequence of the pieces in it; the archive of a reference    *)
(* [ref] is the pieces <<ref, 1>>, ..., <<ref, Size[ref]>>.  Mirrors send    *)
(* the archive they are asked for, and may stop, break or be slow anywhere;  *)
(* they may honour a Range header or not, each time they are asked.          *)
EXTENDS Integers, Sequences

CONSTANTS
    Archives,      \* the files a download may write
    Versions,      \* what an archive can be an archive of
    Size,          \* the pieces of each version's archive
    Mirrors,       \* how many URLs a download is given (the code: 2)
    Announcing,    \* the mirrors that send Content-Length
    MaxAttempts    \* _download's max_attempts per mirror (the code: 6)

ASSUME SizesAssumption == Size \in [Versions -> Nat \ {0}]
ASSUME MirrorsAssumption == Mirrors \in Nat \ {0} /\ MaxAttempts \in Nat \ {0}

VARIABLES
    file,  \* the bytes on the disk, per archive: kept from run to run
    dl     \* the download under way

downloadVars == <<file, dl>>

NoDownload == [st |-> "none"]
Whole(a, v) == file[a] = [i \in 1..Size[v] |-> <<v, i>>]
\* Pieces of another version, which an earlier run left.
Foreign(a, v) == \E i \in DOMAIN file[a] : file[a][i][1] # v

DownloadInit == /\ file = [a \in Archives |-> <<>>]
                /\ dl = NoDownload

\* The first attempt at the first mirror.
Begun(a, v) ==
    [st |-> "ask", archive |-> a, version |-> v, mirror |-> 1, attempt |-> 1,
     pos |-> 0, told |-> FALSE]

-----------------------------------------------------------------------------
\* An attempt has failed: the same mirror again, then the next, then give up.
NextAttempt ==
    IF dl.attempt < MaxAttempts
    THEN [dl EXCEPT !.st = "ask", !.attempt = @ + 1]
    ELSE IF dl.mirror < Mirrors
         THEN [dl EXCEPT !.st = "ask", !.attempt = 1, !.mirror = @ + 1]
         ELSE [dl EXCEPT !.st = "failed"]

\* No connection, or an answer that is an error.
AskFails ==
    /\ dl.st = "ask"
    /\ dl' = NextAttempt
    /\ UNCHANGED file

\* The answer to "Range: bytes=n-" with n at or past the end.
AnswersNoMore ==
    /\ dl.st = "ask"
    /\ Len(file[dl.archive]) >= Size[dl.version]
    /\ dl' = [dl EXCEPT !.st = "ok", !.told = TRUE]
    /\ UNCHANGED file

\* Mutant: the file is opened for appending whenever it was not empty.
AlwaysAppends(a, partial) == file[a]

\* What the file holds when the answer's body is written into it: all of it
\* for a part (206), nothing for the whole archive (200).
Kept(a, partial) == IF partial THEN file[a] ELSE <<>>

Answers(partial) ==
    LET a == dl.archive IN
    /\ dl.st = "ask"
    /\ partial => Len(file[a]) \in 1..Size[dl.version] - 1
    /\ dl' = [dl EXCEPT !.st = "body",
                        !.pos = IF partial THEN Len(file[a]) ELSE 0,
                        !.told = dl.mirror \in Announcing]
    /\ file' = [file EXCEPT ![a] = Kept(a, partial)]

Chunk ==
    /\ dl.st = "body"
    /\ dl.pos < Size[dl.version]
    /\ dl' = [dl EXCEPT !.pos = @ + 1]
    /\ file' = [file EXCEPT ![dl.archive] =
                    Append(@, <<dl.version, dl.pos + 1>>)]

\* The connection breaks, or is slower than min_rate_kbps past stall_window.
BodyFails ==
    /\ dl.st = "body"
    /\ dl' = NextAttempt
    /\ UNCHANGED file

\* The length of the answer, when one was announced, and the file's length.
Complete ==
    /\ dl.told => dl.pos = Size[dl.version]
    /\ dl.pos > 0
    /\ Len(file[dl.archive]) = dl.pos

\* The body ends: at the archive's end, or where the connection was closed.
BodyEnds ==
    /\ dl.st = "body"
    /\ dl' = IF Complete THEN [dl EXCEPT !.st = "ok"] ELSE NextAttempt
    /\ UNCHANGED file

DownloadStep ==
    \/ AskFails
    \/ AnswersNoMore
    \/ \E partial \in BOOLEAN : Answers(partial)
    \/ Chunk
    \/ BodyFails
    \/ BodyEnds

-----------------------------------------------------------------------------
\* The types; no mirror is asked more than MaxAttempts times.
DownloadTypeOK ==
    /\ file \in [Archives -> Seq(Versions \X Nat)]
    /\ dl.st \in {"none", "ask", "body", "ok", "failed"}
    /\ dl.st # "none" =>
           /\ dl.archive \in Archives /\ dl.version \in Versions
           /\ dl.mirror \in 1..Mirrors /\ dl.attempt \in 1..MaxAttempts
           /\ dl.pos \in 0..Size[dl.version] /\ dl.told \in BOOLEAN

(* _download returns a URL only for a file that is the archive, whole and in *)
(* order, whatever mix of attempts, mirrors, resumed parts and killed runs   *)
(* wrote it: unless the mirror did not say how long its answer was, or a run *)
(* that wanted another version had left its bytes in the same file.          *)
DownloadIsWhole ==
    (dl.st = "ok" /\ dl.told /\ ~Foreign(dl.archive, dl.version))
        => Whole(dl.archive, dl.version)
=============================================================================
