-------------------------------- MODULE Boot --------------------------------
(* The standalone program: it installs Lean and the Python packages it lacks,*)
(* looks for API keys, fetches a project from GitHub and calls the command   *)
(* line, or runs its self-test.  It is one process without threads; what can *)
(* go wrong is what it finds on the disk, because any run may be killed at   *)
(* any moment and the next one starts from what that one left.               *)
(*                                                                           *)
(* Source: tools/make_standalone_bundle.py, the template of                  *)
(* v40_standalone.py.  The machine has no Lean of its own: with one on PATH  *)
(* ensure_lean returns at once.                                              *)
EXTENDS Download, FiniteSets

CONSTANTS
    Refs,          \* the refs of one GitHub repository that may be asked for
    Reports,       \* what a self-test's report may say: records [solved,
                   \* clean, rejects]
    MinSolved,     \* SELF_TEST_MIN_SOLVED
    HardRejects,   \* SELF_TEST_HARD_REJECTS
    MaxRuns, MaxCrashes   \* the bounds of the check

ASSUME BootAssumption == /\ Versions = Refs \cup {"lean"}
                         /\ Archives = {"lean", "zip"}

VARIABLES
    elanBin,   \* ~/.elan/bin: "absent", "empty" or "lake" (it has the shim)
    tool,      \* the toolchain under ~/.elan and the one under ~/.v40
    deps,      \* can the Python packages be imported?
    clone,     \* <work>/github_sources/gh_<owner>_<repo>
    staging,   \* the directory the zip is unpacked into, per top directory
    reports,   \* the self-test's results/run_*.json, oldest first
    installer, \* does an installer of elan go on, whose run is over or waits no more?
    run,       \* the process
    runs, crashes,
    asked,     \* history: the refs that some run asked for
    cut        \* history: what was cut short: "elan", "place", "clone"

diskVars == <<elanBin, tool, deps, clone, staging, reports, installer>>
history == <<runs, crashes, asked, cut>>
bootVars == <<downloadVars, diskVars, run, history>>

Tools == {"elan", "bare"}
NoClone == [st |-> "absent", ref |-> "none"]
Off == [pc |-> "off"]
SelfTest == "self-test"
Tasks == Refs \cup {SelfTest, "local"}
Options == [task : Tasks, skip : BOOLEAN, mock : BOOLEAN,
            keys : {"environment", "file", "none"}]

\* bootstrap_keys reads kaggle_secrets and .env unless it is skipped.
HaveKeys(o) == o.keys = "environment" \/ (o.keys = "file" /\ ~o.skip)
MayProceed(o) == o.task = SelfTest \/ HaveKeys(o) \/ o.mock

BootInit ==
    /\ DownloadInit
    /\ elanBin = "absent"
    /\ tool = [t \in Tools |-> "absent"]
    /\ deps = FALSE
    /\ clone = NoClone
    /\ staging = [v \in Refs |-> "absent"]
    /\ reports = <<>>
    /\ installer = FALSE
    /\ run = Off
    /\ runs = 0 /\ crashes = 0 /\ asked = {} /\ cut = {}

To(pc) == run' = [run EXCEPT !.pc = pc]
Exits(code) == run' = [run EXCEPT !.pc = "done", !.code = code]

\* main: --skip-bootstrap leaves everything as it is.
Start(o) ==
    /\ run.pc \in {"off", "done"}
    /\ runs < MaxRuns
    /\ runs' = runs + 1
    /\ asked' = asked \cup ({o.task} \cap Refs)
    /\ run' = [pc |-> IF o.skip THEN "keys" ELSE "lean", task |-> o.task,
               may |-> MayProceed(o), lean |-> FALSE, to |-> "bare", url |-> 1, rc |-> 0, own |-> 0, code |-> 0]
    /\ dl' = NoDownload
    /\ UNCHANGED <<file, diskVars, crashes, cut>>

-----------------------------------------------------------------------------
\* ensure_lean.
HasLake(t) == IF t = "elan" THEN elanBin = "lake"
              ELSE tool[t] \in {"whole", "torn with lake"}

\* A toolchain an earlier run left is found again.
FindsLean(t) ==
    /\ run.pc = "lean"
    /\ HasLake(t)
    /\ t = "bare" => ~HasLake("elan")
    /\ run' = [run EXCEPT !.pc = "deps", !.lean = TRUE]
    /\ UNCHANGED <<downloadVars, diskVars, history>>

\* What the installer may have done by any moment: it makes its bin directory, the commands in it
\* and the toolchain.
Grown(s) == IF s = "whole" THEN {s} ELSE {s, "torn", "whole"}
ElanWrites ==
    /\ elanBin' \in IF elanBin = "lake" THEN {"lake"} ELSE {elanBin, "empty", "lake"}
    /\ \E s \in Grown(tool["elan"]) : tool' = [tool EXCEPT !["elan"] = s]

NoLean == run.pc = "lean" /\ \A t \in Tools : ~HasLake(t)

\* elan's installer, from a script downloaded into a fresh directory.  A toolchain directory
\* that is there may do for it.
ElanInstalls ==
    /\ NoLean
    /\ elanBin' = "lake"
    /\ \/ tool' = [tool EXCEPT !["elan"] = "whole"]
       \/ tool["elan"] # "absent" /\ UNCHANGED tool
    /\ run' = [run EXCEPT !.pc = "deps", !.lean = TRUE]
    /\ UNCHANGED <<downloadVars, deps, clone, staging, reports, installer, history>>

ToDownload == To("download") /\ dl' = Begun("lean", "lean")

\* The script cannot be had.
NoScript ==
    /\ NoLean /\ ToDownload
    /\ UNCHANGED <<file, diskVars, history>>

\* The installer ends with an error, or without the command.
ElanFails ==
    /\ NoLean /\ ElanWrites /\ ToDownload
    /\ cut' = cut \cup {"elan"}
    /\ UNCHANGED <<file, deps, clone, staging, reports, installer, runs, crashes, asked>>

\* After 300 s the shell is killed, but not what it has started.
ElanStalls ==
    /\ NoLean /\ ToDownload
    /\ installer' = TRUE /\ cut' = cut \cup {"elan"}
    /\ UNCHANGED <<file, elanBin, tool, deps, clone, staging, reports, runs, crashes, asked>>

\* That goes on as long as it likes, whatever the run or a later one does, and ends.
InstallerGoesOn ==
    /\ installer
    /\ \/ ElanWrites /\ UNCHANGED installer
       \/ installer' = FALSE /\ UNCHANGED <<elanBin, tool>>
    /\ UNCHANGED <<downloadVars, deps, clone, staging, reports, run, history>>

\* _download, of the toolchain and of a project's zip.
Downloads ==
    /\ run.pc \in {"download", "zip"}
    /\ DownloadStep
    /\ UNCHANGED <<diskVars, run, history>>

\* Only a whole archive can be unpacked, and has bin/lake.
Unpacks ==
    /\ run.pc = "download" /\ dl.st = "ok"
    /\ Whole("lean", "lean")
    /\ To("place") /\ dl' = NoDownload
    /\ UNCHANGED <<file, diskVars, history>>

\* Mutant: the archive is unpacked where the toolchain is to be.
UnpacksInPlace == [tool EXCEPT !["bare"] = "torn with lake"]
\* A temporary directory is all that a failed unpacking leaves behind.
AfterFailedUnpack == tool

\* No mirror had it, the archive is damaged, there is no zstd, no space...
UnpackFails ==
    /\ run.pc = "download"
    /\ \/ dl.st = "failed" /\ UNCHANGED tool
       \/ dl.st = "ok" /\ tool' = AfterFailedUnpack
    /\ To("deps") /\ dl' = NoDownload
    /\ UNCHANGED <<file, elanBin, deps, clone, staging, reports, installer, history>>

\* Where the toolchain goes: to elan if its bin directory is there.
Target == IF elanBin = "absent" THEN "bare" ELSE "elan"

\* _lake_on_path, the target's directory being on PATH by then.
Placed(lake) ==
    run' = [run EXCEPT !.pc = "deps", !.lean = lake]

\* A toolchain directory that is there is taken for the toolchain.
Present ==
    /\ run.pc = "place" /\ tool[Target] # "absent"
    /\ Placed(HasLake(Target))
    /\ UNCHANGED <<downloadVars, diskVars, history>>

\* shutil.move copies when the temporary directory is on another disk.
PlaceBegins ==
    /\ run.pc = "place" /\ tool[Target] = "absent"
    /\ tool' \in {[tool EXCEPT ![Target] = s] : s \in {"torn", "torn with lake"}}
    /\ run' = [run EXCEPT !.pc = "placing", !.to = Target]
    /\ UNCHANGED <<downloadVars, elanBin, deps, clone, staging, reports, installer, history>>

\* Where an installer still writes, the directory may be its own by now.
PlaceEnds ==
    /\ run.pc = "placing"
    /\ \/ tool' = [tool EXCEPT ![run.to] = "whole"]
       \/ installer /\ run.to = "elan" /\ UNCHANGED tool
    /\ Placed(run.to = "bare" \/ HasLake("elan"))
    /\ UNCHANGED <<downloadVars, elanBin, deps, clone, staging, reports, installer, history>>

\* The disk is full: the error is caught, what was copied stays.
PlaceFails ==
    /\ run.pc = "placing"
    /\ cut' = cut \cup {"place"}
    /\ To("deps")
    /\ UNCHANGED <<downloadVars, diskVars, runs, crashes, asked>>

-----------------------------------------------------------------------------
\* ensure_python_deps: pip through three indexes; main ignores its result.
EnsureDeps ==
    /\ run.pc = "deps"
    /\ deps' \in {deps, TRUE}
    /\ To("keys")
    /\ UNCHANGED <<downloadVars, elanBin, tool, clone, staging, reports, installer, history>>

Keys ==
    /\ run.pc = "keys"
    /\ IF ~run.may THEN Exits(2)
       ELSE To(IF run.task \in Refs THEN "fetch" ELSE "cli")
    /\ UNCHANGED <<downloadVars, diskVars, history>>

-----------------------------------------------------------------------------
\* fetch_github_project: the directory is named for the repository alone.
Reuses ==
    /\ run.pc = "fetch" /\ clone.st # "absent"
    /\ To("cli")
    /\ UNCHANGED <<downloadVars, diskVars, history>>

CloneBegins ==
    /\ run.pc = "fetch" /\ clone.st = "absent"
    /\ To("clone")
    /\ UNCHANGED <<downloadVars, diskVars, history>>

CloneEnds ==
    /\ run.pc = "clone" /\ clone.st = "absent"
    /\ clone' = [st |-> "whole", ref |-> run.task]
    /\ To("cli")
    /\ UNCHANGED <<downloadVars, elanBin, tool, deps, staging, reports, installer, history>>

TornClone == [st |-> "torn", ref |-> run.task]

\* git's exit code is not 0: rmtree(dest).
AfterFailedClone == {NoClone}

\* The other URL, and then the zip.
CloneFails ==
    /\ run.pc = "clone"
    /\ clone' \in AfterFailedClone
    /\ IF run.url = 1
       THEN run' = [run EXCEPT !.url = 2] /\ UNCHANGED dl
       ELSE To("zip") /\ dl' = Begun("zip", run.task)
    /\ UNCHANGED <<file, elanBin, tool, deps, staging, reports, installer, history>>

\* 900 s are over and git is killed: the error is main's, and ends the run.
CloneTimesOut ==
    /\ run.pc = "clone"
    /\ clone' \in {clone, TornClone}
    /\ cut' = cut \cup {"clone"}
    /\ Exits(2)
    /\ UNCHANGED <<downloadVars, elanBin, tool, deps, staging, reports,
                   installer, runs, crashes, asked>>

\* The archive of one version is unpacked next to what is in the directory.
Unzips(v) ==
    /\ run.pc = "zip" /\ dl.st = "ok"
    /\ Whole("zip", v)
    /\ staging' = [staging EXCEPT ![v] = "whole"]
    /\ To("move") /\ dl' = NoDownload
    /\ UNCHANGED <<file, elanBin, tool, deps, clone, reports, installer, history>>

\* The unpacking stops within one of the versions the file has bytes of.
CutUnzip ==
    /\ run.pc = "zip" /\ dl.st = "ok"
    /\ \E v \in Refs :
          /\ \E i \in DOMAIN file["zip"] : file["zip"][i][1] = v
          /\ staging' = [staging EXCEPT ![v] = "torn"]

\* No mirror had it, it is not an archive, or the disk is full.
UnzipFails ==
    /\ run.pc = "zip" /\ dl.st \in {"failed", "ok"}
    /\ CutUnzip \/ UNCHANGED staging
    /\ Exits(2) /\ dl' = NoDownload
    /\ UNCHANGED <<file, elanBin, tool, deps, clone, reports, installer, history>>

\* The first directory that listdir names becomes the project.
MovesTop(v) ==
    /\ run.pc = "move" /\ staging[v] # "absent"
    /\ clone' = IF clone.st = "absent" THEN [st |-> staging[v], ref |-> v]
                ELSE clone

Moves(v) ==
    /\ MovesTop(v)
    /\ staging' = [u \in Refs |-> "absent"]
    /\ To("cli")
    /\ UNCHANGED <<downloadVars, elanBin, tool, deps, reports, installer, history>>

-----------------------------------------------------------------------------
\* The package cannot be imported without its dependencies.
CannotImport ==
    /\ run.pc = "cli" /\ ~deps
    /\ Exits(1)
    /\ UNCHANGED <<downloadVars, diskVars, history>>

\* The command line's own exit code.
Resolves ==
    /\ run.pc = "cli" /\ deps /\ run.task # SelfTest
    /\ \E code \in {0, 1} : Exits(code)
    /\ UNCHANGED <<downloadVars, diskVars, history>>

\* run_self_test: the pipeline may not write its report (the error is only
\* logged), or only a part of it.
SelfTestRuns ==
    /\ run.pc = "cli" /\ deps /\ run.task = SelfTest
    /\ \E rc \in {0, 1} :
          \/ /\ UNCHANGED reports
             /\ run' = [run EXCEPT !.pc = "judge", !.rc = rc]
          \/ \E r \in Reports, readable \in BOOLEAN :
                /\ reports' = Append(reports, [says |-> r, readable |-> readable])
                /\ run' = [run EXCEPT !.pc = "judge", !.rc = rc,
                                      !.own = Len(reports) + 1]
    /\ UNCHANGED <<downloadVars, elanBin, tool, deps, clone, staging, installer, history>>

\* evaluate_self_test.
MeetsBaseline(r) ==
    r.solved >= MinSolved /\ r.clean /\ r.rejects = HardRejects

Readable == {i \in DOMAIN reports : reports[i].readable}
\* Mutant: the reports are not sorted in reverse.
OldestFirst == {i \in Readable : \A j \in Readable : i <= j}
\* The newest report that can be read, if there is one.
NewestFirst == {i \in Readable : \A j \in Readable : i >= j}

Judges ==
    /\ run.pc = "judge"
    /\ Exits(IF run.rc = 0 /\ \E i \in NewestFirst : MeetsBaseline(reports[i].says)
             THEN 0 ELSE 1)
    /\ UNCHANGED <<downloadVars, diskVars, history>>

-----------------------------------------------------------------------------
\* What a kill leaves of what was being written: a clone or a toolchain that is not complete,
\* half the files of the zip, the project moved out of them; and an installer goes on alone.
CutShort ==
    \/ /\ run.pc = "clone" /\ clone' \in {clone, TornClone} /\ cut' = cut \cup {"clone"}
       /\ UNCHANGED <<staging, installer>>
    \/ /\ run.pc = "placing" /\ cut' = cut \cup {"place"}
       /\ UNCHANGED <<clone, staging, installer>>
    \/ /\ NoLean /\ installer' = TRUE /\ cut' = cut \cup {"elan"}
       /\ UNCHANGED <<clone, staging>>
    \/ CutUnzip /\ UNCHANGED <<clone, installer, cut>>
    \/ \E v \in Refs : /\ MovesTop(v) /\ staging' = [staging EXCEPT ![v] = "absent"]
                       /\ UNCHANGED <<installer, cut>>

\* The process is killed, in the middle of whatever it was writing or between two writes.
Crash ==
    /\ run.pc \notin {"off", "done"}
    /\ crashes < MaxCrashes
    /\ crashes' = crashes + 1
    /\ run' = Off
    /\ dl' = NoDownload
    /\ \/ CutShort
       \/ run.pc \notin {"clone", "placing"} /\ UNCHANGED <<clone, staging, installer, cut>>
    /\ UNCHANGED <<file, elanBin, tool, deps, reports, runs, asked>>

Step ==
    \/ \E t \in Tools : FindsLean(t)
    \/ ElanInstalls \/ NoScript \/ ElanFails \/ ElanStalls
    \/ Downloads
    \/ Unpacks \/ UnpackFails
    \/ Present \/ PlaceBegins \/ PlaceEnds \/ PlaceFails
    \/ EnsureDeps \/ Keys
    \/ Reuses \/ CloneBegins \/ CloneEnds \/ CloneFails \/ CloneTimesOut
    \/ \E v \in Refs : Unzips(v) \/ Moves(v)
    \/ UnzipFails
    \/ CannotImport \/ Resolves \/ SelfTestRuns \/ Judges

\* Nobody starts it again.
Over == run.pc \in {"off", "done"} /\ runs = MaxRuns /\ UNCHANGED bootVars

BootNext ==
    Step \/ InstallerGoesOn \/ (\E o \in Options : Start(o)) \/ Crash \/ Over

BootSpec == BootInit /\ [][BootNext]_bootVars

-----------------------------------------------------------------------------
(* The types; a run that uses the package has not failed to start.           *)
BootTypeOK ==
    /\ DownloadTypeOK
    /\ elanBin \in {"absent", "empty", "lake"}
    /\ tool \in [Tools -> {"absent", "torn", "torn with lake", "whole"}]
    /\ installer \in BOOLEAN
    /\ clone \in [st : {"absent", "torn", "whole"}, ref : Refs \cup {"none"}]
    /\ staging \in [Refs -> {"absent", "torn", "whole"}]
    /\ run.pc \in {"download", "zip"} => dl.st # "none"
    /\ run.pc \in {"place", "placing"} => Whole("lean", "lean")
    /\ run.pc = "placing" /\ "elan" \notin cut => tool[run.to] \in {"torn", "torn with lake"}
    /\ run.pc = "clone" => clone.st = "absent"

(* A run goes on with Lean only if it has a whole toolchain, and never with  *)
(* one of ~/.v40 that is not: what a download or an unpacking leaves that    *)
(* fails, in this run or an earlier one, is never found as a toolchain.      *)
(* Two things are taken for Lean that may not be whole, because only their   *)
(* directory or command is looked for: a toolchain whose move was cut short, *)
(* and what elan's installer leaves when it fails, stalls or loses its run.  *)
EnsuredIsUsable ==
    "place" \notin cut =>
        /\ (run.pc # "off" /\ run.lean) =>
               \E t \in Tools : /\ HasLake(t)
                               /\ (tool[t] = "whole" \/ (t = "elan" /\ "elan" \in cut))
        /\ \A t \in Tools :
               tool[t] \notin {"absent", "whole"} =>
                   (run.pc = "placing" /\ run.to = t) \/ (t = "elan" /\ "elan" \in cut)

(* The pipeline is given the whole project at the ref the user asked for,    *)
(* after failed clones, failed downloads, resumed parts and killed runs:     *)
(* unless git itself was killed, or another ref of the same repository was   *)
(* asked for in this directory.                                              *)
FetchedIsAsked ==
    (run.pc = "cli" /\ run.task \in Refs /\ "clone" \notin cut
        /\ asked = {run.task})
    => clone = [st |-> "whole", ref |-> run.task]

(* SELF-TEST PASS says that this run's pipeline met the baseline: no report  *)
(* that an earlier self-test left in the same directory speaks for it,       *)
(* unless its own report could not be read.                                  *)
PassIsEarned ==
    (run.pc = "done" /\ run.task = SelfTest /\ run.code = 0) =>
        /\ run.rc = 0
        /\ (run.own # 0 /\ reports[run.own].readable) =>
               MeetsBaseline(reports[run.own].says)

(* What is run is whole: Lean, and the project that was asked for, with the  *)
(* exceptions of the two.                                                    *)
RunsOnWholeParts == BootTypeOK /\ EnsuredIsUsable /\ FetchedIsAsked
=============================================================================
