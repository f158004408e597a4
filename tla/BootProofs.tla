----------------------------- MODULE BootProofs -----------------------------
(***************************************************************************)
(* Theorems about Boot with its downloads, for any sizes of the archives,  *)
(* any mirrors, attempts, refs, runs and kills.                            *)
(***************************************************************************)
EXTENDS Boot, SequenceTheorems, TLAPS

----------------------------------------------------------------------------
(* The process                                                             *)

Places == {"lean", "download", "place", "placing", "deps", "keys", "fetch", "clone", "zip",
           "move", "cli", "judge", "done"}
Processes == [pc : Places, task : Tasks, may : BOOLEAN, lean : BOOLEAN, to : Tools,
              url : Nat, rc : Nat, own : Nat, code : Nat]
Report == [says : Reports, readable : BOOLEAN]

\* A project is fetched only for a ref: the one that the user asked for.
FetchesRefs ==
    /\ run = Off \/ run \in Processes
    /\ reports \in Seq(Report)
    /\ run.pc \in {"fetch", "clone"} => run.task \in Refs

----------------------------------------------------------------------------
(* The download                                                            *)

UnderWay == [st : {"ask", "body", "ok", "failed"}, archive : Archives, version : Versions,
             mirror : Nat, attempt : Nat, pos : Nat, told : BOOLEAN]

\* Every piece is where its archive has it, whichever archive that is; and while bytes are
\* written the file ends where they go.
InPlace ==
    /\ file \in [Archives -> Seq(Versions \X Nat)]
    /\ \A a \in Archives : \A i \in DOMAIN file[a] :
          file[a][i][2] = i /\ i <= Size[file[a][i][1]]
    /\ dl = NoDownload \/ dl \in UnderWay
    /\ dl.st = "body" => Len(file[dl.archive]) = dl.pos
    /\ dl.st = "ok" /\ dl.told => Len(file[dl.archive]) >= Size[dl.version]

\* A download begins, ends or is forgotten; the files stay.
Turns ==
    /\ UNCHANGED file
    /\ dl' = NoDownload \/ \E a \in Archives, v \in Versions : dl' = Begun(a, v)

\* Whether something is in a set is a Boolean value.
LEMMA MemberOrNot ==
    ASSUME NEW t, NEW S
    PROVE  (t \in S) = TRUE \/ (t \in S) = FALSE
  <1>1. CASE t \in S
    BY <1>1
  <1>2. CASE t \notin S
    BY <1>2
  <1> QED
    BY <1>1, <1>2

LEMMA InitHolds == BootInit => FetchesRefs /\ InPlace
  <1> SUFFICES ASSUME BootInit PROVE FetchesRefs /\ InPlace
    OBVIOUS
  <1>1. FetchesRefs
    BY DEF BootInit, FetchesRefs, Off
  <1>2. file \in [Archives -> Seq(Versions \X Nat)] /\ \A a \in Archives : DOMAIN file[a] = {}
    BY DEF BootInit, DownloadInit
  <1> QED
    BY <1>1, <1>2 DEF BootInit, DownloadInit, InPlace, NoDownload

\* An attempt that failed is followed by another download's state, which writes nothing.
LEMMA NextAttemptIsQuiet ==
    ASSUME dl \in UnderWay
    PROVE  NextAttempt \in UnderWay /\ NextAttempt.st \in {"ask", "failed"}
  <1>1. dl.attempt + 1 \in Nat /\ dl.mirror + 1 \in Nat /\ 1 \in Nat
    BY DEF UnderWay
  <1>2. [dl EXCEPT !.st = "ask", !.attempt = @ + 1] \in UnderWay
    BY <1>1, Zenon DEF UnderWay
  <1>3. [dl EXCEPT !.st = "ask", !.attempt = 1, !.mirror = @ + 1] \in UnderWay
    BY <1>1, Zenon DEF UnderWay
  <1>4. [dl EXCEPT !.st = "failed"] \in UnderWay
    BY Zenon DEF UnderWay
  <1>5. /\ [dl EXCEPT !.st = "ask", !.attempt = @ + 1].st = "ask"
        /\ [dl EXCEPT !.st = "ask", !.attempt = 1, !.mirror = @ + 1].st = "ask"
        /\ [dl EXCEPT !.st = "failed"].st = "failed"
    BY DEF UnderWay
  <1> QED
    BY <1>2, <1>3, <1>4, <1>5 DEF NextAttempt

LEMMA TurnsKeep ==
    ASSUME InPlace, Turns
    PROVE  InPlace'
  <1>1. CASE dl' = NoDownload
    BY <1>1 DEF InPlace, Turns, NoDownload
  <1>2. ASSUME NEW a \in Archives, NEW v \in Versions, dl' = Begun(a, v)
        PROVE  InPlace'
    <2>1. dl' \in UnderWay /\ dl'.st = "ask"
      BY <1>2 DEF Begun, UnderWay
    <2> QED
      BY <2>1 DEF InPlace, Turns
  <1> QED
    BY <1>1, <1>2 DEF Turns

LEMMA DownloadKeeps ==
    ASSUME InPlace, DownloadStep
    PROVE  InPlace'
  <1>0. dl \in UnderWay
    <2>1. dl.st \in {"ask", "body"}
      BY DEF DownloadStep, AskFails, AnswersNoMore, Answers, Chunk, BodyFails, BodyEnds
    <2> QED
      BY <2>1 DEF InPlace, NoDownload
  <1> DEFINE a == dl.archive
             v == dl.version
  <1>1. /\ a \in Archives /\ v \in Versions /\ dl.pos \in Nat /\ Size[v] \in Nat \ {0}
        /\ file[a] \in Seq(Versions \X Nat)
    BY <1>0, SizesAssumption DEF UnderWay, InPlace
  <1>2. CASE AskFails
    BY <1>0, <1>2, NextAttemptIsQuiet DEF AskFails, InPlace
  <1>3. CASE AnswersNoMore
    <2>1. dl' \in UnderWay /\ dl'.st = "ok" /\ dl'.archive = a /\ dl'.version = v
      BY <1>0, <1>3 DEF AnswersNoMore, UnderWay
    <2> QED
      BY <1>3, <2>1 DEF AnswersNoMore, InPlace
  <1>4. ASSUME NEW partial \in BOOLEAN, Answers(partial)
        PROVE  InPlace'
    <2>1. Len(file[a]) \in Nat /\ Len(<<>>) = 0
      BY <1>1
    <2>2. PICK n \in Nat, told \in BOOLEAN :
              /\ dl' = [dl EXCEPT !.st = "body", !.pos = n, !.told = told]
              /\ n = IF partial THEN Len(file[a]) ELSE 0
      <3> DEFINE n == IF partial THEN Len(file[a]) ELSE 0
                 told == dl.mirror \in Announcing
      <3>1. n \in Nat
        BY <2>1
      <3>2. told \in BOOLEAN
        BY MemberOrNot
      <3>3. dl' = [dl EXCEPT !.st = "body", !.pos = n, !.told = told]
        BY <1>4 DEF Answers
      <3> QED
        BY <3>1, <3>2, <3>3
    <2>7. dl' \in UnderWay
      BY <1>0, <2>2, Zenon DEF UnderWay
    <2>8. /\ dl'.st = "body" /\ dl'.archive = a
          /\ dl'.pos = IF partial THEN Len(file[a]) ELSE 0
      BY <1>0, <2>2 DEF UnderWay
    <2>3. file' = [file EXCEPT ![a] = IF partial THEN file[a] ELSE <<>>]
      BY <1>4 DEF Answers, Kept
    <2>4. file' \in [Archives -> Seq(Versions \X Nat)]
      BY <1>1, <2>3 DEF InPlace
    <2>5. Len(file'[a]) = dl'.pos
      BY <1>1, <2>1, <2>3, <2>8 DEF InPlace
    <2>6. \A b \in Archives : file'[b] = file[b] \/ DOMAIN file'[b] = {}
      BY <1>1, <2>3 DEF InPlace
    <2>9. ASSUME NEW b \in Archives, NEW i \in DOMAIN file'[b]
          PROVE  file'[b][i][2] = i /\ i <= Size[file'[b][i][1]]
      <3>1. file'[b] = file[b]
        BY <2>6, <2>9
      <3> QED
        BY <2>9, <3>1 DEF InPlace
    <2> QED
      BY <2>4, <2>5, <2>7, <2>8, <2>9 DEF InPlace
  <1>5. CASE Chunk
    <2> DEFINE piece == <<v, dl.pos + 1>>
    <2>1. /\ dl' \in UnderWay /\ dl'.st = "body" /\ dl'.archive = a /\ dl'.pos = dl.pos + 1
      BY <1>0, <1>1, <1>5 DEF Chunk, UnderWay
    <2>2. file' = [file EXCEPT ![a] = Append(file[a], piece)] /\ piece \in Versions \X Nat
      BY <1>1, <1>5 DEF Chunk
    <2>3. Len(file[a]) = dl.pos /\ dl.pos + 1 <= Size[v]
      BY <1>1, <1>5 DEF Chunk, InPlace
    <2>4. file' \in [Archives -> Seq(Versions \X Nat)] /\ file'[a] = Append(file[a], piece)
      BY <1>1, <2>2 DEF InPlace
    <2>5. ASSUME NEW b \in Archives, NEW i \in DOMAIN file'[b]
          PROVE  file'[b][i][2] = i /\ i <= Size[file'[b][i][1]]
      <3>1. CASE b # a
        BY <2>2, <2>5, <3>1 DEF InPlace
      <3>2. CASE b = a /\ i = dl.pos + 1
        <4>1. file'[b][i] = piece
          BY SMTT(30), <1>1, <2>3, <2>4, <3>2
        <4> QED
          BY <2>3, <3>2, <4>1
      <3>3. CASE b = a /\ i # dl.pos + 1
        <4>0. /\ Len(file[a]) \in Nat /\ DOMAIN file[a] = 1..Len(file[a])
              /\ DOMAIN file'[a] = 1..Len(file[a]) + 1
          <5>1. /\ Append(file[a], piece) \in Seq(Versions \X Nat)
                /\ Len(Append(file[a], piece)) = Len(file[a]) + 1
            BY <1>1, <2>2
          <5> QED
            BY <1>1, <2>4, <5>1, LenProperties
        <4>1. i \in 1..Len(file[a]) + 1 /\ i # Len(file[a]) + 1
          BY <2>3, <2>5, <3>3, <4>0
        <4>2. i \in 1..Len(file[a]) /\ i \in DOMAIN file[a]
          BY <4>0, <4>1
        <4>3. file'[b][i] = file[a][i]
          BY <1>1, <2>4, <3>3, <4>2
        <4> QED
          BY <1>1, <4>2, <4>3 DEF InPlace
      <3> QED
        BY <3>1, <3>2, <3>3
    <2>6. Len(file'[a]) = dl'.pos
      BY <1>1, <2>1, <2>3, <2>4
    <2> QED
      BY <2>1, <2>4, <2>5, <2>6 DEF InPlace
  <1>6. CASE BodyFails
    BY <1>0, <1>6, NextAttemptIsQuiet DEF BodyFails, InPlace
  <1>7. CASE BodyEnds
    <2>1. CASE Complete
      <3>1. /\ dl' \in UnderWay /\ dl'.st = "ok" /\ dl'.archive = a /\ dl'.version = v
            /\ dl'.told = dl.told
        BY <1>0, <1>7, <2>1 DEF BodyEnds, UnderWay
      <3>2. dl.told => Len(file[a]) = Size[v]
        BY <2>1 DEF Complete
      <3> QED
        BY <1>1, <1>7, <3>1, <3>2 DEF BodyEnds, InPlace
    <2>2. CASE ~Complete
      BY <1>0, <1>7, <2>2, NextAttemptIsQuiet DEF BodyEnds, InPlace
    <2> QED
      BY <2>1, <2>2
  <1> QED
    BY <1>2, <1>3, <1>4, <1>5, <1>6, <1>7 DEF DownloadStep

----------------------------------------------------------------------------
(* The steps of a run                                                      *)

\* Most steps leave the download alone; the others take one of its steps, or turn it.
LEMMA StepKinds ==
    ASSUME FetchesRefs, [BootNext]_bootVars
    PROVE  UNCHANGED downloadVars \/ DownloadStep \/ Turns
  <1> USE DEF downloadVars, Turns
  <1>1. "lean" \in Archives /\ "zip" \in Archives /\ "lean" \in Versions /\ Refs \subseteq Versions
    BY BootAssumption
  <1>2. CASE CloneFails
    BY <1>1, <1>2 DEF CloneFails, FetchesRefs
  <1>3. CASE Step /\ ~CloneFails
    BY <1>1, <1>3 DEF Step, FindsLean, ElanInstalls, NoScript, ElanFails, ElanStalls, ToDownload,
           Downloads, Unpacks, UnpackFails,
           Present, PlaceBegins, PlaceEnds, PlaceFails, EnsureDeps, Keys, Reuses, CloneBegins,
           CloneEnds, CloneTimesOut, Unzips, UnzipFails, Moves, CannotImport, Resolves,
           SelfTestRuns, Judges
  <1>4. CASE \E o \in Options : Start(o)
    BY <1>4 DEF Start
  <1>5. CASE Crash
    BY <1>5 DEF Crash
  <1>6. CASE Over \/ UNCHANGED bootVars
    BY <1>6 DEF Over, bootVars
  <1>7. CASE InstallerGoesOn
    BY <1>7 DEF InstallerGoesOn
  <1> QED
    BY <1>2, <1>3, <1>4, <1>5, <1>6, <1>7 DEF BootNext

\* What the runs share whose installer did not do, and the installers that go on alone.
LEMMA SkipsElan ==
    ASSUME NoScript \/ ElanFails \/ ElanStalls
    PROVE  /\ run.pc = "lean" /\ To("download") /\ dl' = Begun("lean", "lean")
           /\ UNCHANGED <<file, clone, staging, reports, asked>> /\ cut \subseteq cut'
  BY DEF NoScript, ElanFails, ElanStalls, NoLean, ToDownload, diskVars, history

LEMMA GoesOnAlone ==
    ASSUME InstallerGoesOn
    PROVE  /\ UNCHANGED <<downloadVars, deps, clone, staging, reports, run, history>>
           /\ installer /\ installer' \in BOOLEAN
           /\ elanBin = "lake" => elanBin' = "lake"
           /\ elanBin' \in {elanBin, "empty", "lake"}
           /\ tool' = tool \/ \E s \in {tool["elan"], "torn", "whole"} :
                                    tool' = [tool EXCEPT !["elan"] = s]
  BY DEF InstallerGoesOn, ElanWrites, Grown

\* The target of a move is one of the two toolchains.
LEMMA TargetIsTool == Target \in Tools /\ "elan" \in Tools /\ "bare" \in Tools
  BY DEF Target, Tools

\* What the steps do to the process.
LEMMA ProcessAt ==
    ASSUME run \in Processes, NEW pc \in Places
    PROVE  LET next == [run EXCEPT !.pc = pc]
           IN  next \in Processes /\ next.pc = pc /\ next.task = run.task
  <1>1. [run EXCEPT !.pc = pc] \in Processes
    BY Zenon DEF Processes
  <1> QED
    BY <1>1 DEF Processes

LEMMA ProcessWithLean ==
    ASSUME run \in Processes, NEW lean \in BOOLEAN, run' = [run EXCEPT !.pc = "deps", !.lean = lean]
    PROVE  run' \in Processes /\ run'.pc = "deps"
  <1>1. run' \in Processes
    BY Zenon DEF Processes, Places
  <1> QED
    BY <1>1 DEF Processes

LEMMA ProcessPlaces ==
    ASSUME run \in Processes, NEW t \in Tools, run' = [run EXCEPT !.pc = "placing", !.to = t]
    PROVE  /\ run' \in Processes /\ run'.pc = "placing" /\ run'.to = t
           /\ run'.task = run.task /\ run'.lean = run.lean /\ run'.own = run.own
  <1>1. run' \in Processes
    BY Zenon DEF Processes, Places
  <1> QED
    BY <1>1 DEF Processes

LEMMA ProcessDone ==
    ASSUME run \in Processes, NEW code \in Nat, Exits(code)
    PROVE  run' \in Processes /\ run'.pc = "done"
  <1>1. run' \in Processes
    BY Zenon DEF Exits, Processes, Places
  <1> QED
    BY <1>1 DEF Exits, Processes

LEMMA ProcessJudges ==
    ASSUME run \in Processes, NEW rc \in Nat, NEW own \in Nat,
           \/ run' = [run EXCEPT !.pc = "judge", !.rc = rc]
           \/ run' = [run EXCEPT !.pc = "judge", !.rc = rc, !.own = own]
    PROVE  run' \in Processes /\ run'.pc = "judge"
  <1>1. run' \in Processes
    BY Zenon DEF Processes, Places
  <1> QED
    BY <1>1 DEF Processes

LEMMA ProcessStarts ==
    ASSUME NEW o \in Options, Start(o)
    PROVE  run' \in Processes /\ run'.pc \in {"keys", "lean"}
  <1>1. MayProceed(o) \in BOOLEAN /\ FALSE \in BOOLEAN /\ o.task \in Tasks /\ "bare" \in Tools
    BY Zenon DEF MayProceed, Options, Tools
  <1>2. 0 \in Nat /\ 1 \in Nat
    OBVIOUS
  <1>3. PICK pc \in {"keys", "lean"} :
            run' = [pc |-> pc, task |-> o.task, may |-> MayProceed(o), lean |-> FALSE,
                    to |-> "bare", url |-> 1, rc |-> 0, own |-> 0, code |-> 0]
    BY Zenon DEF Start
  <1>4. pc \in Places
    BY DEF Places
  <1>5. run' \in Processes
    BY <1>1, <1>2, <1>3, <1>4, Zenon DEF Processes
  <1> QED
    BY <1>3, <1>5

\* A step that goes on to pc, with everything else of the process as it was.
LEMMA GoesOn ==
    ASSUME FetchesRefs, run \in Processes, NEW pc \in Places, To(pc), reports' = reports,
           pc \in {"fetch", "clone"} => run.task \in Refs
    PROVE  FetchesRefs'
  <1>1. run' \in Processes /\ run'.pc = pc /\ run'.task = run.task
    BY ProcessAt DEF To
  <1> QED
    BY <1>1 DEF FetchesRefs

LEMMA StaysPut ==
    ASSUME FetchesRefs, run' = run, reports' = reports
    PROVE  FetchesRefs'
  BY DEF FetchesRefs

LEMMA ProcessKeeps ==
    ASSUME FetchesRefs, [BootNext]_bootVars
    PROVE  FetchesRefs'
  <1> USE DEF diskVars
  <1>0. run.pc # "off" => run \in Processes
    BY DEF FetchesRefs, Off
  <1>1. ASSUME NEW o \in Options, Start(o)
        PROVE  FetchesRefs'
    <2>1. reports' = reports
      BY <1>1 DEF Start
    <2> QED
      BY <1>1, <2>1, ProcessStarts DEF FetchesRefs
  <1>2. ASSUME reports' = reports, run.pc # "off", NEW lean \in BOOLEAN,
               run' = [run EXCEPT !.pc = "deps", !.lean = lean]
        PROVE  FetchesRefs'
    BY <1>0, <1>2, ProcessWithLean DEF FetchesRefs
  <1>3. CASE ElanInstalls \/ \E t \in Tools : FindsLean(t)
    BY <1>2, <1>3 DEF ElanInstalls, NoLean, FindsLean
  <1>4. CASE Present \/ PlaceEnds
    <2>1. PICK lean \in {TRUE, FALSE} : Placed(lean) /\ reports' = reports /\ run.pc # "off"
      <3>1. /\ HasLake(Target) = TRUE \/ HasLake(Target) = FALSE
            /\ \/ (run.to = "bare" \/ HasLake("elan")) = TRUE
               \/ (run.to = "bare" \/ HasLake("elan")) = FALSE
        <4>1. \/ HasLake(Target) = (elanBin = "lake")
              \/ HasLake(Target) = (tool[Target] \in {"whole", "torn with lake"})
          BY Zenon DEF HasLake
        <4>2. (elanBin = "lake") = TRUE \/ (elanBin = "lake") = FALSE
          <5>1. CASE elanBin = "lake"
            BY <5>1
          <5>2. CASE elanBin # "lake"
            BY <5>2
          <5> QED
            BY <5>1, <5>2
        <4>3. HasLake(Target) = TRUE \/ HasLake(Target) = FALSE
          BY <4>1, <4>2, MemberOrNot, Zenon
        <4>4. ASSUME NEW t, t = (run.to = "bare" \/ HasLake("elan")) PROVE t = TRUE \/ t = FALSE
          BY <4>4
        <4> QED
          BY <4>3, <4>4
      <3>2. CASE Present
        <4>1. Placed(HasLake(Target)) /\ reports' = reports /\ run.pc # "off"
          BY <3>2 DEF Present
        <4> QED
          BY <3>1, <4>1 DEF Placed
      <3>3. CASE PlaceEnds
        <4>1. /\ Placed(run.to = "bare" \/ HasLake("elan"))
              /\ reports' = reports /\ run.pc # "off"
          BY <3>3 DEF PlaceEnds
        <4> QED
          BY <3>1, <4>1 DEF Placed
      <3> QED
        BY <1>4, <3>2, <3>3
    <2> QED
      BY <1>2, <2>1 DEF Placed
  <1>5. CASE \/ NoScript \/ ElanFails \/ ElanStalls
             \/ Unpacks \/ UnpackFails \/ PlaceFails \/ EnsureDeps
    <2>1. PICK pc \in {"download", "place", "deps", "keys"} :
              To(pc) /\ reports' = reports /\ run.pc # "off"
      BY <1>5, SkipsElan DEF Unpacks, UnpackFails, PlaceFails, EnsureDeps
    <2>2. pc \in Places
      BY DEF Places
    <2> QED
      BY <1>0, <2>1, <2>2, GoesOn
  <1>6. CASE Downloads
    BY <1>6, StaysPut DEF Downloads
  <1>7. ASSUME NEW code \in Nat, run.pc # "off", Exits(code), reports' = reports
        PROVE  FetchesRefs'
    BY <1>0, <1>7, ProcessDone DEF FetchesRefs
  <1>8. CASE Keys
    <2>1. CASE run.may
      <3>1. PICK pc \in {"fetch", "cli"} :
                To(pc) /\ reports' = reports /\ run.pc # "off" /\ (pc = "fetch" => run.task \in Refs)
        BY <1>8, <2>1 DEF Keys
      <3>2. pc \in Places
        BY DEF Places
      <3> QED
        BY <1>0, <3>1, <3>2, GoesOn
    <2>2. CASE ~run.may
      BY <1>7, <1>8, <2>2 DEF Keys
    <2> QED
      BY <2>1, <2>2
  <1>9. CASE Reuses \/ CloneBegins \/ CloneEnds \/ \E v \in Refs : Unzips(v) \/ Moves(v)
    <2>1. PICK pc \in {"cli", "clone", "move"} :
            /\ To(pc) /\ reports' = reports /\ run.pc # "off"
            /\ pc = "clone" => run.pc = "fetch"
      BY <1>9 DEF Reuses, CloneBegins, CloneEnds, Unzips, Moves, MovesTop
    <2>2. pc \in Places /\ (pc = "clone" => run.task \in Refs)
      BY <2>1 DEF FetchesRefs, Places
    <2> QED
      BY <1>0, <2>1, <2>2, GoesOn
  <1>10. CASE CloneFails
    <2>1. CASE run' = [run EXCEPT !.url = 2]
      <3>1. 2 \in Nat /\ run \in Processes
        BY <1>0, <1>10 DEF CloneFails
      <3>2. run' \in Processes
        BY <2>1, <3>1, Zenon DEF Processes
      <3>3. run'.pc = "clone" /\ run'.task = run.task
        BY <1>10, <2>1, <3>1 DEF CloneFails, Processes
      <3> QED
        BY <1>10, <3>2, <3>3 DEF CloneFails, FetchesRefs
    <2>2. CASE To("zip")
      <3>1. "zip" \in Places
        BY DEF Places
      <3> QED
        BY <1>0, <1>10, <2>2, <3>1, GoesOn DEF CloneFails
    <2> QED
      BY <1>10, <2>1, <2>2 DEF CloneFails
  <1>11. CASE CloneTimesOut \/ UnzipFails \/ CannotImport \/ Resolves \/ Judges
    BY <1>7, <1>11 DEF CloneTimesOut, UnzipFails, CannotImport, Resolves, Judges
  <1>12. CASE SelfTestRuns
    <2>1. PICK rc \in {0, 1} :
            \/ UNCHANGED reports /\ run' = [run EXCEPT !.pc = "judge", !.rc = rc]
            \/ \E r \in Report :
                  /\ reports' = Append(reports, r)
                  /\ run' = [run EXCEPT !.pc = "judge", !.rc = rc, !.own = Len(reports) + 1]
      BY <1>12 DEF SelfTestRuns, Report
    <2>2. Len(reports) + 1 \in Nat /\ rc \in Nat
      BY DEF FetchesRefs
    <2>3. run \in Processes
      BY <1>0, <1>12 DEF SelfTestRuns
    <2>4. run' \in Processes /\ run'.pc = "judge"
      <3>1. PICK own \in Nat :
              \/ run' = [run EXCEPT !.pc = "judge", !.rc = rc]
              \/ run' = [run EXCEPT !.pc = "judge", !.rc = rc, !.own = own]
        BY <2>1, <2>2
      <3> QED
        BY <2>2, <2>3, <3>1, ProcessJudges
    <2>5. reports' \in Seq(Report)
      BY <2>1 DEF FetchesRefs
    <2> QED
      BY <2>4, <2>5 DEF FetchesRefs
  <1>13. CASE Crash
    BY <1>13 DEF Crash, FetchesRefs, Off
  <1>14. CASE Over \/ InstallerGoesOn \/ UNCHANGED bootVars
    BY <1>14, StaysPut, GoesOnAlone DEF Over, bootVars
  <1>15. CASE PlaceBegins
    <2>1. run.pc # "off" /\ reports' = reports /\ Target \in Tools
          /\ run' = [run EXCEPT !.pc = "placing", !.to = Target]
      BY <1>15, TargetIsTool DEF PlaceBegins
    <2> QED
      BY <1>0, <2>1, ProcessPlaces DEF FetchesRefs
  <1> QED
    BY <1>1, <1>3, <1>4, <1>5, <1>6, <1>8, <1>9, <1>10, <1>11, <1>12, <1>13, <1>14, <1>15
       DEF BootNext, Step

----------------------------------------------------------------------------
\* In place and long enough is whole.
LEMMA InPlaceIsWhole == InPlace => DownloadIsWhole
  <1> SUFFICES ASSUME InPlace, dl.st = "ok", dl.told, ~Foreign(dl.archive, dl.version)
               PROVE  Whole(dl.archive, dl.version)
    BY DEF DownloadIsWhole
  <1> DEFINE a == dl.archive
             v == dl.version
  <1>1. a \in Archives /\ v \in Versions /\ Size[v] \in Nat \ {0}
    BY SizesAssumption DEF InPlace, NoDownload, UnderWay
  <1>2. file[a] \in Seq(Versions \X Nat)
    BY <1>1 DEF InPlace
  <1>3. ASSUME NEW i \in DOMAIN file[a]
        PROVE  file[a][i] = <<v, i>> /\ i <= Size[v]
    <2>1. file[a][i] \in Versions \X Nat
      BY <1>2
    <2>2. file[a][i][1] = v
      BY DEF Foreign
    <2> QED
      BY <1>1, <2>1, <2>2 DEF InPlace
  <1>4. Len(file[a]) = Size[v]
    <2>1. Len(file[a]) >= Size[v] /\ Len(file[a]) \in Nat
      BY <1>2 DEF InPlace
    <2>2. Len(file[a]) \in DOMAIN file[a]
      BY <1>1, <1>2, <2>1
    <2> QED
      BY <1>1, <1>3, <2>1, <2>2
  <1>5. file[a] = [i \in 1..Size[v] |-> file[a][i]]
    BY <1>2, <1>4
  <1> QED
    BY <1>2, <1>3, <1>4, <1>5 DEF Whole

\* A download that succeeds has the whole archive in its file, whatever mix of attempts,
\* mirrors, resumed parts and killed runs wrote it: unless the mirror did not say how long its
\* answer was, or a run that wanted another version left its bytes there.
THEOREM DownloadsAreWhole == BootSpec => []DownloadIsWhole
  <1>1. FetchesRefs /\ InPlace /\ [BootNext]_bootVars => (FetchesRefs /\ InPlace)'
    <2>1. ASSUME InPlace, UNCHANGED downloadVars
          PROVE  InPlace'
      BY <2>1 DEF InPlace, downloadVars
    <2> QED
      BY <2>1, StepKinds, ProcessKeeps, DownloadKeeps, TurnsKeep
  <1> QED
    BY <1>1, InitHolds, InPlaceIsWhole, PTL DEF BootSpec
----------------------------------------------------------------------------
(* The self-test                                                           *)

\* The report that the run's own pipeline wrote is the last one in the directory.
OwnIsLast ==
    (run.pc # "off" /\ run.own # 0) => run.own = Len(reports)

\* Most steps are neither the pipeline's nor the judgement's, and pass nothing.
Passing ==
    /\ reports' = reports
    /\ run.pc # "off" /\ run'.own = run.own
    /\ run'.pc # "done" \/ run'.code # 0 \/ run'.task # SelfTest

LEMMA PassingKeeps ==
    ASSUME OwnIsLast, Passing
    PROVE  OwnIsLast' /\ PassIsEarned'
  BY DEF OwnIsLast, Passing, PassIsEarned

LEMMA MostStepsPass ==
    ASSUME FetchesRefs, Step, ~SelfTestRuns, ~Judges
    PROVE  Passing
  <1> USE DEF diskVars
  <1>0. run \in Processes
    <2>1. run.pc # "off"
      BY SkipsElan
         DEF Step, FindsLean, ElanInstalls, NoLean, Downloads, Unpacks, UnpackFails, Present,
             PlaceBegins, PlaceEnds, PlaceFails, EnsureDeps, Keys, Reuses, CloneBegins,
             CloneEnds, CloneFails, CloneTimesOut, Unzips, UnzipFails, Moves, MovesTop,
             CannotImport, Resolves
    <2> QED
      BY <2>1 DEF FetchesRefs, Off
  <1>1. run.pc # "off" /\ DOMAIN run = {"pc", "task", "may", "lean", "to", "url", "rc", "own", "code"}
    BY <1>0 DEF Processes, Places
  <1>2. ASSUME NEW pc \in Places, pc # "done", To(pc), reports' = reports
        PROVE  Passing
    BY <1>0, <1>1, <1>2 DEF To, Passing, Processes
  <1>3. ASSUME NEW code, Exits(code), code # 0 \/ run.task # SelfTest, reports' = reports
        PROVE  Passing
    BY <1>0, <1>1, <1>3 DEF Exits, Passing, Processes
  <1>4. ASSUME NEW lean, run' = [run EXCEPT !.pc = "deps", !.lean = lean], reports' = reports
        PROVE  Passing
    BY <1>0, <1>1, <1>4 DEF Passing, Processes
  <1>5. CASE (\E t \in Tools : FindsLean(t)) \/ ElanInstalls \/ Present \/ PlaceEnds
    BY <1>4, <1>5 DEF FindsLean, ElanInstalls, Present, PlaceEnds, Placed
  <1>6. CASE \/ NoScript \/ ElanFails \/ ElanStalls
             \/ Unpacks \/ UnpackFails \/ PlaceFails \/ EnsureDeps
             \/ Reuses \/ CloneBegins \/ CloneEnds \/ \E v \in Refs : Unzips(v) \/ Moves(v)
    <2>1. PICK pc \in {"download", "place", "deps", "keys", "cli", "clone", "move"} :
              To(pc) /\ reports' = reports
      BY <1>6, SkipsElan DEF Unpacks, UnpackFails, PlaceFails, EnsureDeps, Reuses,
                  CloneBegins, CloneEnds, Unzips, Moves, MovesTop
    <2>2. pc \in Places /\ pc # "done"
      BY DEF Places
    <2> QED
      BY <1>2, <2>1, <2>2
  <1>7. CASE Downloads
    <2>1. run' = run /\ reports' = reports /\ run.pc # "done"
      BY <1>7 DEF Downloads
    <2> QED
      BY <1>1, <2>1 DEF Passing
  <1>8. CASE Keys
    <2>1. "fetch" \in Places /\ "cli" \in Places
      BY DEF Places
    <2> QED
      BY <1>2, <1>3, <1>8, <2>1 DEF Keys
  <1>9. CASE CloneFails
    <2>1. CASE run' = [run EXCEPT !.url = 2]
      BY <1>0, <1>1, <1>9, <2>1 DEF CloneFails, Passing, Processes
    <2>2. CASE To("zip")
      <3>1. "zip" \in Places
        BY DEF Places
      <3> QED
        BY <1>2, <1>9, <2>2, <3>1 DEF CloneFails
    <2> QED
      BY <1>9, <2>1, <2>2 DEF CloneFails
  <1>10. CASE CloneTimesOut \/ UnzipFails \/ CannotImport \/ Resolves
    BY <1>3, <1>10 DEF CloneTimesOut, UnzipFails, CannotImport, Resolves
  <1>11. CASE PlaceBegins
    <2>1. run.pc # "off" /\ reports' = reports /\ Target \in Tools
          /\ run' = [run EXCEPT !.pc = "placing", !.to = Target]
      BY <1>11, TargetIsTool DEF PlaceBegins
    <2> QED
      BY <1>0, <2>1, ProcessPlaces DEF Passing
  <1> QED
    BY <1>5, <1>6, <1>7, <1>8, <1>9, <1>10, <1>11 DEF Step

LEMMA JudgementKeeps ==
    ASSUME FetchesRefs, OwnIsLast, PassIsEarned, [BootNext]_bootVars
    PROVE  OwnIsLast' /\ PassIsEarned'
  <1> USE DEF diskVars
  <1>0. run.pc # "off" => run \in Processes
    BY DEF FetchesRefs, Off
  <1>1. CASE Step /\ ~SelfTestRuns /\ ~Judges
    BY <1>1, MostStepsPass, PassingKeeps
  <1>2. ASSUME NEW o \in Options, Start(o)
        PROVE  OwnIsLast' /\ PassIsEarned'
    BY <1>2 DEF Start, OwnIsLast, PassIsEarned
  <1>3. CASE SelfTestRuns
    <2>1. PICK rc \in {0, 1} :
            \/ UNCHANGED reports /\ run' = [run EXCEPT !.pc = "judge", !.rc = rc]
            \/ \E r \in Report :
                  /\ reports' = Append(reports, r)
                  /\ run' = [run EXCEPT !.pc = "judge", !.rc = rc, !.own = Len(reports) + 1]
      BY <1>3 DEF SelfTestRuns, Report
    <2>2. run \in Processes /\ reports \in Seq(Report)
      BY <1>0, <1>3 DEF SelfTestRuns, FetchesRefs
    <2>3. run'.pc = "judge" /\ (run'.own # 0 => run'.own = Len(reports'))
      <3>1. CASE UNCHANGED reports /\ run' = [run EXCEPT !.pc = "judge", !.rc = rc]
        <4>1. run'.pc = "judge" /\ run'.own = run.own
          BY <2>2, <3>1 DEF Processes
        <4> QED
          BY <1>3, <3>1, <4>1 DEF OwnIsLast, SelfTestRuns
      <3>2. ASSUME NEW r \in Report, reports' = Append(reports, r),
                   run' = [run EXCEPT !.pc = "judge", !.rc = rc, !.own = Len(reports) + 1]
            PROVE  run'.pc = "judge" /\ run'.own = Len(reports')
        <4>1. run'.pc = "judge" /\ run'.own = Len(reports) + 1
          BY <2>2, <3>2 DEF Processes
        <4>2. Len(reports') = Len(reports) + 1
          BY <2>2, <3>2
        <4> QED
          BY <4>1, <4>2
      <3> QED
        BY <2>1, <3>1, <3>2
    <2> QED
      BY <2>3 DEF OwnIsLast, PassIsEarned
  <1>4. CASE Judges
    <2> DEFINE met == run.rc = 0 /\ \E i \in NewestFirst : MeetsBaseline(reports[i].says)
    <2>1. run \in Processes /\ reports \in Seq(Report) /\ reports' = reports
      BY <1>0, <1>4 DEF Judges, FetchesRefs
    <2>2. PICK code \in {0, 1} : Exits(code) /\ (code = 0 => met)
      BY <1>4 DEF Judges
    <2>3. run'.pc = "done" /\ run'.code = code /\ run'.own = run.own /\ run'.rc = run.rc
      BY <2>1, <2>2 DEF Exits, Processes
    <2>4. run.own # 0 => run.own = Len(reports)
      BY <1>4 DEF OwnIsLast, Judges
    <2>5. ASSUME met, run.own # 0, reports[run.own].readable
          PROVE  MeetsBaseline(reports[run.own].says)
      <3>1. PICK i \in NewestFirst : MeetsBaseline(reports[i].says)
        BY <2>5
      <3>2. run.own \in Nat /\ run.own = Len(reports) /\ DOMAIN reports = 1..Len(reports)
        BY <2>1, <2>4, <2>5 DEF Processes
      <3>3. run.own \in Readable
        BY <2>5, <3>2 DEF Readable
      <3>4. i \in 1..Len(reports) /\ i >= run.own
        BY <3>2, <3>3 DEF NewestFirst, Readable
      <3>5. i = run.own
        <4>1. ASSUME NEW n \in Nat, NEW k \in 1..n, k >= n PROVE k = n
          BY <4>1
        <4> QED
          BY <3>2, <3>4, <4>1
      <3> QED
        BY <3>1, <3>5
    <2>6. OwnIsLast'
      BY <2>1, <2>3, <2>4 DEF OwnIsLast
    <2>7. ASSUME run'.code = 0
          PROVE  /\ run'.rc = 0
                 /\ (run'.own # 0 /\ reports'[run'.own].readable)
                        => MeetsBaseline(reports'[run'.own].says)
      BY <2>1, <2>2, <2>3, <2>5, <2>7
    <2> QED
      BY <2>6, <2>7 DEF PassIsEarned
  <1>5. CASE Crash
    BY <1>5 DEF Crash, Off, OwnIsLast, PassIsEarned
  <1>6. CASE Over \/ UNCHANGED bootVars
    BY <1>6 DEF Over, bootVars, OwnIsLast, PassIsEarned
  <1>7. CASE InstallerGoesOn
    BY <1>7, GoesOnAlone DEF OwnIsLast, PassIsEarned
  <1> QED
    BY <1>1, <1>2, <1>3, <1>4, <1>5, <1>6, <1>7 DEF BootNext

\* A self-test that passes is passed by its own pipeline: no report that an earlier self-test
\* left in the directory speaks for it, unless its own cannot be read.
THEOREM PassesAreEarned == BootSpec => []PassIsEarned
  <1>1. BootInit => OwnIsLast /\ PassIsEarned
    BY DEF BootInit, Off, OwnIsLast, PassIsEarned
  <1>2. FetchesRefs /\ OwnIsLast /\ PassIsEarned /\ [BootNext]_bootVars
            => (FetchesRefs /\ OwnIsLast /\ PassIsEarned)'
    BY ProcessKeeps, JudgementKeeps
  <1> QED
    BY <1>1, <1>2, InitHolds, PTL DEF BootSpec
----------------------------------------------------------------------------
(* The toolchain                                                           *)

\* A lake that is found is of a whole toolchain, or of what an installer of elan left that was
\* cut short; and only that and a toolchain that is being moved into its place are there in part.
ElanCut == "elan" \in cut
HasWhole == \E t \in Tools : HasLake(t) /\ (tool[t] = "whole" \/ (t = "elan" /\ ElanCut))
MovedIsWhole ==
    /\ tool \in [Tools -> {"absent", "torn", "torn with lake", "whole"}]
    /\ installer \in BOOLEAN /\ (installer => ElanCut)
    /\ "place" \notin cut =>
           /\ ElanCut \/ elanBin = "absent" \/ (elanBin = "lake" /\ tool["elan"] = "whole")
           /\ (run.pc # "off" /\ run.lean) => HasWhole
           /\ \A t \in Tools : \/ tool[t] \in {"absent", "whole"}
                               \/ run.pc = "placing" /\ run.to = t
                               \/ t = "elan" /\ ElanCut

\* Most steps do not touch what is installed; leaving the move half-way is remembered.
LeavesTools ==
    /\ UNCHANGED <<tool, elanBin>> /\ cut \subseteq cut'
    /\ installer' = installer \/ (installer' = TRUE /\ "elan" \in cut')
    /\ (run'.pc # "off" /\ run'.lean) => run.pc # "off" /\ run.lean
    /\ run.pc = "placing" => "place" \in cut'

LEMMA LeavingKeeps ==
    ASSUME MovedIsWhole, LeavesTools
    PROVE  MovedIsWhole'
  <1>1. HasWhole => HasWhole'
    BY DEF HasWhole, HasLake, ElanCut, LeavesTools
  <1>2. ElanCut => ElanCut'
    BY DEF ElanCut, LeavesTools
  <1>3. installer' \in BOOLEAN /\ (installer' => ElanCut')
    <2>1. installer \in BOOLEAN /\ (installer => ElanCut)
      BY DEF MovedIsWhole
    <2>2. CASE installer' = installer
      BY <1>2, <2>1, <2>2
    <2>3. CASE installer' = TRUE /\ "elan" \in cut'
      BY <2>3 DEF ElanCut
    <2> QED
      BY <2>2, <2>3 DEF LeavesTools
  <1>4. ASSUME "place" \notin cut'
        PROVE  /\ ElanCut' \/ elanBin' = "absent" \/ (elanBin' = "lake" /\ tool'["elan"] = "whole")
               /\ (run'.pc # "off" /\ run'.lean) => HasWhole'
               /\ \A t \in Tools : \/ tool'[t] \in {"absent", "whole"}
                                   \/ t = "elan" /\ ElanCut'
    <2>1. "place" \notin cut /\ run.pc # "placing"
      BY <1>4 DEF LeavesTools
    <2> QED
      BY <1>1, <1>2, <2>1 DEF MovedIsWhole, LeavesTools
  <1> QED
    BY <1>3, <1>4 DEF MovedIsWhole, LeavesTools

Installs ==
    \/ \E t \in Tools : FindsLean(t)
    \/ ElanInstalls \/ ElanFails \/ ElanStalls \/ InstallerGoesOn
    \/ Present \/ PlaceBegins \/ PlaceEnds

LEMMA MostStepsLeaveTools ==
    ASSUME FetchesRefs, BootNext, ~Installs
    PROVE  LeavesTools
  <1> USE DEF diskVars, history
  <1>1. run.pc # "off" => run \in Processes
    BY DEF FetchesRefs, Off
  <1>2. ASSUME NEW pc, run \in Processes, run' = [run EXCEPT !.pc = pc]
        PROVE  run'.lean = run.lean
    BY <1>2 DEF Processes
  <1>3. ASSUME run.pc # "off", run.pc # "placing", run'.lean = run.lean, cut \subseteq cut',
               UNCHANGED <<tool, elanBin, installer>>
        PROVE  LeavesTools
    BY <1>3 DEF LeavesTools
  <1>4. CASE \/ NoScript \/ Unpacks \/ UnpackFails \/ EnsureDeps \/ Reuses \/ CloneBegins \/ CloneEnds
             \/ \E v \in Refs : Unzips(v) \/ Moves(v)
    <2>1. /\ run.pc \notin {"off", "placing"} /\ cut' = cut /\ UNCHANGED <<tool, elanBin, installer>>
          /\ \E pc \in Places : To(pc)
      BY <1>4 DEF NoScript, NoLean, ToDownload, Unpacks, UnpackFails, AfterFailedUnpack, EnsureDeps,
                  Reuses, CloneBegins, CloneEnds, Unzips, Moves, MovesTop, Places
    <2> QED
      BY <1>1, <1>2, <1>3, <2>1 DEF To
  <1>5. CASE Keys
    <2>1. run.pc = "keys" /\ cut' = cut /\ UNCHANGED <<tool, elanBin, installer>>
      BY <1>5 DEF Keys
    <2>2. run'.lean = run.lean
      BY <1>1, <1>5 DEF Keys, To, Exits, Processes
    <2> QED
      BY <1>3, <2>1, <2>2
  <1>6. CASE CloneTimesOut \/ UnzipFails \/ CannotImport \/ Resolves \/ Judges
    <2>1. /\ run.pc \notin {"off", "placing"} /\ cut \subseteq cut' /\ UNCHANGED <<tool, elanBin, installer>>
          /\ \E code : Exits(code)
      BY <1>6 DEF CloneTimesOut, UnzipFails, CannotImport, Resolves, Judges
    <2>2. run'.lean = run.lean
      BY <1>1, <2>1 DEF Exits, Processes
    <2> QED
      BY <1>3, <2>1, <2>2
  <1>7. CASE Downloads
    BY <1>3, <1>7 DEF Downloads
  <1>8. CASE CloneFails
    <2>1. run.pc = "clone" /\ cut' = cut /\ UNCHANGED <<tool, elanBin, installer>>
      BY <1>8 DEF CloneFails
    <2>2. run'.lean = run.lean
      BY <1>1, <1>8 DEF CloneFails, To, Processes
    <2> QED
      BY <1>3, <2>1, <2>2
  <1>9. CASE SelfTestRuns
    <2>1. run.pc = "cli" /\ cut' = cut /\ UNCHANGED <<tool, elanBin, installer>>
      BY <1>9 DEF SelfTestRuns
    <2>2. run'.lean = run.lean
      BY <1>1, <1>9 DEF SelfTestRuns, Processes
    <2> QED
      BY <1>3, <2>1, <2>2
  <1>10. CASE PlaceFails
    <2>1. run.pc = "placing" /\ cut' = cut \cup {"place"} /\ UNCHANGED <<tool, elanBin, installer>>
      BY <1>10 DEF PlaceFails
    <2>2. run'.lean = run.lean
      BY <1>1, <1>10 DEF PlaceFails, To, Processes
    <2> QED
      BY <2>1, <2>2 DEF LeavesTools
  <1>11. CASE \E o \in Options : Start(o)
    BY <1>11 DEF Start, LeavesTools
  <1>12. CASE Crash
    <2>1. /\ UNCHANGED <<tool, elanBin>> /\ run'.pc = "off"
          /\ CutShort \/ (run.pc \notin {"clone", "placing"} /\ UNCHANGED <<installer, cut>>)
      BY <1>12 DEF Crash, Off
    <2>2. CASE CutShort
      BY <2>1, <2>2 DEF CutShort, NoLean, CutUnzip, MovesTop, LeavesTools
    <2> QED
      BY <2>1, <2>2 DEF LeavesTools
  <1>13. CASE Over
    BY <1>13 DEF Over, bootVars, LeavesTools
  <1> QED
    BY <1>4, <1>5, <1>6, <1>7, <1>8, <1>9, <1>10, <1>11, <1>12, <1>13
       DEF BootNext, Step, Installs

LEMMA InstallingKeeps ==
    ASSUME FetchesRefs, MovedIsWhole, Installs
    PROVE  MovedIsWhole'
  <1> USE DEF diskVars, history
  <1>1. run.pc # "off" => run \in Processes
    BY DEF FetchesRefs, Off
  <1>2. /\ Target \in Tools /\ "elan" \in Tools /\ "bare" \in Tools
        /\ tool \in [Tools -> {"absent", "torn", "torn with lake", "whole"}]
    BY TargetIsTool DEF MovedIsWhole
  <1>3. ASSUME NEW lean, run.pc # "off", run' = [run EXCEPT !.pc = "deps", !.lean = lean]
        PROVE  run'.pc = "deps" /\ run'.lean = lean
    BY <1>1, <1>3 DEF Processes
  <1>4. ASSUME NEW pc, run.pc # "off", To(pc)
        PROVE  run'.pc = pc /\ run'.lean = run.lean
    BY <1>1, <1>4 DEF To, Processes
  <1>5. ASSUME NEW t \in Tools, FindsLean(t)
        PROVE  MovedIsWhole'
    <2>1. run.pc = "lean" /\ UNCHANGED <<tool, elanBin, installer, cut>> /\ HasLake(t)
      BY <1>5 DEF FindsLean
    <2>2. run'.pc = "deps"
      BY <1>3, <1>5, <2>1 DEF FindsLean
    <2>3. "place" \notin cut => tool[t] = "whole" \/ (t = "elan" /\ ElanCut)
      BY <1>2, <2>1 DEF HasLake, MovedIsWhole, Tools
    <2>4. "place" \notin cut => HasWhole'
      BY <2>1, <2>3 DEF HasWhole, HasLake, ElanCut
    <2> QED
      BY <2>1, <2>2, <2>4 DEF MovedIsWhole, ElanCut
  <1>6. CASE ElanInstalls
    <2>1. /\ run.pc = "lean" /\ elanBin' = "lake" /\ UNCHANGED <<cut, installer>>
          /\ \/ tool' = [tool EXCEPT !["elan"] = "whole"]
             \/ tool["elan"] # "absent" /\ tool' = tool
      BY <1>6 DEF ElanInstalls, NoLean
    <2>2. run'.pc = "deps"
      BY <1>3, <1>6, <2>1 DEF ElanInstalls
    <2>3. /\ tool' \in [Tools -> {"absent", "torn", "torn with lake", "whole"}]
          /\ "place" \notin cut => tool'["elan"] = "whole" \/ ElanCut
          /\ \A t \in Tools \ {"elan"} : tool'[t] = tool[t]
      BY <1>2, <2>1 DEF MovedIsWhole
    <2>4. "place" \notin cut => HasWhole'
      BY <1>2, <2>1, <2>3 DEF HasWhole, HasLake, ElanCut
    <2> QED
      BY <1>2, <2>1, <2>2, <2>3, <2>4 DEF MovedIsWhole, ElanCut
  <1>7. CASE ElanFails \/ ElanStalls \/ InstallerGoesOn
    <2>1. /\ \/ run' = run \/ (run'.pc = "download" /\ run'.lean = run.lean /\ run.pc = "lean")
          /\ cut \subseteq cut' /\ "elan" \in cut' /\ ("place" \in cut' => "place" \in cut)
          /\ installer' \in BOOLEAN /\ (elanBin = "lake" => elanBin' = "lake")
          /\ tool' = tool \/ \E s \in {tool["elan"], "torn", "whole"} :
                                   tool' = [tool EXCEPT !["elan"] = s]
      <3>1. CASE ElanFails
        <4>1. run.pc = "lean" /\ ElanWrites /\ To("download") /\ installer' = installer
              /\ cut' = cut \cup {"elan"}
          BY <3>1 DEF ElanFails, NoLean, ToDownload
        <4>2. run'.pc = "download" /\ run'.lean = run.lean
          BY <1>4, <4>1
        <4> QED
          BY <4>1, <4>2 DEF ElanWrites, Grown, MovedIsWhole
      <3>2. CASE ElanStalls
        <4>1. run.pc = "lean" /\ To("download") /\ installer' = TRUE
              /\ cut' = cut \cup {"elan"} /\ UNCHANGED <<elanBin, tool>>
          BY <3>2 DEF ElanStalls, NoLean, ToDownload
        <4>2. run'.pc = "download" /\ run'.lean = run.lean
          BY <1>4, <4>1
        <4> QED
          BY <4>1, <4>2
      <3>3. CASE InstallerGoesOn
        BY <3>3, GoesOnAlone DEF MovedIsWhole, ElanCut
      <3> QED
        BY <1>7, <3>1, <3>2, <3>3
    <2>2. /\ tool' \in [Tools -> {"absent", "torn", "torn with lake", "whole"}]
          /\ \A t \in Tools \ {"elan"} : tool'[t] = tool[t]
      BY <1>2, <2>1
    <2>3. HasWhole => HasWhole'
      BY <1>2, <2>1, <2>2 DEF HasWhole, HasLake, ElanCut
    <2> QED
      BY <2>1, <2>2, <2>3 DEF MovedIsWhole, ElanCut
  <1>8. CASE Present
    <2>1. run.pc = "place" /\ UNCHANGED <<tool, elanBin, installer, cut>> /\ tool[Target] # "absent"
      BY <1>8 DEF Present
    <2>2. run'.pc = "deps" /\ run'.lean = HasLake(Target)
      BY <1>3, <1>8, <2>1 DEF Present, Placed
    <2>3. "place" \notin cut => tool[Target] = "whole" \/ (Target = "elan" /\ ElanCut)
      BY <1>2, <2>1 DEF MovedIsWhole
    <2>4. "place" \notin cut /\ HasLake(Target) => HasWhole
      BY <1>2, <2>3 DEF HasWhole
    <2>5. HasWhole => HasWhole'
      BY <2>1 DEF HasWhole, HasLake, ElanCut
    <2> QED
      BY <2>1, <2>2, <2>4, <2>5 DEF MovedIsWhole, ElanCut
  <1>9. CASE PlaceBegins
    <2>1. run.pc = "place" /\ tool[Target] = "absent" /\ UNCHANGED <<elanBin, installer, cut>>
      BY <1>9 DEF PlaceBegins
    <2>2. PICK s \in {"torn", "torn with lake"} : tool' = [tool EXCEPT ![Target] = s]
      BY <1>9 DEF PlaceBegins
    <2>3. run'.pc = "placing" /\ run'.to = Target /\ run'.lean = run.lean
      <3>1. run \in Processes /\ run' = [run EXCEPT !.pc = "placing", !.to = Target]
        BY <1>1, <1>9, <2>1 DEF PlaceBegins
      <3> QED
        BY <1>2, <3>1, ProcessPlaces
    <2>4. elanBin = "absent" => Target = "bare"
      BY DEF Target
    <2>5. /\ tool' \in [Tools -> {"absent", "torn", "torn with lake", "whole"}]
          /\ \A t \in Tools \ {Target} : tool'[t] = tool[t]
      BY <1>2, <2>2
    <2>6. HasWhole => HasWhole'
      <3>1. SUFFICES ASSUME NEW t \in Tools, HasLake(t),
                            tool[t] = "whole" \/ (t = "elan" /\ ElanCut)
                     PROVE  HasWhole'
        BY DEF HasWhole
      <3>2. CASE t = "elan"
        <4>1. elanBin' = "lake"
          BY <2>1, <3>1, <3>2 DEF HasLake
        <4>2. tool'["elan"] = "whole" \/ ElanCut'
          BY <2>1, <2>5, <3>1, <3>2 DEF ElanCut
        <4> QED
          BY <1>2, <4>1, <4>2 DEF HasWhole, HasLake
      <3>3. CASE t # "elan"
        <4>1. tool[t] = "whole" /\ tool'[t] = "whole"
          BY <2>1, <2>5, <3>1, <3>3
        <4> QED
          BY <3>1, <3>3, <4>1 DEF HasWhole, HasLake
      <3> QED
        BY <3>2, <3>3
    <2>7. \/ ElanCut \/ elanBin = "absent" \/ (elanBin = "lake" /\ tool["elan"] = "whole")
          => ElanCut' \/ elanBin' = "absent" \/ (elanBin' = "lake" /\ tool'["elan"] = "whole")
      BY <1>2, <2>1, <2>5 DEF ElanCut
    <2> QED
      BY <2>1, <2>3, <2>5, <2>6, <2>7 DEF MovedIsWhole, ElanCut
  <1>10. CASE PlaceEnds
    <2>1. /\ run.pc = "placing" /\ UNCHANGED <<elanBin, installer, cut>>
          /\ \/ tool' = [tool EXCEPT ![run.to] = "whole"]
             \/ installer /\ run.to = "elan" /\ tool' = tool
      BY <1>10 DEF PlaceEnds
    <2>2. run'.pc = "deps" /\ run'.lean = (run.to = "bare" \/ HasLake("elan"))
      BY <1>3, <1>10, <2>1 DEF PlaceEnds, Placed
    <2>3. run.to \in Tools
      BY <1>1, <2>1 DEF Processes
    <2>4. /\ tool' \in [Tools -> {"absent", "torn", "torn with lake", "whole"}]
          /\ tool'[run.to] = "whole" \/ (run.to = "elan" /\ ElanCut)
          /\ \A t \in Tools \ {run.to} : tool'[t] = tool[t]
      BY <1>2, <2>1, <2>3 DEF MovedIsWhole
    <2>5. "place" \notin cut =>
             ElanCut' \/ elanBin' = "absent" \/ (elanBin' = "lake" /\ tool'["elan"] = "whole")
      BY <1>2, <2>1, <2>4 DEF MovedIsWhole, ElanCut
    <2>6. "place" \notin cut /\ (run.to = "bare" \/ HasLake("elan")) => HasWhole'
      <3>1. CASE run.to = "bare"
        BY <1>2, <2>4, <3>1 DEF HasWhole, HasLake
      <3>2. CASE HasLake("elan") /\ "place" \notin cut
        BY <1>2, <2>1, <2>5, <3>2 DEF HasWhole, HasLake
      <3> QED
        BY <3>1, <3>2
    <2> QED
      BY <2>1, <2>2, <2>4, <2>5, <2>6 DEF MovedIsWhole, ElanCut
  <1> QED
    BY <1>5, <1>6, <1>7, <1>8, <1>9, <1>10 DEF Installs

\* A run goes on with Lean only if it has found a whole toolchain: whatever was downloaded, failed
\* or killed before, no part of one is taken for Lean, unless its move was cut short or it is
\* elan's, and an installer of elan failed, stalled or was left alone.
THEOREM LeanIsUsable == BootSpec => []EnsuredIsUsable
  <1>1. BootInit => MovedIsWhole
    <2> SUFFICES ASSUME BootInit PROVE MovedIsWhole
      OBVIOUS
    <2>1. run.pc = "off" /\ elanBin = "absent" /\ installer = FALSE
          /\ tool = [t \in Tools |-> "absent"]
      BY DEF BootInit, Off
    <2> QED
      BY <2>1 DEF MovedIsWhole
  <1>2. FetchesRefs /\ MovedIsWhole /\ [BootNext]_bootVars => (FetchesRefs /\ MovedIsWhole)'
    <2>1. ASSUME MovedIsWhole, UNCHANGED bootVars
          PROVE  MovedIsWhole'
      BY <2>1 DEF bootVars, diskVars, history, MovedIsWhole, HasWhole, HasLake, ElanCut
    <2> QED
      BY <2>1, ProcessKeeps, MostStepsLeaveTools, LeavingKeeps, InstallingKeeps
  <1>3. MovedIsWhole => EnsuredIsUsable
    BY DEF MovedIsWhole, EnsuredIsUsable, HasWhole, ElanCut
  <1> QED
    BY <1>1, <1>2, <1>3, InitHolds, PTL DEF BootSpec
----------------------------------------------------------------------------
(* What is downloaded and placed                                           *)

\* No mirror is asked more often, and no more bytes are written, than there are.
Bounded ==
    dl.st # "none" =>
        /\ dl.mirror \in 1..Mirrors /\ dl.attempt \in 1..MaxAttempts
        /\ dl.pos \in 0..Size[dl.version]

\* What a process that downloads or moves a toolchain has in hand.
Placing ==
    /\ elanBin \in {"absent", "empty", "lake"}
    /\ run.pc \in {"download", "zip"} => dl.st # "none"
    /\ run.pc \in {"place", "placing"} => Whole("lean", "lean")
    /\ run.pc = "placing" /\ "elan" \notin cut => tool[run.to] \in {"torn", "torn with lake"}

LEMMA NextAttemptIsBounded ==
    ASSUME dl \in UnderWay, Bounded
    PROVE  /\ NextAttempt.mirror \in 1..Mirrors /\ NextAttempt.attempt \in 1..MaxAttempts
           /\ NextAttempt.pos = dl.pos /\ NextAttempt.version = dl.version
           /\ NextAttempt.archive = dl.archive
  <1>1. /\ Mirrors \in Nat \ {0} /\ MaxAttempts \in Nat \ {0}
        /\ dl.mirror \in 1..Mirrors /\ dl.attempt \in 1..MaxAttempts
    <2>1. dl.st # "none"
      BY DEF UnderWay
    <2> QED
      BY <2>1, MirrorsAssumption DEF Bounded
  <1>2. CASE dl.attempt < MaxAttempts
    <2>1. NextAttempt = [dl EXCEPT !.st = "ask", !.attempt = dl.attempt + 1]
      BY <1>2 DEF NextAttempt
    <2>2. /\ NextAttempt.mirror = dl.mirror /\ NextAttempt.attempt = dl.attempt + 1
          /\ NextAttempt.pos = dl.pos /\ NextAttempt.version = dl.version
          /\ NextAttempt.archive = dl.archive
      BY <2>1 DEF UnderWay
    <2> QED
      BY <1>1, <1>2, <2>2
  <1>3. CASE ~(dl.attempt < MaxAttempts) /\ dl.mirror < Mirrors
    <2>1. NextAttempt = [dl EXCEPT !.st = "ask", !.attempt = 1, !.mirror = dl.mirror + 1]
      BY <1>3 DEF NextAttempt
    <2>2. /\ NextAttempt.mirror = dl.mirror + 1 /\ NextAttempt.attempt = 1
          /\ NextAttempt.pos = dl.pos /\ NextAttempt.version = dl.version
          /\ NextAttempt.archive = dl.archive
      BY <2>1 DEF UnderWay
    <2> QED
      BY <1>1, <1>3, <2>2
  <1>4. CASE ~(dl.attempt < MaxAttempts) /\ ~(dl.mirror < Mirrors)
    <2>1. NextAttempt = [dl EXCEPT !.st = "failed"]
      BY <1>4 DEF NextAttempt
    <2>2. /\ NextAttempt.mirror = dl.mirror /\ NextAttempt.attempt = dl.attempt
          /\ NextAttempt.pos = dl.pos /\ NextAttempt.version = dl.version
          /\ NextAttempt.archive = dl.archive
      BY <2>1 DEF UnderWay
    <2> QED
      BY <1>1, <2>2
  <1> QED
    BY <1>2, <1>3, <1>4

\* The pieces that a step of the download leaves in a file were there, or are of its version.
LEMMA DownloadStaysBounded ==
    ASSUME InPlace, Bounded, DownloadStep
    PROVE  /\ Bounded' /\ dl.st # "none" /\ dl'.st # "none"
           /\ dl'.archive = dl.archive /\ dl'.version = dl.version
           /\ \A a \in Archives : \A i \in DOMAIN file'[a] :
                 \/ i \in DOMAIN file[a] /\ file'[a][i] = file[a][i]
                 \/ a = dl.archive /\ file'[a][i][1] = dl.version
  <1>1. dl \in UnderWay /\ dl.st # "none"
    <2>1. dl.st \in {"ask", "body"}
      BY DEF DownloadStep, AskFails, AnswersNoMore, Answers, Chunk, BodyFails, BodyEnds
    <2> QED
      BY <2>1 DEF InPlace, NoDownload
  <1> DEFINE a == dl.archive
             v == dl.version
             Pieces == \A b \in Archives : \A i \in DOMAIN file'[b] :
                          \/ i \in DOMAIN file[b] /\ file'[b][i] = file[b][i]
                          \/ b = a /\ file'[b][i][1] = v
             Tame == /\ dl'.st # "none" /\ dl'.archive = a /\ dl'.version = v
                     /\ dl'.mirror \in 1..Mirrors /\ dl'.attempt \in 1..MaxAttempts
                     /\ dl'.pos \in 0..Size[v]
  <1> SUFFICES Tame /\ Pieces
    BY <1>1 DEF Bounded
  <1>2. /\ a \in Archives /\ v \in Versions /\ Size[v] \in Nat \ {0}
        /\ file[a] \in Seq(Versions \X Nat)
        /\ dl.mirror \in 1..Mirrors /\ dl.attempt \in 1..MaxAttempts /\ dl.pos \in 0..Size[v]
    BY <1>1, SizesAssumption DEF UnderWay, InPlace, Bounded
  <1>3. ASSUME file' = file PROVE Pieces
    BY <1>3
  <1>4. ASSUME dl' = NextAttempt PROVE Tame
    <2>1. dl'.st \in {"ask", "failed"}
      BY <1>1, <1>4, NextAttemptIsQuiet
    <2> QED
      BY <1>1, <1>2, <1>4, <2>1, NextAttemptIsBounded
  <1>5. ASSUME NEW told, dl' = [dl EXCEPT !.st = "ok", !.told = told] PROVE Tame
    <2>1. /\ dl'.st = "ok" /\ dl'.archive = a /\ dl'.version = v /\ dl'.mirror = dl.mirror
          /\ dl'.attempt = dl.attempt /\ dl'.pos = dl.pos
      BY <1>1, <1>5 DEF UnderWay
    <2> QED
      BY <1>2, <2>1
  <1>6. CASE AskFails \/ BodyFails
    BY <1>3, <1>4, <1>6 DEF AskFails, BodyFails
  <1>7. CASE AnswersNoMore
    BY <1>3, <1>5, <1>7 DEF AnswersNoMore
  <1>8. CASE BodyEnds
    <2>1. CASE Complete
      <3>1. dl' = [dl EXCEPT !.st = "ok"] /\ file' = file
        BY <1>8, <2>1 DEF BodyEnds
      <3>2. /\ dl'.st = "ok" /\ dl'.archive = a /\ dl'.version = v /\ dl'.mirror = dl.mirror
            /\ dl'.attempt = dl.attempt /\ dl'.pos = dl.pos
        BY <1>1, <3>1 DEF UnderWay
      <3>3. Tame
        BY <1>2, <3>2
      <3> QED
        BY <1>3, <3>1, <3>3
    <2>2. CASE ~Complete
      BY <1>3, <1>4, <1>8, <2>2 DEF BodyEnds
    <2> QED
      BY <2>1, <2>2
  <1>9. ASSUME NEW partial \in BOOLEAN, Answers(partial)
        PROVE  Tame /\ Pieces
    <2> DEFINE n == IF partial THEN Len(file[a]) ELSE 0
    <2>1. dl' = [dl EXCEPT !.st = "body", !.pos = n, !.told = dl.mirror \in Announcing]
      BY <1>9 DEF Answers
    <2>2. n \in 0..Size[v]
      BY <1>2, <1>9 DEF Answers
    <2> HIDE DEF n
    <2>3. /\ dl'.st = "body" /\ dl'.archive = a /\ dl'.version = v /\ dl'.mirror = dl.mirror
          /\ dl'.attempt = dl.attempt /\ dl'.pos = n
      BY <1>1, <2>1 DEF UnderWay
    <2>4. Tame
      BY <1>2, <2>2, <2>3
    <2>5. file' = [file EXCEPT ![a] = IF partial THEN file[a] ELSE <<>>]
      BY <1>9 DEF Answers, Kept
    <2>6. \A b \in Archives : file'[b] = file[b] \/ DOMAIN file'[b] = {}
      BY <1>2, <2>5 DEF InPlace
    <2>7. Pieces
      BY <2>6
    <2> QED
      BY <2>4, <2>7
  <1>10. CASE Chunk
    <2> DEFINE piece == <<v, dl.pos + 1>>
    <2>1. /\ dl' = [dl EXCEPT !.pos = dl.pos + 1] /\ dl.st = "body" /\ dl.pos < Size[v]
          /\ file' = [file EXCEPT ![a] = Append(file[a], piece)]
      BY <1>10 DEF Chunk
    <2>2. /\ dl'.st = "body" /\ dl'.archive = a /\ dl'.version = v /\ dl'.mirror = dl.mirror
          /\ dl'.attempt = dl.attempt /\ dl'.pos = dl.pos + 1
      BY <1>1, <2>1 DEF UnderWay
    <2>3. Tame
      BY <1>2, <2>1, <2>2
    <2>4. piece \in Versions \X Nat
      BY <1>2
    <2>5. /\ DOMAIN file[a] = 1..Len(file[a]) /\ Len(file[a]) \in Nat
          /\ DOMAIN Append(file[a], piece) = 1..Len(file[a]) + 1
          /\ \A i \in 1..Len(file[a]) : Append(file[a], piece)[i] = file[a][i]
          /\ Append(file[a], piece)[Len(file[a]) + 1] = piece
      BY <1>2, <2>4, AppendProperties, LenProperties
    <2>6. \A b \in Archives : file'[b] = IF b = a THEN Append(file[a], piece) ELSE file[b]
      BY <1>2, <2>1 DEF InPlace
    <2> HIDE DEF piece
    <2>7. piece[1] = v
      BY DEF piece
    <2>8. ASSUME NEW i \in DOMAIN Append(file[a], piece)
          PROVE  \/ i \in DOMAIN file[a] /\ Append(file[a], piece)[i] = file[a][i]
                 \/ Append(file[a], piece)[i] = piece
      <3>1. i \in 1..Len(file[a]) \/ i = Len(file[a]) + 1
        BY <2>5, <2>8
      <3> QED
        BY <2>5, <3>1
    <2>9. Pieces
      BY <2>6, <2>7, <2>8
    <2> QED
      BY <2>3, <2>9
  <1> QED
    BY <1>6, <1>7, <1>8, <1>9, <1>10 DEF DownloadStep

LEMMA TurnsStayBounded ==
    ASSUME Turns
    PROVE  Bounded'
  <1>1. CASE dl' = NoDownload
    BY <1>1 DEF Bounded, NoDownload
  <1>2. ASSUME NEW a \in Archives, NEW v \in Versions, dl' = Begun(a, v)
        PROVE  Bounded'
    <2>1. dl'.mirror = 1 /\ dl'.attempt = 1 /\ dl'.pos = 0 /\ dl'.version = v
      BY <1>2 DEF Begun
    <2>2. Size[v] \in Nat /\ Mirrors \in Nat \ {0} /\ MaxAttempts \in Nat \ {0}
      BY SizesAssumption, MirrorsAssumption
    <2> QED
      BY <2>1, <2>2 DEF Bounded
  <1> QED
    BY <1>1, <1>2 DEF Turns

LEMMA BoundsKeep ==
    ASSUME FetchesRefs, InPlace, Bounded, [BootNext]_bootVars
    PROVE  Bounded'
  <1>1. CASE UNCHANGED downloadVars
    BY <1>1 DEF downloadVars, Bounded
  <1> QED
    BY <1>1, StepKinds, DownloadStaysBounded, TurnsStayBounded

\* Only these steps go to where something is downloaded or moved.
GoesToPlaces == \/ NoScript \/ ElanFails \/ ElanStalls \/ InstallerGoesOn
                \/ Downloads \/ Unpacks \/ PlaceBegins \/ CloneFails

LEMMA OthersGoElsewhere ==
    ASSUME FetchesRefs, Placing, BootNext, ~GoesToPlaces
    PROVE  Placing'
  <1> USE DEF diskVars
  <1> DEFINE There == {"download", "zip", "place", "placing"}
             Away == run'.pc \notin There /\ elanBin' \in {"absent", "empty", "lake"}
  <1> SUFFICES Away
    BY DEF Placing
  <1>1. run.pc # "off" => run \in Processes
    BY DEF FetchesRefs, Off
  <1>2. elanBin \in {"absent", "empty", "lake"}
    BY DEF Placing
  <1>3. ASSUME run.pc # "off", elanBin' = elanBin, NEW pc, pc \notin There,
               run' = [run EXCEPT !.pc = pc]
        PROVE  Away
    BY <1>1, <1>2, <1>3 DEF Processes
  <1>4. ASSUME run.pc # "off", elanBin' \in {elanBin, "lake"}, NEW lean, Placed(lean)
        PROVE  Away
    BY <1>1, <1>2, <1>4 DEF Placed, Processes
  <1>5. ASSUME run.pc # "off", elanBin' = elanBin, NEW code, Exits(code)
        PROVE  Away
    BY <1>1, <1>2, <1>5 DEF Exits, Processes
  <1>6. CASE ElanInstalls \/ (\E t \in Tools : FindsLean(t)) \/ Present \/ PlaceEnds
    BY <1>4, <1>6 DEF ElanInstalls, NoLean, FindsLean, Present, PlaceEnds, Placed
  <1>7. CASE \/ UnpackFails \/ PlaceFails \/ EnsureDeps \/ Reuses \/ CloneBegins \/ CloneEnds
             \/ \E v \in Refs : Unzips(v) \/ Moves(v)
    <2>1. \E pc : pc \notin There /\ To(pc) /\ run.pc # "off" /\ elanBin' = elanBin
      BY <1>7 DEF UnpackFails, PlaceFails, EnsureDeps, Reuses, CloneBegins, CloneEnds, Unzips, Moves,
                  MovesTop
    <2> QED
      BY <1>3, <2>1 DEF To
  <1>8. CASE Keys
    BY <1>3, <1>5, <1>8 DEF Keys, To
  <1>9. CASE CloneTimesOut \/ UnzipFails \/ CannotImport \/ Resolves \/ Judges
    <2>1. \E code : Exits(code) /\ run.pc # "off" /\ elanBin' = elanBin
      BY <1>9 DEF CloneTimesOut, UnzipFails, CannotImport, Resolves, Judges
    <2> QED
      BY <1>5, <2>1
  <1>10. CASE SelfTestRuns
    BY <1>1, <1>2, <1>10 DEF SelfTestRuns, Processes
  <1>11. CASE \E o \in Options : Start(o)
    BY <1>2, <1>11 DEF Start
  <1>12. CASE Crash
    BY <1>2, <1>12 DEF Crash, Off
  <1>13. CASE Over
    BY <1>2, <1>13 DEF Over, bootVars
  <1> QED
    BY <1>6, <1>7, <1>8, <1>9, <1>10, <1>11, <1>12, <1>13 DEF BootNext, Step, GoesToPlaces

LEMMA PlacingKeeps ==
    ASSUME FetchesRefs, InPlace, Bounded, MovedIsWhole, Placing, [BootNext]_bootVars
    PROVE  Placing'
  <1> USE DEF diskVars
  <1>1. run.pc # "off" => run \in Processes
    BY DEF FetchesRefs, Off
  <1>2. ASSUME NEW a, NEW v, dl' = Begun(a, v) PROVE dl'.st # "none"
    BY <1>2 DEF Begun
  <1>3. ASSUME NEW pc, run.pc # "off", To(pc) PROVE run'.pc = pc
    BY <1>1, <1>3 DEF To, Processes
  <1>4. CASE NoScript \/ ElanFails \/ ElanStalls
    <2>1. run'.pc = "download" /\ dl'.st # "none"
      BY <1>2, <1>3, <1>4, SkipsElan
    <2>2. elanBin' \in {"absent", "empty", "lake"}
      BY <1>4 DEF Placing, NoScript, ElanFails, ElanStalls, ElanWrites
    <2> QED
      BY <2>1, <2>2 DEF Placing
  <1>5. CASE Downloads
    <2>1. dl'.st # "none"
      BY <1>5, DownloadStaysBounded DEF Downloads
    <2> QED
      BY <1>5, <2>1 DEF Downloads, Placing
  <1>6. CASE Unpacks
    <2>1. run'.pc = "place"
      BY <1>3, <1>6 DEF Unpacks
    <2> QED
      BY <1>6, <2>1 DEF Unpacks, Placing, Whole
  <1>7. CASE PlaceBegins
    <2>1. run'.pc = "placing" /\ run'.to = Target
      <3>1. /\ run \in Processes /\ Target \in Tools
            /\ run' = [run EXCEPT !.pc = "placing", !.to = Target]
        BY <1>1, <1>7, TargetIsTool DEF PlaceBegins
      <3> QED
        BY <3>1, ProcessPlaces
    <2>2. tool \in [Tools -> {"absent", "torn", "torn with lake", "whole"}] /\ Target \in Tools
      BY DEF MovedIsWhole, Target, Tools
    <2>3. tool'[Target] \in {"torn", "torn with lake"}
      BY <1>7, <2>2 DEF PlaceBegins
    <2> QED
      BY <1>7, <2>1, <2>3 DEF PlaceBegins, Placing, Whole, downloadVars
  <1>8. CASE CloneFails
    <2>1. CASE run.url = 1
      <3>1. run'.pc = "clone"
        BY <1>1, <1>8, <2>1 DEF CloneFails, Processes
      <3> QED
        BY <1>8, <3>1 DEF CloneFails, Placing
    <2>2. CASE run.url # 1
      <3>1. run'.pc = "zip" /\ dl'.st # "none"
        BY <1>2, <1>3, <1>8, <2>2 DEF CloneFails
      <3> QED
        BY <1>8, <3>1 DEF CloneFails, Placing
    <2> QED
      BY <2>1, <2>2
  <1>9. CASE UNCHANGED bootVars
    BY <1>9 DEF bootVars, downloadVars, history, Placing, Whole
  <1>10. CASE InstallerGoesOn
    <2>1. /\ UNCHANGED <<run, dl, file, cut>> /\ "elan" \in cut
          /\ elanBin' \in {elanBin, "empty", "lake"}
      BY <1>10, GoesOnAlone DEF MovedIsWhole, ElanCut, downloadVars, history
    <2> QED
      BY <2>1 DEF Placing, Whole
  <1> QED
    BY <1>4, <1>5, <1>6, <1>7, <1>8, <1>9, <1>10, OthersGoElsewhere DEF GoesToPlaces

----------------------------------------------------------------------------
(* The project                                                             *)

\* Only one ref was asked for.
Alone == \A u, v \in asked : u = v

\* Whatever is on the disk for a project came from a run that asked for it; and of a single
\* ref it is whole, but for a clone that was cut short.
Fetching ==
    /\ clone \in [st : {"absent", "torn", "whole"}, ref : Refs \cup {"none"}]
    /\ staging \in [Refs -> {"absent", "torn", "whole"}]
    /\ asked \subseteq Refs
    /\ run.pc # "off" /\ run.task \in Refs => run.task \in asked
    /\ dl.st # "none" /\ dl.archive = "zip" => dl.version \in asked
    /\ \A i \in DOMAIN file["zip"] : file["zip"][i][1] \in asked
    /\ \A v \in Refs : staging[v] # "absent" => v \in asked
    /\ run.pc = "move" => \E v \in asked : staging[v] = "whole"
    /\ run.pc = "clone" => clone.st = "absent"
    /\ clone.st # "absent" => clone.ref \in asked
    /\ clone.st = "torn" => "clone" \in cut \/ ~Alone
    /\ run.pc = "cli" /\ run.task \in Refs => clone.st # "absent"

\* Most steps have nothing to do with the project.
Elsewhere ==
    /\ UNCHANGED <<clone, staging, file, asked>> /\ cut \subseteq cut'
    /\ \/ dl' = dl \/ dl' = NoDownload
       \/ \E v \in Versions : dl' = Begun("lean", v)
    /\ run'.pc # "off" => run.pc # "off" /\ run'.task = run.task
    /\ run'.pc \notin {"move", "clone"}
    /\ run'.pc = "cli" => run.task \notin Refs \/ clone.st # "absent"

LEMMA ElsewhereKeeps ==
    ASSUME Fetching, Elsewhere
    PROVE  Fetching'
  <1>1. dl'.st # "none" /\ dl'.archive = "zip" => dl'.version \in asked
    BY DEF Fetching, Elsewhere, NoDownload, Begun
  <1>2. Alone' = Alone
    BY DEF Alone, Elsewhere
  <1> QED
    BY <1>1, <1>2 DEF Fetching, Elsewhere

FetchSteps == \/ Downloads \/ CloneBegins \/ CloneEnds \/ CloneFails \/ CloneTimesOut \/ UnzipFails
              \/ (\E v \in Refs : Unzips(v) \/ Moves(v))
              \/ (\E o \in Options : Start(o)) \/ Crash \/ InstallerGoesOn

LEMMA MostStepsGoElsewhere ==
    ASSUME FetchesRefs, BootNext, ~FetchSteps
    PROVE  Elsewhere
  <1> USE DEF diskVars, downloadVars, history
  <1> DEFINE Still == /\ UNCHANGED <<clone, staging, file, asked>> /\ cut \subseteq cut'
                      /\ \/ dl' = dl \/ dl' = NoDownload
                         \/ \E v \in Versions : dl' = Begun("lean", v)
  <1>1. run.pc # "off" => run \in Processes
    BY DEF FetchesRefs, Off
  <1>2. ASSUME NEW pc, pc \notin {"move", "clone", "cli"}, run.pc # "off", Still, To(pc)
        PROVE  Elsewhere
    <2>1. run'.pc = pc /\ run'.task = run.task
      BY <1>1, <1>2 DEF To, Processes
    <2> QED
      BY <1>2, <2>1 DEF Elsewhere
  <1>3. ASSUME NEW lean, run.pc # "off", Still, Placed(lean)
        PROVE  Elsewhere
    <2>1. run'.pc = "deps" /\ run'.task = run.task
      BY <1>1, <1>3 DEF Placed, Processes
    <2> QED
      BY <1>3, <2>1 DEF Elsewhere
  <1>4. ASSUME NEW code, run.pc # "off", Still, Exits(code)
        PROVE  Elsewhere
    <2>1. run'.pc = "done" /\ run'.task = run.task
      BY <1>1, <1>4 DEF Exits, Processes
    <2> QED
      BY <1>4, <2>1 DEF Elsewhere
  <1>5. CASE ElanInstalls \/ (\E t \in Tools : FindsLean(t)) \/ Present \/ PlaceEnds
    BY <1>3, <1>5 DEF ElanInstalls, NoLean, FindsLean, Present, PlaceEnds, Placed
  <1>6. CASE NoScript \/ ElanFails \/ ElanStalls
    <2>1. Still /\ To("download") /\ run.pc # "off"
      BY <1>6, BootAssumption, SkipsElan
    <2> QED
      BY <1>2, <2>1
  <1>7. CASE Unpacks \/ UnpackFails \/ PlaceFails \/ EnsureDeps
    <2>1. PICK pc \in {"place", "deps", "keys"} : To(pc) /\ Still /\ run.pc # "off"
      BY <1>7 DEF Unpacks, UnpackFails, PlaceFails, EnsureDeps
    <2> QED
      BY <1>2, <2>1
  <1>8. CASE Keys
    <2>1. run.pc = "keys" /\ Still
      BY <1>8 DEF Keys
    <2>2. CASE Exits(2)
      BY <1>4, <2>1, <2>2
    <2>3. CASE To(IF run.task \in Refs THEN "fetch" ELSE "cli")
      <3>1. /\ run'.pc = IF run.task \in Refs THEN "fetch" ELSE "cli"
            /\ run'.task = run.task
        BY <1>1, <2>1, <2>3 DEF To, Processes
      <3> QED
        BY <2>1, <3>1 DEF Elsewhere
    <2> QED
      BY <1>8, <2>2, <2>3 DEF Keys
  <1>9. CASE Reuses
    <2>1. run.pc = "fetch" /\ clone.st # "absent" /\ Still /\ To("cli")
      BY <1>9 DEF Reuses
    <2>2. run'.pc = "cli" /\ run'.task = run.task
      BY <1>1, <2>1 DEF To, Processes
    <2> QED
      BY <2>1, <2>2 DEF Elsewhere
  <1>10. CASE CannotImport \/ Resolves \/ Judges
    <2>1. \E code : Exits(code) /\ Still /\ run.pc # "off"
      BY <1>10 DEF CannotImport, Resolves, Judges
    <2> QED
      BY <1>4, <2>1
  <1>11. CASE SelfTestRuns
    <2>1. run.pc = "cli" /\ Still
      BY <1>11 DEF SelfTestRuns
    <2>2. run'.pc = "judge" /\ run'.task = run.task
      BY <1>1, <1>11, <2>1 DEF SelfTestRuns, Processes
    <2> QED
      BY <2>1, <2>2 DEF Elsewhere
  <1>12. CASE Over
    <2>1. run' = run /\ run.pc \in {"off", "done"} /\ Still
      BY <1>12 DEF Over, bootVars
    <2> QED
      BY <2>1 DEF Elsewhere
  <1>14. CASE PlaceBegins
    <2>1. /\ run \in Processes /\ Target \in Tools /\ run.pc = "place" /\ Still
          /\ run' = [run EXCEPT !.pc = "placing", !.to = Target]
      BY <1>1, <1>14, TargetIsTool DEF PlaceBegins
    <2>2. run'.pc = "placing" /\ run'.task = run.task
      BY <2>1, ProcessPlaces
    <2> QED
      BY <2>1, <2>2 DEF Elsewhere
  <1> QED
    BY <1>5, <1>6, <1>7, <1>8, <1>9, <1>10, <1>11, <1>12, <1>14
       DEF BootNext, Step, FetchSteps

LEMMA FetchingKeeps ==
    ASSUME FetchesRefs, InPlace, Bounded, Placing, Fetching, FetchSteps
    PROVE  Fetching'
  <1> USE DEF diskVars
  <1>0. run.pc # "off" => run \in Processes
    BY DEF FetchesRefs, Off
  <1>1. ASSUME NEW pc, run.pc # "off", To(pc)
        PROVE  run'.pc = pc /\ run'.task = run.task
    BY <1>0, <1>1 DEF To, Processes
  <1>2. ASSUME NEW code, run.pc # "off", Exits(code)
        PROVE  run'.pc = "done" /\ run'.task = run.task
    BY <1>0, <1>2 DEF Exits, Processes
  <1>3. Refs \subseteq Versions /\ "zip" \in Archives
    BY BootAssumption
  <1>4. asked' = asked => Alone' = Alone
    BY DEF Alone
  <1>5. clone.st \in {"absent", "torn", "whole"}
    BY DEF Fetching
  <1>6. CASE Downloads
    <2>1. /\ DownloadStep /\ UNCHANGED <<clone, staging, run, asked, cut>>
      BY <1>6 DEF Downloads, history
    <2>2. /\ dl.st # "none" /\ dl'.archive = dl.archive /\ dl'.version = dl.version
          /\ \A i \in DOMAIN file'["zip"] :
                \/ i \in DOMAIN file["zip"] /\ file'["zip"][i] = file["zip"][i]
                \/ "zip" = dl.archive /\ file'["zip"][i][1] = dl.version
      BY <1>3, <2>1, DownloadStaysBounded
    <2>3. \A i \in DOMAIN file'["zip"] : file'["zip"][i][1] \in asked
      BY <2>2 DEF Fetching
    <2> QED
      BY <1>4, <2>1, <2>2, <2>3 DEF Fetching
  <1>7. CASE CloneBegins
    <2>1. /\ UNCHANGED <<clone, staging, file, dl, asked, cut>> /\ clone.st = "absent"
          /\ run.pc # "off" /\ run'.pc = "clone" /\ run'.task = run.task
      BY <1>1, <1>7 DEF CloneBegins, history, downloadVars
    <2> QED
      BY <1>4, <2>1 DEF Fetching
  <1>8. CASE CloneEnds
    <2>1. /\ UNCHANGED <<staging, file, dl, asked, cut>> /\ run.pc = "clone"
          /\ clone' = [st |-> "whole", ref |-> run.task]
          /\ run'.pc = "cli" /\ run'.task = run.task
      BY <1>1, <1>8 DEF CloneEnds, history, downloadVars
    <2>2. run.task \in Refs /\ run.task \in asked
      BY <2>1 DEF FetchesRefs, Fetching
    <2> QED
      BY <1>4, <2>1, <2>2 DEF Fetching
  <1>9. CASE CloneFails
    <2>1. /\ UNCHANGED <<staging, file, asked, cut>> /\ run.pc = "clone"
          /\ clone' = [st |-> "absent", ref |-> "none"]
      BY <1>9 DEF CloneFails, AfterFailedClone, NoClone, history
    <2>2. run.task \in Refs /\ run.task \in asked
      BY <2>1 DEF FetchesRefs, Fetching
    <2>3. CASE run.url = 1
      <3>1. run'.pc = "clone" /\ run'.task = run.task /\ dl' = dl
        BY <1>0, <1>9, <2>1, <2>3 DEF CloneFails, Processes
      <3> QED
        BY <1>4, <2>1, <3>1 DEF Fetching
    <2>4. CASE run.url # 1
      <3>1. run'.pc = "zip" /\ run'.task = run.task /\ dl' = Begun("zip", run.task)
        BY <1>1, <1>9, <2>1, <2>4 DEF CloneFails
      <3>2. dl'.version = run.task
        BY <3>1 DEF Begun
      <3> QED
        BY <1>4, <2>1, <2>2, <3>1, <3>2 DEF Fetching
    <2> QED
      BY <2>3, <2>4
  <1>10. CASE CloneTimesOut
    <2>1. /\ UNCHANGED <<staging, file, dl, asked>> /\ cut' = cut \cup {"clone"}
          /\ run.pc = "clone" /\ clone' \in {clone, TornClone}
          /\ run'.pc = "done" /\ run'.task = run.task
      BY <1>2, <1>10 DEF CloneTimesOut, downloadVars
    <2>2. run.task \in Refs /\ run.task \in asked
      BY <2>1 DEF FetchesRefs, Fetching
    <2> QED
      BY <1>4, <2>1, <2>2 DEF Fetching, TornClone
  <1>11. ASSUME NEW v \in Refs, Unzips(v)
         PROVE  Fetching'
    <2>1. /\ UNCHANGED <<clone, file, asked, cut>> /\ Whole("zip", v) /\ run.pc = "zip"
          /\ staging' = [staging EXCEPT ![v] = "whole"] /\ dl' = NoDownload
      BY <1>11 DEF Unzips, history
    <2>2. run'.pc = "move" /\ run'.task = run.task
      BY <1>1, <1>11, <2>1 DEF Unzips
    <2>3. v \in asked
      <3>1. Size[v] \in Nat \ {0}
        BY <1>3, SizesAssumption
      <3>2. 1 \in DOMAIN file["zip"] /\ file["zip"][1] = <<v, 1>>
        BY <2>1, <3>1 DEF Whole
      <3> QED
        BY <3>2 DEF Fetching
    <2>4. /\ staging' \in [Refs -> {"absent", "torn", "whole"}] /\ staging'[v] = "whole"
          /\ \A u \in Refs \ {v} : staging'[u] = staging[u]
      BY <2>1 DEF Fetching
    <2> QED
      BY <1>4, <2>1, <2>2, <2>3, <2>4 DEF Fetching, NoDownload
  <1>12. CASE UnzipFails
    <2>1. /\ UNCHANGED <<clone, file, asked, cut>> /\ run.pc = "zip" /\ dl' = NoDownload
          /\ \/ staging' = staging
             \/ \E v \in Refs : /\ \E i \in DOMAIN file["zip"] : file["zip"][i][1] = v
                                /\ staging' = [staging EXCEPT ![v] = "torn"]
      BY <1>12 DEF UnzipFails, CutUnzip, history
    <2>2. run'.pc = "done" /\ run'.task = run.task
      BY <1>2, <1>12, <2>1 DEF UnzipFails
    <2>3. /\ staging' \in [Refs -> {"absent", "torn", "whole"}]
          /\ \A v \in Refs : staging'[v] # "absent" => v \in asked
      BY <2>1 DEF Fetching
    <2> QED
      BY <1>4, <2>1, <2>2, <2>3 DEF Fetching, NoDownload
  <1>13. ASSUME NEW v \in Refs, Moves(v)
         PROVE  Fetching'
    <2>1. /\ UNCHANGED <<file, dl, asked, cut>> /\ run.pc = "move" /\ staging[v] # "absent"
          /\ clone' = IF clone.st = "absent" THEN [st |-> staging[v], ref |-> v] ELSE clone
          /\ staging' = [u \in Refs |-> "absent"]
          /\ run'.pc = "cli" /\ run'.task = run.task
      BY <1>1, <1>13 DEF Moves, MovesTop, history, downloadVars
    <2>2. v \in asked /\ staging[v] \in {"torn", "whole"}
      BY <2>1 DEF Fetching
    <2>3. staging[v] = "torn" => ~Alone
      <3>1. PICK u \in asked : staging[u] = "whole"
        BY <2>1 DEF Fetching
      <3> QED
        BY <2>2, <3>1 DEF Alone
    <2>4. CASE clone.st = "absent"
      <3>1. clone' = [st |-> staging[v], ref |-> v]
        BY <2>1, <2>4
      <3> QED
        BY <1>4, <2>1, <2>2, <2>3, <3>1 DEF Fetching
    <2>5. CASE clone.st # "absent"
      BY <1>4, <2>1, <2>5 DEF Fetching
    <2> QED
      BY <2>4, <2>5
  <1>14. ASSUME NEW o \in Options, Start(o)
         PROVE  Fetching'
    <2>1. /\ UNCHANGED <<clone, staging, file, cut>> /\ dl' = NoDownload
          /\ asked' = asked \cup ({o.task} \cap Refs)
          /\ run'.pc \in {"keys", "lean"} /\ run'.task = o.task
      BY <1>14 DEF Start
    <2>2. Alone' => Alone
      BY <2>1 DEF Alone
    <2> QED
      BY <2>1, <2>2 DEF Fetching, NoDownload
  <1>15. CASE Crash
    <2>1. /\ UNCHANGED <<file, asked>> /\ dl' = NoDownload /\ run'.pc = "off" /\ cut \subseteq cut'
          /\ \/ UNCHANGED <<clone, staging>>
             \/ /\ run.pc = "clone" /\ clone' \in {clone, TornClone} /\ "clone" \in cut'
                /\ staging' = staging
             \/ CutUnzip /\ clone' = clone
             \/ \E v \in Refs : MovesTop(v) /\ staging' = [staging EXCEPT ![v] = "absent"]
      <3>1. /\ UNCHANGED <<file, asked>> /\ dl' = NoDownload /\ run'.pc = "off"
            /\ CutShort \/ (run.pc \notin {"clone", "placing"} /\ UNCHANGED <<clone, staging, cut>>)
        BY <1>15 DEF Crash, Off
      <3> QED
        BY <3>1 DEF CutShort
    <2>2. ASSUME /\ clone' \in [st : {"absent", "torn", "whole"}, ref : Refs \cup {"none"}]
                 /\ clone'.st # "absent" => clone'.ref \in asked
                 /\ clone'.st = "torn" => "clone" \in cut' \/ ~Alone
                 /\ staging' \in [Refs -> {"absent", "torn", "whole"}]
                 /\ \A v \in Refs : staging'[v] # "absent" => v \in asked
          PROVE  Fetching'
      BY <1>4, <2>1, <2>2 DEF Fetching, NoDownload
    <2>3. CASE UNCHANGED <<clone, staging>>
      BY <2>1, <2>2, <2>3 DEF Fetching
    <2>4. CASE /\ run.pc = "clone" /\ clone' \in {clone, TornClone} /\ "clone" \in cut'
               /\ staging' = staging
      <3>1. run.task \in Refs /\ run.task \in asked
        BY <2>4 DEF FetchesRefs, Fetching
      <3> QED
        BY <2>1, <2>2, <2>4, <3>1 DEF Fetching, TornClone
    <2>5. CASE CutUnzip /\ clone' = clone
      BY <2>1, <2>2, <2>5 DEF Fetching, CutUnzip
    <2>6. ASSUME NEW v \in Refs, MovesTop(v), staging' = [staging EXCEPT ![v] = "absent"]
          PROVE  Fetching'
      <3>1. /\ run.pc = "move" /\ staging[v] # "absent"
            /\ clone' = IF clone.st = "absent" THEN [st |-> staging[v], ref |-> v] ELSE clone
        BY <2>6 DEF MovesTop
      <3>2. v \in asked /\ staging[v] \in {"torn", "whole"}
        BY <3>1 DEF Fetching
      <3>3. staging[v] = "torn" => ~Alone
        <4>1. PICK u \in asked : staging[u] = "whole"
          BY <3>1 DEF Fetching
        <4> QED
          BY <3>2, <4>1 DEF Alone
      <3>4. /\ staging' \in [Refs -> {"absent", "torn", "whole"}]
            /\ \A u \in Refs : staging'[u] # "absent" => u \in asked
        BY <2>6 DEF Fetching
      <3>5. CASE clone.st = "absent"
        <4>1. clone' = [st |-> staging[v], ref |-> v]
          BY <3>1, <3>5
        <4> QED
          BY <2>2, <3>2, <3>3, <3>4, <4>1
      <3>6. CASE clone.st # "absent"
        BY <2>1, <2>2, <3>1, <3>4, <3>6 DEF Fetching
      <3> QED
        BY <3>5, <3>6
    <2> QED
      BY <2>1, <2>3, <2>4, <2>5, <2>6
  <1>16. CASE InstallerGoesOn
    <2>1. UNCHANGED <<clone, staging, file, dl, asked, cut, run>>
      BY <1>16, GoesOnAlone DEF downloadVars, history
    <2> QED
      BY <1>4, <2>1 DEF Fetching
  <1> QED
    BY <1>6, <1>7, <1>8, <1>9, <1>10, <1>11, <1>12, <1>13, <1>14, <1>15, <1>16 DEF FetchSteps

\* What is run is whole: the types, Lean, and the project at the ref that was asked for, after
\* failed clones and downloads, resumed parts, damaged archives and killed runs, for any refs,
\* mirrors and sizes.  Not Lean if its move or an installer of elan was cut short, and not the
\* project if git was, or other refs were asked for in the directory.
THEOREM WholePartsAreRun == BootSpec => []RunsOnWholeParts
  <1> DEFINE Inv == FetchesRefs /\ InPlace /\ MovedIsWhole /\ Bounded /\ Placing /\ Fetching
  <1>1. BootInit => Inv
    <2> SUFFICES ASSUME BootInit PROVE Inv
      OBVIOUS
    <2>1. MovedIsWhole /\ Bounded /\ Placing
      BY DEF BootInit, DownloadInit, NoDownload, Off, MovedIsWhole, ElanCut, Bounded, Placing
    <2>2. "zip" \in Archives /\ DOMAIN file["zip"] = {}
      BY BootAssumption DEF BootInit, DownloadInit
    <2>3. Fetching
      BY <2>2 DEF BootInit, DownloadInit, NoDownload, NoClone, Off, Fetching
    <2> QED
      BY <2>1, <2>3, InitHolds
  <1>2. Inv /\ [BootNext]_bootVars => Inv'
    <2> SUFFICES ASSUME Inv, [BootNext]_bootVars PROVE Inv'
      OBVIOUS
    <2>1. FetchesRefs' /\ InPlace'
      <3>1. ASSUME UNCHANGED downloadVars PROVE InPlace'
        BY <3>1 DEF InPlace, downloadVars
      <3> QED
        BY <3>1, ProcessKeeps, StepKinds, DownloadKeeps, TurnsKeep
    <2>2. MovedIsWhole'
      <3>1. CASE UNCHANGED bootVars
        BY <3>1 DEF bootVars, diskVars, history, MovedIsWhole, HasWhole, HasLake, ElanCut
      <3> QED
        BY <3>1, MostStepsLeaveTools, LeavingKeeps, InstallingKeeps
    <2>3. Bounded' /\ Placing'
      BY BoundsKeep, PlacingKeeps
    <2>4. Fetching'
      <3>1. CASE UNCHANGED bootVars
        BY <3>1 DEF bootVars, downloadVars, diskVars, history, Fetching, Alone
      <3> QED
        BY <3>1, MostStepsGoElsewhere, ElsewhereKeeps, FetchingKeeps
    <2> QED
      BY <2>1, <2>2, <2>3, <2>4
  <1>3. Inv => RunsOnWholeParts
    <2> SUFFICES ASSUME Inv PROVE RunsOnWholeParts
      OBVIOUS
    <2>1. DownloadTypeOK
      BY DEF InPlace, Bounded, UnderWay, NoDownload, DownloadTypeOK
    <2>2. BootTypeOK
      BY <2>1 DEF MovedIsWhole, Placing, Fetching, BootTypeOK
    <2>3. EnsuredIsUsable
      BY DEF MovedIsWhole, EnsuredIsUsable, HasWhole, ElanCut
    <2>4. FetchedIsAsked
      <3> SUFFICES ASSUME run.pc = "cli", run.task \in Refs, "clone" \notin cut,
                          asked = {run.task}
                   PROVE  clone = [st |-> "whole", ref |-> run.task]
        BY DEF FetchedIsAsked
      <3>1. clone.st = "whole" /\ clone.ref = run.task
        BY DEF Fetching, Alone
      <3> QED
        BY <3>1 DEF Fetching
    <2> QED
      BY <2>2, <2>3, <2>4 DEF RunsOnWholeParts
  <1> QED
    BY <1>1, <1>2, <1>3, PTL DEF BootSpec
=============================================================================
