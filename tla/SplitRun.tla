------------------------------- MODULE SplitRun -------------------------------
(***************************************************************************)
(* internal/split: the pipeline the worker runs for one job after another, *)
(* on one album directory and its output directory.  A sheet is one CUE    *)
(* file of the album, or one version of it before and after a fix: they    *)
(* share the output directory and nothing ever empties it.                 *)
(*                                                                         *)
(* The actions are the pipeline's own steps, those of the shnsplit process *)
(* it starts and reads, and the life of the server's own process: the      *)
(* cancellation of the context, the end of main, a crash, a restart.  The  *)
(* tools are external: each may fail, and shnsplit may take for ever, or   *)
(* outlive the server.  A file is named by the track number and the title  *)
(* of the sheet it was split by, so files sort by number, then by sheet;   *)
(* number 0 is the pregap.                                                 *)
(***************************************************************************)
EXTENDS Naturals, Sequences, FiniteSets

CONSTANTS
  Sheets,      \* the sheets, as numbers that order their titles
  Pieces,      \* the tracks of each sheet, as the tools count them
  TrackCount,  \* those that ParseText finds, which wants TRACK nn AUDIO
  WithPregap,  \* the sheets whose first track does not start at 0:00
  PipeCap,     \* lines that fit into the stderr pipe
  LongLines,   \* whether a line of shnsplit may exceed the reader's 1 MiB
  MaxRuns,     \* bound: the jobs run one after another
  MaxExits,    \* bound: the ends of the server's process
  NoSheet,
  NoStray

ASSUME SplitRunAssumption ==
  /\ Sheets \subseteq Nat
  /\ Pieces \in [Sheets -> Nat \ {0}]
  /\ TrackCount \in [Sheets -> Nat]
  /\ \A s \in Sheets : TrackCount[s] <= Pieces[s]
  /\ WithPregap \subseteq Sheets
  /\ PipeCap \in Nat \ {0}
  /\ LongLines \in BOOLEAN
  /\ MaxRuns \in Nat
  /\ MaxExits \in Nat
  /\ NoSheet \notin Sheets

VARIABLES
  process,     \* the server's: serving, closing (ListenAndServe is back), gone
  exits,       \* how often it has ended so far
  stray,       \* of each end, the shnsplit that outlived it: its sheet, its track,
               \* whether it writes
  haunted,     \* auxiliary: the job under way began beside a stray
  cancelled,   \* the context of main, and so the job's, is done
  runs,        \* jobs begun so far
  sheet,       \* the sheet of the job under way, or of the last one
  pc,          \* where Run is
  progress,    \* the last progress report: current and total
  outcome,     \* how the last run ended
  temps,       \* the UTF-8 copies of sheets in the temporary directory
  result,      \* the result files of the last run that was done
  files,       \* the .flac files in the output directory
  cut,         \* those whose audio is incomplete
  tags,        \* the tag sets written to each file, as far as they differ
  child,       \* the shnsplit process
  track,       \* the number of the track it is on
  pipe,        \* the lines it has written that are not read yet
  steps,       \* stepsSeen of streamShnsplitProgress
  listed,      \* names: the files finishSplit found, but for pregaps it has removed
  tagged       \* how many of them it has tagged

lifeVars == <<process, exits, stray, haunted, cancelled>>
namesVars == <<listed, tagged>>
endVars == <<outcome, temps, namesVars>>
childVars == <<child, track, pipe>>
dirVars == <<files, cut, tags>>
vars == <<lifeVars, runs, sheet, pc, progress, endVars, result, dirVars,
          childVars, steps>>

AllTracks == UNION {0..Pieces[s] : s \in Sheets}
File == [n : AllTracks, sheet : Sheets]

(* What cueprint says of a track (0: nothing) and how many there are.      *)
Tag == [n : Nat, sheet : Sheets, total : Nat]

IsPregap(f) == f.n = 0

FirstTrack(s) == IF s \in WithPregap THEN 0 ELSE 1

Album(s) == [n : 1..Pieces[s], sheet : {s}]

TotalSteps(s) == 2 * TrackCount[s]

Report(current) == progress' = [current |-> current, total |-> TotalSteps(sheet)]

TypeOK ==
  /\ process \in {"serving", "closing", "gone"}
  /\ exits \in 0..MaxExits
  /\ stray \in [1..MaxExits ->
                  [sheet : Sheets, n : Nat, writing : BOOLEAN] \union {NoStray}]
  /\ haunted \in BOOLEAN
  /\ cancelled \in BOOLEAN
  /\ runs \in 0..MaxRuns
  /\ sheet \in Sheets \union {NoSheet}
  /\ pc \in {"idle", "prepare", "breakpoints", "shnsplit", "stream", "wait",
             "list", "untag", "tag", "pregap", "cover"}
  /\ progress \in [current : Nat, total : Nat]
  /\ outcome \in {"none", "done", "error"}
  /\ temps \in Nat
  /\ result \subseteq File
  /\ files \subseteq File
  /\ cut \subseteq files
  /\ tags \in [File -> SUBSET Tag]
  /\ child \in {"none", "between", "writing", "ok", "failed"}
  /\ track \in Nat
  /\ pipe \in Seq(File)
  /\ Len(pipe) <= PipeCap
  /\ steps \in Nat
  /\ listed \subseteq File
  /\ tagged \in Nat

Init ==
  /\ process = "serving"
  /\ exits = 0
  /\ stray = [e \in 1..MaxExits |-> NoStray]
  /\ haunted = FALSE
  /\ cancelled = FALSE
  /\ runs = 0
  /\ sheet = NoSheet
  /\ pc = "idle"
  /\ progress = [current |-> 0, total |-> 0]
  /\ outcome = "none"
  /\ temps = 0
  /\ result = {}
  /\ files = {}
  /\ cut = {}
  /\ tags = [f \in File |-> {}]
  /\ child = "none"
  /\ track = 0
  /\ pipe = <<>>
  /\ steps = 0
  /\ listed = {}
  /\ tagged = 0

-----------------------------------------------------------------------------
(* Run, up to the start of shnsplit *)

(* The ends of the server whose shnsplit is still there.                   *)
Strays == {e \in 1..MaxExits : stray[e] # NoStray}

Begin(s) ==
  /\ process # "gone"
  /\ pc = "idle"
  /\ runs < MaxRuns
  /\ runs' = runs + 1
  /\ haunted' = (Strays # {})
  /\ sheet' = s
  /\ pc' = "prepare"
  /\ progress' = [current |-> 0, total |-> 0]
  /\ outcome' = "none"
  /\ result' = {}
  /\ UNCHANGED <<process, exits, stray, cancelled, temps, namesVars, dirVars,
                 childVars, steps>>

(* Mutant: the copy of the sheet is only removed after the last step.      *)
ReturnKeepingCopy(how) ==
  /\ pc' = "idle"
  /\ outcome' = how
  /\ temps' = IF how = "done" THEN temps - 1 ELSE temps
  /\ listed' = {}
  /\ tagged' = 0

(* Every return once the copy of the sheet is there removes it; what was   *)
(* listed is forgotten.                                                    *)
Return(how) ==
  /\ pc' = "idle"
  /\ outcome' = how
  /\ temps' = IF pc = "prepare" THEN temps ELSE temps - 1
  /\ listed' = {}
  /\ tagged' = 0

(* Parsing the sheet, finding its source, copying it to UTF-8, making the  *)
(* output directory: any of them may fail.                                 *)
Prepare ==
  /\ pc = "prepare"
  /\ \/ /\ Return("error")
        /\ UNCHANGED progress
     \/ /\ pc' = "breakpoints"
        /\ Report(0)
        /\ temps' = temps + 1
        /\ UNCHANGED <<outcome, namesVars>>
  /\ UNCHANGED <<lifeVars, runs, sheet, result, dirVars, childVars, steps>>

(* A tool is not even started once the context is done.                    *)
Breakpoints ==
  /\ pc = "breakpoints"
  /\ \/ /\ Return("error")
        /\ UNCHANGED progress
     \/ /\ ~cancelled
        /\ pc' = "shnsplit"
        /\ Report(0)
        /\ UNCHANGED endVars
  /\ UNCHANGED <<lifeVars, runs, sheet, result, dirVars, childVars, steps>>

StartShnsplit ==
  /\ pc = "shnsplit"
  /\ \/ /\ Return("error")
        /\ UNCHANGED <<childVars, steps>>
     \/ /\ ~cancelled
        /\ pc' = "stream"
        /\ child' = "between"
        /\ track' = FirstTrack(sheet)
        /\ pipe' = <<>>
        /\ steps' = 0
        /\ UNCHANGED endVars
  /\ UNCHANGED <<lifeVars, runs, sheet, progress, result, dirVars>>

-----------------------------------------------------------------------------
(* The shnsplit process *)

StrayFile(e) == [n |-> stray[e].n, sheet |-> stray[e].sheet]

StrayWrites(f) == \E e \in Strays : stray[e].writing /\ f = StrayFile(e)

(* The incomplete files once f is closed: it may still be one if more than *)
(* one process wrote it.                                                   *)
Closed(f) == {cut \ {f}} \union (IF StrayWrites(f) THEN {cut} ELSE {})

(* Mutant: the pieces are numbered from the one after them.                *)
CurrentPlusOne == [n |-> track + 1, sheet |-> sheet]

Current == [n |-> track, sheet |-> sheet]

(* -O always: an existing file of that name is overwritten.                *)
OpenTrack ==
  /\ child = "between"
  /\ track <= Pieces[sheet]
  /\ child' = "writing"
  /\ files' = files \union {Current}
  /\ cut' = cut \union {Current}
  /\ tags' = [tags EXCEPT ![Current] = {}]
  /\ UNCHANGED <<lifeVars, runs, sheet, pc, progress, endVars, result, track,
                 pipe, steps>>

(* The line that reports the track is written when the track is complete.  *)
CloseTrack ==
  /\ child = "writing"
  /\ Len(pipe) < PipeCap
  /\ child' = "between"
  /\ cut' \in Closed(Current)
  /\ track' = track + 1
  /\ pipe' = Append(pipe, Current)
  /\ UNCHANGED <<lifeVars, runs, sheet, pc, progress, endVars, result, files,
                 tags, steps>>

ShnsplitSucceeds ==
  /\ child = "between"
  /\ track > Pieces[sheet]
  /\ child' = "ok"
  /\ UNCHANGED <<lifeVars, runs, sheet, pc, progress, endVars, result, dirVars,
                 track, pipe, steps>>

ShnsplitFails ==
  /\ child \in {"between", "writing"}
  /\ child' = "failed"
  /\ UNCHANGED <<lifeVars, runs, sheet, pc, progress, endVars, result, dirVars,
                 track, pipe, steps>>

(* Mutant: only shnsplit is killed, not an encoder that holds its pipe.    *)
KillLeaderOnly ==
  /\ cancelled
  /\ child = "between"
  /\ child' = "failed"
  /\ UNCHANGED <<lifeVars, runs, sheet, pc, progress, endVars, result, dirVars,
                 track, pipe, steps>>

(* Cancellation kills the whole process group.                             *)
Kill ==
  /\ cancelled
  /\ child \in {"between", "writing"}
  /\ child' = "failed"
  /\ UNCHANGED <<lifeVars, runs, sheet, pc, progress, endVars, result, dirVars,
                 track, pipe, steps>>

Shnsplit == OpenTrack \/ CloseTrack \/ ShnsplitSucceeds

-----------------------------------------------------------------------------
(* Run, from the first line of shnsplit to its end *)

(* Mutant: the count of lines is not capped.                               *)
Uncapped(m, n) == m

Least(m, n) == IF m < n THEN m ELSE n

(* Mutant: the lines are read once the process has ended.                  *)
ReadLineAfterExit ==
  /\ pc = "stream"
  /\ child \in {"ok", "failed"}
  /\ pipe # <<>>
  /\ pipe' = Tail(pipe)
  /\ steps' = steps + 1
  /\ Report(Least(steps + 1, TrackCount[sheet]))
  /\ UNCHANGED <<lifeVars, runs, sheet, pc, endVars, result, dirVars, child,
                 track>>

ReadLine ==
  /\ pc = "stream"
  /\ pipe # <<>>
  /\ pipe' = Tail(pipe)
  /\ steps' = steps + 1
  /\ Report(Least(steps + 1, TrackCount[sheet]))
  /\ UNCHANGED <<lifeVars, runs, sheet, pc, endVars, result, dirVars, child,
                 track>>

(* The reader gives up; what is left in the pipe, and what is still to     *)
(* come, is read by nobody.                                                *)
LongLine ==
  /\ LongLines
  /\ pc = "stream"
  /\ child = "writing"
  /\ pc' = "wait"
  /\ UNCHANGED <<lifeVars, runs, sheet, progress, endVars, result, dirVars,
                 childVars, steps>>

(* Mutant: how the process ended is not looked at.                         *)
ReapAnyExit ==
  /\ pc = "wait" \/ (pc = "stream" /\ pipe = <<>>)
  /\ child \in {"ok", "failed"}
  /\ pc' = "list"
  /\ Report(TrackCount[sheet])
  /\ child' = "none"
  /\ UNCHANGED <<lifeVars, runs, sheet, endVars, result, dirVars, track, pipe, steps>>

(* The process has ended: Wait reports how, or that it was cancelled, and  *)
(* a read that failed ends the run too.                                    *)
Reap ==
  /\ pc = "wait" \/ (pc = "stream" /\ pipe = <<>>)
  /\ child \in {"ok", "failed"}
  /\ \/ /\ pc = "wait" \/ child = "failed" \/ cancelled
        /\ Return("error")
        /\ UNCHANGED progress
     \/ /\ pc = "stream"
        /\ child = "ok"
        /\ pc' = "list"
        /\ Report(TrackCount[sheet])
        /\ UNCHANGED endVars
  /\ child' = "none"
  /\ UNCHANGED <<lifeVars, runs, sheet, result, dirVars, track, pipe, steps>>

Before(f, g) == f.n < g.n \/ (f.n = g.n /\ f.sheet < g.sheet)

(* Mutant: the pregap is not set apart.                                    *)
AllFiles == listed

(* partitionPregap *)
RealFiles == {f \in listed : ~IsPregap(f)}

(* listSplitFLACs: whatever .flac is there.                                *)
List ==
  /\ pc = "list"
  /\ \/ Return("error")
     \/ /\ pc' = "untag"
        /\ listed' = files
        /\ tagged' = 0
        /\ UNCHANGED <<outcome, temps>>
  /\ UNCHANGED <<lifeVars, runs, sheet, progress, result, dirVars, childVars, steps>>

Total == Cardinality(RealFiles)

(* Mutant: the files left to tag are counted instead.                      *)
CountDown == Total - tagged

(* The number of the track that is tagged next, counted by its place.      *)
TrackNum == tagged + 1

(* Where a file comes in the order of the names.                           *)
PlaceOf(f) == Cardinality({g \in RealFiles : Before(g, f)}) + 1

(* The file that is tagged next.                                           *)
IsNext(f) == f \in RealFiles /\ PlaceOf(f) = TrackNum

(* metaflac --remove-all-tags; a failure is ignored.                       *)
Untag ==
  /\ pc = "untag"
  /\ tagged < Total
  /\ Report(TrackCount[sheet] + TrackNum)
  /\ \/ UNCHANGED tags
     \/ /\ ~cancelled
        /\ \E f \in File : IsNext(f) /\ tags' = [tags EXCEPT ![f] = {}]
  /\ pc' = "tag"
  /\ UNCHANGED <<lifeVars, runs, sheet, endVars, result, files, cut, childVars,
                 steps>>

(* metaflac --set-tag adds the tags cueprint gave for that number.         *)
SetTags ==
  /\ pc = "tag"
  /\ \/ UNCHANGED tags
     \/ /\ ~cancelled
        /\ \E f \in File, n \in {0} \union ({TrackNum} \intersect (1..Pieces[sheet])) :
             /\ IsNext(f)
             /\ tags' = [tags EXCEPT ![f] =
                           @ \union {[n |-> n, sheet |-> sheet, total |-> Total]}]
  /\ tagged' = tagged + 1
  /\ pc' = "untag"
  /\ UNCHANGED <<lifeVars, runs, sheet, progress, outcome, temps, listed, result,
                 files, cut, childVars, steps>>

AllTagged ==
  /\ pc = "untag"
  /\ tagged >= Total
  /\ pc' = "pregap"
  /\ Report(TotalSteps(sheet))
  /\ UNCHANGED <<lifeVars, runs, sheet, endVars, result, dirVars, childVars, steps>>

(* One pregap file after the other; failing to remove one ends the run.    *)
RemovePregap ==
  /\ pc = "pregap"
  /\ \E f \in listed :
       /\ IsPregap(f)
       /\ \/ /\ Return("error")
             /\ UNCHANGED <<files, cut>>
          \/ /\ listed' = listed \ {f}
             /\ files' = files \ {f}
             /\ cut' = cut \ {f}
             /\ UNCHANGED <<pc, outcome, temps, tagged>>
  /\ UNCHANGED <<lifeVars, runs, sheet, progress, result, tags, childVars, steps>>

PregapsRemoved ==
  /\ pc = "pregap"
  /\ \A f \in listed : ~IsPregap(f)
  /\ pc' = "cover"
  /\ UNCHANGED <<lifeVars, runs, sheet, progress, endVars, result, dirVars,
                 childVars, steps>>

(* Copying the cover and listing the results end the run.                  *)
Complete ==
  /\ pc = "cover"
  /\ \/ /\ Return("error")
        /\ UNCHANGED <<progress, result>>
     \/ /\ Return("done")
        /\ result' = files
        /\ Report(TotalSteps(sheet))
  /\ UNCHANGED <<lifeVars, runs, sheet, dirVars, childVars, steps>>

Run ==
  \/ Prepare
  \/ Breakpoints
  \/ StartShnsplit
  \/ ReadLine
  \/ Reap
  \/ List
  \/ Untag
  \/ SetTags
  \/ AllTagged
  \/ RemovePregap
  \/ PregapsRemoved
  \/ Complete

-----------------------------------------------------------------------------
(* The server's process *)

(* SIGINT or SIGTERM.                                                      *)
Cancel ==
  /\ process = "serving"
  /\ ~cancelled
  /\ cancelled' = TRUE
  /\ UNCHANGED <<process, exits, stray, haunted, runs, sheet, pc, progress,
                 endVars, result, dirVars, childVars, steps>>

(* httpServer.Shutdown makes ListenAndServe return at once.                *)
Shutdown ==
  /\ process = "serving"
  /\ cancelled
  /\ process' = "closing"
  /\ UNCHANGED <<exits, stray, haunted, cancelled, runs, sheet, pc, progress,
                 endVars, result, dirVars, childVars, steps>>

(* main returns, and waits neither for the worker nor for the goroutine    *)
(* that kills shnsplit; or the listener fails, or the process is killed.   *)
(* What it held in memory is lost; shnsplit, in a group of its own, goes   *)
(* on; nobody removes the copy of the sheet.                               *)
Exit ==
  /\ process # "gone"
  /\ exits < MaxExits
  /\ process' = "gone"
  /\ exits' = exits + 1
  /\ stray' = IF child \in {"between", "writing"}
                THEN [stray EXCEPT ![exits'] =
                        [sheet |-> sheet, n |-> track, writing |-> child = "writing"]]
                ELSE stray
  /\ pc' = "idle"
  /\ progress' = [current |-> 0, total |-> 0]
  /\ outcome' = "none"
  /\ result' = {}
  /\ child' = "none"
  /\ track' = 0
  /\ pipe' = <<>>
  /\ steps' = 0
  /\ listed' = {}
  /\ tagged' = 0
  /\ UNCHANGED <<haunted, cancelled, runs, sheet, temps, dirVars>>

Restart ==
  /\ process = "gone"
  /\ process' = "serving"
  /\ cancelled' = FALSE
  /\ UNCHANGED <<exits, stray, haunted, runs, sheet, pc, progress, endVars,
                 result, dirVars, childVars, steps>>

(* A stray that has not begun a file may go on to it, but the line that    *)
(* reports it finds the pipe closed, so it is the stray's last; the stray  *)
(* may also die before that.                                               *)
StrayOpens(e) ==
  /\ e \in Strays
  /\ ~stray[e].writing
  /\ stray[e].n <= Pieces[stray[e].sheet]
  /\ stray' = [stray EXCEPT ![e].writing = TRUE]
  /\ files' = files \union {StrayFile(e)}
  /\ cut' = cut \union {StrayFile(e)}
  /\ tags' = [tags EXCEPT ![StrayFile(e)] = {}]
  /\ UNCHANGED <<process, exits, haunted, cancelled, runs, sheet, pc, progress,
                 endVars, result, childVars, steps>>

StrayEnds(e) ==
  /\ e \in Strays
  /\ stray' = [stray EXCEPT ![e] = NoStray]
  /\ cut' \in {cut} \union (IF stray[e].writing THEN Closed(StrayFile(e)) ELSE {})
  /\ UNCHANGED <<process, exits, haunted, cancelled, runs, sheet, pc, progress,
                 endVars, result, files, tags, childVars, steps>>

Stray == \E e \in 1..MaxExits : StrayOpens(e) \/ StrayEnds(e)

(* No job is left to run (bound MaxRuns).                                  *)
Stopped ==
  /\ pc = "idle"
  /\ runs = MaxRuns
  /\ UNCHANGED vars

Next ==
  \/ \E s \in Sheets : Begin(s)
  \/ Run
  \/ LongLine
  \/ Shnsplit
  \/ ShnsplitFails
  \/ Kill
  \/ Cancel
  \/ Shutdown
  \/ Exit
  \/ Restart
  \/ Stray
  \/ Stopped

Spec == Init /\ [][Next]_vars

(* The goroutine of the run and the one that watches the context go on;    *)
(* shnsplit need not.                                                      *)
FairSpec == Spec /\ WF_vars(Run) /\ WF_vars(Kill)

(* shnsplit works on too, as long as it is not blocked on its pipe.        *)
ShnsplitFairness == WF_vars(Shnsplit)

-----------------------------------------------------------------------------
(* scan.CheckOutputStatus, as a scan finds it at any moment.               *)
OutputTracks == Cardinality(files)

SplitDone(s) == OutputTracks > 0 /\ OutputTracks >= TrackCount[s] /\ TrackCount[s] > 0

-----------------------------------------------------------------------------
(* Invariants *)

(* No track in the output directory comes from another sheet.              *)
OnlyOwnTracks == \A f \in files : ~IsPregap(f) => f.sheet = sheet

(* A run that ends as done leaves its whole album, every track complete,   *)
(* and no pregap, whatever earlier runs had left in the directory: failed  *)
(* ones, killed ones, and one that the end of the server cut off in the    *)
(* middle (split.Run).  It speaks of runs that began when no shnsplit of   *)
(* an earlier server was left, which nothing in the code ensures.          *)
DoneIsWholeAlbum ==
  outcome = "done" /\ ~haunted =>
    /\ Album(sheet) \subseteq result
    /\ Album(sheet) \intersect cut = {}
    /\ \A f \in files : ~IsPregap(f)

(* In a directory of its own an album's files carry the titles of their    *)
(* own tracks and the right total, even if a track was left over from a    *)
(* killed run or a pregap file sorts before the first track, for the tags  *)
(* are found by counting files (finishSplit).  A track that ParseText does *)
(* not know, a data track, counts like any other.                          *)
TagsMatchTracks ==
  OnlyOwnTracks =>
    \A f \in files : \A t \in tags[f] :
      /\ t.sheet = f.sheet
      /\ t.n \in {0, f.n}
      /\ t.total = Pieces[f.sheet]

(* The parser and the tools count the same tracks.                         *)
AudioOnly == sheet # NoSheet => Pieces[sheet] = TrackCount[sheet]

(* A run's progress stays within the splitting half while shnsplit runs,   *)
(* although the pregap and the data tracks make it report more lines than  *)
(* the album has tracks ("capped so it never exceeds the real track        *)
(* count", split.Run); and, in a directory of its own, within its total.   *)
ProgressWithinTotal ==
  /\ child # "none" => progress.current <= TrackCount[sheet]
  /\ OnlyOwnTracks /\ AudioOnly => progress.current <= progress.total

(* A run removes its copy of the sheet however it ends ("removed on every  *)
(* exit path", split.Run), so that what piles up in the temporary          *)
(* directory is at most one copy for each time the server ended.           *)
TempCopiesAccounted ==
  temps <= exits + (IF pc \in {"idle", "prepare"} THEN 0 ELSE 1)

-----------------------------------------------------------------------------
(* Action properties *)

(* In a directory of its own a run's progress never goes back, from the    *)
(* split half through the tagging half to the end.                         *)
ProgressMovesForward ==
  [][OnlyOwnTracks /\ AudioOnly /\ runs' = runs /\ exits' = exits =>
       progress'.current >= progress.current]_vars

-----------------------------------------------------------------------------
(* Temporal properties *)

(* Once its context is cancelled a run ends, even if shnsplit would never  *)
(* have ended, is blocked on a full pipe, or is no longer read             *)
(* (runShnsplit's process group and its Cancel).                           *)
CancelledRunEnds == cancelled ~> pc = "idle"

(* If shnsplit works on, a run ends without being cancelled, or its reader *)
(* has given up on a line that is too long: the reader and the writer of   *)
(* the pipe do not wait for each other.                                    *)
RunEnds == ShnsplitFairness => (pc = "prepare" ~> pc \in {"idle", "wait"})

-----------------------------------------------------------------------------
(* What the sources say and the code does not guarantee *)

(* "an album re-split after a CUE fix must not report the previous run's   *)
(* results" (job_test.go).                                                 *)
ResultIsOwnAlbum == outcome = "done" => result = Album(sheet)

(* split_done is "whether a matching split already exists in the output    *)
(* root" (openapi.yaml): when no run is under way, an album reported as    *)
(* split has all its tracks, and all of them are complete.                 *)
SplitDoneIsSplit ==
  pc = "idle" =>
    \A s \in Sheets : SplitDone(s) => Album(s) \subseteq files \ cut

(* "Run shnsplit in its own process group and, on cancellation, SIGKILL    *)
(* the whole group", for "the default per-process kill would orphan" its   *)
(* children (runShnsplit): a server that shuts down leaves no shnsplit     *)
(* behind that still writes into the output directory.                     *)
ShutdownLeavesNoShnsplit ==
  [][process = "closing" /\ process' = "gone" => stray' = stray]_vars

=============================================================================
