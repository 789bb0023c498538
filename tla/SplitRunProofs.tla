---------------------------- MODULE SplitRunProofs ----------------------------
(***************************************************************************)
(* Every safety property of SplitRun for every set of sheets, any number   *)
(* of tracks and runs and any size of the pipe: what a run that is         *)
(* reported as done has left in the output directory, what runs leave in   *)
(* the temporary directory, whose tags a track carries, and how the        *)
(* progress of a run moves.                                                *)
(***************************************************************************)
EXTENDS SplitRun, TLAPS, FiniteSetTheorems

Finishing == {"list", "untag", "tag", "pregap", "cover"}

Steps == {"idle", "prepare", "breakpoints", "shnsplit", "stream", "wait"} \union Finishing

(* Where the run is fits the process it has started and the outcome.       *)
RunInStep ==
  /\ pc \in Steps
  /\ child \in {"none", "between", "writing", "ok", "failed"}
  /\ child # "none" => pc \in {"stream", "wait"}
  /\ track \in Nat
  /\ pc # "idle" => outcome = "none"
  /\ pc # "idle" \/ outcome = "done" => sheet \in Sheets

(* A stray only comes to be when a run is cut off.                         *)
Quiet == (pc # "idle" \/ outcome = "done") /\ ~haunted => Strays = {}

Written(n) == [n |-> n, sheet |-> sheet] \in files \ cut

WholeAlbum == \A n \in 1..Pieces[sheet] : Written(n)

(* shnsplit has completed every track before the one it is on, and the     *)
(* rest of the run takes none of them away.                                *)
TracksWritten ==
  ~haunted =>
    /\ child \in {"between", "writing"} =>
         \A n \in 1..(track - 1) : Written(n)
    /\ child = "writing" => Current \in files
    /\ child = "ok" => WholeAlbum
    /\ pc \in Finishing => WholeAlbum
    /\ pc \in {"untag", "tag", "pregap", "cover"} =>
         \A f \in files : IsPregap(f) => f \in listed
    /\ pc = "cover" => \A f \in files : ~IsPregap(f)
    /\ outcome = "done" =>
         /\ WholeAlbum
         /\ result = files
         /\ \A f \in files : ~IsPregap(f)

AlbumInv == RunInStep /\ Quiet /\ TracksWritten

LEMMA InitAlbumInv == Init => AlbumInv
BY DEF Init, AlbumInv, RunInStep, Quiet, Strays, TracksWritten, Steps, Finishing

(* Everything the invariant speaks of, as the steps leave it.              *)
LEMMA BeginKeepsAlbum ==
  ASSUME AlbumInv, NEW s \in Sheets, Begin(s)
  PROVE  AlbumInv'
BY DEF AlbumInv, RunInStep, Quiet, Strays, TracksWritten, Steps, Finishing, Begin,
       dirVars, childVars

LEMMA PreparingKeepsAlbum ==
  ASSUME AlbumInv, Prepare \/ Breakpoints
  PROVE  AlbumInv'
BY DEF AlbumInv, RunInStep, Quiet, Strays, TracksWritten, Steps, Finishing, Prepare,
       Breakpoints, Return, lifeVars, endVars, namesVars, dirVars, childVars

LEMMA StartKeepsAlbum ==
  ASSUME AlbumInv, StartShnsplit
  PROVE  AlbumInv'
<1>1. sheet \in Sheets /\ child = "none" /\ outcome = "none" /\ pc = "shnsplit"
  BY DEF AlbumInv, RunInStep, StartShnsplit
<1>2. FirstTrack(sheet) \in {0, 1}
  BY DEF FirstTrack
<1>3. CASE pc' = "idle"
  BY <1>1, <1>3
  DEF AlbumInv, RunInStep, Quiet, TracksWritten, Steps, Finishing,
      StartShnsplit, Return, lifeVars, dirVars, childVars
<1>4. CASE pc' = "stream"
  <2>1. /\ child' = "between"
        /\ track' \in {0, 1}
        /\ UNCHANGED <<haunted, stray, sheet, outcome, files, cut, result>>
    BY <1>2, <1>4 DEF StartShnsplit, Return, lifeVars, endVars, dirVars
  <2>2. RunInStep' /\ Quiet'
    BY <1>1, <1>4, <2>1 DEF AlbumInv, RunInStep, Quiet, Strays, Steps
  <2>3. ASSUME NEW n \in 1..(track' - 1) PROVE FALSE
    <3>1. track' \in {0, 1}
      BY <2>1
    <3>2. track' = 0 \/ track' = 1
      BY <3>1
    <3>3. CASE track' = 0
      BY <3>3
    <3>4. CASE track' = 1
      BY <3>4
    <3> QED
      BY <3>2, <3>3, <3>4
  <2>4. TracksWritten'
    <3>1. /\ child' = "between"
          /\ pc' \notin Finishing
          /\ pc' \notin {"untag", "tag", "pregap", "cover"}
          /\ outcome' = "none"
      BY <1>1, <1>4, <2>1 DEF Finishing
    <3>2. \A n \in 1..(track' - 1) : Written(n)'
      BY <2>3
    <3> QED
      BY <3>1, <3>2 DEF TracksWritten
  <2> QED
    BY <2>2, <2>4 DEF AlbumInv
<1> QED
  BY <1>3, <1>4 DEF StartShnsplit, Return

-----------------------------------------------------------------------------
(* shnsplit *)

LEMMA OpenKeepsAlbum ==
  ASSUME AlbumInv, OpenTrack
  PROVE  AlbumInv'
<1>1. /\ child = "between" /\ child' = "writing"
      /\ pc \in {"stream", "wait"} /\ pc' = pc
      /\ outcome = "none" /\ outcome' = outcome
      /\ track \in Nat /\ track' = track
      /\ UNCHANGED <<haunted, stray, sheet, result>>
      /\ files' = files \union {Current}
      /\ cut' = cut \union {Current}
  BY DEF AlbumInv, RunInStep, OpenTrack, lifeVars, endVars
<1>2. RunInStep' /\ Quiet'
  BY <1>1 DEF AlbumInv, RunInStep, Quiet, Strays
<1>3. \A n \in 1..(track - 1) : Written(n) => Written(n)'
  BY <1>1 DEF Written, Current
<1>4. Current' \in files'
  BY <1>1 DEF Current
<1>5. TracksWritten'
  BY <1>1, <1>3, <1>4 DEF AlbumInv, TracksWritten, Finishing
<1> QED
  BY <1>2, <1>5 DEF AlbumInv

LEMMA CloseKeepsAlbum ==
  ASSUME AlbumInv, CloseTrack
  PROVE  AlbumInv'
<1>1. /\ child = "writing" /\ child' = "between"
      /\ pc \in {"stream", "wait"} /\ pc' = pc
      /\ outcome = "none" /\ outcome' = outcome
      /\ track \in Nat /\ track' = track + 1
      /\ UNCHANGED <<haunted, stray, sheet, result, files>>
      /\ cut' \in Closed(Current)
  BY DEF AlbumInv, RunInStep, CloseTrack, lifeVars, endVars
<1>2. RunInStep' /\ Quiet'
  BY <1>1 DEF AlbumInv, RunInStep, Quiet, Strays
<1>3. ASSUME ~haunted PROVE cut' = cut \ {Current} /\ Current \in files
  BY <1>1, <1>3 DEF AlbumInv, Quiet, TracksWritten, Closed, StrayWrites
<1>4. ASSUME ~haunted PROVE \A n \in 1..track : Written(n)'
  <2>1. \A n \in 1..(track - 1) : Written(n)
    BY <1>1, <1>4 DEF AlbumInv, TracksWritten
  <2>2. [n |-> track, sheet |-> sheet'] \in files' \ cut'
    BY <1>1, <1>3, <1>4 DEF AlbumInv, TracksWritten, Current
  <2>3. \A n \in 1..(track - 1) : Written(n)'
    BY <1>1, <1>3, <1>4, <2>1 DEF Written
  <2>4. \A n \in 1..track : n = track \/ n \in 1..(track - 1)
    BY <1>1
  <2> QED
    BY <2>2, <2>3, <2>4 DEF Written
<1>5. TracksWritten'
  BY <1>1, <1>4, (track + 1) - 1 = track DEF TracksWritten, Finishing
<1> QED
  BY <1>2, <1>5 DEF AlbumInv

LEMMA EndKeepsAlbum ==
  ASSUME AlbumInv, ShnsplitSucceeds \/ ShnsplitFails \/ Kill
  PROVE  AlbumInv'
<1>1. /\ child \in {"between", "writing"}
      /\ child' = "failed" \/ (child' = "ok" /\ child = "between" /\ track > Pieces[sheet])
      /\ pc \in {"stream", "wait"} /\ pc' = pc
      /\ outcome = "none" /\ outcome' = outcome
      /\ track \in Nat /\ sheet \in Sheets
      /\ UNCHANGED <<haunted, stray, sheet, result, files, cut, track>>
  BY DEF AlbumInv, RunInStep, ShnsplitSucceeds, ShnsplitFails, Kill, lifeVars,
         endVars, dirVars
<1>2. Pieces[sheet] \in Nat
  BY <1>1, SplitRunAssumption
<1>3. RunInStep' /\ Quiet'
  BY <1>1 DEF AlbumInv, RunInStep, Quiet, Strays
<1>4. ASSUME child' = "ok", ~haunted PROVE WholeAlbum'
  BY <1>1, <1>2, <1>4 DEF AlbumInv, TracksWritten, WholeAlbum, Written
<1>5. TracksWritten'
  BY <1>1, <1>4 DEF TracksWritten, Finishing
<1> QED
  BY <1>3, <1>5 DEF AlbumInv

LEMMA ReadKeepsAlbum ==
  ASSUME AlbumInv, ReadLine \/ LongLine
  PROVE  AlbumInv'
BY DEF AlbumInv, RunInStep, Quiet, Strays, TracksWritten, WholeAlbum, Written, Current,
       Steps, Finishing, ReadLine, LongLine, lifeVars, endVars, namesVars, dirVars, childVars

LEMMA ReapKeepsAlbum ==
  ASSUME AlbumInv, Reap
  PROVE  AlbumInv'
BY DEF AlbumInv, RunInStep, Quiet, Strays, TracksWritten, WholeAlbum, Written,
       Steps, Finishing, Reap, Return, lifeVars, endVars, dirVars

-----------------------------------------------------------------------------
(* finishSplit *)

LEMMA TaggingKeepsAlbum ==
  ASSUME AlbumInv, List \/ Untag \/ SetTags \/ AllTagged
  PROVE  AlbumInv'
BY DEF AlbumInv, RunInStep, Quiet, Strays, TracksWritten, WholeAlbum, Written,
       Steps, Finishing, List, Untag, SetTags, AllTagged, Return, lifeVars,
       endVars, namesVars, dirVars, childVars

LEMMA PregapKeepsAlbum ==
  ASSUME AlbumInv, RemovePregap \/ PregapsRemoved
  PROVE  AlbumInv'
<1>1. /\ pc = "pregap" /\ child = "none" /\ child' = child
      /\ outcome = "none"
      /\ sheet \in Sheets
      /\ UNCHANGED <<haunted, stray, sheet, track, result>>
  BY DEF AlbumInv, RunInStep, RemovePregap, PregapsRemoved, lifeVars, childVars
<1>2. \/ pc' = "idle" /\ outcome' = "error"
      \/ /\ pc' = "pregap" /\ outcome' = outcome
         /\ \E f \in listed : files' = files \ {f} /\ listed' = listed \ {f}
      \/ /\ pc' = "cover" /\ outcome' = outcome
         /\ UNCHANGED <<files, cut, listed>>
         /\ \A f \in listed : ~IsPregap(f)
  BY <1>1 DEF RemovePregap, PregapsRemoved, Return, endVars, namesVars, dirVars
<1>3. RunInStep' /\ Quiet'
  BY <1>1, <1>2 DEF AlbumInv, RunInStep, Quiet, Strays, Steps, Finishing
<1>4. ASSUME WholeAlbum PROVE WholeAlbum'
  <2>1. Pieces[sheet] \in Nat
    BY <1>1, SplitRunAssumption
  <2>2. \/ UNCHANGED <<files, cut>>
        \/ \E f \in listed : IsPregap(f) /\ files' = files \ {f} /\ cut' = cut \ {f}
    BY DEF RemovePregap, PregapsRemoved, dirVars
  <2>3. \A n \in 1..Pieces[sheet] : Written(n)'
    BY <1>1, <1>4, <2>1, <2>2 DEF WholeAlbum, Written, IsPregap
  <2> QED
    BY <1>1, <2>3 DEF WholeAlbum
<1>5. TracksWritten'
  BY <1>1, <1>2, <1>4 DEF AlbumInv, TracksWritten, Finishing
<1> QED
  BY <1>3, <1>5 DEF AlbumInv

LEMMA CompleteKeepsAlbum ==
  ASSUME AlbumInv, Complete
  PROVE  AlbumInv'
BY DEF AlbumInv, RunInStep, Quiet, Strays, TracksWritten, WholeAlbum, Written,
       Steps, Finishing, Complete, Return, lifeVars, endVars, namesVars, dirVars,
       childVars

-----------------------------------------------------------------------------
(* The server's process, and what outlives it *)

LEMMA ProcessKeepsAlbum ==
  ASSUME AlbumInv, Cancel \/ Shutdown \/ Restart \/ Stopped \/ UNCHANGED vars
  PROVE  AlbumInv'
BY DEF AlbumInv, RunInStep, Quiet, Strays, TracksWritten, WholeAlbum, Written, Current,
       Cancel, Shutdown, Restart, Stopped, lifeVars, endVars, namesVars, dirVars, childVars,
       vars

LEMMA ExitKeepsAlbum ==
  ASSUME AlbumInv, Exit
  PROVE  AlbumInv'
BY DEF AlbumInv, RunInStep, Quiet, TracksWritten, Steps, Finishing, Exit

LEMMA StrayKeepsAlbum ==
  ASSUME AlbumInv, Stray
  PROVE  AlbumInv'
BY DEF AlbumInv, RunInStep, Quiet, TracksWritten, Finishing, Stray, StrayOpens,
       StrayEnds, endVars, childVars

LEMMA NextKeepsAlbum == AlbumInv /\ [Next]_vars => AlbumInv'
BY BeginKeepsAlbum, PreparingKeepsAlbum, StartKeepsAlbum, OpenKeepsAlbum,
   CloseKeepsAlbum, EndKeepsAlbum, ReadKeepsAlbum, ReapKeepsAlbum,
   TaggingKeepsAlbum, PregapKeepsAlbum, CompleteKeepsAlbum, ProcessKeepsAlbum,
   ExitKeepsAlbum, StrayKeepsAlbum
DEF Next, Run, Shnsplit

(* A run that is reported as done has every track of its album in the      *)
(* output directory, whole, among its results, and no pregap, whatever     *)
(* earlier runs, crashes and restarts had left there (split.Run).          *)
THEOREM DoneRunsAreWhole == Spec => []DoneIsWholeAlbum
<1>1. Init => AlbumInv
  BY InitAlbumInv
<1>2. AlbumInv /\ [Next]_vars => AlbumInv'
  BY NextKeepsAlbum
<1>3. AlbumInv => DoneIsWholeAlbum
  <2> SUFFICES ASSUME AlbumInv, outcome = "done", ~haunted
               PROVE  /\ Album(sheet) \subseteq result
                      /\ Album(sheet) \intersect cut = {}
                      /\ \A f \in files : ~IsPregap(f)
    BY DEF DoneIsWholeAlbum
  <2>1. WholeAlbum /\ result = files /\ \A f \in files : ~IsPregap(f)
    BY DEF AlbumInv, TracksWritten
  <2>2. ASSUME NEW f \in Album(sheet) PROVE f \in files \ cut
    BY <2>1 DEF Album, WholeAlbum, Written
  <2> QED
    BY <2>1, <2>2
<1> QED
  BY <1>1, <1>2, <1>3, PTL DEF Spec

-----------------------------------------------------------------------------
(* The copies of the sheets *)

HasCopy == pc \notin {"idle", "prepare"}

CopyInv ==
  /\ temps \in Nat
  /\ exits \in Nat
  /\ HasCopy => temps >= 1
  /\ TempCopiesAccounted

LEMMA RunKeepsCopies == ASSUME CopyInv, Run PROVE CopyInv'
<1> USE DEF CopyInv, HasCopy, TempCopiesAccounted, Return, lifeVars, endVars
<1>1. CASE Prepare
  BY <1>1 DEF Prepare
<1>2. CASE Breakpoints \/ StartShnsplit \/ ReadLine \/ Reap
  BY <1>2 DEF Breakpoints, StartShnsplit, ReadLine, Reap
<1>3. CASE List \/ Untag \/ SetTags \/ AllTagged
  BY <1>3 DEF List, Untag, SetTags, AllTagged
<1>4. CASE RemovePregap \/ PregapsRemoved \/ Complete
  BY <1>4 DEF RemovePregap, PregapsRemoved, Complete
<1> QED
  BY <1>1, <1>2, <1>3, <1>4 DEF Run

LEMMA OthersKeepCopies == ASSUME CopyInv, [Next]_vars, ~Run PROVE CopyInv'
<1> USE DEF CopyInv, HasCopy, TempCopiesAccounted, lifeVars, endVars
<1>1. CASE \E s \in Sheets : Begin(s)
  BY <1>1 DEF Begin
<1>2. CASE LongLine \/ Shnsplit \/ ShnsplitFails \/ Kill
  BY <1>2 DEF LongLine, Shnsplit, OpenTrack, CloseTrack, ShnsplitSucceeds,
              ShnsplitFails, Kill
<1>3. CASE Exit
  BY <1>3 DEF Exit
<1>4. CASE Cancel \/ Shutdown \/ Restart \/ Stray
  BY <1>4 DEF Cancel, Shutdown, Restart, Stray, StrayOpens, StrayEnds
<1>5. CASE Stopped \/ UNCHANGED vars
  BY <1>5 DEF Stopped, vars
<1> QED
  BY <1>1, <1>2, <1>3, <1>4, <1>5 DEF Next

(* However runs end, there is at most one copy of a sheet for each time    *)
(* the server ended, and that of the run under way ("removed on every      *)
(* exit path", split.Run).                                                 *)
THEOREM CopiesAreRemoved == Spec => []TempCopiesAccounted
<1>1. Init => CopyInv
  BY DEF Init, CopyInv, HasCopy, TempCopiesAccounted
<1>2. CopyInv /\ [Next]_vars => CopyInv'
  BY RunKeepsCopies, OthersKeepCopies
<1>3. CopyInv => TempCopiesAccounted
  BY DEF CopyInv
<1> QED
  BY <1>1, <1>2, <1>3, PTL DEF Spec

-----------------------------------------------------------------------------
(* Types *)

(* What a step needs beyond the types: a file that is written is one of    *)
(* the sheet's, and there are only finitely many.                          *)
Shape ==
  /\ child # "none" => pc \in {"stream", "wait"}
  /\ pc # "idle" => sheet \in Sheets
  /\ child = "writing" => track <= Pieces[sheet]
  /\ IsFiniteSet(files)
  /\ IsFiniteSet(listed)

TypeInv == TypeOK /\ CopyInv /\ Shape

LEMMA NumbersOfSheets ==
  ASSUME NEW s \in Sheets
  PROVE  /\ Pieces[s] \in Nat \ {0}
         /\ TrackCount[s] \in Nat
         /\ TrackCount[s] <= Pieces[s]
         /\ FirstTrack(s) \in Nat
         /\ \A n \in 0..Pieces[s] : [n |-> n, sheet |-> s] \in File
<1>1. Pieces[s] \in Nat \ {0} /\ TrackCount[s] \in Nat /\ TrackCount[s] <= Pieces[s]
  BY SplitRunAssumption
<1>2. FirstTrack(s) \in Nat
  BY DEF FirstTrack
<1>3. \A n \in 0..Pieces[s] : n \in AllTracks
  BY DEF AllTracks
<1> QED
  BY <1>1, <1>2, <1>3 DEF File

LEMMA InitTypeInv == Init => TypeInv
<1> SUFFICES ASSUME Init PROVE TypeInv
  OBVIOUS
<1>1. CopyInv
  BY DEF Init, CopyInv, HasCopy, TempCopiesAccounted
<1>2. Shape
  BY FS_EmptySet DEF Init, Shape
<1>3. TypeOK
  <2>1. 0 \in 0..MaxRuns /\ 0 \in 0..MaxExits /\ 0 <= PipeCap
    BY SplitRunAssumption
  <2>2. tags \in [File -> SUBSET Tag]
    BY DEF Init
  <2>3. pipe \in Seq(File) /\ Len(pipe) = 0
    BY DEF Init
  <2> QED
    BY <2>1, <2>2, <2>3 DEF Init, TypeOK
<1> QED
  BY <1>1, <1>2, <1>3 DEF TypeInv

LEMMA RunKeepsTypes ==
  ASSUME TypeInv, Run
  PROVE  TypeOK' /\ Shape'
<1> USE DEF TypeInv, TypeOK, Shape, lifeVars, endVars, namesVars, dirVars, childVars
<1>0. IsFiniteSet({})
  BY FS_EmptySet
<1>1. sheet \in Sheets /\ pc # "idle"
  BY DEF Run, Prepare, Breakpoints, StartShnsplit, ReadLine, Reap, List, Untag,
         SetTags, AllTagged, RemovePregap, PregapsRemoved, Complete
<1>2. /\ Pieces[sheet] \in Nat \ {0}
      /\ TrackCount[sheet] \in Nat
      /\ FirstTrack(sheet) \in Nat
      /\ TotalSteps(sheet) \in Nat
  BY <1>1, NumbersOfSheets DEF TotalSteps
<1>3. temps' \in Nat
  BY RunKeepsCopies DEF CopyInv
<1>4. \A x \in Nat : Report(x) => progress' \in [current : Nat, total : Nat]
  BY <1>2 DEF Report
<1>5. CASE Prepare \/ Breakpoints
  <2>1. Shape'
    BY <1>0, <1>1, <1>5 DEF Prepare, Breakpoints, Return
  <2>2. CASE Prepare
    BY <1>1, <1>2, <1>3, <1>4, <2>1, <2>2 DEF Prepare, Return
  <2>3. CASE Breakpoints
    BY <1>1, <1>2, <1>3, <1>4, <2>1, <2>3 DEF Breakpoints, Return
  <2> QED
    BY <1>5, <2>2, <2>3
<1>6. CASE StartShnsplit
  <2>1. Shape'
    BY <1>0, <1>1, <1>6 DEF StartShnsplit, Return
  <2>2. pipe' \in Seq(File) /\ Len(pipe') <= PipeCap
    <3>1. pipe' = pipe \/ pipe' = <<>>
      BY <1>6 DEF StartShnsplit
    <3>2. <<>> \in Seq(File) /\ Len(<<>>) <= PipeCap
      BY SplitRunAssumption
    <3> QED
      BY <3>1, <3>2
  <2>3. TypeOK'
    BY <1>1, <1>2, <1>3, <1>6, <2>2 DEF StartShnsplit, Return
  <2> QED
    BY <2>1, <2>3
<1>7. CASE ReadLine
  <2>1. Least(steps + 1, TrackCount[sheet]) \in Nat
    BY <1>2 DEF Least
  <2>2. pipe' \in Seq(File) /\ Len(pipe') <= PipeCap
    BY <1>7, SplitRunAssumption DEF ReadLine
  <2> QED
    BY <1>1, <1>4, <1>7, <2>1, <2>2 DEF ReadLine
<1>8. CASE Reap
  <2>1. Shape'
    BY <1>0, <1>1, <1>8 DEF Reap, Return
  <2>2. TypeOK'
    BY <1>1, <1>2, <1>3, <1>4, <1>8 DEF Reap, Return
  <2> QED
    BY <2>1, <2>2
<1>9. CASE List
  <2>1. Shape'
    BY <1>0, <1>1, <1>9 DEF List, Return
  <2>2. TypeOK'
    BY <1>1, <1>2, <1>3, <1>4, <1>9 DEF List, Return
  <2> QED
    BY <2>1, <2>2
<1>10. Total \in Nat
  BY FS_Subset, FS_CardinalityType DEF Total, RealFiles
<1>11. CASE Untag
  <2>1. TrackCount[sheet] + TrackNum \in Nat
    BY <1>2 DEF TrackNum
  <2>2. tags' \in [File -> SUBSET Tag]
    BY <1>11 DEF Untag
  <2> QED
    BY <1>1, <1>4, <1>11, <2>1, <2>2 DEF Untag
<1>12. CASE SetTags
  <2>1. \A n \in {0} \union ({TrackNum} \intersect (1..Pieces[sheet])) :
          [n |-> n, sheet |-> sheet, total |-> Total] \in Tag
    BY <1>1, <1>2, <1>10 DEF Tag
  <2>2. tags' \in [File -> SUBSET Tag]
    BY <1>12, <2>1 DEF SetTags
  <2> QED
    BY <1>1, <1>12, <2>2 DEF SetTags
<1>13. CASE AllTagged \/ PregapsRemoved
  BY <1>1, <1>2, <1>4, <1>13 DEF AllTagged, PregapsRemoved
<1>14. CASE RemovePregap
  <2>1. PICK f \in listed :
          \/ Return("error") /\ UNCHANGED <<files, cut>>
          \/ /\ listed' = listed \ {f}
             /\ files' = files \ {f}
             /\ cut' = cut \ {f}
             /\ UNCHANGED <<pc, outcome, temps, tagged>>
    BY <1>14 DEF RemovePregap
  <2>2. IsFiniteSet(files') /\ IsFiniteSet(listed')
    <3>1. IsFiniteSet(files \ {f}) /\ IsFiniteSet(listed \ {f})
      BY FS_RemoveElement
    <3> QED
      BY <1>0, <2>1, <3>1 DEF Return
  <2>3. /\ files' \subseteq File /\ listed' \subseteq File /\ cut' \subseteq files'
        /\ pc' \in {"idle", "pregap"} /\ outcome' \in {"none", "done", "error"}
        /\ tagged' \in Nat
    BY <1>14, <2>1 DEF Return, RemovePregap
  <2> QED
    BY <1>1, <1>3, <1>14, <2>2, <2>3 DEF RemovePregap
<1>15. CASE Complete
  <2>1. Shape'
    BY <1>0, <1>1, <1>15 DEF Complete, Return
  <2>2. TypeOK'
    BY <1>1, <1>2, <1>3, <1>4, <1>15 DEF Complete, Return
  <2> QED
    BY <2>1, <2>2
<1> QED
  BY <1>5, <1>6, <1>7, <1>8, <1>9, <1>11, <1>12, <1>13, <1>14, <1>15 DEF Run

LEMMA ToolsKeepTypes ==
  ASSUME TypeInv, LongLine \/ Shnsplit \/ ShnsplitFails \/ Kill
  PROVE  TypeOK' /\ Shape'
<1> USE DEF TypeInv, TypeOK, Shape, lifeVars, endVars, namesVars, dirVars, childVars
<1>1. child # "none" /\ sheet \in Sheets
  BY DEF LongLine, Shnsplit, OpenTrack, CloseTrack, ShnsplitSucceeds,
         ShnsplitFails, Kill
<1>2. track <= Pieces[sheet] => Current \in File
  BY <1>1, NumbersOfSheets DEF Current
<1>3. CASE OpenTrack
  <2>1. tags' \in [File -> SUBSET Tag]
    BY <1>2, <1>3 DEF OpenTrack
  <2>2. IsFiniteSet(files')
    BY <1>3, FS_AddElement DEF OpenTrack
  <2> QED
    BY <1>1, <1>2, <1>3, <2>1, <2>2 DEF OpenTrack
<1>4. CASE CloseTrack
  <2>1. pipe' \in Seq(File) /\ Len(pipe') <= PipeCap
    BY <1>2, <1>4, SplitRunAssumption DEF CloseTrack
  <2>2. cut' \subseteq cut
    BY <1>4 DEF CloseTrack, Closed
  <2> QED
    BY <1>1, <1>4, <2>1, <2>2 DEF CloseTrack
<1>5. CASE LongLine \/ ShnsplitSucceeds \/ ShnsplitFails \/ Kill
  BY <1>1, <1>5 DEF LongLine, ShnsplitSucceeds, ShnsplitFails, Kill
<1> QED
  BY <1>3, <1>4, <1>5 DEF Shnsplit

LEMMA LifeKeepsTypes ==
  ASSUME TypeInv, [Next]_vars, ~Run, ~LongLine, ~Shnsplit, ~ShnsplitFails, ~Kill
  PROVE  TypeOK' /\ Shape'
<1> USE DEF TypeInv, TypeOK, Shape, lifeVars, endVars, namesVars, dirVars, childVars
<1>1. ASSUME NEW s \in Sheets, Begin(s) PROVE TypeOK' /\ Shape'
  BY <1>1, SplitRunAssumption DEF Begin
<1>2. CASE Cancel \/ Shutdown \/ Restart
  BY <1>2 DEF Cancel, Shutdown, Restart
<1>6. CASE Stopped \/ UNCHANGED vars
  BY <1>6 DEF Stopped, vars
<1>3. CASE Exit
  <2>1. exits' \in 0..MaxExits /\ exits' \in 1..MaxExits
    BY <1>3, SplitRunAssumption DEF Exit
  <2>2. stray' \in [1..MaxExits ->
                      [sheet : Sheets, n : Nat, writing : BOOLEAN] \union {NoStray}]
    BY <1>3, <2>1 DEF Exit
  <2>3. pipe' \in Seq(File) /\ Len(pipe') <= PipeCap
    BY <1>3, SplitRunAssumption DEF Exit
  <2>4. IsFiniteSet(listed')
    BY <1>3, FS_EmptySet DEF Exit
  <2> QED
    BY <1>3, <2>1, <2>2, <2>3, <2>4 DEF Exit
<1>4. ASSUME NEW e \in 1..MaxExits, StrayOpens(e) PROVE TypeOK' /\ Shape'
  <2>1. /\ stray[e] \in [sheet : Sheets, n : Nat, writing : BOOLEAN]
        /\ stray[e].n <= Pieces[stray[e].sheet]
    BY <1>4 DEF StrayOpens, Strays
  <2>2. StrayFile(e) \in File
    BY <2>1, NumbersOfSheets DEF StrayFile
  <2>3. stray' \in [1..MaxExits ->
                      [sheet : Sheets, n : Nat, writing : BOOLEAN] \union {NoStray}]
    BY <1>4, <2>1 DEF StrayOpens
  <2>4. tags' \in [File -> SUBSET Tag]
    BY <1>4, <2>2 DEF StrayOpens
  <2>5. IsFiniteSet(files')
    BY <1>4, FS_AddElement DEF StrayOpens
  <2> QED
    BY <1>4, <2>2, <2>3, <2>4, <2>5 DEF StrayOpens
<1>5. ASSUME NEW e \in 1..MaxExits, StrayEnds(e) PROVE TypeOK' /\ Shape'
  <2>1. cut' \subseteq cut
    BY <1>5 DEF StrayEnds, Closed
  <2>2. stray' \in [1..MaxExits ->
                      [sheet : Sheets, n : Nat, writing : BOOLEAN] \union {NoStray}]
    BY <1>5 DEF StrayEnds
  <2> QED
    BY <1>5, <2>1, <2>2 DEF StrayEnds
<1> QED
  BY <1>1, <1>2, <1>3, <1>4, <1>5, <1>6 DEF Next, Stray

LEMMA NextKeepsTypes == TypeInv /\ [Next]_vars => TypeInv'
<1> SUFFICES ASSUME TypeInv, [Next]_vars PROVE TypeInv'
  OBVIOUS
<1>1. CopyInv'
  BY RunKeepsCopies, OthersKeepCopies DEF TypeInv
<1>2. TypeOK' /\ Shape'
  BY RunKeepsTypes, ToolsKeepTypes, LifeKeepsTypes
<1> QED
  BY <1>1, <1>2 DEF TypeInv

(* The run, the tools and the server's process leave every variable in its *)
(* range: only files of the album's own sheets are written, and no more    *)
(* lines wait than the pipe holds.                                         *)
THEOREM RunTypeCorrect == Spec => []TypeOK
<1>1. Init => TypeInv
  BY InitTypeInv
<1>2. TypeInv /\ [Next]_vars => TypeInv'
  BY NextKeepsTypes
<1>3. TypeInv => TypeOK
  BY DEF TypeInv
<1> QED
  BY <1>1, <1>2, <1>3, PTL DEF Spec

-----------------------------------------------------------------------------
(* The files that are tagged *)

Opened(n) == [n |-> n, sheet |-> sheet] \in files

AlbumOpened == \A n \in 1..Pieces[sheet] : Opened(n)

Listed == {"untag", "tag", "pregap", "cover"}

(* shnsplit has opened the file of every track before the one it is on, no *)
(* later step but the removal of a pregap takes a file away, and what is   *)
(* listed of the rest is there.                                            *)
FilesInStep ==
  /\ \A f \in files \union listed : f.n <= Pieces[f.sheet]
  /\ child \in {"between", "writing"} => \A n \in 1..(track - 1) : Opened(n)
  /\ child = "writing" => Opened(track)
  /\ child = "ok" => AlbumOpened
  /\ pc \in Finishing => AlbumOpened
  /\ pc \in Listed => RealFiles \subseteq files /\ Album(sheet) \subseteq RealFiles

FilesInv == TypeInv /\ FilesInStep

LEMMA InitFilesInv == Init => FilesInv
<1> SUFFICES ASSUME Init PROVE FilesInv
  OBVIOUS
<1>1. FilesInStep
  BY DEF Init, FilesInStep, Finishing, Listed
<1> QED
  BY <1>1, InitTypeInv DEF FilesInv

LEMMA ToolsKeepFiles ==
  ASSUME FilesInv, Shnsplit \/ ShnsplitFails \/ Kill \/ LongLine
  PROVE  FilesInStep'
<1> USE DEF FilesInv, FilesInStep, Finishing, Listed
<1>1. /\ child # "none" /\ pc \in {"stream", "wait"}
      /\ sheet \in Sheets /\ Pieces[sheet] \in Nat /\ track \in Nat
      /\ UNCHANGED <<sheet, listed>>
      /\ pc' \in {"stream", "wait"}
  <2>1. child # "none"
    BY DEF LongLine, Shnsplit, OpenTrack, CloseTrack, ShnsplitSucceeds,
           ShnsplitFails, Kill
  <2>2. sheet \in Sheets /\ track \in Nat /\ pc \in {"stream", "wait"}
    BY <2>1 DEF TypeInv, TypeOK, Shape
  <2>3. UNCHANGED <<sheet, listed>> /\ (pc' = pc \/ pc' = "wait")
    BY DEF LongLine, Shnsplit, OpenTrack, CloseTrack, ShnsplitSucceeds,
           ShnsplitFails, Kill, endVars, namesVars
  <2> QED
    BY <2>1, <2>2, <2>3, SplitRunAssumption
<1>2. CASE OpenTrack
  <2>1. /\ child' = "writing" /\ child = "between" /\ track' = track
        /\ files' = files \union {Current} /\ track <= Pieces[sheet]
    BY <1>2 DEF OpenTrack
  <2>2. \A n : Opened(n) => Opened(n)'
    BY <1>1, <2>1 DEF Opened
  <2>3. Opened(track)'
    BY <1>1, <2>1 DEF Opened, Current
  <2>4. \A f \in files' \union listed' : f.n <= Pieces[f.sheet]
    BY <1>1, <2>1 DEF Current
  <2> QED
    BY <1>1, <2>1, <2>2, <2>3, <2>4
<1>3. CASE CloseTrack
  <2>1. /\ child' = "between" /\ child = "writing" /\ track' = track + 1
        /\ files' = files
    BY <1>3 DEF CloseTrack
  <2>2. \A n : Opened(n) => Opened(n)'
    BY <1>1, <2>1 DEF Opened
  <2>3. \A n \in 1..(track' - 1) : n = track \/ n \in 1..(track - 1)
    BY <1>1, <2>1
  <2>4. \A n \in 1..(track' - 1) : Opened(n)'
    BY <2>1, <2>2, <2>3
  <2> QED
    BY <1>1, <2>1, <2>4
<1>4. CASE ShnsplitSucceeds
  <2>1. /\ child' = "ok" /\ child = "between" /\ track > Pieces[sheet]
        /\ files' = files
    BY <1>4 DEF ShnsplitSucceeds, dirVars
  <2>2. AlbumOpened'
    BY <1>1, <2>1 DEF AlbumOpened, Opened
  <2> QED
    BY <1>1, <2>1, <2>2
<1>5. CASE ShnsplitFails \/ Kill
  <2>1. child' = "failed" /\ files' = files
    BY <1>5 DEF ShnsplitFails, Kill, dirVars
  <2> QED
    BY <1>1, <2>1
<1>6. CASE LongLine
  <2>1. UNCHANGED <<child, track, files>>
    BY <1>6 DEF LongLine, dirVars, childVars
  <2> QED
    BY <1>1, <2>1 DEF Opened, AlbumOpened
<1> QED
  BY <1>2, <1>3, <1>4, <1>5, <1>6 DEF Shnsplit

LEMMA RunKeepsFiles ==
  ASSUME FilesInv, Run
  PROVE  FilesInStep'
<1> USE DEF FilesInv, FilesInStep, Finishing, Listed
<1>1. sheet' = sheet /\ sheet \in Sheets /\ Pieces[sheet] \in Nat \ {0}
  <2>1. sheet' = sheet /\ pc # "idle"
    BY DEF Run, Prepare, Breakpoints, StartShnsplit, ReadLine, Reap, List, Untag,
           SetTags, AllTagged, RemovePregap, PregapsRemoved, Complete
  <2> QED
    BY <2>1, SplitRunAssumption DEF TypeInv, Shape
<1>2. CASE Prepare \/ Breakpoints \/ StartShnsplit
  <2>1. child = "none"
    BY <1>2 DEF TypeInv, Shape, Prepare, Breakpoints, StartShnsplit
  <2>2. /\ UNCHANGED files
        /\ listed' \in {listed, {}}
        /\ pc' \in {"idle", "breakpoints", "shnsplit", "stream"}
        /\ child' = "none" \/ (child' = "between" /\ track' = FirstTrack(sheet))
    BY <1>2, <2>1 DEF Prepare, Breakpoints, StartShnsplit, Return, endVars,
                      namesVars, dirVars, childVars
  <2>3. track' = FirstTrack(sheet) => \A n \in 1..(track' - 1) : FALSE
    <3>1. FirstTrack(sheet) = 0 \/ FirstTrack(sheet) = 1
      BY DEF FirstTrack
    <3>2. \A n \in 1..(0 - 1) : FALSE
      OBVIOUS
    <3>3. \A n \in 1..(1 - 1) : FALSE
      OBVIOUS
    <3> QED
      BY <3>1, <3>2, <3>3
  <2> QED
    BY <1>1, <2>2, <2>3
<1>3. CASE ReadLine
  BY <1>1, <1>3 DEF ReadLine, endVars, namesVars, dirVars, Opened, AlbumOpened
<1>4. CASE Reap
  <2>1. /\ UNCHANGED files /\ child' = "none" /\ listed' \in {listed, {}}
        /\ pc' = "idle" \/ (pc' = "list" /\ child = "ok")
    BY <1>4 DEF Reap, Return, endVars, namesVars, dirVars
  <2> QED
    BY <1>1, <2>1 DEF Opened, AlbumOpened
<1>5. CASE List \/ Untag \/ SetTags \/ AllTagged \/ PregapsRemoved \/ Complete
  <2>1. child = "none" /\ UNCHANGED <<files, child>> /\ AlbumOpened
    BY <1>5 DEF TypeInv, Shape, List, Untag, SetTags, AllTagged, PregapsRemoved,
                Complete, dirVars, childVars
  <2>2. \/ pc' = "idle" /\ listed' = {}
        \/ pc = "list" /\ pc' = "untag" /\ listed' = files
        \/ pc \in Listed /\ pc' \in Listed /\ listed' = listed
    BY <1>5 DEF List, Untag, SetTags, AllTagged, PregapsRemoved, Complete,
                Return, endVars, namesVars
  <2>3. Album(sheet) \subseteq {f \in files : ~IsPregap(f)}
    BY <1>1, <2>1 DEF AlbumOpened, Opened, Album, IsPregap
  <2>4. pc' \in Listed => RealFiles' \subseteq files' /\ Album(sheet)' \subseteq RealFiles'
    BY <1>1, <2>1, <2>2, <2>3 DEF RealFiles, Album
  <2>5. AlbumOpened'
    BY <1>1, <2>1 DEF AlbumOpened, Opened
  <2> QED
    BY <1>1, <2>1, <2>2, <2>4, <2>5
<1>6. CASE RemovePregap
  <2>1. PICK g \in listed :
          /\ IsPregap(g)
          /\ \/ pc' = "idle" /\ listed' = {} /\ files' = files
             \/ pc' = pc /\ listed' = listed \ {g} /\ files' = files \ {g}
    BY <1>6 DEF RemovePregap, Return
  <2>2. pc = "pregap" /\ child = "none" /\ child' = child
    BY <1>6 DEF RemovePregap, TypeInv, Shape, childVars
  <2>3. AlbumOpened'
    BY <1>1, <2>1, <2>2 DEF AlbumOpened, Opened, IsPregap
  <2>4. pc' = "pregap" => RealFiles' = RealFiles
    BY <2>1 DEF RealFiles
  <2>5. pc' = "pregap" =>
          RealFiles' \subseteq files' /\ Album(sheet)' \subseteq RealFiles'
    <3>1. RealFiles \subseteq files' /\ Album(sheet)' = Album(sheet)
      BY <1>1, <2>1, <2>2 DEF RealFiles, Album
    <3> QED
      BY <2>2, <2>4, <3>1
  <2> QED
    BY <1>1, <2>1, <2>2, <2>3, <2>5
<1> QED
  BY <1>2, <1>3, <1>4, <1>5, <1>6 DEF Run

LEMMA LifeKeepsFiles ==
  ASSUME FilesInv, [Next]_vars, ~Run, ~LongLine, ~Shnsplit, ~ShnsplitFails, ~Kill
  PROVE  FilesInStep'
<1> USE DEF FilesInv, FilesInStep, Finishing, Listed
<1>1. ASSUME NEW s \in Sheets, Begin(s) PROVE FilesInStep'
  BY <1>1 DEF Begin, namesVars, dirVars, childVars, TypeInv, Shape
<1>2. CASE Cancel \/ Shutdown \/ Restart \/ Stopped \/ UNCHANGED vars
  <2>1. UNCHANGED <<sheet, files, listed, child, track, pc>>
    BY <1>2 DEF Cancel, Shutdown, Restart, Stopped, vars, endVars, namesVars,
                dirVars, childVars
  <2> QED
    BY <2>1 DEF Opened, AlbumOpened, RealFiles, Album
<1>3. CASE Exit
  BY <1>3 DEF Exit, dirVars
<1>4. CASE Stray
  <2>1. UNCHANGED <<sheet, listed, child, track, pc>>
    BY <1>4 DEF Stray, StrayOpens, StrayEnds, endVars, namesVars, childVars
  <2>2. \/ files' = files
        \/ \E e \in 1..MaxExits :
             /\ files' = files \union {StrayFile(e)}
             /\ stray[e].n <= Pieces[stray[e].sheet]
    BY <1>4 DEF Stray, StrayOpens, StrayEnds
  <2>3. \A f \in files' \union listed' : f.n <= Pieces[f.sheet]
    BY <2>1, <2>2 DEF StrayFile
  <2> QED
    BY <2>1, <2>2, <2>3 DEF Opened, AlbumOpened, RealFiles, Album
<1> QED
  BY <1>1, <1>2, <1>3, <1>4 DEF Next

LEMMA NextKeepsFiles == FilesInv /\ [Next]_vars => FilesInv'
<1> SUFFICES ASSUME FilesInv, [Next]_vars PROVE FilesInv'
  OBVIOUS
<1>1. TypeInv'
  BY NextKeepsTypes DEF FilesInv
<1>2. FilesInStep'
  BY ToolsKeepFiles, RunKeepsFiles, LifeKeepsFiles
<1> QED
  BY <1>1, <1>2 DEF FilesInv


(* A run of consecutive tracks has as many files as tracks.                *)
LEMMA CountTracks ==
  ASSUME NEW s, NEW k \in Nat
  PROVE  Cardinality({[n |-> i, sheet |-> s] : i \in 1..k}) = k
<1> DEFINE S == {[n |-> i, sheet |-> s] : i \in 1..k}
           b == [i \in 1..k |-> [n |-> i, sheet |-> s]]
<1>1. b \in [1..k -> S]
  OBVIOUS
<1>2. \A i, j \in 1..k : b[i] = b[j] => i = j
  OBVIOUS
<1>3. \A f \in S : \E i \in 1..k : b[i] = f
  OBVIOUS
<1>4. b \in Bijection(1..k, S)
  BY <1>1, <1>2, <1>3 DEF Bijection, Injection, Surjection, IsInjective
<1> QED
  BY <1>4, FS_CountingElements DEF ExistsBijection

OwnOf(s) == \A f \in files : ~IsPregap(f) => f.sheet = s

(* While files are tagged in a directory of one album, they are the tracks *)
(* of that album, and the i-th of them is its track i.                     *)
LEMMA PlaceIsNumber ==
  ASSUME FilesInv, pc \in {"untag", "tag"}, NEW s \in Sheets, OwnOf(s)
  PROVE  /\ s = sheet
         /\ RealFiles = Album(sheet)
         /\ Total = Pieces[sheet]
         /\ \A f \in RealFiles : PlaceOf(f) = f.n
<1>1. /\ sheet \in Sheets
      /\ Pieces[sheet] \in Nat /\ Pieces[sheet] >= 1
      /\ RealFiles \subseteq files /\ files \subseteq File
      /\ Album(sheet) \subseteq RealFiles
      /\ \A f \in files : f.n <= Pieces[f.sheet]
  BY SplitRunAssumption DEF FilesInv, FilesInStep, TypeInv, TypeOK, Shape, Listed
<1>2. s = sheet
  <2>1. [n |-> 1, sheet |-> sheet] \in RealFiles
    BY <1>1 DEF Album
  <2> QED
    BY <1>1, <2>1 DEF OwnOf, RealFiles
<1>3. ASSUME NEW f \in RealFiles PROVE f \in Album(sheet)
  <2>1. f \in File /\ f.sheet = sheet /\ f.n # 0 /\ f.n <= Pieces[sheet]
    BY <1>1, <1>2 DEF OwnOf, RealFiles, IsPregap
  <2>2. f.n \in Nat /\ f = [n |-> f.n, sheet |-> f.sheet]
    BY <2>1, SplitRunAssumption DEF File, AllTracks
  <2> QED
    BY <1>1, <2>1, <2>2 DEF Album
<1>4. RealFiles = Album(sheet)
  BY <1>1, <1>3
<1>5. Total = Pieces[sheet]
  <2> DEFINE S == {[n |-> i, sheet |-> sheet] : i \in 1..Pieces[sheet]}
  <2>1. Album(sheet) = S
    <3>1. ASSUME NEW g \in Album(sheet) PROVE g \in S
      <4>1. g.n \in 1..Pieces[sheet] /\ g = [n |-> g.n, sheet |-> sheet]
        BY DEF Album
      <4> QED
        BY <4>1
    <3>2. ASSUME NEW g \in S PROVE g \in Album(sheet)
      BY DEF Album
    <3> QED
      BY <3>1, <3>2
  <2> QED
    BY <1>1, <1>4, <2>1, CountTracks DEF Total
<1>6. ASSUME NEW f \in RealFiles PROVE PlaceOf(f) = f.n
  <2>1. f \in Album(sheet)
    BY <1>4
  <2>2. f.n \in 1..Pieces[sheet] /\ f.sheet = sheet
    BY <2>1 DEF Album
  <2>3. {g \in RealFiles : Before(g, f)} = {[n |-> i, sheet |-> sheet] : i \in 1..(f.n - 1)}
    <3>1. \A g \in Album(sheet) : g.n \in 1..Pieces[sheet] /\ g.sheet = sheet
                                    /\ g = [n |-> g.n, sheet |-> sheet]
      BY DEF Album
    <3>2. sheet \in Nat
      BY <1>1, SplitRunAssumption
    <3>3. \A g \in Album(sheet) : Before(g, f) <=> g.n \in 1..(f.n - 1)
      BY <1>1, <2>2, <3>1, <3>2 DEF Before
    <3>4. \A i \in 1..(f.n - 1) : [n |-> i, sheet |-> sheet] \in Album(sheet)
      BY <1>1, <2>2 DEF Album
    <3> QED
      BY <1>4, <3>1, <3>3, <3>4
  <2>4. f.n - 1 \in Nat
    BY <1>1, <2>2
  <2>5. Cardinality({g \in RealFiles : Before(g, f)}) = f.n - 1
    BY <2>3, <2>4, CountTracks
  <2> QED
    BY <1>1, <2>2, <2>5 DEF PlaceOf
<1> QED
  BY <1>2, <1>4, <1>5, <1>6

GoodTags(f) ==
  \A t \in tags[f] :
    t.sheet = f.sheet /\ t.n \in {0, f.n} /\ t.total = Pieces[f.sheet]

(* Not only for the sheet under way: its run may be over, and a run of     *)
(* another sheet may have begun in the same directory, when the files that *)
(* were tagged are looked at.                                              *)
TagsInStep == \A s \in Sheets : OwnOf(s) => \A f \in files : GoodTags(f)

(* A directory that holds the tracks of one album after a step held no     *)
(* others before it.                                                       *)
LEMMA OwnBefore ==
  ASSUME [Next]_vars, NEW s, OwnOf(s)'
  PROVE  OwnOf(s)
<1>1. \A f \in files : f \in files' \/ IsPregap(f)
  BY DEF Next, Run, Shnsplit, Begin, Prepare, Breakpoints, StartShnsplit, ReadLine,
         Reap, List, Untag, SetTags, AllTagged, RemovePregap, PregapsRemoved,
         Complete, LongLine, OpenTrack, CloseTrack, ShnsplitSucceeds,
         ShnsplitFails, Kill, Cancel, Shutdown, Exit, Restart, Stray, StrayOpens,
         StrayEnds, Stopped, vars, dirVars
<1> QED
  BY <1>1 DEF OwnOf

LEMMA SetTagsKeepsTags ==
  ASSUME FilesInv, TagsInStep, SetTags
  PROVE  TagsInStep'
<1> SUFFICES ASSUME NEW s \in Sheets, OwnOf(s)', NEW f \in files'
             PROVE  GoodTags(f)'
  BY DEF TagsInStep
<1>1. files' = files /\ pc = "tag"
  BY DEF SetTags
<1>2. GoodTags(f) /\ OwnOf(s)
  BY <1>1 DEF TagsInStep, OwnOf
<1>3. CASE tags'[f] = tags[f]
  BY <1>2, <1>3 DEF GoodTags
<1>4. CASE tags'[f] # tags[f]
  <2>1. tags \in [File -> SUBSET Tag]
    BY DEF FilesInv, TypeInv, TypeOK
  <2>2. PICK g \in File, n \in {0} \union ({TrackNum} \intersect (1..Pieces[sheet])) :
          /\ IsNext(g)
          /\ tags' = [tags EXCEPT ![g] =
                        @ \union {[n |-> n, sheet |-> sheet, total |-> Total]}]
    BY <1>4 DEF SetTags
  <2>3. g = f
    BY <1>4, <2>1, <2>2
  <2>4. tags'[f] = tags[f] \union {[n |-> n, sheet |-> sheet, total |-> Total]}
    BY <2>1, <2>2, <2>3
  <2>5. f \in RealFiles /\ PlaceOf(f) = TrackNum
    BY <2>2, <2>3 DEF IsNext
  <2>6. f.n = TrackNum /\ f.sheet = sheet /\ Total = Pieces[sheet]
    <3>1. /\ s = sheet /\ Total = Pieces[sheet] /\ RealFiles = Album(sheet)
          /\ PlaceOf(f) = f.n
      BY <1>1, <1>2, <2>5, PlaceIsNumber
    <3> QED
      BY <2>5, <3>1 DEF Album
  <2> QED
    BY <1>2, <2>2, <2>4, <2>6 DEF GoodTags
<1> QED
  BY <1>3, <1>4

LEMMA NextKeepsTags ==
  ASSUME FilesInv, TagsInStep, [Next]_vars
  PROVE  TagsInStep'
<1>1. CASE SetTags
  BY <1>1, SetTagsKeepsTags
<1>2. CASE ~SetTags
  <2> SUFFICES ASSUME NEW s \in Sheets, OwnOf(s)', NEW f \in files'
               PROVE  GoodTags(f)'
    BY DEF TagsInStep
  <2>1. \A g \in files : GoodTags(g)
    BY OwnBefore DEF TagsInStep
  <2>2. tags \in [File -> SUBSET Tag] /\ files' \subseteq File
    BY NextKeepsTypes DEF FilesInv, TypeInv, TypeOK
  <2>3. tags'[f] = {} \/ (f \in files /\ tags'[f] = tags[f])
    <3>1. CASE OpenTrack \/ (\E e \in 1..MaxExits : StrayOpens(e))
      BY <2>2, <3>1 DEF OpenTrack, StrayOpens
    <3>2. CASE Untag
      <4>1. files' = files
        BY <3>2 DEF Untag
      <4>2. tags' = tags \/ \E g \in File : tags' = [tags EXCEPT ![g] = {}]
        BY <3>2 DEF Untag
      <4> QED
        BY <2>2, <4>1, <4>2
    <3>3. CASE ~OpenTrack /\ ~(\E e \in 1..MaxExits : StrayOpens(e)) /\ ~Untag
      <4>1. tags' = tags /\ files' \subseteq files
        BY <1>2, <3>3
        DEF Next, Run, Shnsplit, Begin, Prepare, Breakpoints, StartShnsplit,
            ReadLine, Reap, List, AllTagged, RemovePregap, PregapsRemoved, Complete,
            LongLine, CloseTrack, ShnsplitSucceeds, ShnsplitFails, Kill, Cancel,
            Shutdown, Exit, Restart, Stray, StrayEnds, Stopped, vars, dirVars
      <4> QED
        BY <4>1
    <3> QED
      BY <3>1, <3>2, <3>3
  <2> QED
    BY <2>1, <2>3 DEF GoodTags
<1> QED
  BY <1>1, <1>2

TagsInv == FilesInv /\ TagsInStep

(* In a directory that holds the tracks of one album, every one of them    *)
(* has its own title and the right total, however many runs, failures and  *)
(* ends of the server came before: the place by which finishSplit counts a *)
(* file is the number by which shnsplit named it.                          *)
THEOREM TracksKeepTheirTags == Spec => []TagsMatchTracks
<1>1. Init => TagsInv
  BY InitFilesInv DEF Init, TagsInv, TagsInStep
<1>2. TagsInv /\ [Next]_vars => TagsInv'
  BY NextKeepsFiles, NextKeepsTags DEF TagsInv
<1>3. TagsInv => TagsMatchTracks
  <2> SUFFICES ASSUME TagsInv, OnlyOwnTracks, NEW f \in files
               PROVE  GoodTags(f)
    BY DEF TagsMatchTracks, GoodTags
  <2>1. CASE sheet \in Sheets
    BY <2>1 DEF TagsInv, TagsInStep, OwnOf, OnlyOwnTracks
  <2>2. CASE sheet \notin Sheets
    <3>1. f \in File
      BY DEF TagsInv, FilesInv, TypeInv, TypeOK
    <3>2. IsPregap(f) \/ f.sheet = sheet
      BY DEF OnlyOwnTracks
    <3>3. \A g \in files : IsPregap(g)
      BY <2>2 DEF OnlyOwnTracks, TagsInv, FilesInv, TypeInv, TypeOK, File
    <3>4. f.sheet \in Sheets
      BY <3>1 DEF File
    <3>5. OwnOf(f.sheet)
      BY <3>3 DEF OwnOf
    <3> QED
      BY <3>4, <3>5 DEF TagsInv, TagsInStep
  <2> QED
    BY <2>1, <2>2
<1> QED
  BY <1>1, <1>2, <1>3, PTL DEF Spec

-----------------------------------------------------------------------------
(* The progress of a run *)

(* What was reported last, at each place of Run: one step for each line    *)
(* read, up to the tracks of the sheet, then one for each file tagged.     *)
ProgressInStep ==
  /\ pc \notin {"idle", "prepare"} => progress.total = TotalSteps(sheet)
  /\ pc \in {"prepare", "breakpoints", "shnsplit"} => progress.current = 0
  /\ pc = "stream" => progress.current = Least(steps, TrackCount[sheet])
  /\ pc = "wait" => progress.current <= TrackCount[sheet]
  /\ pc = "list" => progress.current = TrackCount[sheet]
  /\ pc = "untag" => tagged <= Total /\ progress.current = TrackCount[sheet] + tagged
  /\ pc = "tag" => TrackNum <= Total /\ progress.current = TrackCount[sheet] + TrackNum
  /\ pc \in {"pregap", "cover"} => progress.current = TotalSteps(sheet)
  /\ pc = "idle" => progress.current <= progress.total

ProgressInv == FilesInv /\ ProgressInStep

(* The arithmetic of the steps of Run on which all of it rests.            *)
LEMMA SheetSteps ==
  ASSUME FilesInv, sheet \in Sheets
  PROVE  /\ TrackCount[sheet] \in Nat
         /\ TotalSteps(sheet) = TrackCount[sheet] + TrackCount[sheet]
         /\ progress \in [current : Nat, total : Nat]
         /\ steps \in Nat /\ tagged \in Nat /\ Total \in Nat
<1>1. TrackCount[sheet] \in Nat
  BY SplitRunAssumption
<1>2. IsFiniteSet(RealFiles)
  BY FS_Subset DEF FilesInv, TypeInv, Shape, RealFiles
<1>3. Total \in Nat
  BY <1>2, FS_CardinalityType DEF Total
<1> QED
  BY <1>1, <1>3 DEF TotalSteps, FilesInv, TypeInv, TypeOK

LEMMA RunKeepsProgress ==
  ASSUME ProgressInv, Run
  PROVE  ProgressInStep'
<1>1. sheet \in Sheets
  BY DEF ProgressInv, FilesInv, TypeInv, Shape, Run, Prepare, Breakpoints,
         StartShnsplit, ReadLine, Reap, List, Untag, SetTags, AllTagged, RemovePregap,
         PregapsRemoved, Complete
<1>2. /\ TrackCount[sheet] \in Nat
      /\ TotalSteps(sheet) = TrackCount[sheet] + TrackCount[sheet]
      /\ progress \in [current : Nat, total : Nat]
      /\ steps \in Nat /\ tagged \in Nat /\ Total \in Nat
  BY <1>1, SheetSteps DEF ProgressInv
<1>3. sheet' = sheet
  BY DEF Run, Prepare, Breakpoints, StartShnsplit, ReadLine, Reap, List, Untag,
         SetTags, AllTagged, RemovePregap, PregapsRemoved, Complete
<1>4. CASE Prepare
  BY <1>2, <1>3, <1>4 DEF ProgressInv, ProgressInStep, Prepare, Report, Return, TotalSteps
<1>5. CASE Breakpoints
  BY <1>2, <1>3, <1>5
  DEF ProgressInv, ProgressInStep, Breakpoints, Report, Return, TotalSteps, endVars
<1>6. CASE StartShnsplit
  BY <1>2, <1>3, <1>6
  DEF ProgressInv, ProgressInStep, StartShnsplit, Return, TotalSteps, Least, endVars
<1>7. CASE ReadLine
  BY <1>2, <1>3, <1>7 DEF ProgressInv, ProgressInStep, ReadLine, Report, TotalSteps
<1>8. CASE Reap
  BY <1>2, <1>3, <1>8
  DEF ProgressInv, ProgressInStep, Reap, Report, Return, TotalSteps, Least, endVars
<1>9. CASE List
  <2>1. CASE Return("error")
    BY <1>2, <1>3, <1>9, <2>1 DEF ProgressInv, ProgressInStep, List, Return, TotalSteps
  <2>2. CASE pc' = "untag" /\ listed' = files /\ tagged' = 0
    <3>1. IsFiniteSet(RealFiles')
      <4>1. RealFiles' \subseteq files
        BY <2>2 DEF RealFiles
      <4> QED
        BY <4>1, FS_Subset DEF ProgressInv, FilesInv, TypeInv, Shape
    <3>2. Total' \in Nat
      BY <3>1, FS_CardinalityType DEF Total
    <3> QED
      BY <1>2, <1>3, <1>9, <2>2, <3>2 DEF ProgressInv, ProgressInStep, List, TotalSteps
  <2> QED
    BY <1>9, <2>1, <2>2 DEF List
<1>10. CASE Untag
  BY <1>2, <1>3, <1>10
  DEF ProgressInv, ProgressInStep, Untag, Report, TotalSteps, TrackNum, Total,
      RealFiles, endVars, namesVars
<1>11. CASE SetTags
  BY <1>2, <1>3, <1>11
  DEF ProgressInv, ProgressInStep, SetTags, TotalSteps, TrackNum, Total, RealFiles
<1>12. CASE AllTagged
  BY <1>2, <1>3, <1>12 DEF ProgressInv, ProgressInStep, AllTagged, Report, TotalSteps
<1>13. CASE RemovePregap \/ PregapsRemoved
  BY <1>2, <1>3, <1>13
  DEF ProgressInv, ProgressInStep, RemovePregap, PregapsRemoved, Return, TotalSteps
<1>14. CASE Complete
  BY <1>2, <1>3, <1>14 DEF ProgressInv, ProgressInStep, Complete, Report, Return, TotalSteps
<1> QED
  BY <1>4, <1>5, <1>6, <1>7, <1>8, <1>9, <1>10, <1>11, <1>12, <1>13, <1>14 DEF Run

(* The tools and the life of the server's process report nothing, but for  *)
(* the run that is begun and the end of the process.                       *)
LEMMA NextKeepsProgress ==
  ASSUME ProgressInv, [Next]_vars
  PROVE  ProgressInStep'
<1>1. CASE Run
  BY <1>1, RunKeepsProgress
<1>2. CASE \E s \in Sheets : Begin(s)
  BY <1>2 DEF Begin, ProgressInStep
<1>3. CASE LongLine
  <2>1. sheet \in Sheets
    BY <1>3 DEF ProgressInv, FilesInv, TypeInv, Shape, LongLine
  <2>2. TrackCount[sheet] \in Nat /\ steps \in Nat
    BY <2>1, SheetSteps DEF ProgressInv
  <2> QED
    BY <1>3, <2>2 DEF ProgressInv, ProgressInStep, LongLine, Least, TotalSteps
<1>4. CASE Exit
  BY <1>4 DEF Exit, ProgressInStep
<1>5. CASE ~Run /\ ~(\E s \in Sheets : Begin(s)) /\ ~LongLine /\ ~Exit
  <2>1. UNCHANGED <<pc, progress, sheet, steps, listed, tagged>>
    BY <1>5
    DEF Next, Shnsplit, OpenTrack, CloseTrack, ShnsplitSucceeds, ShnsplitFails,
        Kill, Cancel, Shutdown, Restart, Stray, StrayOpens, StrayEnds, Stopped,
        vars, endVars, namesVars
  <2> QED
    BY <2>1 DEF ProgressInv, ProgressInStep, TotalSteps, Total, RealFiles, TrackNum
<1> QED
  BY <1>1, <1>2, <1>3, <1>4, <1>5

LEMMA ProgressIsInvariant == Spec => []ProgressInv
<1>1. Init => ProgressInv
  BY InitFilesInv DEF Init, ProgressInv, ProgressInStep
<1>2. ProgressInv /\ [Next]_vars => ProgressInv'
  BY NextKeepsFiles, NextKeepsProgress DEF ProgressInv
<1> QED
  BY <1>1, <1>2, PTL DEF Spec

(* In a directory of its own there are as many files to tag as the album   *)
(* has tracks, if it has only audio ones.                                  *)
LEMMA TaggingHalf ==
  ASSUME FilesInv, OnlyOwnTracks, AudioOnly, pc \in {"untag", "tag"}
  PROVE  Total = TrackCount[sheet]
<1>1. sheet \in Sheets
  BY DEF FilesInv, TypeInv, Shape
<1>2. OwnOf(sheet)
  BY DEF OwnOf, OnlyOwnTracks
<1>3. Total = Pieces[sheet]
  BY <1>1, <1>2, PlaceIsNumber
<1> QED
  BY <1>1, <1>3, SplitRunAssumption DEF AudioOnly

(* While shnsplit runs, its lines never take the progress beyond the half  *)
(* of the split, however many it writes; and in a directory of its own no  *)
(* report is beyond the total.                                             *)
THEOREM ProgressStaysWithin == Spec => []ProgressWithinTotal
<1>1. ProgressInv => ProgressWithinTotal
  <2> SUFFICES ASSUME ProgressInv PROVE ProgressWithinTotal
    OBVIOUS
  <2>1. ASSUME child # "none" PROVE progress.current <= TrackCount[sheet]
    <3>1. pc \in {"stream", "wait"} /\ sheet \in Sheets
      BY <2>1 DEF ProgressInv, FilesInv, TypeInv, Shape
    <3>2. TrackCount[sheet] \in Nat /\ steps \in Nat
      BY <3>1, SheetSteps DEF ProgressInv
    <3> QED
      BY <3>1, <3>2 DEF ProgressInv, ProgressInStep, Least
  <2>2. ASSUME OnlyOwnTracks, AudioOnly PROVE progress.current <= progress.total
    <3>1. CASE pc = "idle"
      BY <3>1 DEF ProgressInv, ProgressInStep
    <3>2. CASE pc = "prepare"
      BY <3>2 DEF ProgressInv, ProgressInStep, FilesInv, TypeInv, TypeOK
    <3>3. CASE pc \notin {"idle", "prepare"}
      <4>1. sheet \in Sheets
        BY <3>3 DEF ProgressInv, FilesInv, TypeInv, Shape
      <4>2. /\ TrackCount[sheet] \in Nat
            /\ TotalSteps(sheet) = TrackCount[sheet] + TrackCount[sheet]
            /\ steps \in Nat /\ tagged \in Nat /\ Total \in Nat
            /\ progress.total = TotalSteps(sheet) /\ progress.current \in Nat
        BY <3>3, <4>1, SheetSteps DEF ProgressInv, ProgressInStep
      <4>3. pc \in {"untag", "tag"} => Total = TrackCount[sheet]
        BY <2>2, TaggingHalf DEF ProgressInv
      <4>4. pc \in {"breakpoints", "shnsplit", "stream", "wait", "list", "untag",
                    "tag", "pregap", "cover"}
        BY <3>3 DEF ProgressInv, FilesInv, TypeInv, TypeOK
      <4> QED
        BY <3>3, <4>2, <4>3, <4>4 DEF ProgressInv, ProgressInStep, Least, TrackNum
    <3> QED
      BY <3>1, <3>2, <3>3
  <2> QED
    BY <2>1, <2>2 DEF ProgressWithinTotal
<1> QED
  BY <1>1, ProgressIsInvariant, PTL

(* No report of a run is behind the one before it: neither a line read     *)
(* late, nor the step from the lines of shnsplit to the tagged files, nor  *)
(* the last report, in a directory of its own.                             *)
THEOREM ProgressNeverGoesBack == Spec => ProgressMovesForward
<1>1. ASSUME ProgressInv, [Next]_vars,
             OnlyOwnTracks, AudioOnly, runs' = runs, exits' = exits
      PROVE  progress'.current >= progress.current
  <2>1. progress \in [current : Nat, total : Nat] /\ runs \in Nat /\ exits \in Nat
    BY <1>1, SplitRunAssumption DEF ProgressInv, FilesInv, TypeInv, TypeOK
  <2>2. CASE progress' = progress
    BY <2>1, <2>2
  <2>3. CASE progress' # progress
    <3>1. Run
      BY <1>1, <2>1, <2>3
      DEF Next, Begin, LongLine, Shnsplit, OpenTrack, CloseTrack, ShnsplitSucceeds,
          ShnsplitFails, Kill, Cancel, Shutdown, Exit, Restart, Stray, StrayOpens,
          StrayEnds, Stopped, vars
    <3>2. sheet \in Sheets
      BY <1>1, <3>1
      DEF ProgressInv, FilesInv, TypeInv, Shape, Run, Prepare, Breakpoints,
          StartShnsplit, ReadLine, Reap, List, Untag, SetTags, AllTagged,
          RemovePregap, PregapsRemoved, Complete
    <3>3. /\ TrackCount[sheet] \in Nat
          /\ TotalSteps(sheet) = TrackCount[sheet] + TrackCount[sheet]
          /\ steps \in Nat /\ tagged \in Nat /\ Total \in Nat
      BY <1>1, <3>2, SheetSteps DEF ProgressInv
    <3>4. CASE Prepare \/ Breakpoints
      BY <1>1, <2>3, <3>4 DEF Prepare, Breakpoints, Report, ProgressInv, ProgressInStep
    <3>5. CASE ReadLine
      BY <1>1, <3>3, <3>5 DEF ReadLine, Report, ProgressInv, ProgressInStep, Least
    <3>6. CASE Reap
      BY <1>1, <2>3, <3>3, <3>6 DEF Reap, Report, ProgressInv, ProgressInStep, Least
    <3>7. CASE Untag
      BY <1>1, <3>3, <3>7 DEF Untag, Report, ProgressInv, ProgressInStep, TrackNum
    <3>8. CASE AllTagged
      <4>1. Total = TrackCount[sheet]
        BY <1>1, <3>8, TaggingHalf DEF ProgressInv, AllTagged
      <4> QED
        BY <1>1, <3>3, <3>8, <4>1 DEF AllTagged, Report, ProgressInv, ProgressInStep
    <3>9. CASE Complete
      BY <1>1, <2>3, <3>3, <3>9 DEF Complete, Report, ProgressInv, ProgressInStep
    <3>10. CASE StartShnsplit \/ List \/ SetTags \/ RemovePregap \/ PregapsRemoved
      BY <2>3, <3>10 DEF StartShnsplit, List, SetTags, RemovePregap, PregapsRemoved
    <3> QED
      BY <3>1, <3>4, <3>5, <3>6, <3>7, <3>8, <3>9, <3>10 DEF Run
  <2> QED
    BY <2>2, <2>3
<1>2. ProgressInv /\ [Next]_vars =>
        [OnlyOwnTracks /\ AudioOnly /\ runs' = runs /\ exits' = exits =>
           progress'.current >= progress.current]_vars
  BY <1>1
<1> QED
  BY <1>2, ProgressIsInvariant, PTL DEF Spec, ProgressMovesForward

=============================================================================
