------------------------------ MODULE MCSplitRun ------------------------------
(***************************************************************************)
(* Instances of SplitRun for TLC: sheets of one directory, the second with *)
(* two tracks and a pregap, the first with one track, or with one that the *)
(* tools see and the parser does not.  Their titles sort in either order   *)
(* for the same track number as the runs begin them in either order.       *)
(***************************************************************************)
EXTENDS SplitRun

MCPieces == [s \in Sheets |-> IF s \in WithPregap THEN 2 ELSE 1]

(* All tracks are audio tracks, or the single one of sheet 1 is not.       *)
AllAudio == MCPieces

DataTrack == [MCPieces EXCEPT ![1] = 0]

=============================================================================
