------------------------------ MODULE CueSource ------------------------------
(***************************************************************************)
(* internal/cue: from a CUE sheet to the audio file it cuts.  The scan     *)
(* asks CheckSourceFLAC whether a sheet belongs to an unsplit album; the   *)
(* preview and the split ask SourceFLAC for the file.  Both are functions  *)
(* of the sheet and of what the album's directory holds at that moment.    *)
(*                                                                         *)
(* A name is what a FILE reference may say.  What a directory makes of it  *)
(* is its place: a file of the directory, a file further down, one that is *)
(* reached but really lies elsewhere ("..", or a symbolic link), or none   *)
(* (a directory counts as none).                                           *)
(***************************************************************************)
EXTENDS Naturals, Sequences, FiniteSetsExt

CONSTANTS
  Names,      \* the names, as numbers in directory order
  Audio,      \* those that end in .flac or .wav
  NoSource

ASSUME NamesAssumption ==
  /\ Names \subseteq Nat
  /\ Audio \subseteq Names
  /\ NoSource \notin Names

Place == {"here", "below", "elsewhere", "none"}

(* A sheet that can be read has FILE references and tracks.                *)
Sheet == [readable : BOOLEAN, files : Seq(Names), tracks : Nat]

(* Mutant: the real path is not looked at.                                 *)
Exists(n, place) == place[n] # "none"

(* containedFile *)
Contained(n, place) == place[n] \in {"here", "below"}

Verdicts == {"ok", "cue unreadable", "no FILE reference", "multi-file",
             "not FLAC/WAV", "source missing"}

FileVerdict(n, place) ==
  CASE n \notin Audio                           -> "not FLAC/WAV"
    [] n \in Audio /\ ~Contained(n, place)      -> "source missing"
    [] n \in Audio /\ Contained(n, place)       -> "ok"

CheckSourceFLAC(s, place) ==
  CASE ~s.readable                              -> "cue unreadable"
    [] s.readable /\ Len(s.files) = 0           -> "no FILE reference"
    [] s.readable /\ Len(s.files) > 1           -> "multi-file"
    [] s.readable /\ Len(s.files) = 1           -> FileVerdict(s.files[1], place)

(* The file the sheet names first, or the directory's first audio file.    *)
SourceFLAC(s, place) ==
  LET inDir == {n \in Audio : place[n] = "here"}
  IN  IF s.files # <<>> /\ Contained(s.files[1], place) THEN s.files[1]
      ELSE IF inDir # {} THEN Min(inDir)
      ELSE NoSource

=============================================================================
