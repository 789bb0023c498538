----------------------------- MODULE RequestPaths -----------------------------
(***************************************************************************)
(* The paths of a request: what the handlers make of a scan-relative       *)
(* directory and a file name before anything is read.  A path is the       *)
(* sequence of what stands between its slashes, so that "" stands for two  *)
(* slashes in a row, for a trailing one, and in first place for the root.  *)
(* Paths of the file system are clean, absolute, and begin below the root. *)
(***************************************************************************)
EXTENDS Naturals, Sequences, SequencesExt

CONSTANTS
  Tree,        \* of each path that exists: its real path, and what it is
  InputDir,
  OutputDir,
  Refused

(* What stands between two slashes.                                       *)
Component == STRING

ASSUME RootsAssumption ==
  /\ InputDir \in DOMAIN Tree
  /\ InputDir \in Seq(Component)
  /\ OutputDir \in Seq(Component)
  /\ \A p \in DOMAIN Tree : Tree[p].kind \in {"dir", "file"}

-----------------------------------------------------------------------------
(* path/filepath *)

IsAbs(p) == Len(p) > 1 /\ p[1] = ""

(* Components that lead nowhere.                                           *)
Idle == {"", "."}

(* ".." takes back a component, or stays where there is none to take back; *)
(* nothing lies above the root.                                            *)
CleanStep(done, c, rooted) ==
  IF c \in Idle \/ (c = ".." /\ done = <<>> /\ rooted) THEN done
  ELSE IF c = ".." /\ done # <<>> /\ Last(done) # ".." THEN Front(done)
  ELSE Append(done, c)

(* Where a path leads from a directory, one component after the other.     *)
Follow(from, p, rooted) ==
  LET done[k \in 0..Len(p)] ==
        IF k = 0 THEN from ELSE CleanStep(done[k - 1], p[k], rooted)
  IN  done[Len(p)]

(* Clean, of a relative path.                                              *)
Clean(p) ==
  LET done == Follow(<<>>, p, FALSE)
  IN  IF done = <<>> THEN <<".">> ELSE done

(* Join, of an absolute directory and a name.                              *)
Join(dir, p) == Follow(dir, p, TRUE)

(* os.Stat: whether a path leads to a file.                                *)
IsFile(path) == path \in DOMAIN Tree /\ Tree[path].kind = "file"

-----------------------------------------------------------------------------
(* Mutant: only absolute paths are turned down.                            *)
ScanRelPathAnyDots(p) == IF IsAbs(p) THEN Refused ELSE Clean(p)

(* The cleaned path, unless it is absolute or leads out of its root.       *)
ScanRelPath(p) ==
  IF IsAbs(p) \/ Head(Clean(p)) = ".." THEN Refused ELSE Clean(p)

(* The real path lies in the real input directory.                         *)
ContainedRealPath(path) ==
  path \in DOMAIN Tree /\ IsPrefix(Tree[InputDir].real, Tree[path].real)

JobID(path, cueFile) == path \o cueFile

(* A segment that a server or a browser takes out of a URL path.           *)
Dots == Idle \union {".."}

(* The mux answers a path with such a segment by a redirect.               *)
StandsInURL(id) == \A k \in DOMAIN id : id[k] \notin Dots

=============================================================================
