----------------------------- MODULE LibraryScan -----------------------------
(***************************************************************************)
(* scan.FindPairs: one walk of the input directory, while directories,     *)
(* their contents and the split output change under it.  A directory is    *)
(* read twice: by the callback, which looks for albums, and afterwards by  *)
(* filepath.WalkDir, which goes on to what lies below it and calls the     *)
(* callback once more if that read fails.  An action is a look at the      *)
(* disk and what the walk does with the answer; reading one sheet and      *)
(* looking for the file it names are one action.                           *)
(***************************************************************************)
EXTENDS LogBuffer, CueSource, SequencesExt

CONSTANTS
  Dirs,        \* the directories of the input root
  Root,
  Children,    \* of each directory, those in it, in directory order
  PathOrder,   \* where each directory comes when sorted by relative path
  Contents,    \* of each directory, what it may hold
  MaxOutput,   \* bound: .flac files in an output directory
  MaxChanges   \* bound: directories that change during the scan

ASSUME LibraryAssumption ==
  /\ Root \in Dirs
  /\ Children \in [Dirs -> Seq(Dirs)]
  /\ PathOrder \in [Dirs -> Nat]
  /\ \A d \in Dirs : Contents[d] \subseteq
       [cues : Seq(Sheet), place : [Names -> Place]]
  /\ MaxOutput \in Nat
  /\ MaxChanges \in Nat

Parent(d, e) == \E k \in DOMAIN Children[d] : Children[d][k] = e

(* The directories d lies in, itself included.                             *)
Above(d) ==
  {e \in Dirs : \E path \in SeqOf(Dirs, Cardinality(Dirs)) :
     /\ path # <<>>
     /\ Head(path) = e
     /\ Last(path) = d
     /\ \A k \in 1..(Len(path) - 1) : Parent(path[k], path[k + 1])}

(* WalkDir follows no symbolic link, so what it walks is a finite tree:    *)
(* every directory lies in the root, and each but the root is listed once, *)
(* in one directory.  The root is taken to be a directory too: WalkDir     *)
(* does not follow a link there either, and a root that is one is walked   *)
(* as an empty library (!d.IsDir()).                                       *)
ASSUME TreeAssumption ==
  /\ IsFiniteSet(Dirs)
  /\ \A d \in Dirs : Root \in Above(d) /\ ~Parent(d, Root)
  /\ \A d, e \in Dirs :
       \A k \in DOMAIN Children[d], l \in DOMAIN Children[e] :
         Children[d][k] = Children[e][l] => d = e /\ k = l

VARIABLES
  readable,    \* the directories that can be listed
  content,     \* of each, its CUE sheets, in order, and where names lead
  output,      \* of each, the .flac files in its output directory
  changed,     \* auxiliary: the directories that changed during the scan
  pc,          \* where the walk is
  todo,        \* the directories still to visit, the current one first
  unchecked,   \* the CUE sheets of the current one still to be checked
  valid,       \* those that passed
  reject,      \* the verdict of the first that did not
  walked,      \* dirsWalked
  skipped,
  pairs,       \* results
  log,
  outcome,     \* what FindPairs returns
  reports,     \* auxiliary: what was said of each directory, in order
  failed       \* auxiliary: the directories of which a look failed

disk == <<readable, content, output, changed>>
cueVars == <<unchecked, valid, reject>>
found == <<walked, skipped, pairs, log, outcome, reports, failed>>
vars == <<disk, pc, todo, cueVars, found>>

Pair == [dir : Dirs, cues : Seq(Nat), done : BOOLEAN, tracks : Nat]

TypeOK ==
  /\ readable \subseteq Dirs
  /\ \A d \in Dirs : content[d] \in Contents[d]
  /\ output \in [Dirs -> 0..MaxOutput]
  /\ changed \subseteq Dirs
  /\ pc \in {"start", "visit", "check", "enter", "ended"}
  /\ todo \in Seq(Dirs)
  /\ unchecked \in Seq(Nat)
  /\ valid \in Seq(Nat)
  /\ reject \in Verdicts
  /\ walked \in 0..Cardinality(Dirs)
  /\ skipped \in Nat
  /\ pairs \in Seq(Pair)
  /\ log \in Buffer
  /\ outcome \in {"none", "ok", "error"}
  /\ reports \in [Dirs -> Seq({"pair", "rejected", "unreadable", "lost"})]
  /\ failed \subseteq Dirs

Init ==
  /\ readable \in SUBSET Dirs
  /\ content \in {c \in [Dirs -> UNION {Contents[d] : d \in Dirs}] :
                    \A d \in Dirs : c[d] \in Contents[d]}
  /\ output \in [Dirs -> 0..MaxOutput]
  /\ changed = {}
  /\ pc = "start"
  /\ todo = <<>>
  /\ unchecked = <<>>
  /\ valid = <<>>
  /\ reject = "ok"
  /\ walked = 0
  /\ skipped = 0
  /\ pairs = <<>>
  /\ log = NewBuffer
  /\ outcome = "none"
  /\ reports = [d \in Dirs |-> <<>>]
  /\ failed = {}

Here == Head(todo)

Reported(what) == reports' = [reports EXCEPT ![Here] = Append(@, what)]

LookFails ==
  /\ Here \notin readable
  /\ failed' = failed \union {Here}

Begin ==
  /\ pc = "start"
  /\ log' = Add(log, "info")
  /\ todo' = <<Root>>
  /\ pc' = "visit"
  /\ UNCHANGED <<disk, cueVars, walked, skipped, pairs, outcome, reports,
                 failed>>

-----------------------------------------------------------------------------
(* The callback *)

Visit ==
  /\ pc = "visit"
  /\ todo # <<>>
  /\ Here \in readable
  /\ walked' = walked + 1
  /\ unchecked' = [k \in 1..Len(content[Here].cues) |-> k]
  /\ valid' = <<>>
  /\ reject' = "ok"
  /\ pc' = IF unchecked' = <<>> THEN "enter" ELSE "check"
  /\ UNCHANGED <<disk, todo, skipped, pairs, log, outcome, reports,
                 failed>>

(* Mutant: an unreadable root is skipped like any other directory.         *)
SkipAny(how) ==
  /\ Reported(how)
  /\ log' = Add(log, "warn")
  /\ skipped' = skipped + 1
  /\ pc' = "visit"
  /\ UNCHANGED outcome

(* Only the root is fatal.                                                 *)
Skip(how) ==
  /\ Reported(how)
  /\ IF Here = Root
       THEN /\ outcome' = "error"
            /\ pc' = "ended"
            /\ UNCHANGED <<log, skipped>>
       ELSE /\ log' = Add(log, "warn")
            /\ skipped' = skipped + 1
            /\ pc' = "visit"
            /\ UNCHANGED outcome

(* Mutant: the callback returns nil, so that the walk reads the directory  *)
(* again, fails, and calls the callback once more.                         *)
VisitUnreadableNil ==
  /\ pc = "visit"
  /\ todo # <<>>
  /\ LookFails
  /\ walked' = walked + 1
  /\ Reported("unreadable")
  /\ log' = Add(log, "warn")
  /\ skipped' = skipped + 1
  /\ pc' = "enter"
  /\ UNCHANGED <<disk, todo, cueVars, pairs, outcome>>

(* SkipDir: the walk does not read the directory again.                    *)
VisitUnreadable ==
  /\ pc = "visit"
  /\ todo # <<>>
  /\ LookFails
  /\ walked' = walked + 1
  /\ Skip("unreadable")
  /\ todo' = Tail(todo)
  /\ UNCHANGED <<disk, cueVars, pairs>>

Gone == [readable |-> FALSE, files |-> <<>>, tracks |-> 0]

(* What reading the k-th sheet that was listed may give by now: in a       *)
(* directory that can no longer be listed the files may be gone or not.    *)
Reads(k) ==
  IF k \notin DOMAIN content[Here].cues THEN {Gone}
  ELSE {content[Here].cues[k]} \union (IF Here \in readable THEN {} ELSE {Gone})

CheckSheet ==
  /\ pc = "check"
  /\ unchecked # <<>>
  /\ \E sheet \in Reads(Head(unchecked)) :
       LET verdict == CheckSourceFLAC(sheet, content[Here].place)
       IN  IF verdict = "ok"
             THEN /\ valid' = Append(valid, Head(unchecked))
                  /\ UNCHANGED reject
             ELSE /\ reject' = IF reject = "ok" THEN verdict ELSE reject
                  /\ UNCHANGED valid
  /\ unchecked' = Tail(unchecked)
  /\ UNCHANGED <<disk, pc, todo, found>>

RejectLevel(verdict) ==
  IF verdict \in {"multi-file", "not FLAC/WAV"} THEN "info" ELSE "warn"

(* Mutant: nothing below an album that is turned down is visited.          *)
RejectAlbumSkipDir ==
  /\ pc = "check"
  /\ unchecked = <<>>
  /\ valid = <<>>
  /\ log' = Add(log, RejectLevel(reject))
  /\ skipped' = skipped + 1
  /\ Reported("rejected")
  /\ todo' = Tail(todo)
  /\ pc' = "visit"
  /\ UNCHANGED <<disk, cueVars, walked, pairs, outcome, failed>>

RejectAlbum ==
  /\ pc = "check"
  /\ unchecked = <<>>
  /\ valid = <<>>
  /\ log' = Add(log, RejectLevel(reject))
  /\ skipped' = skipped + 1
  /\ Reported("rejected")
  /\ pc' = "enter"
  /\ UNCHANGED <<disk, todo, cueVars, walked, pairs, outcome, failed>>

(* CheckOutputStatus reads the first valid sheet once more.                *)
SplitDone(d, tracks) == output[d] > 0 /\ output[d] >= tracks /\ tracks > 0

AddPair ==
  /\ pc = "check"
  /\ unchecked = <<>>
  /\ valid # <<>>
  /\ \E first \in Reads(Head(valid)) :
       pairs' = Append(pairs,
         [dir    |-> Here,
          cues   |-> valid,
          done   |-> SplitDone(Here, first.tracks),
          tracks |-> output[Here]])
  /\ Reported("pair")
  /\ pc' = "enter"
  /\ UNCHANGED <<disk, todo, cueVars, walked, skipped, log, outcome, failed>>

-----------------------------------------------------------------------------
(* filepath.WalkDir after the callback *)

Enter ==
  /\ pc = "enter"
  /\ Here \in readable
  /\ todo' = Children[Here] \o Tail(todo)
  /\ pc' = "visit"
  /\ UNCHANGED <<disk, cueVars, found>>

(* Mutant: a directory that could not be read is tried again.              *)
EnterRetrying ==
  /\ pc = "enter"
  /\ LookFails
  /\ pc' = "visit"
  /\ UNCHANGED <<disk, todo, cueVars, walked, skipped, pairs, log, outcome,
                 reports>>

(* What was read before the failure is still walked.                       *)
EnterFails ==
  /\ pc = "enter"
  /\ LookFails
  /\ Skip("lost")
  /\ \E k \in 0..Len(Children[Here]) :
       todo' = SubSeq(Children[Here], 1, k) \o Tail(todo)
  /\ UNCHANGED <<disk, cueVars, walked, pairs>>

(* sort.Slice puts the pairs in some order in which no path comes before a *)
(* smaller one.                                                            *)
Finish ==
  /\ pc = "visit"
  /\ todo = <<>>
  /\ \E order \in Bijection(DOMAIN pairs, DOMAIN pairs) :
       /\ pairs' = [i \in DOMAIN pairs |-> pairs[order[i]]]
       /\ \A i, j \in DOMAIN pairs :
            i < j => PathOrder[pairs'[i].dir] <= PathOrder[pairs'[j].dir]
  /\ log' = Add(log, "info")
  /\ outcome' = "ok"
  /\ pc' = "ended"
  /\ UNCHANGED <<disk, todo, cueVars, walked, skipped, reports, failed>>

FindPairs ==
  \/ Begin
  \/ Visit
  \/ VisitUnreadable
  \/ CheckSheet
  \/ RejectAlbum
  \/ AddPair
  \/ Enter
  \/ EnterFails
  \/ Finish

-----------------------------------------------------------------------------
(* What else goes on: users change the library, a split adds its tracks.   *)

Change(d) ==
  /\ pc \notin {"start", "ended"}
  /\ d \notin changed
  /\ Cardinality(changed) < MaxChanges
  /\ changed' = changed \union {d}
  /\ \/ /\ readable' = (readable \ {d}) \union ({d} \ readable)
        /\ UNCHANGED <<content, output>>
     \/ /\ \E c \in Contents[d] \ {content[d]} : content' = [content EXCEPT ![d] = c]
        /\ UNCHANGED <<readable, output>>
     \/ /\ output[d] < MaxOutput
        /\ output' = [output EXCEPT ![d] = @ + 1]
        /\ UNCHANGED <<readable, content>>
  /\ UNCHANGED <<pc, todo, cueVars, found>>

(* One scan is all there is to see.                                        *)
Stopped ==
  /\ pc = "ended"
  /\ UNCHANGED vars

Next ==
  \/ FindPairs
  \/ \E d \in Dirs : Change(d)
  \/ Stopped

Spec == Init /\ [][Next]_vars

-----------------------------------------------------------------------------
(* What an undisturbed scan says of a readable directory.                  *)
Expected(c) ==
  IF c.cues = <<>> THEN <<>>
  ELSE IF \E k \in DOMAIN c.cues : CheckSourceFLAC(c.cues[k], c.place) = "ok"
         THEN <<"pair">>
         ELSE <<"rejected">>

(* One directory that cannot be read, or that comes and goes, costs what   *)
(* lies in it and nothing else: a successful scan reports every directory  *)
(* that stood still, all the way up to the root, exactly once and as what  *)
(* it is, reports one that cannot be read as that, and nothing below it.   *)
StillDirectoriesReported ==
  outcome = "ok" =>
    \A d \in Dirs : Above(d) \intersect changed = {} =>
      reports[d] = IF Above(d) \subseteq readable THEN Expected(content[d])
                   ELSE IF Above(d) \ {d} \subseteq readable THEN <<"unreadable">>
                   ELSE <<>>

(* Only the root can fail the scan, and a root of which a look fails       *)
(* always does, be it the callback's or the walk's own that comes after    *)
(* it, the root having been lost in between: "a broken bind mount" is not  *)
(* rendered "as an empty library".                                         *)
OnlyRootIsFatal == outcome = "error" <=> Root \in failed

Reports(what) ==
  {at \in Dirs \X (1..2) :
     at[2] \in DOMAIN reports[at[1]] /\ reports[at[1]][at[2]] = what}

(* The summary, the items and the log agree: every album has its item,     *)
(* every directory skipped is counted and has had its line between the     *)
(* first and the last.  Of those lines the log that is returned has the    *)
(* newest LogCap only, under their own numbers: it ends with the summary,  *)
(* and with many rejections it is not "a log of every rejected directory"  *)
(* (scan.go), since the opening line and the first of them are gone.  A    *)
(* directory is reported twice only if it was there for the callback and   *)
(* gone for the walk: SkipDir keeps an unreadable one from being counted   *)
(* again.                                                                  *)
SummaryAgrees ==
  outcome = "ok" =>
    /\ \A d \in Dirs :
         \/ Len(reports[d]) <= 1
         \/ reports[d] \in {<<"pair", "lost">>, <<"rejected", "lost">>}
    /\ skipped = Cardinality(Reports("rejected") \union Reports("unreadable")
                               \union Reports("lost"))
    /\ Len(pairs) = Cardinality(Reports("pair"))
    /\ LET lines == skipped + 2
            kept == Len(log.entries)
       IN  /\ kept = IF lines <= LogCap THEN lines ELSE LogCap
           /\ \A k \in 1..kept : log.entries[k].seq = lines - kept + k - 1
           /\ log.entries[kept].level = "info"

(* An album the scan offers can be split as offered while its directory    *)
(* stays as it was: the split resolves every sheet of it to the very file  *)
(* the sheet names, and the file lies in the album's directory ("scan      *)
(* eligibility never accepts an album [that] later preview/split           *)
(* resolution would reject", cue.CheckSourceFLAC).                         *)
OfferedAlbumsResolve ==
  \A i \in DOMAIN pairs : pairs[i].dir \notin changed =>
    LET c == content[pairs[i].dir]
    IN  \A k \in DOMAIN pairs[i].cues :
          LET s == c.cues[pairs[i].cues[k]]
          IN  /\ SourceFLAC(s, c.place) = s.files[1]
              /\ c.place[s.files[1]] \in {"here", "below"}

=============================================================================
