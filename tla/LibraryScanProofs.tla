-------------------------- MODULE LibraryScanProofs --------------------------
(***************************************************************************)
(* Every safety property of a scan, for every tree of directories, all     *)
(* they may hold, and any number of changes under the walk: it fails       *)
(* exactly if a look of the root does; the albums it offers can be split   *)
(* as offered; what stands still is reported as what it is; and the        *)
(* summary counts what was reported.                                       *)
(***************************************************************************)
EXTENDS LibraryScan, LogBufferProofs, SequenceTheorems, WellFoundedInduction,
        TLAPS

Walking == pc \in {"visit", "check", "enter"}

(* A look of the root has failed exactly if the scan has.                  *)
RootInv ==
  /\ pc \in {"start", "visit", "check", "enter", "ended"}
  /\ pc # "ended" => outcome = "none"
  /\ OnlyRootIsFatal

LEMMA InitRootInv == Init => RootInv
BY DEF Init, RootInv, OnlyRootIsFatal

(* What the walk does when it can see what it looks at.                    *)
LEMMA LookingKeepsRoot ==
  ASSUME RootInv, Begin \/ Visit \/ CheckSheet \/ RejectAlbum \/ AddPair \/ Enter
  PROVE  RootInv'
<1>1. UNCHANGED <<outcome, failed>>
  BY DEF Begin, Visit, CheckSheet, RejectAlbum, AddPair, Enter, found
<1>2. pc' \in {"visit", "check", "enter"} /\ pc # "ended"
  BY DEF Begin, Visit, CheckSheet, RejectAlbum, AddPair, Enter
<1> QED
  BY <1>1, <1>2 DEF RootInv, OnlyRootIsFatal

(* Whichever look fails, the scan fails at once if it was one of the root. *)
LEMMA SkipKeepsRoot ==
  ASSUME RootInv, VisitUnreadable \/ EnterFails
  PROVE  RootInv'
<1>1. Walking /\ outcome = "none" /\ Root \notin failed
  BY DEF VisitUnreadable, EnterFails, Walking, RootInv, OnlyRootIsFatal
<1>2. failed' = failed \union {Here}
  BY DEF VisitUnreadable, EnterFails, LookFails
<1>3. \/ Here = Root /\ outcome' = "error" /\ pc' = "ended"
      \/ Here # Root /\ outcome' = outcome /\ pc' = "visit"
  BY DEF VisitUnreadable, EnterFails, Skip
<1> QED
  BY <1>1, <1>2, <1>3 DEF RootInv, OnlyRootIsFatal

LEMMA FinishKeepsRoot ==
  ASSUME RootInv, Finish
  PROVE  RootInv'
<1>1. pc # "ended" /\ pc' = "ended" /\ outcome' = "ok" /\ UNCHANGED failed
  BY DEF Finish
<1> QED
  BY <1>1 DEF RootInv, OnlyRootIsFatal

LEMMA ChangeKeepsRoot ==
  ASSUME RootInv, (\E d \in Dirs : Change(d)) \/ Stopped \/ UNCHANGED vars
  PROVE  RootInv'
<1>1. UNCHANGED <<pc, outcome, failed>>
  BY DEF Change, Stopped, vars, found
<1> QED
  BY <1>1 DEF RootInv, OnlyRootIsFatal

LEMMA NextKeepsRoot == RootInv /\ [Next]_vars => RootInv'
BY LookingKeepsRoot, SkipKeepsRoot, FinishKeepsRoot, ChangeKeepsRoot
DEF Next, FindPairs

(* A scan fails exactly if a look of the root failed, the callback's or    *)
(* the walk's own after it, whatever changes under the walk, the root      *)
(* included (FindPairs).                                                   *)
THEOREM OnlyTheRootIsFatal == Spec => []OnlyRootIsFatal
<1>1. Init => RootInv
  BY InitRootInv
<1>2. RootInv /\ [Next]_vars => RootInv'
  BY NextKeepsRoot
<1>3. RootInv => OnlyRootIsFatal
  BY DEF RootInv
<1> QED
  BY <1>1, <1>2, <1>3, PTL DEF Spec

-----------------------------------------------------------------------------
(* What is offered can be split *)

Content == [cues : Seq(Sheet), place : [Names -> Place]]

(* What the proof needs to know of the types.                              *)
ScanTypeOK ==
  /\ content \in [Dirs -> Content]
  /\ output \in [Dirs -> Nat]
  /\ todo \in Seq(Dirs)
  /\ unchecked \in Seq(Nat)
  /\ valid \in Seq(Nat)
  /\ pairs \in Seq(Pair)

Resolves(c, k) ==
  /\ SourceFLAC(c.cues[k], c.place) = c.cues[k].files[1]
  /\ c.place[c.cues[k].files[1]] \in {"here", "below"}

(* The sheets that have passed so far resolve, as those of the albums do.  *)
ValidResolve ==
  pc = "check" /\ Here \notin changed =>
    \A k \in DOMAIN valid : Resolves(content[Here], valid[k])

OfferInv ==
  /\ ScanTypeOK
  /\ pc \in {"check", "enter"} => todo # <<>>
  /\ ValidResolve
  /\ OfferedAlbumsResolve

(* The split's rules find the file by which the scan accepted the sheet.   *)
LEMMA AcceptedResolves ==
  ASSUME NEW s \in Sheet, NEW place, CheckSourceFLAC(s, place) = "ok"
  PROVE  /\ s.files # <<>>
         /\ SourceFLAC(s, place) = s.files[1]
         /\ place[s.files[1]] \in {"here", "below"}
<1> DEFINE n == Len(s.files)
<1>1. s.readable \in BOOLEAN /\ n \in Nat /\ (s.files = <<>> <=> n = 0)
  BY EmptySeq DEF Sheet
<1>2. s.readable /\ n = 1 /\ FileVerdict(s.files[1], place) = "ok"
  <2> HIDE DEF n
  <2>1. (CASE ~s.readable         -> "cue unreadable"
           [] s.readable /\ n = 0 -> "no FILE reference"
           [] s.readable /\ n > 1 -> "multi-file"
           [] s.readable /\ n = 1 -> FileVerdict(s.files[1], place)) = "ok"
    BY Zenon DEF CheckSourceFLAC, n
  <2>2. n = 0 \/ n > 1 \/ n = 1
    BY <1>1
  <2> QED
    BY <1>1, <2>1, <2>2
<1>3. Contained(s.files[1], place)
  BY <1>2, Zenon DEF FileVerdict
<1> QED
  BY <1>1, <1>2, <1>3 DEF SourceFLAC, Contained

LEMMA InitOfferInv == Init => OfferInv
<1> SUFFICES ASSUME Init PROVE OfferInv
  OBVIOUS
<1>1. content \in [Dirs -> Content]
  <2>1. /\ content \in [Dirs -> UNION {Contents[d] : d \in Dirs}]
        /\ \A d \in Dirs : content[d] \in Contents[d]
    BY DEF Init
  <2>2. \A d \in Dirs : content[d] \in Content
    BY <2>1, LibraryAssumption DEF Content
  <2> QED
    BY <2>1, <2>2
<1>2. output \in [Dirs -> Nat]
  BY LibraryAssumption DEF Init
<1>3. pc = "start" /\ todo = <<>> /\ unchecked = <<>> /\ valid = <<>> /\ pairs = <<>>
  BY DEF Init
<1> QED
  BY <1>1, <1>2, <1>3 DEF OfferInv, ScanTypeOK, ValidResolve, OfferedAlbumsResolve

(* The directory the walk is at has its sheets checked one by one.         *)
LEMMA CheckKeepsOffer ==
  ASSUME OfferInv, CheckSheet
  PROVE  OfferInv'
<1>1. /\ UNCHANGED <<content, output, changed, todo, pairs, pc>>
      /\ pc = "check" /\ unchecked # <<>> /\ unchecked' = Tail(unchecked)
      /\ todo # <<>>
  BY DEF CheckSheet, disk, found, OfferInv
<1>2. PICK sheet \in Reads(Head(unchecked)) :
        \/ /\ CheckSourceFLAC(sheet, content[Here].place) = "ok"
           /\ valid' = Append(valid, Head(unchecked))
        \/ valid' = valid
  BY DEF CheckSheet
<1>3. Head(unchecked) \in Nat /\ unchecked' \in Seq(Nat)
  BY <1>1 DEF OfferInv, ScanTypeOK
<1>4. Here \in Dirs /\ content[Here] \in Content
  BY <1>1 DEF OfferInv, ScanTypeOK, Here
<1>5. ASSUME CheckSourceFLAC(sheet, content[Here].place) = "ok"
      PROVE  Resolves(content[Here], Head(unchecked))
  <2>1. sheet # Gone
    BY <1>5 DEF Gone, CheckSourceFLAC
  <2>2. /\ Head(unchecked) \in DOMAIN content[Here].cues
        /\ sheet = content[Here].cues[Head(unchecked)]
    BY <1>2, <2>1 DEF Reads
  <2>3. sheet \in Sheet
    BY <1>4, <2>2 DEF Content
  <2> QED
    BY <1>5, <2>2, <2>3, AcceptedResolves DEF Resolves
<1>6. valid' \in Seq(Nat)
  <2>1. valid \in Seq(Nat)
    BY DEF OfferInv, ScanTypeOK
  <2>2. Append(valid, Head(unchecked)) \in Seq(Nat)
    BY <1>3, <2>1
  <2> QED
    BY <1>2, <2>1, <2>2
<1>7. ValidResolve'
  <2> SUFFICES ASSUME Here \notin changed, NEW k \in DOMAIN valid'
               PROVE  Resolves(content[Here], valid'[k])
    BY <1>1 DEF ValidResolve, Here, Resolves
  <2>1. \A j \in DOMAIN valid : Resolves(content[Here], valid[j])
    BY <1>1 DEF OfferInv, ValidResolve
  <2>2. CASE valid' = valid
    BY <2>1, <2>2
  <2>3. CASE CheckSourceFLAC(sheet, content[Here].place) = "ok"
             /\ valid' = Append(valid, Head(unchecked))
    <3>1. valid \in Seq(Nat)
      BY DEF OfferInv, ScanTypeOK
    <3>2. valid'[k] = Head(unchecked) \/ (k \in DOMAIN valid /\ valid'[k] = valid[k])
      BY <1>3, <2>3, <3>1
    <3> QED
      BY <1>5, <2>1, <2>3, <3>2
  <2> QED
    BY <1>2, <2>2, <2>3
<1> QED
  BY <1>1, <1>3, <1>6, <1>7 DEF OfferInv, ScanTypeOK, OfferedAlbumsResolve

LEMMA AddPairKeepsOffer ==
  ASSUME OfferInv, AddPair
  PROVE  OfferInv'
<1>1. /\ UNCHANGED <<content, output, changed, todo, unchecked, valid>>
      /\ pc = "check" /\ pc' = "enter"
      /\ todo # <<>>
  BY DEF AddPair, disk, cueVars, OfferInv
<1>2. Here \in Dirs /\ output[Here] \in Nat /\ valid \in Seq(Nat)
  BY <1>1 DEF OfferInv, ScanTypeOK, Here
<1>3. PICK p \in Pair : pairs' = Append(pairs, p) /\ p.dir = Here /\ p.cues = valid
  <2>1. PICK first \in Reads(Head(valid)) :
          pairs' = Append(pairs,
            [dir    |-> Here,
             cues   |-> valid,
             done   |-> SplitDone(Here, first.tracks),
             tracks |-> output[Here]])
    BY DEF AddPair
  <2>2. SplitDone(Here, first.tracks) \in BOOLEAN
    BY DEF SplitDone
  <2> DEFINE done == SplitDone(Here, first.tracks)
             p == [dir |-> Here, cues |-> valid, done |-> done, tracks |-> output[Here]]
  <2> HIDE DEF done
  <2>3. p \in Pair /\ p.dir = Here /\ p.cues = valid
    BY <1>2, <2>2 DEF Pair, done
  <2>4. pairs' = Append(pairs, p)
    BY <2>1 DEF done
  <2> QED
    BY <2>3, <2>4
<1>4. pairs \in Seq(Pair) /\ pairs' \in Seq(Pair)
  BY <1>3 DEF OfferInv, ScanTypeOK
<1>5. \A i \in DOMAIN pairs' : pairs'[i] = p \/ (i \in DOMAIN pairs /\ pairs'[i] = pairs[i])
  BY <1>3, <1>4
<1>6. p.dir \notin changed =>
        \A k \in DOMAIN p.cues : Resolves(content[p.dir], p.cues[k])
  BY <1>1, <1>3 DEF OfferInv, ValidResolve
<1>7. OfferedAlbumsResolve'
  <2> SUFFICES ASSUME NEW i \in DOMAIN pairs', pairs'[i].dir \notin changed
               PROVE  \A k \in DOMAIN pairs'[i].cues :
                        Resolves(content[pairs'[i].dir], pairs'[i].cues[k])
    BY <1>1 DEF OfferedAlbumsResolve, Resolves
  <2>1. CASE pairs'[i] = p
    BY <1>6, <2>1
  <2>2. CASE i \in DOMAIN pairs /\ pairs'[i] = pairs[i]
    BY <2>2 DEF OfferInv, OfferedAlbumsResolve, Resolves
  <2> QED
    BY <1>5, <2>1, <2>2
<1> QED
  BY <1>1, <1>4, <1>7 DEF OfferInv, ScanTypeOK, ValidResolve

LEMMA FinishKeepsOffer ==
  ASSUME OfferInv, Finish
  PROVE  OfferInv'
<1>1. UNCHANGED <<content, output, changed, todo, unchecked, valid>> /\ pc' = "ended"
  BY DEF Finish, disk, cueVars
<1>2. PICK order \in [DOMAIN pairs -> DOMAIN pairs] :
        pairs' = [i \in DOMAIN pairs |-> pairs[order[i]]]
  BY DEF Finish, Bijection, Injection
<1>3. pairs \in Seq(Pair)
  BY DEF OfferInv, ScanTypeOK
<1>4. pairs' \in Seq(Pair)
  BY <1>2, <1>3
<1>5. \A i \in DOMAIN pairs' : \E j \in DOMAIN pairs : pairs'[i] = pairs[j]
  BY <1>2
<1>6. OfferedAlbumsResolve'
  <2> SUFFICES ASSUME NEW i \in DOMAIN pairs', pairs'[i].dir \notin changed
               PROVE  \A k \in DOMAIN pairs'[i].cues :
                        Resolves(content[pairs'[i].dir], pairs'[i].cues[k])
    BY <1>1 DEF OfferedAlbumsResolve, Resolves
  <2>1. PICK j \in DOMAIN pairs : pairs'[i] = pairs[j]
    BY <1>5
  <2>2. \A k \in DOMAIN pairs[j].cues : Resolves(content[pairs[j].dir], pairs[j].cues[k])
    BY <2>1 DEF OfferInv, OfferedAlbumsResolve, Resolves
  <2> QED
    BY <2>1, <2>2
<1> QED
  BY <1>1, <1>4, <1>6 DEF OfferInv, ScanTypeOK, ValidResolve

LEMMA WalkKeepsOffer ==
  ASSUME OfferInv,
         Begin \/ Visit \/ VisitUnreadable \/ RejectAlbum \/ Enter \/ EnterFails
  PROVE  OfferInv'
<1>1. UNCHANGED <<content, output, changed, pairs>>
  BY DEF Begin, Visit, VisitUnreadable, RejectAlbum, Enter, EnterFails, disk, found
<1>2. OfferedAlbumsResolve'
  BY <1>1 DEF OfferInv, OfferedAlbumsResolve
<1>3. CASE Begin
  BY <1>1, <1>2, <1>3, LibraryAssumption
  DEF OfferInv, ScanTypeOK, ValidResolve, Begin, cueVars
<1>4. CASE Visit
  <2>1. /\ todo' = todo /\ todo # <<>>
        /\ valid' = <<>>
        /\ unchecked' = [k \in 1..Len(content[Here].cues) |-> k]
    BY <1>4 DEF Visit
  <2>2. Here \in Dirs
    BY <2>1 DEF OfferInv, ScanTypeOK, Here
  <2>3. Len(content[Here].cues) \in Nat
    BY <2>2 DEF OfferInv, ScanTypeOK, Content
  <2>4. unchecked' \in Seq(Nat)
    BY <2>1, <2>3
  <2> QED
    BY <1>1, <1>2, <2>1, <2>4 DEF OfferInv, ScanTypeOK, ValidResolve
<1>5. CASE RejectAlbum
  BY <1>1, <1>2, <1>5 DEF OfferInv, ScanTypeOK, ValidResolve, RejectAlbum, cueVars
<1>6. CASE VisitUnreadable \/ Enter \/ EnterFails
  <2>1. UNCHANGED cueVars /\ pc' \in {"visit", "ended"}
    BY <1>6 DEF VisitUnreadable, Enter, EnterFails, Skip
  <2>2. todo' \in Seq(Dirs)
    <3>1. todo \in Seq(Dirs)
      BY DEF OfferInv, ScanTypeOK
    <3>2. CASE VisitUnreadable
      BY <3>1, <3>2 DEF VisitUnreadable
    <3>3. CASE Enter \/ EnterFails
      <4>1. Tail(todo) \in Seq(Dirs) /\ Here \in Dirs
        <5>1. todo # <<>>
          BY <3>3 DEF OfferInv, Enter, EnterFails
        <5> QED
          BY <3>1, <5>1 DEF Here
      <4>2. Children[Here] \in Seq(Dirs)
        BY <4>1, LibraryAssumption
      <4>3. \A k \in 0..Len(Children[Here]) : SubSeq(Children[Here], 1, k) \in Seq(Dirs)
        BY <4>2
      <4> QED
        <5>1. \/ todo' = Children[Here] \o Tail(todo)
              \/ \E k \in 0..Len(Children[Here]) :
                   todo' = SubSeq(Children[Here], 1, k) \o Tail(todo)
          BY <3>3 DEF Enter, EnterFails
        <5>2. QED
          <6>1. \A a \in Seq(Dirs) : a \o Tail(todo) \in Seq(Dirs)
            BY <4>1
          <6> QED
            BY <4>2, <4>3, <5>1, <6>1
    <3> QED
      BY <1>6, <3>2, <3>3
  <2> QED
    BY <1>1, <1>2, <2>1, <2>2 DEF OfferInv, ScanTypeOK, ValidResolve, cueVars
<1> QED
  BY <1>3, <1>4, <1>5, <1>6

LEMMA ChangeKeepsOffer ==
  ASSUME OfferInv, (\E d \in Dirs : Change(d)) \/ Stopped \/ UNCHANGED vars
  PROVE  OfferInv'
<1>1. CASE Stopped \/ UNCHANGED vars
  <2>1. UNCHANGED vars
    BY <1>1 DEF Stopped
  <2> QED
    BY <2>1 DEF vars, disk, cueVars, found, OfferInv, ScanTypeOK, ValidResolve,
                Here, OfferedAlbumsResolve, Resolves
<1>2. ASSUME NEW d \in Dirs, Change(d) PROVE OfferInv'
  <2>1. /\ UNCHANGED <<pc, todo, unchecked, valid, pairs>>
        /\ changed' = changed \union {d}
    BY <1>2 DEF Change, cueVars, found
  <2>2. content \in [Dirs -> Content] /\ output \in [Dirs -> Nat]
    BY DEF OfferInv, ScanTypeOK
  <2>3. /\ content' \in [Dirs -> Content]
        /\ \A e \in Dirs \ {d} : content'[e] = content[e]
    <3>1. \A c \in Contents[d] : c \in Content
      BY LibraryAssumption DEF Content
    <3> QED
      BY <1>2, <2>2, <3>1 DEF Change
  <2>4. output' \in [Dirs -> Nat]
    BY <1>2, <2>2 DEF Change
  <2>5. ScanTypeOK'
    BY <2>1, <2>3, <2>4 DEF OfferInv, ScanTypeOK
  <2>6. ValidResolve'
    <3> SUFFICES ASSUME pc = "check", Here \notin changed', NEW k \in DOMAIN valid
                 PROVE  Resolves(content'[Here], valid[k])
      BY <2>1 DEF ValidResolve, Here, Resolves
    <3>1. Here \in Dirs \ {d}
      BY <2>1 DEF OfferInv, ScanTypeOK, Here
    <3> QED
      BY <2>1, <2>3, <3>1 DEF OfferInv, ValidResolve
  <2>7. OfferedAlbumsResolve'
    <3> SUFFICES ASSUME NEW i \in DOMAIN pairs, pairs[i].dir \notin changed'
                 PROVE  \A k \in DOMAIN pairs[i].cues :
                          Resolves(content'[pairs[i].dir], pairs[i].cues[k])
      BY <2>1 DEF OfferedAlbumsResolve, Resolves
    <3>1. pairs[i].dir \in Dirs \ {d} /\ pairs[i].dir \notin changed
      <4>1. pairs[i] \in Pair
        BY DEF OfferInv, ScanTypeOK
      <4> QED
        BY <2>1, <4>1 DEF Pair
    <3> QED
      BY <2>3, <3>1 DEF OfferInv, OfferedAlbumsResolve, Resolves
  <2> QED
    BY <2>1, <2>5, <2>6, <2>7 DEF OfferInv
<1> QED
  BY <1>1, <1>2

LEMMA NextKeepsOffer == OfferInv /\ [Next]_vars => OfferInv'
BY CheckKeepsOffer, AddPairKeepsOffer, FinishKeepsOffer, WalkKeepsOffer, ChangeKeepsOffer
DEF Next, FindPairs

(* Every sheet of an album the scan offers resolves to the file it names,  *)
(* within the album's directory, while that directory stays as it was      *)
(* (CheckSourceFLAC and SourceFLAC).                                       *)
THEOREM OfferedAlbumsCanBeSplit == Spec => []OfferedAlbumsResolve
<1>1. Init => OfferInv
  BY InitOfferInv
<1>2. OfferInv /\ [Next]_vars => OfferInv'
  BY NextKeepsOffer
<1>3. OfferInv => OfferedAlbumsResolve
  BY DEF OfferInv
<1> QED
  BY <1>1, <1>2, <1>3, PTL DEF Spec

-----------------------------------------------------------------------------
(* The walk: the directories it is through with and those it has before it *)

Known(done, before) == done \union ToSet(before)

(* Those it is through with and those before it are different ones, and it *)
(* came by each of them, the root apart, through the one that holds it.    *)
Frontier(done, before) ==
  /\ before \in Seq(Dirs)
  /\ IsInjective(before)
  /\ ToSet(before) \intersect done = {}
  /\ \A d \in Known(done, before) : d = Root \/ \E e \in done : Parent(e, d)

(* The walk leaves a directory for the first k that lie in it.             *)
Left(before, k, after) ==
  /\ k \in 0..Len(Children[Head(before)])
  /\ after = SubSeq(Children[Head(before)], 1, k) \o Tail(before)

LEMMA TreeOfDirs ==
  /\ Root \in Dirs
  /\ \A d \in Dirs : Children[d] \in Seq(Dirs) /\ ~Parent(d, Root)
  /\ \A d, e, c \in Dirs : Parent(d, c) /\ Parent(e, c) => d = e
<1>1. Root \in Dirs /\ \A d \in Dirs : Children[d] \in Seq(Dirs) /\ ~Parent(d, Root)
  BY LibraryAssumption, TreeAssumption
<1>2. ASSUME NEW d \in Dirs, NEW e \in Dirs, NEW c, Parent(d, c), Parent(e, c)
      PROVE  d = e
  <2>1. PICK k \in DOMAIN Children[d] : Children[d][k] = c
    BY <1>2 DEF Parent
  <2>2. PICK l \in DOMAIN Children[e] : Children[e][l] = c
    BY <1>2 DEF Parent
  <2> QED
    BY <2>1, <2>2, TreeAssumption
<1> QED
  BY <1>1, <1>2

(* What is before the walk after it has left a directory: some of those in *)
(* it, and what was before it already.                                     *)
LEMMA LeftElements ==
  ASSUME NEW done \in SUBSET Dirs, NEW before, Frontier(done, before), before # <<>>,
         NEW k, NEW after, Left(before, k, after)
  PROVE  /\ Head(before) \in Dirs /\ Head(before) \notin done
         /\ Head(before) \in ToSet(before)
         /\ after \in Seq(Dirs)
         /\ IsInjective(after)
         /\ ToSet(before) \ {Head(before)} \subseteq ToSet(after)
         /\ Head(before) \notin ToSet(after)
         /\ \A i \in 1..k : Children[Head(before)][i] \in ToSet(after)
         /\ \A d \in ToSet(after) :
              \/ d \in ToSet(before) \ {Head(before)}
              \/ k > 0 /\ Parent(Head(before), d) /\ d \notin Known(done, before)
<1> DEFINE h == Head(before)
           kids == Children[h]
           first == SubSeq(kids, 1, k)
           rest == Tail(before)
           m == Len(before)
<1>1. /\ before \in Seq(Dirs) /\ m \in Nat /\ m > 0
      /\ h \in Dirs /\ h = before[1]
      /\ rest \in Seq(Dirs) /\ Len(rest) = m - 1
      /\ \A i \in 1..(m - 1) : rest[i] = before[i + 1]
  BY HeadTailProperties, EmptySeq DEF Frontier
<1>2. \A i, j \in 1..m : before[i] = before[j] => i = j
  BY <1>1 DEF Frontier, IsInjective
<1>3. kids \in Seq(Dirs) /\ k \in Nat /\ k <= Len(kids) /\ Len(kids) \in Nat
  <2>1. kids \in Seq(Dirs)
    BY <1>1, TreeOfDirs
  <2> QED
    BY <2>1 DEF Left
<1>4. /\ first \in Seq(Dirs) /\ Len(first) = k
      /\ \A i \in 1..k : first[i] = kids[i]
  BY <1>3, SubSeqProperties
<1>5. \A i, j \in 1..Len(kids) : kids[i] = kids[j] => i = j
  BY <1>1, <1>3, TreeAssumption
<1>6. ASSUME NEW i \in 1..k
      PROVE  /\ Parent(h, kids[i])
             /\ kids[i] \in Dirs
             /\ kids[i] \notin Known(done, before)
  <2>1. Parent(h, kids[i]) /\ kids[i] \in Dirs
    BY <1>3 DEF Parent
  <2>2. kids[i] # Root
    BY <1>1, <2>1, TreeOfDirs
  <2>3. h \notin done
    BY <1>1 DEF Frontier, ToSet
  <2>4. \A e \in done : ~Parent(e, kids[i])
    BY <1>1, <2>1, <2>3, TreeOfDirs
  <2> QED
    BY <2>1, <2>2, <2>4 DEF Frontier
<1> HIDE DEF h, kids, first, rest, m
<1>7. after = first \o rest
  BY DEF Left, first, rest, kids, h
<1>8. /\ after \in Seq(Dirs) /\ Len(after) = k + (m - 1)
      /\ \A i \in 1..k : after[i] = first[i]
      /\ \A i \in 1..(m - 1) : after[k + i] = rest[i]
  <2>1. /\ after \in Seq(Dirs)
        /\ Len(after) = Len(first) + Len(rest)
        /\ \A i \in 1..(Len(first) + Len(rest)) :
             after[i] = IF i <= Len(first) THEN first[i] ELSE rest[i - Len(first)]
    BY <1>1, <1>4, <1>7, ConcatProperties
  <2> QED
    BY <1>1, <1>3, <1>4, <2>1
<1>9. \A i \in 1..(k + (m - 1)) :
        \/ i \in 1..k /\ after[i] = kids[i]
        \/ i - k \in 1..(m - 1) /\ after[i] = before[i - k + 1]
  <2> SUFFICES ASSUME NEW i \in 1..(k + (m - 1))
               PROVE  \/ i \in 1..k /\ after[i] = kids[i]
                      \/ i - k \in 1..(m - 1) /\ after[i] = before[i - k + 1]
    OBVIOUS
  <2>1. i \in Nat /\ i >= 1 /\ i <= k + (m - 1)
    BY <1>1, <1>3
  <2>2. CASE i <= k
    BY <1>3, <1>4, <1>8, <2>1, <2>2
  <2>3. CASE i > k
    <3>1. i - k \in 1..(m - 1) /\ k + (i - k) = i
      BY <1>1, <1>3, <2>1, <2>3
    <3>2. after[k + (i - k)] = rest[i - k]
      BY <1>8, <3>1
    <3> QED
      BY <1>1, <3>1, <3>2
  <2> QED
    BY <1>3, <2>1, <2>2, <2>3
<1>10. ToSet(before) = {before[i] : i \in 1..m} /\ DOMAIN after = 1..(k + (m - 1))
  BY <1>1, <1>8 DEF ToSet, m
<1>11. /\ h \in ToSet(before) /\ h \notin done
       /\ ToSet(before) \subseteq Known(done, before)
  BY <1>1, <1>10 DEF Frontier, Known
<1>12. IsInjective(after)
  <2> SUFFICES ASSUME NEW i \in 1..(k + (m - 1)), NEW j \in 1..(k + (m - 1)),
                      after[i] = after[j]
               PROVE  i = j
    BY <1>10 DEF IsInjective
  <2>1. \A x \in 1..k, y \in 1..(m - 1) : kids[x] # before[y + 1]
    <3> SUFFICES ASSUME NEW x \in 1..k, NEW y \in 1..(m - 1) PROVE kids[x] # before[y + 1]
      OBVIOUS
    <3>1. y + 1 \in 1..m
      BY <1>1
    <3> QED
      BY <1>6, <1>10, <1>11, <3>1
  <2>2. CASE i \in 1..k /\ after[i] = kids[i] /\ j \in 1..k /\ after[j] = kids[j]
    <3>1. i \in 1..k /\ j \in 1..k /\ kids[i] = kids[j]
      BY <2>2
    <3>2. 1..k \subseteq 1..Len(kids)
      BY <1>3
    <3> QED
      BY <1>5, <3>1, <3>2
  <2>3. CASE i - k \in 1..(m - 1) /\ after[i] = before[i - k + 1]
             /\ j - k \in 1..(m - 1) /\ after[j] = before[j - k + 1]
    <3>1. i - k + 1 \in 1..m /\ j - k + 1 \in 1..m
      BY <1>1, <1>3, <2>3
    <3>2. i - k + 1 = j - k + 1
      BY <1>2, <2>3, <3>1
    <3> QED
      BY <1>1, <1>3, <3>2
  <2> QED
    BY <1>9, <2>1, <2>2, <2>3
<1>13. \A d \in ToSet(after) :
         \/ d \in ToSet(before) \ {h}
         \/ k > 0 /\ Parent(h, d) /\ d \notin Known(done, before)
  <2> SUFFICES ASSUME NEW i \in 1..(k + (m - 1))
               PROVE  \/ after[i] \in ToSet(before) \ {h}
                      \/ k > 0 /\ Parent(h, after[i]) /\ after[i] \notin Known(done, before)
    BY <1>10 DEF ToSet
  <2>1. CASE i \in 1..k /\ after[i] = kids[i]
    BY <1>3, <1>6, <2>1
  <2>2. CASE i - k \in 1..(m - 1) /\ after[i] = before[i - k + 1]
    <3>1. i - k + 1 \in 1..m /\ i - k + 1 # 1 /\ 1 \in 1..m
      BY <1>1, <1>3, <2>2
    <3>2. before[i - k + 1] # before[1]
      BY <1>2, <3>1
    <3> QED
      BY <1>1, <1>10, <2>2, <3>1, <3>2
  <2> QED
    BY <1>9, <2>1, <2>2
<1>14. ToSet(before) \ {h} \subseteq ToSet(after)
  <2> SUFFICES ASSUME NEW i \in 1..m, before[i] # h PROVE before[i] \in ToSet(after)
    BY <1>10
  <2>1. i \in Nat /\ i # 1 /\ i - 1 \in 1..(m - 1) /\ (i - 1) + 1 = i
    BY <1>1
  <2>2. before[i] = rest[i - 1]
    BY <1>1, <2>1
  <2>3. k + (i - 1) \in DOMAIN after /\ after[k + (i - 1)] = rest[i - 1]
    BY <1>1, <1>3, <1>8, <1>10, <2>1
  <2> QED
    BY <2>2, <2>3 DEF ToSet
<1>15. \A i \in 1..k : kids[i] \in ToSet(after)
  <2> SUFFICES ASSUME NEW i \in 1..k PROVE kids[i] \in ToSet(after)
    OBVIOUS
  <2>1. i \in DOMAIN after /\ after[i] = kids[i]
    BY <1>1, <1>3, <1>4, <1>8, <1>10
  <2> QED
    BY <2>1 DEF ToSet
<1>16. h \notin ToSet(after)
  BY <1>11, <1>13
<1> QED
  BY <1>1, <1>8, <1>11, <1>12, <1>13, <1>14, <1>15, <1>16 DEF h, kids

LEMMA LeftKeepsFrontier ==
  ASSUME NEW done \in SUBSET Dirs, NEW before, Frontier(done, before), before # <<>>,
         NEW k, NEW after, Left(before, k, after)
  PROVE  /\ Frontier(done \union {Head(before)}, after)
         /\ Known(done, before) \subseteq Known(done \union {Head(before)}, after)
         /\ \A d \in Known(done \union {Head(before)}, after) :
              d \in Known(done, before) \/ (k > 0 /\ Parent(Head(before), d))
<1> DEFINE h == Head(before)
           through == done \union {h}
<1>1. /\ h \in Dirs /\ h \notin done
      /\ h \in ToSet(before)
      /\ after \in Seq(Dirs)
      /\ IsInjective(after)
      /\ ToSet(before) \ {h} \subseteq ToSet(after)
      /\ h \notin ToSet(after)
      /\ \A d \in ToSet(after) :
           \/ d \in ToSet(before) \ {h}
           \/ k > 0 /\ Parent(h, d) /\ d \notin Known(done, before)
  BY LeftElements
<1> HIDE DEF h
<1>2. \A d \in Known(through, after) :
        d \in Known(done, before) \/ (k > 0 /\ Parent(h, d))
  BY <1>1 DEF Known
<1>3. Known(done, before) \subseteq Known(through, after)
  BY <1>1 DEF Known
<1>4. ToSet(after) \intersect through = {}
  BY <1>1 DEF Frontier, Known
<1>5. \A d \in Known(through, after) : d = Root \/ \E e \in through : Parent(e, d)
  BY <1>2 DEF Frontier
<1> QED
  BY <1>1, <1>2, <1>3, <1>4, <1>5 DEF Frontier, h

Inside == pc \in {"check", "enter"}

(* The walk when it is through with the directories in done.               *)
WalkInv(done) ==
  /\ pc \in {"start", "visit", "check", "enter", "ended"}
  /\ Frontier(done, todo)
  /\ pc = "start" => done = {} /\ todo = <<>>
  /\ pc # "start" => Root \in Known(done, todo)
  /\ Inside => todo # <<>>
  /\ walked = Cardinality(done) + (IF Inside THEN 1 ELSE 0)

Leaves == VisitUnreadable \/ Enter \/ EnterFails

LEMMA LeavesSomehow ==
  ASSUME NEW done \in SUBSET Dirs, WalkInv(done), Leaves
  PROVE  /\ todo # <<>>
         /\ \E k : /\ Left(todo, k, todo')
                   /\ VisitUnreadable => k = 0
                   /\ Enter => k = Len(Children[Here])
<1>1. todo # <<>> /\ todo \in Seq(Dirs)
  BY DEF Leaves, VisitUnreadable, Enter, EnterFails, WalkInv, Inside, Frontier
<1>2. Here \in Dirs /\ Tail(todo) \in Seq(Dirs)
  BY <1>1 DEF Here
<1> DEFINE kids == Children[Here]
<1>3. kids \in Seq(Dirs) /\ Len(kids) \in Nat
  <2>1. kids \in Seq(Dirs)
    BY <1>2, TreeOfDirs
  <2> QED
    BY <2>1
<1>4. CASE VisitUnreadable
  <2>1. ~Enter
    BY <1>4 DEF VisitUnreadable, Enter
  <2>2. SubSeq(kids, 1, 0) = <<>>
    BY <1>3, SubSeqEmpty
  <2>3. todo' = SubSeq(kids, 1, 0) \o Tail(todo)
    BY <1>2, <1>4, <2>2, ConcatEmptySeq DEF VisitUnreadable
  <2>4. Left(todo, 0, todo')
    BY <1>3, <2>3 DEF Left, Here
  <2> QED
    BY <1>1, <2>1, <2>4
<1>5. CASE Enter
  <2>1. ~VisitUnreadable
    BY <1>5 DEF VisitUnreadable, Enter
  <2>2. SubSeq(kids, 1, Len(kids)) = kids
    BY <1>3, SubSeqFull
  <2>3. todo' = kids \o Tail(todo)
    BY <1>5 DEF Enter
  <2> HIDE DEF kids
  <2>4. todo' = SubSeq(kids, 1, Len(kids)) \o Tail(todo)
    BY <2>2, <2>3
  <2>5. Left(todo, Len(kids), todo')
    <3>1. Len(kids) \in 0..Len(kids)
      BY <1>3
    <3> QED
      BY <2>4, <3>1 DEF Left, Here, kids
  <2> QED
    BY <1>1, <2>1, <2>5 DEF kids
<1>6. CASE EnterFails
  <2>1. ~VisitUnreadable /\ ~Enter
    BY <1>6 DEF VisitUnreadable, Enter, EnterFails, LookFails
  <2>2. PICK k \in 0..Len(kids) : todo' = SubSeq(kids, 1, k) \o Tail(todo)
    BY <1>6 DEF EnterFails
  <2>3. Left(todo, k, todo')
    BY <2>2 DEF Left, Here
  <2> QED
    BY <1>1, <2>1, <2>3
<1> QED
  BY <1>4, <1>5, <1>6 DEF Leaves

LEMMA CountOneMore ==
  ASSUME NEW done \in SUBSET Dirs, NEW d \in Dirs \ done
  PROVE  /\ Cardinality(done) \in Nat
         /\ Cardinality(done \union {d}) = Cardinality(done) + 1
         /\ Cardinality(done) + 1 <= Cardinality(Dirs)
<1>1. IsFiniteSet(Dirs) /\ IsFiniteSet(done)
  BY TreeAssumption, FS_Subset
<1>2. Cardinality(done \union {d}) = Cardinality(done) + 1
  BY <1>1, FS_AddElement
<1>3. Cardinality(done \union {d}) <= Cardinality(Dirs)
  BY <1>1, FS_Subset
<1> QED
  BY <1>1, <1>2, <1>3, FS_CardinalityType

LEMMA LeavingKeepsWalk ==
  ASSUME NEW done \in SUBSET Dirs, WalkInv(done), Leaves,
         NEW through, through = done \union {Here}
  PROVE  WalkInv(through)'
<1>1. PICK k : todo # <<>> /\ Left(todo, k, todo')
  BY LeavesSomehow
<1>2. Frontier(done, todo)
  BY DEF WalkInv
<1>3. /\ Here \in Dirs /\ Here \notin done
      /\ Frontier(through, todo')
      /\ Known(done, todo) \subseteq Known(through, todo')
  BY <1>1, <1>2, LeftElements, LeftKeepsFrontier DEF Here
<1>4. /\ pc \in {"visit", "enter"} /\ pc' \in {"visit", "ended"}
      /\ walked' = walked + (IF Inside THEN 0 ELSE 1)
  <2>1. pc \in {"visit", "enter"} /\ pc' \in {"visit", "ended"}
    BY DEF Leaves, VisitUnreadable, Enter, EnterFails, Skip
  <2>2. CASE VisitUnreadable
    BY <2>1, <2>2 DEF VisitUnreadable, Inside
  <2>3. CASE Enter \/ EnterFails
    <3>1. walked' = walked /\ pc = "enter"
      BY <2>3 DEF Enter, EnterFails, found
    <3>2. walked \in Nat
      <4>1. Cardinality(done) \in Nat
        BY <1>3, CountOneMore
      <4> QED
        BY <3>1, <4>1 DEF WalkInv, Inside
    <3> QED
      BY <2>1, <3>1, <3>2 DEF Inside
  <2> QED
    BY <2>1, <2>2, <2>3 DEF Leaves
<1>5. walked' = Cardinality(through)
  <2>1. Cardinality(done) \in Nat /\ Cardinality(through) = Cardinality(done) + 1
    BY <1>3, CountOneMore
  <2> QED
    BY <1>4, <2>1 DEF WalkInv
<1>6. Root \in Known(through, todo') /\ Cardinality(through) \in Nat
  <2>1. IsFiniteSet(through)
    BY <1>3, TreeAssumption, FS_Subset
  <2> QED
    BY <1>3, <1>4, <2>1, FS_CardinalityType DEF WalkInv
<1> QED
  BY <1>3, <1>4, <1>5, <1>6 DEF WalkInv, Inside

LEMMA OtherStepsKeepWalk ==
  ASSUME NEW done \in SUBSET Dirs, WalkInv(done), [Next]_vars, ~Leaves
  PROVE  WalkInv(done)'
<1>1. Cardinality(done) \in Nat
  BY TreeAssumption, FS_Subset, FS_CardinalityType
<1>2. CASE Begin
  <2>1. done = {} /\ todo' = <<Root>> /\ walked' = walked /\ pc = "start" /\ pc' = "visit"
    BY <1>2 DEF Begin, WalkInv
  <2>2. Frontier({}, <<Root>>) /\ Root \in Known({}, <<Root>>)
    BY TreeOfDirs DEF Frontier, Known, ToSet, IsInjective
  <2> QED
    BY <2>1, <2>2 DEF WalkInv, Inside
<1>3. CASE Visit
  BY <1>1, <1>3 DEF Visit, WalkInv, Inside
<1>4. CASE CheckSheet \/ RejectAlbum \/ AddPair
  <2>1. UNCHANGED <<todo, walked>> /\ Inside /\ Inside'
    BY <1>4 DEF CheckSheet, RejectAlbum, AddPair, found, Inside
  <2> QED
    BY <2>1 DEF WalkInv, Inside
<1>5. CASE Finish
  BY <1>5 DEF Finish, WalkInv, Inside
<1>6. CASE (\E d \in Dirs : Change(d)) \/ Stopped \/ UNCHANGED vars
  <2>1. UNCHANGED <<pc, todo, walked>>
    BY <1>6 DEF Change, Stopped, vars, found
  <2> QED
    BY <2>1 DEF WalkInv, Inside
<1> QED
  BY <1>2, <1>3, <1>4, <1>5, <1>6 DEF Next, FindPairs, Leaves

-----------------------------------------------------------------------------
(* What is said of the directories *)

Words == {"pair", "rejected", "unreadable", "lost"}

(* What the callback may have said of a directory it lets the walk enter.  *)
Admissions == {<<>>, <<"pair">>, <<"rejected">>}

Accounts ==
  Admissions \union
  {<<"unreadable">>, <<"lost">>, <<"pair", "lost">>, <<"rejected", "lost">>}

SaidInv(done) ==
  /\ reports \in [Dirs -> Seq(Words)]
  /\ \A d \in done : reports[d] \in Accounts
  /\ \A d \in Dirs \ done : reports[d] = <<>> \/ (pc = "enter" /\ d = Here)
  /\ pc = "enter" => reports[Here] \in Admissions

LEMMA HereIsNext ==
  ASSUME NEW done, Frontier(done, todo), todo # <<>>
  PROVE  Here \in Dirs \ done
<1>1. todo \in Seq(Dirs) /\ Here \in Dirs /\ Here = todo[1] /\ 1 \in DOMAIN todo
  BY HeadTailProperties, EmptySeq DEF Frontier, Here
<1> QED
  BY <1>1 DEF Frontier, ToSet

LEMMA AppendToOne ==
  ASSUME NEW a, NEW b
  PROVE  Len(<<a>>) = 1 /\ Append(<<a>>, b) = <<a, b>>
<1> DEFINE S == {a, b}
           s == Append(<<a>>, b)
           t == <<a, b>>
<1>1. <<a>> \in Seq(S) /\ Len(<<a>>) = 1
  OBVIOUS
<1>2. s \in Seq(S) /\ Len(s) = 2 /\ s[1] = a /\ s[2] = b
  BY <1>1
<1>3. t \in Seq(S) /\ Len(t) = 2 /\ t[1] = a /\ t[2] = b
  OBVIOUS
<1> HIDE DEF s, t, S
<1>4. \A i \in 1..Len(s) : s[i] = t[i]
  BY <1>2, <1>3
<1>5. s = t
  BY <1>2, <1>3, <1>4, SeqEqual
<1> QED
  BY <1>1, <1>5 DEF s, t

LEMMA WordsAppend ==
  ASSUME NEW s \in Admissions
  PROVE  /\ Len(s) \in {0, 1}
         /\ Append(s, "lost") \in Accounts
         /\ \A w \in Words : Append(s, w) \in Seq(Words)
<1>1. CASE s = <<>>
  BY <1>1 DEF Accounts, Words
<1>2. CASE s = <<"pair">>
  <2>1. Len(s) = 1 /\ Append(s, "lost") = <<"pair", "lost">>
    BY <1>2, AppendToOne
  <2>2. s \in Seq(Words)
    BY <1>2 DEF Words
  <2>3. \A w \in Words : Append(s, w) \in Seq(Words)
    BY <2>2
  <2> QED
    BY <2>1, <2>3 DEF Accounts
<1>3. CASE s = <<"rejected">>
  <2>1. Len(s) = 1 /\ Append(s, "lost") = <<"rejected", "lost">>
    BY <1>3, AppendToOne
  <2>2. s \in Seq(Words)
    BY <1>3 DEF Words
  <2>3. \A w \in Words : Append(s, w) \in Seq(Words)
    BY <2>2
  <2> QED
    BY <2>1, <2>3 DEF Accounts
<1> QED
  BY <1>1, <1>2, <1>3 DEF Admissions

LEMMA LeavingKeepsSaid ==
  ASSUME NEW done \in SUBSET Dirs, WalkInv(done), SaidInv(done), Leaves,
         NEW through, through = done \union {Here}
  PROVE  SaidInv(through)'
<1>1. todo # <<>> /\ Here \in Dirs \ done
  BY LeavesSomehow, HereIsNext DEF WalkInv
<1>2. pc' \in {"visit", "ended"}
  BY DEF Leaves, VisitUnreadable, Enter, EnterFails, Skip
<1>3. /\ reports' \in [Dirs -> Seq(Words)]
      /\ reports'[Here] \in Accounts
      /\ \A d \in Dirs \ {Here} : reports'[d] = reports[d]
  <2>1. CASE Enter
    <3>1. reports' = reports /\ pc = "enter"
      BY <2>1 DEF Enter, found
    <3>2. reports[Here] \in Accounts
      BY <3>1 DEF SaidInv, Accounts
    <3> QED
      BY <3>1, <3>2 DEF SaidInv
  <2>2. CASE EnterFails
    <3>1. reports' = [reports EXCEPT ![Here] = Append(@, "lost")] /\ pc = "enter"
      BY <2>2 DEF EnterFails, Skip, Reported
    <3>2. reports[Here] \in Admissions /\ "lost" \in Words
      BY <3>1 DEF SaidInv, Words
    <3>3. Append(reports[Here], "lost") \in Accounts \intersect Seq(Words)
      BY <3>2, WordsAppend
    <3> QED
      BY <1>1, <3>1, <3>3 DEF SaidInv
  <2>3. CASE VisitUnreadable
    <3>1. reports' = [reports EXCEPT ![Here] = Append(@, "unreadable")] /\ pc = "visit"
      BY <2>3 DEF VisitUnreadable, Skip, Reported
    <3>2. reports[Here] = <<>>
      BY <1>1, <3>1 DEF SaidInv
    <3>3. Append(reports[Here], "unreadable") \in Accounts \intersect Seq(Words)
      BY <3>2 DEF Accounts, Words
    <3> QED
      BY <1>1, <3>1, <3>3 DEF SaidInv
  <2> QED
    BY <2>1, <2>2, <2>3 DEF Leaves
<1> QED
  BY <1>1, <1>2, <1>3 DEF SaidInv

LEMMA OtherStepsKeepSaid ==
  ASSUME NEW done \in SUBSET Dirs, WalkInv(done), SaidInv(done), [Next]_vars, ~Leaves
  PROVE  SaidInv(done)'
<1>1. CASE Begin
  BY <1>1 DEF Begin, SaidInv
<1>2. CASE Visit \/ CheckSheet
  <2>1. /\ pc \in {"visit", "check"} /\ todo # <<>>
        /\ UNCHANGED <<todo, reports>>
    BY <1>2 DEF Visit, CheckSheet, found, WalkInv, Inside
  <2>2. reports[Here] = <<>>
    BY <2>1, HereIsNext DEF WalkInv, SaidInv
  <2>3. Here' = Here
    BY <2>1 DEF Here
  <2> QED
    BY <2>1, <2>2, <2>3 DEF SaidInv, Admissions
<1>3. CASE RejectAlbum \/ AddPair
  <2>1. pc = "check" /\ pc' = "enter" /\ todo' = todo /\ todo # <<>>
    BY <1>3 DEF RejectAlbum, AddPair, WalkInv, Inside
  <2>2. PICK w \in {"pair", "rejected"} :
          reports' = [reports EXCEPT ![Here] = Append(@, w)]
    BY <1>3 DEF RejectAlbum, AddPair, Reported
  <2>3. Here' = Here /\ Here \in Dirs \ done
    BY <2>1, HereIsNext DEF Here, WalkInv
  <2>4. reports[Here] = <<>>
    BY <2>1, <2>3 DEF SaidInv
  <2>5. Append(reports[Here], w) \in Admissions \intersect Seq(Words)
    BY <2>4 DEF Admissions, Words
  <2> QED
    BY <2>1, <2>2, <2>3, <2>5 DEF SaidInv
<1>4. CASE Finish
  BY <1>4 DEF Finish, SaidInv
<1>5. CASE (\E d \in Dirs : Change(d)) \/ Stopped \/ UNCHANGED vars
  <2>1. UNCHANGED <<pc, todo, reports>>
    BY <1>5 DEF Change, Stopped, vars, found
  <2> QED
    BY <2>1 DEF SaidInv, Here
<1> QED
  BY <1>1, <1>2, <1>3, <1>4, <1>5 DEF Next, FindPairs, Leaves

-----------------------------------------------------------------------------
(* What stood still is reported as what it is *)

(* One of the first k sheets passes.                                       *)
Passes(c, k) == \E j \in 1..k : CheckSourceFLAC(c.cues[j], c.place) = "ok"

(* The sheets of a directory that stood still, half-way through.           *)
Checked(c) ==
  /\ c.cues # <<>>
  /\ \E k \in 0..Len(c.cues) :
       /\ unchecked = [i \in 1..(Len(c.cues) - k) |-> k + i]
       /\ valid # <<>> <=> Passes(c, k)

(* A directory that stood still and can be read is reported as what it is  *)
(* and all it holds is known; of one that cannot be, nothing it holds.     *)
StillInv(done) ==
  /\ \A d \in done \ changed :
       /\ d \in readable =>
            /\ reports[d] = Expected(content[d])
            /\ \A e \in Dirs : Parent(d, e) => e \in Known(done, todo)
       /\ d \notin readable => reports[d] = <<"unreadable">>
  /\ \A d \in Dirs \ (changed \union readable) :
       \A e \in Known(done, todo) : ~Parent(d, e)
  /\ Inside /\ Here \notin changed =>
       /\ Here \in readable
       /\ pc = "check" => Checked(content[Here])
       /\ pc = "enter" => reports[Here] = Expected(content[Here])

LEMMA LeavingKeepsStill ==
  ASSUME NEW done \in SUBSET Dirs, WalkInv(done), SaidInv(done), StillInv(done), Leaves,
         NEW through, through = done \union {Here}
  PROVE  StillInv(through)'
<1> DEFINE known == Known(done, todo)
           next == Known(through, todo')
<1>1. PICK k : /\ todo # <<>> /\ Left(todo, k, todo')
               /\ VisitUnreadable => k = 0
               /\ Enter => k = Len(Children[Here])
  BY LeavesSomehow
<1>2. Frontier(done, todo)
  BY DEF WalkInv
<1>3. /\ Here \in Dirs /\ Here \notin done
      /\ known \subseteq next
      /\ \A d \in next : d \in known \/ (k > 0 /\ Parent(Here, d))
      /\ \A i \in 1..k : Children[Here][i] \in next
  BY <1>1, <1>2, LeftElements, LeftKeepsFrontier DEF Here, Known
<1>4. UNCHANGED <<readable, content, changed>> /\ ~Inside'
  BY DEF Leaves, VisitUnreadable, Enter, EnterFails, disk, Skip, Inside
<1>5. \A d \in Dirs \ {Here} : reports'[d] = reports[d]
  BY DEF Leaves, VisitUnreadable, Enter, EnterFails, Skip, Reported, found, SaidInv
<1>6. Here \notin changed /\ ~VisitUnreadable =>
        Enter /\ Here \in readable /\ reports[Here] = Expected(content[Here])
  BY DEF Leaves, Enter, EnterFails, LookFails, StillInv, Inside
<1>7. Here \notin changed /\ Here \in readable =>
        /\ reports'[Here] = Expected(content[Here])
        /\ \A e \in Dirs : Parent(Here, e) => e \in next
  <2> SUFFICES ASSUME Here \notin changed, Here \in readable
               PROVE  /\ reports'[Here] = Expected(content[Here])
                      /\ \A e \in Dirs : Parent(Here, e) => e \in next
    OBVIOUS
  <2>1. Enter /\ reports[Here] = Expected(content[Here])
    BY <1>6 DEF VisitUnreadable, LookFails
  <2>2. reports' = reports
    BY <2>1 DEF Enter, found
  <2>3. \A e \in Dirs : Parent(Here, e) => e \in next
    <3> SUFFICES ASSUME NEW i \in DOMAIN Children[Here] PROVE Children[Here][i] \in next
      BY DEF Parent
    <3>1. DOMAIN Children[Here] = 1..Len(Children[Here])
      <4>1. Children[Here] \in Seq(Dirs)
        BY <1>3, TreeOfDirs
      <4> QED
        BY <4>1
    <3>2. k = Len(Children[Here])
      BY <1>1, <2>1
    <3>3. i \in 1..k
      BY <3>1, <3>2
    <3> QED
      BY <1>3, <3>3
  <2> QED
    BY <2>1, <2>2, <2>3
<1>8. Here \notin changed /\ Here \notin readable =>
        reports'[Here] = <<"unreadable">> /\ k = 0
  <2> SUFFICES ASSUME Here \notin changed, Here \notin readable
               PROVE  reports'[Here] = <<"unreadable">> /\ k = 0
    OBVIOUS
  <2>1. VisitUnreadable /\ k = 0
    BY <1>1, <1>6
  <2>2. reports' = [reports EXCEPT ![Here] = Append(@, "unreadable")] /\ pc = "visit"
    BY <2>1 DEF VisitUnreadable, Skip, Reported
  <2>3. reports[Here] = <<>>
    BY <1>3, <2>2 DEF SaidInv
  <2> QED
    BY <1>3, <2>1, <2>2, <2>3 DEF SaidInv
<1> HIDE DEF known, next
<1>9. ASSUME NEW d \in through \ changed
      PROVE  /\ d \in readable => /\ reports'[d] = Expected(content[d])
                                  /\ \A e \in Dirs : Parent(d, e) => e \in next
             /\ d \notin readable => reports'[d] = <<"unreadable">>
  <2>1. CASE d = Here
    BY <1>7, <1>8, <1>9, <2>1
  <2>2. CASE d # Here
    <3>1. d \in done \ changed /\ reports'[d] = reports[d]
      BY <1>5, <1>9, <2>2
    <3>2. \A e \in Dirs : e \in known => e \in next
      BY <1>3
    <3> QED
      BY <3>1, <3>2 DEF StillInv, known
  <2> QED
    BY <2>1, <2>2
<1>10. ASSUME NEW d \in Dirs \ (changed \union readable), NEW e \in next
       PROVE  ~Parent(d, e)
  <2>1. CASE e \in known
    BY <2>1 DEF StillInv, known
  <2>2. CASE k > 0 /\ Parent(Here, e)
    <3>1. d # Here
      BY <1>8, <2>2
    <3>2. e \in Dirs
      <4>1. Children[Here] \in Seq(Dirs)
        BY <1>3, TreeOfDirs
      <4> QED
        BY <2>2, <4>1 DEF Parent
    <3> QED
      BY <1>3, <2>2, <3>1, <3>2, TreeOfDirs
  <2> QED
    BY <1>3, <2>1, <2>2
<1> QED
  BY <1>4, <1>9, <1>10 DEF StillInv, next

LEMMA FromTo ==
  ASSUME NEW j \in Nat, NEW m \in Nat
  PROVE  LET t == [i \in 1..m |-> j + i]
         IN  t \in Seq(Nat) /\ Len(t) = m /\ \A i \in 1..m : t[i] = j + i
OBVIOUS

(* The callback checks the sheets of a directory that stands still.        *)
LEMMA CheckSheetKeepsStill ==
  ASSUME NEW done \in SUBSET Dirs, WalkInv(done), StillInv(done), CheckSheet,
         content[Here] \in [cues : Seq(Sheet), place : [Names -> Place]],
         valid \in Seq(Nat)
  PROVE  StillInv(done)'
<1>1. /\ UNCHANGED <<readable, content, changed, todo, reports, pc>> /\ pc = "check"
      /\ Here' = Here
  BY DEF CheckSheet, disk, found, Here
<1>2. ASSUME Here \notin changed PROVE Checked(content[Here])'
  <2> DEFINE c == content[Here]
             n == Len(c.cues)
  <2>1. Here \in readable /\ c.cues # <<>>
    BY <1>1, <1>2 DEF StillInv, Inside, Checked
  <2>2. PICK k \in 0..n : /\ unchecked = [i \in 1..(n - k) |-> k + i]
                          /\ valid # <<>> <=> Passes(c, k)
    BY <1>1, <1>2 DEF StillInv, Inside, Checked
  <2>3. n \in Nat /\ DOMAIN c.cues = 1..n
    <3>1. c.cues \in Seq(Sheet)
      OBVIOUS
    <3> QED
      BY <3>1
  <2> DEFINE j == k + 1
  <2>4. n - k \in Nat /\ k \in Nat
    BY <2>2, <2>3
  <2>5. /\ Len(unchecked) = n - k /\ unchecked \in Seq(Nat)
        /\ \A i \in 1..(n - k) : unchecked[i] = k + i
    BY <2>2, <2>4
  <2>6. unchecked # <<>> /\ unchecked' = Tail(unchecked)
    BY DEF CheckSheet
  <2>7. n - k > 0
    <3>1. Len(unchecked) # 0
      BY <2>5, <2>6, EmptySeq
    <3> QED
      BY <2>4, <2>5, <3>1
  <2>8. Head(unchecked) = j /\ j \in 1..n /\ j \in 0..n
    BY <2>2, <2>3, <2>4, <2>5, <2>6, <2>7
  <2>9. unchecked' = [i \in 1..(n - j) |-> j + i]
    <3> DEFINE t == [i \in 1..(n - j) |-> j + i]
    <3>1. n - j \in Nat /\ n - j = (n - k) - 1 /\ j \in Nat
      BY <2>3, <2>4, <2>7, <2>8
    <3> HIDE DEF j, n
    <3>2. t \in Seq(Nat) /\ Len(t) = n - j /\ \A i \in 1..(n - j) : t[i] = j + i
      BY <3>1, FromTo
    <3>3. /\ Tail(unchecked) \in Seq(Nat)
          /\ Len(Tail(unchecked)) = (n - k) - 1
          /\ \A i \in 1..((n - k) - 1) : Tail(unchecked)[i] = unchecked[i + 1]
      BY <2>5, <2>6, HeadTailProperties
    <3>4. \A i \in 1..(n - j) : unchecked[i + 1] = j + i
      <4> SUFFICES ASSUME NEW i \in 1..(n - j) PROVE unchecked[i + 1] = j + i
        OBVIOUS
      <4>1. i + 1 \in 1..(n - k) /\ k + (i + 1) = j + i
        BY <2>4, <3>1 DEF j
      <4> QED
        BY <2>5, <4>1
    <3> HIDE DEF t
    <3>5. Tail(unchecked) = t
      BY <3>1, <3>2, <3>3, <3>4, SeqEqual
    <3> QED
      BY <2>6, <3>5 DEF t
  <2>10. Reads(j) = {c.cues[j]}
    BY <2>1, <2>3, <2>8 DEF Reads
  <2>11. Passes(c, j) <=> Passes(c, k) \/ CheckSourceFLAC(c.cues[j], c.place) = "ok"
    <3>1. 1..j = 1..k \union {j}
      BY <2>4
    <3> HIDE DEF j, c
    <3> QED
      BY <3>1 DEF Passes
  <2>12. valid' # <<>> <=> Passes(c, j)
    <3>1. \/ /\ CheckSourceFLAC(c.cues[j], c.place) = "ok"
             /\ valid' = Append(valid, j)
          \/ /\ CheckSourceFLAC(c.cues[j], c.place) # "ok"
             /\ valid' = valid
      <4>1. \E sheet \in {c.cues[j]} :
              IF CheckSourceFLAC(sheet, c.place) = "ok"
                THEN valid' = Append(valid, j)
                ELSE valid' = valid
        BY <2>8, <2>10 DEF CheckSheet
      <4> QED
        BY <4>1
    <3>2. Append(valid, j) # <<>>
      <4>1. j \in Nat
        BY <2>4
      <4> QED
        BY <4>1, AppendProperties
    <3> QED
      BY <2>2, <2>11, <3>1, <3>2
  <2> HIDE DEF j
  <2> QED
    BY <1>1, <2>1, <2>8, <2>9, <2>12 DEF Checked, Passes
<1> QED
  BY <1>1, <1>2 DEF StillInv, Inside

(* What the callback says in the end is what the sheets deserve.           *)
LEMMA VerdictAsExpected ==
  ASSUME NEW c, c.cues \in Seq(Sheet), Checked(c), unchecked = <<>>
  PROVE  Expected(c) = IF valid = <<>> THEN <<"rejected">> ELSE <<"pair">>
<1> DEFINE n == Len(c.cues)
<1>1. n \in Nat /\ DOMAIN c.cues = 1..n /\ c.cues # <<>>
  BY DEF Checked
<1>2. PICK k \in 0..n : /\ unchecked = [i \in 1..(n - k) |-> k + i]
                        /\ valid # <<>> <=> Passes(c, k)
  BY DEF Checked
<1> HIDE DEF n
<1>3. Len(unchecked) = n - k /\ Len(unchecked) = 0
  BY <1>1, <1>2, EmptySeq
<1>4. k = n
  BY <1>1, <1>2, <1>3
<1>5. valid # <<>> <=> \E j \in DOMAIN c.cues : CheckSourceFLAC(c.cues[j], c.place) = "ok"
  BY <1>1, <1>2, <1>4 DEF Passes
<1> QED
  BY <1>1, <1>5 DEF Expected

LEMMA OtherStepsKeepStill ==
  ASSUME NEW done \in SUBSET Dirs, WalkInv(done), SaidInv(done), StillInv(done),
         ScanTypeOK, [Next]_vars, ~Leaves
  PROVE  StillInv(done)'
<1>1. Inside => Here \in Dirs \ done
  BY HereIsNext DEF WalkInv
<1>2. CASE Begin
  <2>1. /\ done = {} /\ todo' = <<Root>> /\ pc' = "visit"
        /\ UNCHANGED <<readable, content, changed>>
    BY <1>2 DEF Begin, WalkInv, disk
  <2>2. Known({}, <<Root>>) = {Root}
    BY DEF Known, ToSet
  <2> QED
    BY <2>1, <2>2, TreeOfDirs DEF StillInv, Inside
<1>3. CASE Visit
  <2>1. /\ UNCHANGED <<readable, content, changed, todo, reports>>
        /\ todo # <<>> /\ Here' = Here /\ pc = "visit"
        /\ Here \in readable
        /\ valid' = <<>>
        /\ unchecked' = [k \in 1..Len(content[Here].cues) |-> k]
        /\ pc' = IF unchecked' = <<>> THEN "enter" ELSE "check"
    BY <1>3 DEF Visit, disk, Here
  <2>2. Here \in Dirs \ done
    BY <2>1, HereIsNext DEF WalkInv
  <2>3. content[Here].cues \in Seq(Sheet)
    BY <2>2 DEF ScanTypeOK, Content
  <2> DEFINE c == content[Here]
             n == Len(c.cues)
  <2>4. n \in Nat /\ (c.cues = <<>> <=> n = 0)
    BY <2>3, EmptySeq
  <2>5. unchecked' = <<>> <=> n = 0
    <3>1. Len(unchecked') = n /\ unchecked' \in Seq(Nat)
      BY <2>1, <2>4
    <3> QED
      BY <3>1, EmptySeq
  <2>6. CASE n = 0
    <3>1. pc' = "enter" /\ Expected(c) = <<>>
      BY <2>1, <2>4, <2>5, <2>6 DEF Expected
    <3>2. reports[Here] = <<>>
      BY <2>1, <2>2 DEF SaidInv
    <3> QED
      BY <2>1, <3>1, <3>2 DEF StillInv, Inside
  <2>7. CASE n # 0
    <3>1. pc' = "check" /\ c.cues # <<>>
      BY <2>1, <2>4, <2>5, <2>7
    <3>2. unchecked' = [i \in 1..(n - 0) |-> 0 + i]
      BY <2>1, <2>4
    <3>3. ~Passes(c, 0)
      BY DEF Passes
    <3> HIDE DEF c, n
    <3>4. \E k \in 0..n : /\ unchecked' = [i \in 1..(n - k) |-> k + i]
                          /\ valid' # <<>> <=> Passes(c, k)
      <4>1. 0 \in 0..n
        BY <2>4
      <4> QED
        BY <2>1, <3>2, <3>3, <4>1
    <3>5. Checked(content[Here])'
      BY <2>1, <3>1, <3>4 DEF Checked, Passes, c, n
    <3> QED
      BY <2>1, <3>1, <3>5 DEF StillInv, Inside
  <2> QED
    BY <2>6, <2>7
<1>4. CASE CheckSheet
  <2>1. Here \in Dirs
    BY <1>1, <1>4 DEF CheckSheet, Inside
  <2> QED
    BY <1>4, <2>1, CheckSheetKeepsStill DEF ScanTypeOK, Content
<1>5. CASE RejectAlbum \/ AddPair
  <2>1. /\ UNCHANGED <<readable, content, changed, todo>>
        /\ Here' = Here /\ pc = "check" /\ pc' = "enter" /\ unchecked = <<>>
    BY <1>5 DEF RejectAlbum, AddPair, disk, Here
  <2>2. Here \in Dirs \ done
    BY <1>1, <2>1 DEF Inside
  <2>3. reports[Here] = <<>>
    BY <2>1, <2>2 DEF SaidInv
  <2>4. PICK w \in {"pair", "rejected"} :
          /\ reports' = [reports EXCEPT ![Here] = Append(@, w)]
          /\ w = IF valid = <<>> THEN "rejected" ELSE "pair"
    BY <1>5 DEF RejectAlbum, AddPair, Reported
  <2>5. /\ reports'[Here] = <<w>>
        /\ \A d \in done : reports'[d] = reports[d]
    BY <2>2, <2>3, <2>4 DEF SaidInv
  <2>6. Here \notin changed => Here \in readable /\ reports'[Here] = Expected(content[Here])
    <3> SUFFICES ASSUME Here \notin changed
                 PROVE  Here \in readable /\ reports'[Here] = Expected(content[Here])
      OBVIOUS
    <3>1. Here \in readable /\ Checked(content[Here])
      BY <2>1 DEF StillInv, Inside
    <3>2. content[Here].cues \in Seq(Sheet)
      BY <2>2 DEF ScanTypeOK, Content
    <3>3. Expected(content[Here]) = IF valid = <<>> THEN <<"rejected">> ELSE <<"pair">>
      BY <2>1, <3>1, <3>2, VerdictAsExpected
    <3> QED
      BY <2>4, <2>5, <3>1, <3>3
  <2> QED
    BY <2>1, <2>5, <2>6 DEF StillInv, Inside
<1>6. CASE Finish
  BY <1>6 DEF Finish, disk, StillInv, Inside
<1>7. CASE Stopped \/ UNCHANGED vars
  BY <1>7 DEF Stopped, vars, disk, found, cueVars, StillInv, Inside, Here, Checked
<1>8. ASSUME NEW d \in Dirs, Change(d) PROVE StillInv(done)'
  <2>1. /\ UNCHANGED <<pc, todo, unchecked, valid, reports>>
        /\ Here' = Here
        /\ changed' = changed \union {d}
    BY <1>8 DEF Change, cueVars, found, Here
  <2>2. /\ \A e \in Dirs \ {d} : content'[e] = content[e]
        /\ \A e \in Dirs \ {d} : e \in readable' <=> e \in readable
    BY <1>8 DEF Change, ScanTypeOK
  <2>3. \A e \in done \ changed' : e \in done \ changed /\ e \in Dirs \ {d}
    BY <2>1
  <2>4. \A e \in Dirs \ (changed' \union readable') :
          e \in Dirs \ (changed \union readable)
    BY <2>1, <2>2
  <2>5. Inside /\ Here \notin changed' =>
          Here \notin changed /\ Here \in Dirs \ {d}
    BY <1>1, <2>1
  <2>6. \A e \in Dirs \ {d} : Checked(content[e]) => Checked(content[e])'
    BY <2>1, <2>2 DEF Checked, Passes
  <2>7. Inside' <=> Inside
    BY <2>1 DEF Inside
  <2>8. \A e \in done \ changed' :
          /\ e \in readable' =>
               /\ reports'[e] = Expected(content'[e])
               /\ \A c \in Dirs : Parent(e, c) => c \in Known(done, todo')
          /\ e \notin readable' => reports'[e] = <<"unreadable">>
    BY <2>1, <2>2, <2>3 DEF StillInv
  <2>9. \A e \in Dirs \ (changed' \union readable') :
          \A c \in Known(done, todo') : ~Parent(e, c)
    BY <2>1, <2>4 DEF StillInv
  <2>10. Inside' /\ Here' \notin changed' =>
           /\ Here' \in readable'
           /\ pc' = "check" => Checked(content[Here])'
           /\ pc' = "enter" => reports'[Here'] = Expected(content'[Here'])
    <3> SUFFICES ASSUME Inside, Here \notin changed'
                 PROVE  /\ Here \in readable'
                        /\ pc = "check" => Checked(content[Here])'
                        /\ pc = "enter" => reports[Here] = Expected(content'[Here])
      BY <2>1, <2>7
    <3>1. /\ Here \in readable
          /\ pc = "check" => Checked(content[Here])
          /\ pc = "enter" => reports[Here] = Expected(content[Here])
      BY <2>5 DEF StillInv
    <3>2. Checked(content[Here]) => Checked(content[Here])'
      BY <2>1, <2>2, <2>5 DEF Checked, Passes
    <3> QED
      BY <2>2, <2>5, <3>1, <3>2
  <2> QED
    BY <2>8, <2>9, <2>10 DEF StillInv
<1> QED
  BY <1>2, <1>3, <1>4, <1>5, <1>6, <1>7, <1>8 DEF Next, FindPairs, Leaves

-----------------------------------------------------------------------------
(* The ways down to a directory *)

LEMMA LeastNatural ==
  ASSUME NEW S \in SUBSET Nat, S # {}
  PROVE  \E n \in S : \A m \in S : n <= m
<1> DEFINE R == OpToRel(<, Nat)
<1>1. IsWellFoundedOn(R, Nat)
  BY NatLessThanWellFounded
<1>2. \A m, n \in Nat : <<m, n>> \in R <=> m < n
  BY DEF OpToRel
<1> HIDE DEF R
<1>3. PICK n \in S : \A m \in S : <<m, n>> \notin R
  BY <1>1, WFMin
<1>4. ASSUME NEW m \in S PROVE n <= m
  <2>1. m \in Nat /\ n \in Nat
    OBVIOUS
  <2>2. ~(m < n)
    BY <1>2, <1>3, <2>1
  <2> QED
    BY <2>1, <2>2
<1> QED
  BY <1>4

Way(p, n, e, d) ==
  /\ n \in Nat \ {0}
  /\ p \in [1..n -> Dirs]
  /\ p[1] = e
  /\ p[n] = d
  /\ \A k \in 1..(n - 1) : Parent(p[k], p[k + 1])

(* From a directory above another a way leads down to it, by directories   *)
(* that are all above it.                                                  *)
LEMMA WayDown ==
  ASSUME NEW d \in Dirs, NEW e \in Above(d)
  PROVE  \E n, p : Way(p, n, e, d) /\ \A k \in 1..n : p[k] \in Above(d)
<1> DEFINE N == Cardinality(Dirs)
<1>1. N \in Nat
  BY TreeAssumption, FS_CardinalityType
<1> HIDE DEF N
<1>2. PICK p \in SeqOf(Dirs, N) :
        /\ p # <<>>
        /\ Head(p) = e
        /\ Last(p) = d
        /\ \A k \in 1..(Len(p) - 1) : Parent(p[k], p[k + 1])
  BY DEF Above, N
<1>3. PICK n \in 0..N : p \in [1..n -> Dirs]
  BY <1>1, <1>2 DEF SeqOf
<1>4. n \in Nat /\ n <= N
  BY <1>1, <1>3
<1>5. p \in Seq(Dirs) /\ Len(p) = n
  BY <1>3, <1>4
<1>6. n > 0
  BY <1>2, <1>4, <1>5, EmptySeq
<1>7. p[1] = e /\ p[n] = d
  BY <1>2, <1>4, <1>5, <1>6 DEF Last
<1>8. Way(p, n, e, d)
  BY <1>2, <1>3, <1>4, <1>5, <1>6, <1>7 DEF Way
<1>9. ASSUME NEW k \in 1..n PROVE p[k] \in Above(d)
  <2> DEFINE m == n - k + 1
             q == [i \in 1..m |-> p[k + i - 1]]
  <2>1. m \in Nat /\ m >= 1 /\ m <= N /\ k + m - 1 = n /\ k \in Nat
    BY <1>1, <1>4, <1>9
  <2>2. \A i \in 1..m : k + i - 1 \in 1..n
    BY <1>4, <2>1
  <2> HIDE DEF m
  <2>3. q \in [1..m -> Dirs]
    BY <1>3, <2>2
  <2>4. q \in Seq(Dirs) /\ Len(q) = m
    BY <2>1, <2>3
  <2>5. q[1] = p[k] /\ q[m] = d
    <3>1. 1 \in 1..m /\ m \in 1..m /\ k + 1 - 1 = k
      BY <2>1
    <3> QED
      BY <1>7, <2>1, <3>1
  <2>6. \A i \in 1..(m - 1) : Parent(q[i], q[i + 1])
    <3> SUFFICES ASSUME NEW i \in 1..(m - 1) PROVE Parent(q[i], q[i + 1])
      OBVIOUS
    <3>1. /\ i \in 1..m /\ i + 1 \in 1..m
          /\ k + i - 1 \in 1..(n - 1)
          /\ k + (i + 1) - 1 = (k + i - 1) + 1
      BY <1>4, <2>1 DEF m
    <3>2. q[i] = p[k + i - 1] /\ q[i + 1] = p[(k + i - 1) + 1]
      BY <3>1
    <3> HIDE DEF q
    <3> QED
      BY <1>2, <1>5, <3>1, <3>2
  <2>7. p[k] \in Dirs
    BY <1>3
  <2>8. q \in SeqOf(Dirs, N)
    <3>1. m \in 0..N
      BY <1>1, <2>1
    <3> HIDE DEF q
    <3> QED
      BY <2>3, <3>1 DEF SeqOf
  <2> HIDE DEF q
  <2>9. q # <<>> /\ Head(q) = p[k] /\ Last(q) = d
    <3>1. q # <<>>
      BY <2>1, <2>4, EmptySeq
    <3> QED
      BY <2>4, <2>5, <3>1 DEF Last
  <2> QED
    BY <2>4, <2>6, <2>7, <2>8, <2>9 DEF Above, N
<1> QED
  BY <1>8, <1>9

(* A walk that is over has been through a directory whose parents stood    *)
(* still and can be read...                                                *)
LEMMA ReadableWayIsWalked ==
  ASSUME NEW done \in SUBSET Dirs, WalkInv(done), StillInv(done),
         pc = "ended", todo = <<>>,
         NEW d \in Dirs, Above(d) \intersect changed = {},
         Above(d) \ {d} \subseteq readable
  PROVE  d \in done
<1> SUFFICES ASSUME d \notin done PROVE FALSE
  OBVIOUS
<1>1. Root \in Above(d)
  BY TreeAssumption
<1>2. PICK n, p : Way(p, n, Root, d) /\ \A k \in 1..n : p[k] \in Above(d)
  BY <1>1, WayDown
<1>3. Known(done, todo) = done /\ Root \in done
  <2>1. ToSet(todo) = {}
    BY DEF ToSet
  <2> QED
    BY <2>1 DEF Known, WalkInv
<1> DEFINE Missed == {k \in 1..n : p[k] \notin done}
<1>4. n \in Missed /\ Missed \subseteq Nat /\ n \in Nat
  BY <1>2 DEF Way
<1>5. PICK k \in Missed : \A j \in Missed : k <= j
  BY <1>4, LeastNatural
<1>6. k \in 1..n /\ k # 1 /\ p[k] \notin done
  BY <1>2, <1>3, <1>5 DEF Way
<1>7. k - 1 \in 1..n /\ k - 1 \in 1..(n - 1) /\ (k - 1) + 1 = k /\ ~(k <= k - 1)
  BY <1>4, <1>6
<1>8. p[k - 1] \in done
  BY <1>5, <1>7
<1>9. Parent(p[k - 1], p[k]) /\ p[k] \in Dirs
  BY <1>2, <1>6, <1>7 DEF Way
<1>10. p[k - 1] \in readable /\ p[k - 1] \notin changed
  <2>1. p[k - 1] \in Above(d) /\ p[k - 1] # d
    BY <1>2, <1>7, <1>8
  <2> QED
    BY <2>1
<1> QED
  BY <1>3, <1>6, <1>8, <1>9, <1>10 DEF StillInv

(* ... and never comes to one below another that cannot be read.           *)
LEMMA NothingBelowUnreadable ==
  ASSUME NEW done \in SUBSET Dirs, WalkInv(done), StillInv(done), todo = <<>>,
         NEW d \in Dirs, Above(d) \intersect changed = {},
         NEW e \in Above(d) \ {d}, e \notin readable
  PROVE  d \notin done
<1> SUFFICES ASSUME d \in done PROVE FALSE
  OBVIOUS
<1>1. PICK n, p : Way(p, n, e, d)
  BY WayDown
<1>2. Known(done, todo) = done
  <2>1. ToSet(todo) = {}
    BY DEF ToSet
  <2> QED
    BY <2>1 DEF Known
<1> DEFINE Ends == {k \in 1..n : \A j \in k..n : p[j] \in done}
<1>3. n \in Nat /\ n > 1 /\ n \in Ends /\ Ends \subseteq Nat
  <2>1. n \in Nat \ {0} /\ n # 1 /\ p[n] \in done
    BY <1>1 DEF Way
  <2>2. n..n = {n} /\ n \in 1..n
    BY <2>1
  <2> QED
    BY <2>1, <2>2
<1>4. PICK k \in Ends : \A j \in Ends : k <= j
  BY <1>3, LeastNatural
<1>5. k \in 1..n /\ \A j \in k..n : p[j] \in done
  BY <1>4
<1>6. k = 1
  <2> SUFFICES ASSUME k # 1 PROVE FALSE
    OBVIOUS
  <2>1. k - 1 \in 1..n /\ k - 1 \in 1..(n - 1) /\ (k - 1) + 1 = k /\ ~(k <= k - 1)
        /\ k \in k..n
    BY <1>3, <1>5
  <2>2. Parent(p[k - 1], p[k]) /\ p[k - 1] \in Dirs /\ p[k] \in Dirs /\ p[k] \in done
    BY <1>1, <1>5, <2>1 DEF Way
  <2>3. p[k] # Root
    BY <2>2, TreeOfDirs
  <2>4. PICK c \in done : Parent(c, p[k])
    BY <1>2, <2>2, <2>3 DEF WalkInv, Frontier
  <2>5. c = p[k - 1]
    BY <2>2, <2>4, TreeOfDirs
  <2>6. \A j \in (k - 1)..n : p[j] \in done
    <3>1. \A j \in (k - 1)..n : j = k - 1 \/ j \in k..n
      BY <1>3, <1>5
    <3> QED
      BY <1>5, <2>4, <2>5, <3>1
  <2>7. k - 1 \in Ends
    BY <2>1, <2>6
  <2> QED
    BY <1>4, <2>1, <2>7
<1>7. 2 \in k..n /\ 1 \in 1..(n - 1) /\ 1 + 1 = 2
  BY <1>3, <1>6
<1>8. p[2] \in done /\ Parent(e, p[2])
  BY <1>1, <1>5, <1>7 DEF Way
<1>9. e \in Dirs \ (changed \union readable)
  BY DEF Above
<1> QED
  BY <1>2, <1>8, <1>9 DEF StillInv

ScanInv ==
  /\ RootInv
  /\ OfferInv
  /\ outcome = "ok" => todo = <<>>
  /\ \E done \in SUBSET Dirs : WalkInv(done) /\ SaidInv(done) /\ StillInv(done)

LEMMA InitScanInv == Init => ScanInv
<1> SUFFICES ASSUME Init PROVE ScanInv
  OBVIOUS
<1>1. RootInv /\ OfferInv /\ outcome # "ok"
  BY InitRootInv, InitOfferInv DEF Init
<1>2. todo = <<>> /\ pc = "start" /\ walked = 0 /\ reports = [d \in Dirs |-> <<>>]
  BY DEF Init
<1>3. Known({}, <<>>) = {} /\ Frontier({}, <<>>)
  BY DEF Known, ToSet, Frontier, IsInjective
<1>4. WalkInv({})
  <2>1. Cardinality({}) = 0
    BY FS_EmptySet
  <2> QED
    BY <1>2, <1>3, <2>1 DEF WalkInv, Inside
<1>5. SaidInv({}) /\ StillInv({})
  BY <1>2, <1>3 DEF SaidInv, StillInv, Inside
<1> QED
  BY <1>1, <1>4, <1>5 DEF ScanInv

LEMMA NextScanInv == ScanInv /\ [Next]_vars => ScanInv'
<1> SUFFICES ASSUME ScanInv, [Next]_vars PROVE ScanInv'
  OBVIOUS
<1>1. RootInv' /\ OfferInv'
  BY NextKeepsRoot, NextKeepsOffer DEF ScanInv
<1>2. PICK done \in SUBSET Dirs : WalkInv(done) /\ SaidInv(done) /\ StillInv(done)
  BY DEF ScanInv
<1>3. ScanTypeOK
  BY DEF ScanInv, OfferInv
<1>4. (outcome = "ok" => todo = <<>>)'
  <2>1. CASE UNCHANGED <<todo, outcome>>
    BY <2>1 DEF ScanInv
  <2>2. CASE pc \notin {"ended"}
    <3>1. outcome = "none"
      BY <2>2 DEF ScanInv, RootInv
    <3> QED
      BY <3>1 DEF Next, FindPairs, Begin, Visit, VisitUnreadable, CheckSheet, RejectAlbum,
                  AddPair, Enter, EnterFails, Finish, Skip, Change, Stopped, vars, found
  <2>3. CASE pc = "ended"
    BY <2>1, <2>3 DEF Next, FindPairs, Begin, Visit, VisitUnreadable, CheckSheet,
                RejectAlbum, AddPair, Enter, EnterFails, Finish, Change, Stopped, vars, found
  <2> QED
    BY <2>2, <2>3
<1>5. \E through \in SUBSET Dirs : (WalkInv(through) /\ SaidInv(through) /\ StillInv(through))'
  <2>1. CASE Leaves
    <3>1. Here \in Dirs
      BY <1>2, <2>1, LeavesSomehow, HereIsNext DEF WalkInv
    <3>2. PICK through \in SUBSET Dirs : through = done \union {Here}
      BY <3>1
    <3> QED
      BY <1>2, <2>1, <3>2, LeavingKeepsWalk, LeavingKeepsSaid, LeavingKeepsStill
  <2>2. CASE ~Leaves
    BY <1>2, <1>3, <2>2, OtherStepsKeepWalk, OtherStepsKeepSaid, OtherStepsKeepStill
  <2> QED
    BY <2>1, <2>2
<1> QED
  BY <1>1, <1>4, <1>5 DEF ScanInv

LEMMA ScanInvReports == ScanInv => StillDirectoriesReported
<1> SUFFICES ASSUME ScanInv, outcome = "ok",
                    NEW d \in Dirs, Above(d) \intersect changed = {}
             PROVE  reports[d] =
                      IF Above(d) \subseteq readable THEN Expected(content[d])
                      ELSE IF Above(d) \ {d} \subseteq readable THEN <<"unreadable">>
                      ELSE <<>>
  BY DEF StillDirectoriesReported
<1>1. todo = <<>> /\ pc = "ended"
  BY DEF ScanInv, RootInv
<1>2. PICK done \in SUBSET Dirs : WalkInv(done) /\ SaidInv(done) /\ StillInv(done)
  BY DEF ScanInv
<1>3. CASE Above(d) \ {d} \subseteq readable
  <2>1. d \in done
    BY <1>1, <1>2, <1>3, ReadableWayIsWalked
  <2>2. d \in Above(d)
    <3>1. PICK n, p : Way(p, n, Root, d) /\ \A k \in 1..n : p[k] \in Above(d)
      BY TreeAssumption, WayDown
    <3> QED
      BY <3>1 DEF Way
  <2>3. d \in done \ changed
    BY <2>1, <2>2
  <2>4. Above(d) \subseteq readable <=> d \in readable
    BY <1>3, <2>2
  <2> QED
    BY <1>2, <1>3, <2>3, <2>4 DEF StillInv
<1>4. CASE ~(Above(d) \ {d} \subseteq readable)
  <2>1. PICK e \in Above(d) \ {d} : e \notin readable
    BY <1>4
  <2>2. d \notin done
    BY <1>1, <1>2, <2>1, NothingBelowUnreadable
  <2> QED
    BY <1>1, <1>2, <1>4, <2>2 DEF SaidInv
<1> QED
  BY <1>3, <1>4

(* A scan that succeeds says of every directory that stood still, with all *)
(* it lies in, what it is and nothing else, whatever happens elsewhere     *)
(* (FindPairs and filepath.WalkDir).                                       *)
THEOREM WhatStandsStillIsReported == Spec => []StillDirectoriesReported
<1>1. Init => ScanInv
  BY InitScanInv
<1>2. ScanInv /\ [Next]_vars => ScanInv'
  BY NextScanInv
<1>3. ScanInv => StillDirectoriesReported
  BY ScanInvReports
<1> QED
  BY <1>1, <1>2, <1>3, PTL DEF Spec

-----------------------------------------------------------------------------
(* The summary counts what was said *)

SaidIn(said, what) ==
  {at \in Dirs \X (1..2) : at[2] \in DOMAIN said[at[1]] /\ said[at[1]][at[2]] = what}

Skips(said) == SaidIn(said, "rejected") \union SaidIn(said, "unreadable")
                 \union SaidIn(said, "lost")

LEMMA SaidIsFinite ==
  ASSUME NEW said
  PROVE  /\ \A what : IsFiniteSet(SaidIn(said, what))
         /\ IsFiniteSet(Skips(said))
<1>1. IsFiniteSet(Dirs \X (1..2))
  <2>1. IsFiniteSet(1..2)
    <3>1. 1 \in Int /\ 2 \in Int
      OBVIOUS
    <3> QED
      BY <3>1, FS_Interval
  <2> QED
    BY <2>1, TreeAssumption, FS_Product
<1>2. Skips(said) \subseteq Dirs \X (1..2)
  BY DEF Skips, SaidIn
<1>3. \A what : SaidIn(said, what) \subseteq Dirs \X (1..2)
  BY DEF SaidIn
<1> QED
  BY <1>1, <1>2, <1>3, FS_Subset

(* One word more is said of a directory of which at most one was.          *)
Saying(said, d, w, more, at) ==
  /\ said \in [Dirs -> Seq(Words)]
  /\ d \in Dirs
  /\ w \in Words
  /\ Len(said[d]) \in {0, 1}
  /\ more = [said EXCEPT ![d] = Append(@, w)]
  /\ at = <<d, Len(said[d]) + 1>>

LEMMA OneMoreWord ==
  ASSUME NEW said, NEW d, NEW w, NEW more, NEW at, Saying(said, d, w, more, at)
  PROVE  \A what \in Words :
           /\ SaidIn(more, what) = SaidIn(said, what) \union (IF what = w THEN {at} ELSE {})
           /\ at \notin SaidIn(said, what)
<1> USE DEF Saying
<1> DEFINE n == Len(said[d])
<1>0. n \in {0, 1} /\ at = <<d, n + 1>>
  OBVIOUS
<1>1. n \in {0, 1} /\ n + 1 \in 1..2 /\ ~(n + 1 \in 1..n)
  <2> HIDE DEF n
  <2> QED
    BY <1>0
<1>2. said[d] \in Seq(Words) /\ DOMAIN said[d] = 1..n
  <2>1. said[d] \in Seq(Words)
    OBVIOUS
  <2> QED
    BY <2>1
<1>3. /\ DOMAIN more[d] = 1..(n + 1)
      /\ more[d][n + 1] = w
      /\ \A i \in 1..n : more[d][i] = said[d][i]
  <2>1. more[d] = Append(said[d], w)
    OBVIOUS
  <2>2. /\ Append(said[d], w) \in Seq(Words)
        /\ Len(Append(said[d], w)) = n + 1
        /\ \A i \in 1..n : Append(said[d], w)[i] = said[d][i]
        /\ Append(said[d], w)[n + 1] = w
    BY <1>2, AppendProperties
  <2> QED
    BY <2>1, <2>2
<1>4. \A e \in Dirs \ {d} : more[e] = said[e]
  OBVIOUS
<1> HIDE DEF n
<1>5. 1..(n + 1) = 1..n \union {n + 1}
  BY <1>1
<1>6. ASSUME NEW what \in Words, NEW e \in Dirs, NEW i \in 1..2
      PROVE  (i \in DOMAIN more[e] /\ more[e][i] = what) <=>
               \/ i \in DOMAIN said[e] /\ said[e][i] = what
               \/ what = w /\ e = d /\ i = n + 1
  <2>1. CASE e # d
    BY <1>4, <2>1
  <2>2. CASE e = d /\ i = n + 1
    BY <1>1, <1>2, <1>3, <1>5, <2>2
  <2>3. CASE e = d /\ i # n + 1
    BY <1>2, <1>3, <1>5, <2>3
  <2> QED
    BY <2>1, <2>2, <2>3
<1>7. ASSUME NEW what \in Words
      PROVE  /\ SaidIn(more, what) =
                  SaidIn(said, what) \union (IF what = w THEN {at} ELSE {})
             /\ at \notin SaidIn(said, what)
  <2>1. at \notin SaidIn(said, what)
    BY <1>0, <1>1, <1>2 DEF SaidIn
  <2>2. at \in Dirs \X (1..2)
    BY <1>0, <1>1
  <2>3. \A x \in Dirs \X (1..2) :
          x \in SaidIn(more, what) <=>
            x \in SaidIn(said, what) \union (IF what = w THEN {at} ELSE {})
    <3> SUFFICES ASSUME NEW x \in Dirs \X (1..2)
                 PROVE  x \in SaidIn(more, what) <=>
                          x \in SaidIn(said, what) \/ (what = w /\ x = at)
      OBVIOUS
    <3>1. PICK e \in Dirs, i \in 1..2 : x = <<e, i>>
      OBVIOUS
    <3>2. x = at <=> e = d /\ i = n + 1
      BY <1>0, <3>1
    <3>3. \A s : x \in SaidIn(s, what) <=> i \in DOMAIN s[e] /\ s[e][i] = what
      BY <3>1 DEF SaidIn
    <3>4. (i \in DOMAIN more[e] /\ more[e][i] = what) <=>
            \/ i \in DOMAIN said[e] /\ said[e][i] = what
            \/ what = w /\ e = d /\ i = n + 1
      BY <1>6
    <3>5. x \in SaidIn(more, what) <=> i \in DOMAIN more[e] /\ more[e][i] = what
      BY <3>3
    <3>6. x \in SaidIn(said, what) <=> i \in DOMAIN said[e] /\ said[e][i] = what
      BY <3>3
    <3> QED
      BY <3>2, <3>4, <3>5, <3>6
  <2>4. \A s : SaidIn(s, what) \subseteq Dirs \X (1..2)
    BY DEF SaidIn
  <2>5. SaidIn(more, what) = SaidIn(said, what) \union (IF what = w THEN {at} ELSE {})
    <3>1. SaidIn(said, what) \union (IF what = w THEN {at} ELSE {}) \subseteq Dirs \X (1..2)
      BY <2>2, <2>4
    <3> QED
      BY <2>3, <2>4, <3>1
  <2> QED
    BY <2>1, <2>5
<1> QED
  BY <1>7

(* Each word counts once, an album's as an item and any other as a skip.   *)
LEMMA OneMoreCounts ==
  ASSUME NEW said \in [Dirs -> Seq(Words)], NEW d \in Dirs, Len(said[d]) \in {0, 1},
         NEW w \in Words, NEW more, more = [said EXCEPT ![d] = Append(@, w)]
  PROVE  /\ Cardinality(Skips(said)) \in Nat
         /\ Cardinality(SaidIn(said, "pair")) \in Nat
         /\ Cardinality(Skips(more)) =
              Cardinality(Skips(said)) + (IF w = "pair" THEN 0 ELSE 1)
         /\ Cardinality(SaidIn(more, "pair")) =
              Cardinality(SaidIn(said, "pair")) + (IF w = "pair" THEN 1 ELSE 0)
<1>0. PICK at : Saying(said, d, w, more, at)
  BY DEF Saying
<1>1. \A what \in Words :
        /\ SaidIn(more, what) = SaidIn(said, what) \union (IF what = w THEN {at} ELSE {})
        /\ at \notin SaidIn(said, what)
  BY <1>0, OneMoreWord
<1>2. w \in {"pair", "rejected", "unreadable", "lost"}
  BY DEF Words
<1>3. at \notin Skips(said) /\ at \notin SaidIn(said, "pair")
  BY <1>1 DEF Skips, Words
<1>4. Skips(more) = Skips(said) \union (IF w = "pair" THEN {} ELSE {at})
  BY <1>1, <1>2 DEF Skips, Words
<1>5. SaidIn(more, "pair") = SaidIn(said, "pair") \union (IF w = "pair" THEN {at} ELSE {})
  BY <1>1 DEF Words
<1>6. /\ IsFiniteSet(Skips(said)) /\ IsFiniteSet(SaidIn(said, "pair"))
      /\ Cardinality(Skips(said)) \in Nat
      /\ Cardinality(SaidIn(said, "pair")) \in Nat
  BY SaidIsFinite, FS_CardinalityType
<1>7. /\ Cardinality(Skips(said) \union {at}) = Cardinality(Skips(said)) + 1
      /\ Cardinality(SaidIn(said, "pair") \union {at}) =
           Cardinality(SaidIn(said, "pair")) + 1
  BY <1>3, <1>6, FS_AddElement
<1> DEFINE skips == Cardinality(Skips(said))
           items == Cardinality(SaidIn(said, "pair"))
<1>8. CASE w = "pair"
  <2>1. Skips(more) = Skips(said) /\ SaidIn(more, "pair") = SaidIn(said, "pair") \union {at}
    BY <1>4, <1>5, <1>8
  <2>2. Cardinality(Skips(more)) = skips /\ Cardinality(SaidIn(more, "pair")) = items + 1
    BY <1>7, <2>1
  <2> HIDE DEF skips, items
  <2> QED
    BY <1>6, <1>8, <2>2 DEF skips, items
<1>9. CASE w # "pair"
  <2>1. Skips(more) = Skips(said) \union {at} /\ SaidIn(more, "pair") = SaidIn(said, "pair")
    BY <1>4, <1>5, <1>9
  <2>2. Cardinality(Skips(more)) = skips + 1 /\ Cardinality(SaidIn(more, "pair")) = items
    BY <1>7, <2>1
  <2> QED
    BY <1>6, <1>9, <2>2
<1> QED
  BY <1>8, <1>9

LogInv ==
  /\ Consecutive(log)
  /\ Len(log.entries) = IF log.nextSeq <= LogCap THEN log.nextSeq ELSE LogCap

CountInv ==
  /\ LogInv
  /\ skipped \in Nat
  /\ outcome # "error" =>
       /\ skipped = Cardinality(Skips(reports))
       /\ Len(pairs) = Cardinality(SaidIn(reports, "pair"))
       /\ log.nextSeq = IF pc = "start" THEN 0
                        ELSE IF pc = "ended" THEN skipped + 2
                        ELSE skipped + 1
  /\ outcome = "ok" => Last(log.entries).level = "info"

LEMMA LogAdds ==
  ASSUME LogInv, NEW level \in Levels, log' = Add(log, level)
  PROVE  /\ LogInv'
         /\ log'.nextSeq = log.nextSeq + 1
         /\ Last(log'.entries).level = level
<1> DEFINE a == Add(log, level)
<1>1. /\ log \in Buffer
      /\ Len(log.entries) \in Nat /\ Len(log.entries) <= LogCap
      /\ log.nextSeq \in Nat /\ LogCap \in Nat
  BY LogCapAssumption DEF LogInv, Consecutive, Buffer
<1>2. /\ a.nextSeq = log.nextSeq + 1
      /\ Len(a.entries) = IF Len(log.entries) < LogCap THEN Len(log.entries) + 1 ELSE LogCap
      /\ a.entries[Len(a.entries)] = [seq |-> log.nextSeq, level |-> level]
  BY <1>1, AddEntries
<1>3. Consecutive(a)
  BY AddKeepsConsecutive DEF LogInv
<1> HIDE DEF a
<1>4. Len(a.entries) = IF a.nextSeq <= LogCap THEN a.nextSeq ELSE LogCap
  BY <1>1, <1>2 DEF LogInv
<1>5. log' = a
  BY DEF a
<1> QED
  BY <1>2, <1>3, <1>4, <1>5 DEF LogInv, Last

LEMMA InitCounts == Init => CountInv
<1> SUFFICES ASSUME Init PROVE CountInv
  OBVIOUS
<1>1. /\ log = NewBuffer /\ skipped = 0 /\ pairs = <<>> /\ pc = "start" /\ outcome = "none"
      /\ reports = [d \in Dirs |-> <<>>]
  BY DEF Init
<1>2. \A what : SaidIn(reports, what) = {}
  BY <1>1 DEF SaidIn
<1>3. Skips(reports) = {} /\ SaidIn(reports, "pair") = {} /\ Cardinality({}) = 0
  BY <1>2, FS_EmptySet DEF Skips
<1>4. LogInv /\ log.nextSeq = 0
  BY <1>1, NewIsConsecutive, LogCapAssumption DEF LogInv, NewBuffer
<1>5. Len(pairs) = 0
  BY <1>1
<1> QED
  BY <1>1, <1>3, <1>4, <1>5 DEF CountInv

(* One more is said of the directory the walk is at.                       *)
LEMMA SayingCounts ==
  ASSUME CountInv, NEW done, SaidInv(done), Here \in Dirs, outcome = "none",
         Len(reports[Here]) \in {0, 1}, NEW w \in Words, Reported(w)
  PROVE  /\ skipped = Cardinality(Skips(reports))
         /\ Cardinality(Skips(reports')) = skipped + (IF w = "pair" THEN 0 ELSE 1)
         /\ Cardinality(SaidIn(reports', "pair")) =
              Len(pairs) + (IF w = "pair" THEN 1 ELSE 0)
<1>1. reports \in [Dirs -> Seq(Words)]
  BY DEF SaidInv
<1>2. /\ Cardinality(Skips(reports')) =
           Cardinality(Skips(reports)) + (IF w = "pair" THEN 0 ELSE 1)
      /\ Cardinality(SaidIn(reports', "pair")) =
           Cardinality(SaidIn(reports, "pair")) + (IF w = "pair" THEN 1 ELSE 0)
  BY <1>1, OneMoreCounts DEF Reported
<1> QED
  BY <1>2 DEF CountInv

LEMMA NextCounts ==
  ASSUME CountInv, RootInv, ScanTypeOK, NEW done \in SUBSET Dirs, WalkInv(done),
         SaidInv(done), [Next]_vars
  PROVE  CountInv'
<1>1. /\ pc # "ended" => outcome = "none"
      /\ LogInv /\ skipped \in Nat
  BY DEF RootInv, CountInv
<1>2. "info" \in Levels /\ "warn" \in Levels /\ RejectLevel(reject) \in Levels
  BY DEF Levels, RejectLevel
<1>3. ASSUME todo # <<>>, pc \in {"visit", "check", "enter"}
      PROVE  Here \in Dirs /\ Len(reports[Here]) \in {0, 1}
  <2>1. Here \in Dirs \ done
    BY <1>3, HereIsNext DEF WalkInv
  <2>2. reports[Here] \in Admissions
    BY <2>1 DEF SaidInv, Admissions
  <2> QED
    BY <2>1, <2>2, WordsAppend
<1>4. CASE Begin
  <2>1. /\ pc = "start" /\ pc' = "visit" /\ log' = Add(log, "info")
        /\ UNCHANGED <<skipped, pairs, outcome, reports>>
    BY <1>4 DEF Begin
  <2>2. LogInv' /\ log'.nextSeq = log.nextSeq + 1
    BY <1>1, <1>2, <2>1, LogAdds
  <2>3. outcome = "none" /\ skipped = Cardinality(Skips(reports)) /\ log.nextSeq = 0
        /\ Len(pairs) = Cardinality(SaidIn(reports, "pair"))
    BY <1>1, <2>1 DEF CountInv
  <2>4. log'.nextSeq = skipped' + 1
    <3>1. skipped = 0
      <4>1. done = {} /\ \A d \in Dirs : reports[d] = <<>>
        BY <2>1 DEF WalkInv, SaidInv
      <4>2. \A what : SaidIn(reports, what) = {}
        BY <4>1 DEF SaidIn
      <4>3. Skips(reports) = {}
        BY <4>2 DEF Skips
      <4> QED
        BY <2>3, <4>3, FS_EmptySet
    <3> QED
      BY <2>1, <2>2, <2>3, <3>1
  <2> QED
    BY <1>1, <2>1, <2>2, <2>3, <2>4 DEF CountInv
<1>5. CASE Visit \/ CheckSheet \/ Enter
  <2>1. /\ UNCHANGED <<log, skipped, pairs, outcome, reports>>
        /\ pc \in {"visit", "check", "enter"} /\ pc' \in {"visit", "check", "enter"}
    BY <1>5 DEF Visit, CheckSheet, Enter, found
  <2> QED
    BY <2>1 DEF CountInv, LogInv
<1>6. CASE VisitUnreadable \/ EnterFails
  <2>1. PICK w \in {"unreadable", "lost"} : Skip(w)
    BY <1>6 DEF VisitUnreadable, EnterFails
  <2>2. pairs' = pairs /\ todo # <<>> /\ pc \in {"visit", "enter"}
    BY <1>6, LeavesSomehow DEF VisitUnreadable, EnterFails, Leaves
  <2>3. Here \in Dirs /\ Len(reports[Here]) \in {0, 1} /\ outcome = "none"
    BY <1>1, <1>3, <2>2
  <2>4. CASE Here = Root
    BY <1>1, <2>1, <2>4 DEF Skip, CountInv, LogInv
  <2>5. CASE Here # Root
    <3>1. /\ log' = Add(log, "warn") /\ skipped' = skipped + 1
          /\ pc' = "visit" /\ outcome' = outcome /\ Reported(w)
      BY <2>1, <2>5 DEF Skip
    <3>2. LogInv' /\ log'.nextSeq = log.nextSeq + 1
      BY <1>1, <1>2, <3>1, LogAdds
    <3>3. log.nextSeq = skipped + 1
      BY <2>2, <2>3 DEF CountInv
    <3>4. w \in Words /\ w # "pair"
      BY DEF Words
    <3>5. /\ Cardinality(Skips(reports')) = skipped + 1
          /\ Cardinality(SaidIn(reports', "pair")) = Len(pairs) + 0
      BY <2>3, <3>1, <3>4, SayingCounts
    <3>6. Len(pairs) + 0 = Len(pairs)
      BY DEF ScanTypeOK
    <3>7. /\ skipped' = Cardinality(Skips(reports'))
          /\ Len(pairs') = Cardinality(SaidIn(reports', "pair"))
          /\ log'.nextSeq = skipped' + 1
          /\ skipped' \in Nat
      BY <1>1, <2>2, <3>1, <3>2, <3>3, <3>5, <3>6
    <3> QED
      BY <2>3, <3>1, <3>2, <3>7 DEF CountInv
  <2> QED
    BY <2>4, <2>5
<1>7. CASE RejectAlbum
  <2>1. /\ log' = Add(log, RejectLevel(reject)) /\ skipped' = skipped + 1
        /\ Reported("rejected") /\ pc = "check" /\ pc' = "enter"
        /\ UNCHANGED <<pairs, outcome>> /\ todo # <<>>
    BY <1>7 DEF RejectAlbum, WalkInv, Inside
  <2>2. Here \in Dirs /\ Len(reports[Here]) \in {0, 1} /\ outcome = "none"
    BY <1>1, <1>3, <2>1
  <2>3. LogInv' /\ log'.nextSeq = log.nextSeq + 1
    BY <1>1, <1>2, <2>1, LogAdds
  <2>4. log.nextSeq = skipped + 1
    BY <2>1, <2>2 DEF CountInv
  <2>5. /\ Cardinality(Skips(reports')) = skipped + 1
        /\ Cardinality(SaidIn(reports', "pair")) = Len(pairs) + 0
    <3>1. "rejected" \in Words /\ "rejected" # "pair"
      BY DEF Words
    <3> QED
      BY <2>1, <2>2, <3>1, SayingCounts
  <2>6. Len(pairs) + 0 = Len(pairs)
    BY DEF ScanTypeOK
  <2>7. /\ skipped' = Cardinality(Skips(reports'))
        /\ Len(pairs') = Cardinality(SaidIn(reports', "pair"))
        /\ log'.nextSeq = skipped' + 1
        /\ skipped' \in Nat
    BY <1>1, <2>1, <2>3, <2>4, <2>5, <2>6
  <2> QED
    BY <2>1, <2>2, <2>3, <2>7 DEF CountInv
<1>8. CASE AddPair
  <2>1. /\ UNCHANGED <<log, skipped, outcome>>
        /\ Reported("pair") /\ pc = "check" /\ pc' = "enter" /\ todo # <<>>
    BY <1>8 DEF AddPair, WalkInv, Inside
  <2>2. Here \in Dirs /\ Len(reports[Here]) \in {0, 1} /\ outcome = "none"
    BY <1>1, <1>3, <2>1
  <2>3. Len(pairs') = Len(pairs) + 1
    <3>1. PICK p : pairs' = Append(pairs, p)
      BY <1>8 DEF AddPair
    <3>2. pairs \in Seq(Pair)
      BY DEF ScanTypeOK
    <3> QED
      BY <3>1, <3>2
  <2>4. log.nextSeq = skipped + 1
    BY <2>1, <2>2 DEF CountInv
  <2>5. /\ Cardinality(Skips(reports')) = skipped + 0
        /\ Cardinality(SaidIn(reports', "pair")) = Len(pairs) + 1
    <3>1. "pair" \in Words
      BY DEF Words
    <3> QED
      BY <2>1, <2>2, <3>1, SayingCounts
  <2>6. /\ skipped' = Cardinality(Skips(reports'))
        /\ Len(pairs') = Cardinality(SaidIn(reports', "pair"))
        /\ log'.nextSeq = skipped' + 1
        /\ LogInv'
    BY <1>1, <2>1, <2>3, <2>4, <2>5 DEF LogInv
  <2> QED
    BY <1>1, <2>1, <2>2, <2>6 DEF CountInv
<1>9. CASE Finish
  <2>1. /\ log' = Add(log, "info") /\ UNCHANGED <<skipped, reports>>
        /\ pc = "visit" /\ pc' = "ended" /\ outcome' = "ok"
    BY <1>9 DEF Finish
  <2>2. LogInv' /\ log'.nextSeq = log.nextSeq + 1 /\ Last(log'.entries).level = "info"
    BY <1>1, <1>2, <2>1, LogAdds
  <2>3. outcome = "none" /\ log.nextSeq = skipped + 1
    BY <1>1, <2>1 DEF CountInv
  <2>4. Len(pairs') = Len(pairs)
    <3>1. PICK order : pairs' = [i \in DOMAIN pairs |-> pairs[order[i]]]
      BY <1>9 DEF Finish
    <3>2. DOMAIN pairs = 1..Len(pairs) /\ Len(pairs) \in Nat
      <4>1. pairs \in Seq(Pair)
        BY DEF ScanTypeOK
      <4> QED
        BY <4>1
    <3> QED
      BY <3>1, <3>2
  <2>5. /\ skipped' = Cardinality(Skips(reports'))
        /\ Len(pairs') = Cardinality(SaidIn(reports', "pair"))
        /\ log'.nextSeq = skipped' + 2
        /\ skipped' \in Nat
    BY <1>1, <2>1, <2>2, <2>3, <2>4 DEF CountInv
  <2> QED
    BY <2>1, <2>2, <2>5 DEF CountInv
<1>10. CASE (\E d \in Dirs : Change(d)) \/ Stopped \/ UNCHANGED vars
  <2>1. UNCHANGED <<pc, found>>
    BY <1>10 DEF Change, Stopped, vars
  <2> QED
    BY <2>1 DEF found, CountInv, LogInv
<1> QED
  BY <1>4, <1>5, <1>6, <1>7, <1>8, <1>9, <1>10 DEF Next, FindPairs

RestInv ==
  /\ readable \subseteq Dirs
  /\ \A d \in Dirs : content[d] \in Contents[d]
  /\ output \in [Dirs -> 0..MaxOutput]
  /\ changed \subseteq Dirs
  /\ reject \in Verdicts
  /\ outcome \in {"none", "ok", "error"}
  /\ failed \subseteq Dirs

LEMMA VerdictType ==
  ASSUME NEW s \in Sheet, NEW place
  PROVE  CheckSourceFLAC(s, place) \in Verdicts
<1> DEFINE n == Len(s.files)
<1>1. s.readable \in BOOLEAN /\ n \in Nat
  BY EmptySeq DEF Sheet
<1>2. FileVerdict(s.files[1], place) \in Verdicts
  <2>1. \/ s.files[1] \notin Audio
        \/ s.files[1] \in Audio /\ ~Contained(s.files[1], place)
        \/ s.files[1] \in Audio /\ Contained(s.files[1], place)
    OBVIOUS
  <2> QED
    BY <2>1 DEF FileVerdict, Verdicts
<1> HIDE DEF n
<1>3. CASE ~s.readable
  BY <1>3 DEF CheckSourceFLAC, Verdicts
<1>4. CASE s.readable /\ n = 0
  BY <1>4 DEF CheckSourceFLAC, Verdicts, n
<1>5. CASE s.readable /\ n > 1
  <2>1. n # 0 /\ n # 1
    BY <1>1, <1>5
  <2> QED
    BY <1>5, <2>1 DEF CheckSourceFLAC, Verdicts, n
<1>6. CASE s.readable /\ n = 1
  <2>1. n # 0 /\ ~(n > 1)
    BY <1>1, <1>6
  <2> QED
    BY <1>2, <1>6, <2>1 DEF CheckSourceFLAC, n
<1> QED
  BY <1>1, <1>3, <1>4, <1>5, <1>6

LEMMA InitRest == Init => RestInv
BY DEF Init, RestInv, Verdicts

LEMMA NextRest ==
  ASSUME RestInv, ScanTypeOK, NEW done \in SUBSET Dirs, WalkInv(done), [Next]_vars
  PROVE  RestInv'
<1>1. "ok" \in Verdicts
  BY DEF Verdicts
<1>2. CASE CheckSheet
  <2>1. UNCHANGED <<disk, outcome, failed>> /\ todo # <<>>
    BY <1>2 DEF CheckSheet, found, WalkInv, Inside
  <2>2. Here \in Dirs
    BY <2>1, HereIsNext DEF WalkInv
  <2>3. content[Here].cues \in Seq(Sheet)
    BY <2>2 DEF ScanTypeOK, Content
  <2>4. PICK sheet \in Reads(Head(unchecked)) :
          reject' = reject \/ reject' = CheckSourceFLAC(sheet, content[Here].place)
    BY <1>2 DEF CheckSheet
  <2>5. sheet \in Sheet
    <3>1. Gone \in Sheet
      <4>1. <<>> \in Seq(Names)
        BY EmptySeq
      <4> QED
        BY <4>1 DEF Gone, Sheet
    <3>2. \A k \in DOMAIN content[Here].cues : content[Here].cues[k] \in Sheet
      BY <2>3
    <3> QED
      BY <2>4, <3>1, <3>2 DEF Reads
  <2>6. CheckSourceFLAC(sheet, content[Here].place) \in Verdicts
    BY <2>5, VerdictType
  <2> QED
    BY <2>1, <2>4, <2>6 DEF RestInv, disk
<1>3. CASE Visit
  BY <1>1, <1>3 DEF Visit, disk, RestInv
<1>4. CASE Begin \/ VisitUnreadable \/ RejectAlbum \/ AddPair \/ Enter \/ EnterFails \/ Finish
  <2>1. UNCHANGED <<disk, reject>> /\ outcome' \in {outcome, "ok", "error"}
    BY <1>4 DEF Begin, VisitUnreadable, RejectAlbum, AddPair, Enter, EnterFails, Finish,
                Skip, cueVars, found
  <2>2. failed' \subseteq Dirs
    <3>1. CASE VisitUnreadable \/ EnterFails
      <4>1. Here \in Dirs
        BY <3>1, HereIsNext DEF VisitUnreadable, EnterFails, WalkInv, Inside
      <4> QED
        BY <3>1, <4>1 DEF VisitUnreadable, EnterFails, LookFails, RestInv
    <3>2. CASE UNCHANGED failed
      BY <3>2 DEF RestInv
    <3> QED
      BY <1>4, <3>1, <3>2 DEF Begin, RejectAlbum, AddPair, Enter, Finish, found
  <2> QED
    BY <2>1, <2>2 DEF RestInv, disk
<1>5. CASE Stopped \/ UNCHANGED vars
  BY <1>5 DEF Stopped, vars, disk, cueVars, found, RestInv
<1>6. ASSUME NEW d \in Dirs, Change(d) PROVE RestInv'
  <2>1. UNCHANGED <<reject, outcome, failed>> /\ changed' = changed \union {d}
    BY <1>6 DEF Change, cueVars, found
  <2>2. /\ content \in [Dirs -> Content]
        /\ \/ content' = content
           \/ \E c \in Contents[d] : content' = [content EXCEPT ![d] = c]
    BY <1>6 DEF Change, ScanTypeOK
  <2>3. \A e \in Dirs : content'[e] \in Contents[e]
    BY <2>2 DEF RestInv
  <2>4. readable' \subseteq Dirs
    BY <1>6 DEF Change, RestInv
  <2>5. output' \in [Dirs -> 0..MaxOutput]
    <3>1. CASE output' = output
      BY <3>1 DEF RestInv
    <3>2. CASE output[d] < MaxOutput /\ output' = [output EXCEPT ![d] = @ + 1]
      <4>1. output[d] + 1 \in 0..MaxOutput
        BY <3>2, LibraryAssumption DEF RestInv
      <4> QED
        BY <3>2, <4>1 DEF RestInv
    <3> QED
      BY <1>6, <3>1, <3>2 DEF Change
  <2> QED
    BY <2>1, <2>3, <2>4, <2>5 DEF RestInv
<1> QED
  BY <1>2, <1>3, <1>4, <1>5, <1>6 DEF Next, FindPairs

TotalInv == ScanInv /\ CountInv /\ RestInv

LEMMA InitTotalInv == Init => TotalInv
BY InitScanInv, InitCounts, InitRest DEF TotalInv

LEMMA NextTotalInv == TotalInv /\ [Next]_vars => TotalInv'
<1> SUFFICES ASSUME TotalInv, [Next]_vars PROVE TotalInv'
  OBVIOUS
<1>1. PICK done \in SUBSET Dirs : WalkInv(done) /\ SaidInv(done) /\ StillInv(done)
  BY DEF TotalInv, ScanInv
<1>2. RootInv /\ ScanTypeOK /\ CountInv /\ RestInv /\ ScanInv
  BY DEF TotalInv, ScanInv, OfferInv
<1>3. ScanInv'
  BY <1>2, NextScanInv
<1>4. CountInv'
  BY <1>1, <1>2, NextCounts
<1>5. RestInv'
  BY <1>1, <1>2, NextRest
<1> QED
  BY <1>3, <1>4, <1>5 DEF TotalInv

LEMMA TotalInvType == TotalInv => TypeOK
<1> SUFFICES ASSUME TotalInv PROVE TypeOK
  OBVIOUS
<1>1. PICK done \in SUBSET Dirs : WalkInv(done) /\ SaidInv(done)
  BY DEF TotalInv, ScanInv
<1>2. walked \in 0..Cardinality(Dirs)
  <2>1. IsFiniteSet(Dirs) /\ IsFiniteSet(done)
    BY TreeAssumption, FS_Subset
  <2>2. /\ Cardinality(done) \in Nat /\ Cardinality(Dirs) \in Nat
        /\ Cardinality(done) <= Cardinality(Dirs)
    BY <2>1, FS_Subset, FS_CardinalityType
  <2>3. CASE Inside
    <3>1. Here \in Dirs \ done
      BY <1>1, <2>3, HereIsNext DEF WalkInv
    <3>2. Cardinality(done) + 1 <= Cardinality(Dirs)
      BY <3>1, CountOneMore
    <3>3. walked = Cardinality(done) + 1
      BY <1>1, <2>3 DEF WalkInv
    <3> QED
      BY <2>2, <3>2, <3>3
  <2>4. CASE ~Inside
    <3>1. walked = Cardinality(done) + 0
      BY <1>1, <2>4 DEF WalkInv
    <3> QED
      BY <2>2, <3>1
  <2> QED
    BY <2>3, <2>4
<1>3. reports \in [Dirs -> Seq({"pair", "rejected", "unreadable", "lost"})]
  BY <1>1 DEF SaidInv, Words
<1>4. /\ pc \in {"start", "visit", "check", "enter", "ended"}
      /\ todo \in Seq(Dirs)
      /\ unchecked \in Seq(Nat)
      /\ valid \in Seq(Nat)
      /\ pairs \in Seq(Pair)
      /\ skipped \in Nat
      /\ log \in Buffer
  BY DEF TotalInv, ScanInv, RootInv, OfferInv, ScanTypeOK, CountInv, LogInv,
         Consecutive
<1> QED
  BY <1>2, <1>3, <1>4 DEF TotalInv, RestInv, TypeOK

LEMMA TotalInvSummary == TotalInv => SummaryAgrees
<1> SUFFICES ASSUME TotalInv, outcome = "ok" PROVE SummaryAgrees
  BY DEF SummaryAgrees
<1>1. pc = "ended"
  BY DEF TotalInv, ScanInv, RootInv
<1>2. PICK done \in SUBSET Dirs : WalkInv(done) /\ SaidInv(done)
  BY DEF TotalInv, ScanInv
<1>3. \A what : Reports(what) = SaidIn(reports, what)
  BY DEF Reports, SaidIn
<1>4. ASSUME NEW d \in Dirs
      PROVE  \/ Len(reports[d]) <= 1
             \/ reports[d] \in {<<"pair", "lost">>, <<"rejected", "lost">>}
  <2>1. reports[d] \in Accounts
    BY <1>1, <1>2 DEF SaidInv, Accounts, Admissions
  <2>2. CASE reports[d] \in Admissions
    <3> DEFINE n == Len(reports[d])
    <3>1. n \in {0, 1}
      BY <2>2, WordsAppend
    <3> HIDE DEF n
    <3>2. n <= 1
      BY <3>1
    <3> USE DEF n
    <3> QED
      BY <3>2
  <2>3. CASE reports[d] \in {<<"unreadable">>, <<"lost">>}
    <3>1. Len(reports[d]) = 1
      BY <2>3, AppendToOne
    <3>2. Len(reports[d]) <= 1
      BY <3>1
    <3> QED
      BY <3>2
  <2> QED
    BY <2>1, <2>2, <2>3 DEF Accounts
<1>5. /\ log.nextSeq = skipped + 2
      /\ skipped = Cardinality(Skips(reports))
      /\ Len(pairs) = Cardinality(SaidIn(reports, "pair"))
      /\ log.entries[Len(log.entries)].level = "info"
      /\ LogInv
  BY <1>1 DEF TotalInv, CountInv, Last
<1> DEFINE next == log.nextSeq
           lines == skipped + 2
           kept == Len(log.entries)
<1>6. /\ next = lines
      /\ kept = IF next <= LogCap THEN next ELSE LogCap
      /\ \A k \in 1..kept : log.entries[k].seq = next - kept + k - 1
  BY <1>5 DEF LogInv, Consecutive
<1> HIDE DEF next, lines
<1>7. /\ kept = IF lines <= LogCap THEN lines ELSE LogCap
      /\ \A k \in 1..kept : log.entries[k].seq = lines - kept + k - 1
  BY Zenon, <1>6
<1>8. /\ \A what : Reports(what) = SaidIn(reports, what)
      /\ skipped = Cardinality(Reports("rejected") \union Reports("unreadable")
                                 \union Reports("lost"))
      /\ Len(pairs) = Cardinality(Reports("pair"))
  BY <1>3, <1>5 DEF Skips
<1> USE DEF lines
<1> HIDE DEF kept
<1> QED
  BY <1>4, <1>5, <1>7, <1>8 DEF SummaryAgrees, kept

(* The counters, the items, the log and the walk keep their types, and the *)
(* walk counts no directory twice (FindPairs).                             *)
THEOREM ScanTypeCorrect == Spec => []TypeOK
<1>1. Init => TotalInv
  BY InitTotalInv
<1>2. TotalInv /\ [Next]_vars => TotalInv'
  BY NextTotalInv
<1>3. TotalInv => TypeOK
  BY TotalInvType
<1> QED
  BY <1>1, <1>2, <1>3, PTL DEF Spec

(* The skipped count, the number of items and the log of a scan that       *)
(* succeeds agree with what was said of the directories (FindPairs).       *)
THEOREM SummaryIsRight == Spec => []SummaryAgrees
<1>1. Init => TotalInv
  BY InitTotalInv
<1>2. TotalInv /\ [Next]_vars => TotalInv'
  BY NextTotalInv
<1>3. TotalInv => SummaryAgrees
  BY TotalInvSummary
<1> QED
  BY <1>1, <1>2, <1>3, PTL DEF Spec

=============================================================================
