---------------------------- MODULE RequestsProofs ----------------------------
(***************************************************************************)
(* Every request, for all sheets, images, audio files and paths, and       *)
(* whatever its directory changes into meanwhile: the cover of an answer   *)
(* is the best one there was, the tracks of a preview are those of a sheet *)
(* there was, its duration is that of the file the sheet names, a split    *)
(* stays in one subtree of both roots, and its id is that of one sheet.    *)
(***************************************************************************)
EXTENDS Requests, TLAPS, WellFoundedInduction, FiniteSetTheorems, SequenceTheorems

(* A nonempty set of numbers has a least one, and Min is it.               *)
LEMMA MinIsLeast ==
  ASSUME NEW S \in SUBSET Nat, S # {}
  PROVE  Min(S) \in S /\ \A y \in S : Min(S) <= y
<1>1. PICK x \in S : \A y \in S : <<y, x>> \notin OpToRel(<, Nat)
  BY WFMin, NatLessThanWellFounded, Zenon
<1>2. \A y \in S : ~(y < x)
  BY <1>1, Zenon DEF OpToRel
<1>3. \A y \in S : x <= y
  BY <1>2
<1> QED
  BY <1>3, Zenon DEF Min

(* One name after the other, then any image, finds the best there is.      *)
LEMMA FoundCoverIsBest ==
  ASSUME NEW images \in Seq(Image)
  PROVE  Best(images, FindCover(images))
<1> DEFINE usable  == {k \in DOMAIN images : images[k].contained}
           with(p) == {k \in usable : images[k].stem = p}
           hits    == {p \in 1..NamePrefixes : with(p) # {}}
<1>1. /\ DOMAIN images \subseteq Nat \ {0}
      /\ \A k \in DOMAIN images : images[k].stem \in 1..5
  <2>1. DOMAIN images = 1..Len(images) /\ Len(images) \in Nat
    OBVIOUS
  <2>2. \A k \in DOMAIN images : images[k] \in Image
    OBVIOUS
  <2>3. \A i \in Image : i.stem \in 1..5
    BY DEF Image, NamePrefixes
  <2> QED
    BY <2>1, <2>2, <2>3
<1>2. hits \subseteq Nat /\ usable \subseteq Nat /\ \A p : with(p) \subseteq Nat
  BY <1>1
<1>3. CASE hits # {}
  <2> DEFINE p == Min(hits)
             k == Min(with(p))
  <2>1. p \in hits /\ \A q \in hits : p <= q
    BY <1>2, <1>3, MinIsLeast
  <2>2. k \in with(p) /\ \A j \in with(p) : k <= j
    <3> HIDE DEF p
    <3> QED
      BY <1>2, <2>1, MinIsLeast
  <2>3. FindCover(images) = k
    BY <1>3, Zenon DEF FindCover
  <2>4. ASSUME NEW j \in usable
        PROVE  \/ images[k].stem < images[j].stem
               \/ images[k].stem = images[j].stem /\ k <= j
    <3>1. images[k].stem = p /\ p \in 1..4
      BY <2>1, <2>2 DEF NamePrefixes
    <3>2. CASE images[j].stem = 5
      BY <3>1, <3>2
    <3>3. CASE images[j].stem \in 1..4
      <4>1. images[j].stem \in hits
        BY <3>3 DEF NamePrefixes
      <4>2. p <= images[j].stem
        BY <2>1, <4>1
      <4>3. images[j].stem = p => k <= j
        BY <2>2
      <4> HIDE DEF p, k
      <4> QED
        BY <3>1, <3>3, <4>2, <4>3
    <3>4. images[j].stem = 5 \/ images[j].stem \in 1..4
      BY <1>1
    <3> QED
      BY <3>2, <3>3, <3>4
  <2>5. k \in DOMAIN images /\ images[k].contained /\ k # NoCover
    BY <1>1, <2>2 DEF NoCover
  <2> QED
    BY <2>3, <2>4, <2>5 DEF Best
<1>4. CASE hits = {} /\ usable # {}
  <2> DEFINE k == Min(usable)
  <2>1. k \in usable /\ \A j \in usable : k <= j
    BY <1>2, <1>4, MinIsLeast
  <2>2. FindCover(images) = k
    BY <1>4, Zenon DEF FindCover
  <2>3. ASSUME NEW j \in usable PROVE images[j].stem = 5
    <3>1. images[j].stem \in 1..5 /\ images[j].stem \notin 1..4
      BY <1>1, <1>4 DEF NamePrefixes
    <3> QED
      BY <3>1
  <2>4. k \in DOMAIN images /\ images[k].contained /\ k # NoCover
    BY <1>1, <2>1 DEF NoCover
  <2> QED
    BY <2>1, <2>2, <2>3, <2>4 DEF Best
<1>5. CASE hits = {} /\ usable = {}
  <2>1. FindCover(images) = NoCover
    BY <1>5, Zenon DEF FindCover
  <2> QED
    BY <1>5, <2>1 DEF Best
<1> QED
  BY <1>3, <1>4, <1>5

-----------------------------------------------------------------------------
Covered ==
  \/ pc = "output"
  \/ Previewed
  \/ pc = "send"
  \/ request.op = "cover" /\ status \in {200, 404}

(* A cover, once chosen, was chosen among the images of some moment.       *)
CoverInv ==
  /\ past.images \in Seq(Image)
  /\ content.images \in Seq(Image)
  /\ status # 0 => pc = "answered"
  /\ request.op = "cover" => pc \in {"decode", "find", "send", "answered"}
  /\ pc \in {"find", "send"} => request.op = "cover"
  /\ Covered => \E c \in Moments : cover = FindCover(c.images)

LEMMA InitCoverInv == Init => CoverInv
BY CasesAssumption DEF Init, CoverInv, Covered, Previewed

(* Up to the choice, and where there is none.                              *)
LEMMA EarlierStepsKeepCover ==
  ASSUME CoverInv, Decode \/ StatCue \/ ContainCue \/ Parse \/ Source \/ Duration \/ Enqueue
  PROVE  CoverInv'
<1>1. UNCHANGED <<request, content, past, cover>>
  BY DEF Decode, StatCue, ContainCue, Parse, Source, Duration, Enqueue, foundVars
<1>2. pc \notin {"answered", "output", "find", "send"} /\ request.op # "cover" /\ status = 0
  BY DEF CoverInv, Decode, StatCue, ContainCue, Parse, Source, Duration, Enqueue
<1>3. \/ /\ pc' = "answered"
         /\ status' \in {400, 403, 404, 500, 202, 409, 503}
      \/ /\ pc' \in {"stat", "contain", "parse", "source", "duration", "cover", "enqueue"}
         /\ status' = status
  BY DEF Decode, StatCue, ContainCue, Parse, Source, Duration, Enqueue, Answer, GoOn
<1> QED
  BY <1>1, <1>2, <1>3 DEF CoverInv, Covered, Previewed

LEMMA ChoiceIsOfTheMoment ==
  ASSUME CoverInv, PreviewCover \/ FindImage
  PROVE  CoverInv'
<1>1. UNCHANGED <<request, content, past>> /\ cover' = FindCover(content.images)
  BY DEF PreviewCover, FindImage
<1>2. CASE PreviewCover
  BY <1>1, <1>2 DEF PreviewCover, GoOn, CoverInv, Covered, Moments
<1>3. CASE FindImage
  <2>1. \/ pc' = "send" /\ status' = status /\ pc = "find"
        \/ pc' = "answered"
    BY <1>3 DEF FindImage, Answer, GoOn
  <2>2. request.op = "cover"
    BY <1>3 DEF FindImage, CoverInv
  <2> QED
    BY <1>1, <2>1, <2>2 DEF CoverInv, Covered, Previewed, Moments
<1> QED
  BY <1>2, <1>3

LEMMA LaterStepsKeepCover ==
  ASSUME CoverInv, Output \/ ContainAlbum \/ SendImage \/ Change \/ Stopped
                     \/ UNCHANGED vars
  PROVE  CoverInv'
<1>1. CASE Output
  <2>1. /\ UNCHANGED <<request, content, past, cover>>
        /\ pc = "output" /\ pc' = "answered" /\ status' = 200
    BY <1>1 DEF Output, Answer
  <2> QED
    BY <2>1 DEF CoverInv, Covered, Previewed, Moments
<1>2. CASE Change
  <2>1. UNCHANGED <<request, past, pc, cover, status>> /\ content = past
    BY <1>2 DEF Change, foundVars
  <2>2. content' \in Shifting
    BY <1>2 DEF Change
  <2>3. content'.images \in Seq(Image)
    BY <2>2, CasesAssumption
  <2>4. \A c \in Moments : c \in Moments'
    BY <2>1 DEF Moments
  <2> QED
    BY <2>1, <2>3, <2>4 DEF CoverInv, Covered, Previewed
<1>3. CASE Stopped \/ UNCHANGED vars
  BY <1>3 DEF Stopped, vars, foundVars, CoverInv, Covered, Previewed, Moments
<1>4. CASE ContainAlbum
  <2>1. /\ UNCHANGED <<request, content, past, cover>>
        /\ request.op = "cover" /\ pc = "decode"
    BY <1>4 DEF ContainAlbum, foundVars
  <2>2. \/ pc' = "find" /\ status' = status
        \/ pc' = "answered" /\ status' = 403
    BY <1>4 DEF ContainAlbum, Answer, GoOn
  <2> QED
    BY <2>1, <2>2 DEF CoverInv, Covered, Previewed, Moments
<1>5. CASE SendImage
  <2>1. UNCHANGED <<request, content, past, cover>> /\ pc = "send" /\ pc' = "answered"
    BY <1>5 DEF SendImage, foundVars, Answer
  <2> QED
    BY <2>1 DEF CoverInv, Covered, Previewed, Moments
<1> QED
  BY <1>1, <1>2, <1>3, <1>4, <1>5

LEMMA NextKeepsCover == CoverInv /\ [Next]_vars => CoverInv'
BY EarlierStepsKeepCover, ChoiceIsOfTheMoment, LaterStepsKeepCover DEF Next

(* The cover of a preview or a cover request is the best one its directory *)
(* had at some moment of the request (FindCover).                          *)
THEOREM CoversAreBest == Spec => []CoverIsBest
<1>1. Init => CoverInv
  BY InitCoverInv
<1>2. CoverInv /\ [Next]_vars => CoverInv'
  BY NextKeepsCover
<1>3. CoverInv => CoverIsBest
  <2> SUFFICES ASSUME CoverInv, Previewed \/ (request.op = "cover" /\ status \in {200, 404})
               PROVE  \E c \in Moments : Best(c.images, cover)
    BY DEF CoverIsBest
  <2>1. PICK c \in Moments : cover = FindCover(c.images)
    BY DEF CoverInv, Covered
  <2>2. c.images \in Seq(Image)
    BY <2>1 DEF CoverInv, Moments
  <2> QED
    BY <2>1, <2>2, FoundCoverIsBest
<1> QED
  BY <1>1, <1>2, <1>3, PTL DEF Spec

-----------------------------------------------------------------------------
(* A sheet is parsed as it reads *)

(* The lines of some kinds in a part of the text.                          *)
LEMMA LinesAreNumbers ==
  ASSUME NEW text \in Seq(Line), NEW kinds, NEW from \in Nat, NEW to \in Nat
  PROVE  /\ LinesOf(text, kinds, from, to) \subseteq Nat
         /\ IsFiniteSet(LinesOf(text, kinds, from, to))
<1>1. from..to \subseteq Nat /\ IsFiniteSet(from..to)
  <2>1. from \in Int /\ to \in Int
    OBVIOUS
  <2> QED
    BY <2>1, FS_Interval
<1>2. LinesOf(text, kinds, from, to) \subseteq from..to
  BY DEF LinesOf
<1> QED
  BY <1>1, <1>2, FS_Subset

LEMMA FirstIsLeast ==
  ASSUME NEW S \in SUBSET Nat
  PROVE  /\ FirstOf(S) \in Nat
         /\ S # {} => /\ FirstOf(S) \in S /\ FirstOf(S) = Min(S)
                      /\ \A y \in S : FirstOf(S) <= y
         /\ S = {} => FirstOf(S) = 0
<1>1. CASE S = {}
  BY <1>1 DEF FirstOf
<1>2. CASE S # {}
  <2>1. Min(S) \in S /\ \A y \in S : Min(S) <= y
    BY <1>2, MinIsLeast
  <2> QED
    BY <1>2, <2>1 DEF FirstOf
<1> QED
  BY <1>1, <1>2

(* The least of a set is the least of each part of it that holds it.       *)
LEMMA LeastOfPart ==
  ASSUME NEW S \in SUBSET Nat, NEW T \in SUBSET S, T # {},
         \A x \in T, y \in S \ T : x <= y
  PROVE  FirstOf(S) = Min(T)
<1>1. T \subseteq Nat /\ S # {}
  OBVIOUS
<1>2. Min(T) \in T /\ \A y \in T : Min(T) <= y
  BY <1>1, MinIsLeast
<1>3. FirstOf(S) \in S /\ \A y \in S : FirstOf(S) <= y
  BY <1>1, FirstIsLeast
<1>4. \A y \in S : Min(T) <= y
  BY <1>2
<1> DEFINE a == FirstOf(S)
           b == Min(T)
<1>5. a \in Nat /\ b \in Nat /\ a <= b /\ b <= a
  BY <1>1, <1>2, <1>3, <1>4
<1> HIDE DEF a, b
<1>6. a = b
  BY <1>5
<1> QED
  BY <1>6 DEF a, b

(* The numbers of a finite set, smallest first.                            *)
LEMMA InOrderElements ==
  ASSUME NEW S \in SUBSET Nat, IsFiniteSet(S)
  PROVE  InOrder(S) \in [1..Cardinality(S) -> S] /\ Cardinality(S) \in Nat
<1> DEFINE n == Cardinality(S)
           upTo(k) == {j \in S : j <= k}
           rank == [k \in S |-> Cardinality(upTo(k))]
<1>1. n \in Nat
  BY FS_CardinalityType
<1>2. ASSUME NEW k \in S
      PROVE  /\ upTo(k) \subseteq S /\ k \in upTo(k)
             /\ IsFiniteSet(upTo(k))
             /\ Cardinality(upTo(k)) \in 1..n
  <2>1. upTo(k) \subseteq S /\ k \in upTo(k)
    OBVIOUS
  <2> HIDE DEF upTo
  <2>2. IsFiniteSet(upTo(k)) /\ Cardinality(upTo(k)) <= n
    BY <2>1, FS_Subset
  <2>3. Cardinality(upTo(k)) \in Nat /\ Cardinality(upTo(k)) # 0
    BY <2>1, <2>2, FS_CardinalityType, FS_EmptySet
  <2> HIDE DEF n
  <2>4. Cardinality(upTo(k)) \in 1..n
    BY <1>1, <2>2, <2>3
  <2> QED
    BY <2>1, <2>2, <2>4
<1>3. ASSUME NEW k \in S, NEW l \in S, k < l
      PROVE  Cardinality(upTo(k)) # Cardinality(upTo(l))
  <2>1. upTo(k) \subseteq upTo(l) /\ l \in upTo(l) /\ l \notin upTo(k)
    <3>1. k \in Nat /\ l \in Nat /\ l <= l /\ ~(l <= k)
      BY <1>3
    <3>2. \A j \in S : j <= k => j <= l
      BY <1>3, <3>1
    <3> QED
      BY <3>1, <3>2
  <2>2. IsFiniteSet(upTo(l))
    BY <1>2
  <2> HIDE DEF upTo
  <2> QED
    BY <2>1, <2>2, FS_Subset
<1>4. rank \in Injection(S, 1..n)
  <2>1. rank \in [S -> 1..n]
    BY <1>2
  <2>2. ASSUME NEW k \in S, NEW l \in S, rank[k] = rank[l] PROVE k = l
    <3>1. k \in Nat /\ l \in Nat /\ ~(k < l) /\ ~(l < k)
      BY <1>3, <2>2
    <3> QED
      BY <3>1
  <2> HIDE DEF rank
  <2> QED
    BY <2>1, <2>2 DEF Injection, IsInjective
<1>5. IsFiniteSet(1..n) /\ Cardinality(1..n) = n
  <2>1. 1 \in Int /\ n \in Int /\ ~(1 > n + 1)
    BY <1>1
  <2>2. IsFiniteSet(1..n) /\ Cardinality(1..n) = IF 1 > n THEN 0 ELSE n - 1 + 1
    BY <2>1, FS_Interval
  <2> HIDE DEF n
  <2> QED
    BY <1>1, <2>2
<1>6. rank \in Surjection(S, 1..n)
  BY <1>4, <1>5, FS_Injection
<1>7. ASSUME NEW i \in 1..n
      PROVE  (CHOOSE k \in S : Cardinality(upTo(k)) = i) \in S
  <2>1. \E k \in S : rank[k] = i
    BY <1>6 DEF Surjection
  <2> QED
    BY <2>1
<1>8. InOrder(S) = [i \in 1..n |-> CHOOSE k \in S : Cardinality(upTo(k)) = i]
  BY DEF InOrder
<1> QED
  BY <1>1, <1>7, <1>8

LEMMA HeadersInText ==
  ASSUME NEW text \in Seq(Line)
  PROVE  /\ Len(text) \in Nat
         /\ NumberedHeaders(text) \subseteq Nat /\ IsFiniteSet(NumberedHeaders(text))
         /\ NumberedHeaders(text) \subseteq TrackHeaders(text)
         /\ \A h \in TrackHeaders(text) :
              h \in 1..Len(text) /\ text[h].kind \in AudioHeader
         /\ InOrder(NumberedHeaders(text)) \in
              [1..Cardinality(NumberedHeaders(text)) -> NumberedHeaders(text)]
         /\ Cardinality(NumberedHeaders(text)) \in Nat
<1>1. Len(text) \in Nat /\ 1 \in Nat
  OBVIOUS
<1>2. TrackHeaders(text) \subseteq Nat /\ IsFiniteSet(TrackHeaders(text))
  BY <1>1, LinesAreNumbers DEF TrackHeaders
<1>3. NumberedHeaders(text) \subseteq TrackHeaders(text)
  BY DEF NumberedHeaders, TrackHeaders, LinesOf, AudioHeader
<1>4. NumberedHeaders(text) \subseteq Nat /\ IsFiniteSet(NumberedHeaders(text))
  BY <1>2, <1>3, FS_Subset
<1>5. \A h \in TrackHeaders(text) :
        h \in 1..Len(text) /\ text[h].kind \in AudioHeader
  BY DEF TrackHeaders, LinesOf
<1> QED
  BY <1>1, <1>3, <1>4, <1>5, InOrderElements

(* Where a track's section ends for a reader, and where its block does for *)
(* the parser: the same line, or a data track stands between.              *)
LEMMA SectionInBlock ==
  ASSUME NEW text \in Seq(Line), NEW h \in TrackHeaders(text)
  PROVE  /\ SectionEnd(text, h) \in Nat /\ BlockEnd(text, h) \in Nat
         /\ h <= SectionEnd(text, h) /\ SectionEnd(text, h) <= BlockEnd(text, h)
         /\ BlockEnd(text, h) <= Len(text)
         /\ \A l \in h + 1..BlockEnd(text, h) : text[l].kind \notin AudioHeader
         /\ SectionEnd(text, h) < BlockEnd(text, h) =>
              text[SectionEnd(text, h) + 1].kind = "DATA"
<1> DEFINE n == Len(text)
           next == {k \in TrackHeaders(text) : k > h}
           later == LinesOf(text, AudioHeader \union {"DATA"}, h + 1, n)
           b == BlockEnd(text, h)
           e == SectionEnd(text, h)
<1>1. n \in Nat /\ h \in Nat /\ 1 <= h /\ h <= n
  BY HeadersInText
<1>2. /\ \A k \in TrackHeaders(text) : k \in 1..n /\ text[k].kind \in AudioHeader
      /\ \A k \in 1..n : text[k].kind \in AudioHeader => k \in TrackHeaders(text)
  BY DEF TrackHeaders, LinesOf
<1>3. /\ \A k \in later : k \in h + 1..n /\ text[k].kind \in AudioHeader \union {"DATA"}
      /\ \A k \in h + 1..n :
           text[k].kind \in AudioHeader \union {"DATA"} => k \in later
  BY DEF LinesOf
<1>4. next \subseteq Nat /\ later \subseteq Nat
  <2>1. next \subseteq TrackHeaders(text) /\ TrackHeaders(text) \subseteq Nat
    BY <1>1, <1>2, LinesAreNumbers DEF TrackHeaders
  <2>2. h + 1 \in Nat /\ later \subseteq Nat
    BY <1>1, LinesAreNumbers
  <2> QED
    BY <2>1, <2>2
<1>5. b = (IF next = {} THEN n ELSE Min(next) - 1)
  BY DEF BlockEnd
<1>6. e = (IF later = {} THEN n ELSE Min(later) - 1)
  BY DEF SectionEnd
<1>7. next # {} => Min(next) \in next /\ \A y \in next : Min(next) <= y
  BY <1>4, MinIsLeast
<1>8. later # {} => Min(later) \in later /\ \A y \in later : Min(later) <= y
  BY <1>4, MinIsLeast
<1>9. next \subseteq later
  <2> SUFFICES ASSUME NEW k \in next PROVE k \in later
    OBVIOUS
  <2>1. k \in 1..n /\ k > h /\ text[k].kind \in AudioHeader
    BY <1>2
  <2>2. k \in h + 1..n
    BY <1>1, <2>1
  <2> QED
    BY <1>3, <2>1, <2>2
<1>10. b \in Nat /\ b <= n /\ h <= b /\ (next # {} => b + 1 = Min(next))
  <2>1. CASE next = {}
    BY <1>1, <1>5, <2>1
  <2>2. CASE next # {}
    <3> DEFINE m == Min(next)
    <3>1. m \in 1..n /\ m > h /\ b = m - 1
      BY <1>2, <1>5, <1>7, <2>2
    <3> HIDE DEF m, b
    <3>2. b \in Nat /\ b <= n /\ h <= b /\ b + 1 = m
      BY <1>1, <3>1
    <3> QED
      BY <3>2 DEF m
  <2> QED
    BY <2>1, <2>2
<1> HIDE DEF later
<1>11. e \in Nat /\ e <= n /\ h <= e /\ (later # {} => e + 1 = Min(later))
  <2>1. CASE later = {}
    BY <1>1, <1>6, <2>1
  <2>2. CASE later # {}
    <3> DEFINE m == Min(later)
    <3>1. m \in h + 1..n /\ e = m - 1
      BY <1>3, <1>6, <1>8, <2>2
    <3> HIDE DEF m, e
    <3>2. e \in Nat /\ e <= n /\ h <= e /\ e + 1 = m
      BY <1>1, <3>1
    <3> QED
      BY <3>2 DEF m
  <2> QED
    BY <2>1, <2>2
<1> HIDE DEF n, b, e, next
<1>12. e <= b
  <2>1. CASE next = {}
    BY <1>5, <1>11, <2>1
  <2>2. CASE next # {}
    <3>1. later # {} /\ Min(next) \in later
      BY <1>7, <1>9, <2>2
    <3>2. Min(later) <= Min(next)
      BY <1>8, <3>1
    <3>3. e + 1 <= b + 1
      BY <1>10, <1>11, <2>2, <3>1, <3>2
    <3> QED
      BY <1>10, <1>11, <3>3
  <2> QED
    BY <2>1, <2>2
<1>13. ASSUME NEW l \in h + 1..b, text[l].kind \in AudioHeader PROVE FALSE
  <2>1. l \in Nat /\ l > h /\ l <= b /\ l \in 1..n
    BY <1>1, <1>10
  <2>2. l \in next
    BY <1>2, <1>13, <2>1 DEF next, n
  <2>3. b + 1 <= l
    BY <1>7, <1>10, <2>2
  <2> QED
    BY <1>10, <2>1, <2>3
<1>14. ASSUME e < b PROVE text[e + 1].kind = "DATA"
  <2>1. later # {}
    <3> SUFFICES ASSUME later = {} PROVE FALSE
      OBVIOUS
    <3>1. e = n
      BY <1>6
    <3> QED
      BY <1>1, <1>10, <1>14, <3>1
  <2>2. e + 1 \in later
    BY <1>8, <1>11, <2>1
  <2>3. text[e + 1].kind \in AudioHeader \union {"DATA"}
    BY <1>3, <2>2
  <2>4. e + 1 \in h + 1..b
    BY <1>1, <1>10, <1>11, <1>14
  <2> QED
    BY <1>13, <2>3, <2>4
<1> QED
  BY <1>10, <1>11, <1>12, <1>13, <1>14 DEF n, b, e

(* The first line of some kinds in a track's block is its own field.       *)
LEMMA FirstIsOwnField ==
  ASSUME NEW text \in Seq(Line), NEW h \in TrackHeaders(text), NEW kinds
  PROVE  LET k == FirstOf(LinesOf(text, kinds, h + 1, BlockEnd(text, h)))
         IN  /\ k \in Nat
             /\ OwnField(text, h, k, kinds)
             /\ k = 0 => LinesOf(text, kinds, h + 1, SectionEnd(text, h)) = {}
<1> DEFINE b == BlockEnd(text, h)
           e == SectionEnd(text, h)
           block == LinesOf(text, kinds, h + 1, b)
           own == LinesOf(text, kinds, h + 1, e)
           k == FirstOf(block)
<1>1. /\ e \in Nat /\ b \in Nat /\ h <= e /\ e <= b
      /\ \A l \in h + 1..b : text[l].kind \notin AudioHeader
      /\ e < b => text[e + 1].kind = "DATA"
  BY SectionInBlock
<1>2. h \in Nat /\ h >= 1
  BY HeadersInText
<1>3. /\ \A l \in block : l \in h + 1..b
      /\ \A l \in own : l \in h + 1..e
      /\ \A l \in h + 1..e : l \in block => l \in own
      /\ own \subseteq block
  <2>1. h + 1..e \subseteq h + 1..b
    BY <1>1, <1>2
  <2> HIDE DEF b, e
  <2> QED
    BY <2>1 DEF LinesOf
<1> HIDE DEF b, e, block, own
<1>4. block \subseteq Nat /\ own \subseteq Nat
  BY <1>1, <1>2, <1>3
<1>5. /\ k \in Nat
      /\ block # {} => k \in block /\ \A y \in block : k <= y
      /\ block = {} => k = 0
  BY <1>4, FirstIsLeast
<1>6. CASE own # {}
  <2>1. \A x \in own, y \in block \ own : x <= y
    <3> SUFFICES ASSUME NEW x \in own, NEW y \in block \ own PROVE x <= y
      OBVIOUS
    <3>1. x \in h + 1..e /\ y \in h + 1..b /\ y \notin h + 1..e
      BY <1>3
    <3> QED
      BY <1>1, <1>2, <3>1
  <2>2. k = Min(own)
    BY <1>3, <1>4, <1>6, <2>1, LeastOfPart
  <2>3. k # 0
    <3>1. k \in h + 1..b
      BY <1>3, <1>5, <1>6
    <3> QED
      BY <1>1, <1>2, <3>1
  <2> QED
    BY <1>5, <1>6, <2>2, <2>3 DEF OwnField, own, e, k, block, b
<1>7. CASE own = {}
  <2>1. ASSUME k # 0
        PROVE  /\ k > h
               /\ \A l \in h + 1..k : text[l].kind \notin AudioHeader
               /\ \E l \in h + 1..k : text[l].kind = "DATA"
    <3>1. k \in block /\ k \in h + 1..b /\ k \notin h + 1..e
      BY <1>3, <1>5, <1>7, <2>1
    <3>2. /\ k > h /\ e < b /\ e + 1 \in h + 1..k
          /\ \A l \in h + 1..k : l \in h + 1..b
      BY <1>1, <1>2, <3>1
    <3> QED
      BY <1>1, <3>2
  <2> QED
    BY <1>5, <1>7, <2>1 DEF OwnField, own, e, k, block, b
<1> QED
  BY <1>6, <1>7


(* A track is as a reader takes it from behind the header h.               *)
AsRead(text, h, t, albumPerformer) ==
  LET performers == {"PERFORMER", "performer"}
  IN  /\ t.number = text[h].arg
      /\ OwnField(text, h, t.title, {"TITLE", "title"})
      /\ OwnField(text, h, t.index, {"INDEX 01"})
      /\ \/ OwnField(text, h, t.performer, performers)
         \/ /\ t.performer = albumPerformer
            /\ LinesOf(text, performers, h + 1, SectionEnd(text, h)) = {}

(* What the parser makes of the track with header h.                       *)
LEMMA TrackIsRead ==
  ASSUME NEW text \in Seq(Line), NEW h \in TrackHeaders(text), NEW p \in Nat
  PROVE  AsRead(text, h, ParseTrack(text, h, p), p)
<1> DEFINE first(kinds) == FirstOf(LinesOf(text, kinds, h + 1, BlockEnd(text, h)))
           t == ParseTrack(text, h, p)
           performers == {"PERFORMER", "performer"}
           q == first(performers)
<1>1. t = [number    |-> text[h].arg,
           title     |-> first({"TITLE", "title"}),
           performer |-> IF q # 0 THEN q ELSE p,
           index     |-> first({"INDEX 01"})]
  BY DEF ParseTrack
<1>2. /\ t.number = text[h].arg
      /\ t.title = first({"TITLE", "title"})
      /\ t.performer = IF q # 0 THEN q ELSE p
      /\ t.index = first({"INDEX 01"})
  <2> HIDE DEF t, first, q
  <2> QED
    BY <1>1
<1>3. ASSUME NEW kinds PROVE OwnField(text, h, first(kinds), kinds)
  BY FirstIsOwnField, Zenon
<1>4. /\ OwnField(text, h, q, performers)
      /\ q = 0 => LinesOf(text, performers, h + 1, SectionEnd(text, h)) = {}
  BY FirstIsOwnField, Zenon
<1> HIDE DEF t, first, q
<1>5. \/ OwnField(text, h, t.performer, performers)
      \/ /\ t.performer = p
         /\ LinesOf(text, performers, h + 1, SectionEnd(text, h)) = {}
  <2>1. CASE q = 0
    <3>1. t.performer = p
      BY <1>2, <2>1
    <3> QED
      BY <1>4, <2>1, <3>1, Zenon
  <2>2. CASE q # 0
    <3>1. t.performer = q
      BY <1>2, <2>2
    <3> QED
      BY <1>4, <3>1, Zenon
  <2> QED
    BY <2>1, <2>2, Zenon
<1>6. /\ OwnField(text, h, t.title, {"TITLE", "title"})
      /\ OwnField(text, h, t.index, {"INDEX 01"})
  BY <1>2, <1>3, Zenon
<1> QED
  BY <1>2, <1>5, <1>6, Zenon DEF t, AsRead

(* A field of the album is its first line of the preamble, if it is there. *)
LEMMA AlbumFieldIsRead ==
  ASSUME NEW text \in Seq(Line), NEW kind,
         LinesOf(text, {kind}, 1, FirstOf(TrackHeaders(text)) - 1) # {}
  PROVE  FirstIn(text, {kind}) =
           Min(LinesOf(text, {kind}, 1, FirstOf(TrackHeaders(text)) - 1))
<1> DEFINE n == Len(text)
           f == FirstOf(TrackHeaders(text))
           all == LinesOf(text, {kind}, 1, n)
           early == LinesOf(text, {kind}, 1, f - 1)
<1>1. n \in Nat /\ f \in Nat /\ f <= n
  <2>1. n \in Nat /\ TrackHeaders(text) \subseteq Nat
    BY LinesAreNumbers DEF TrackHeaders
  <2>2. f \in Nat /\ (f = 0 \/ f \in TrackHeaders(text))
    BY <2>1, FirstIsLeast
  <2>3. TrackHeaders(text) \subseteq 1..n
    BY DEF TrackHeaders, LinesOf
  <2> HIDE DEF n, f
  <2>4. f = 0 \/ f \in 1..n
    BY <2>2, <2>3
  <2> QED
    BY <2>1, <2>2, <2>4
<1> HIDE DEF n, f
<1>2. /\ all \subseteq Nat
      /\ early \subseteq all
      /\ \A x \in early, y \in all \ early : x <= y
  <2>1. \A k : k \in all <=> k \in 1..n /\ text[k].kind \in {kind}
    BY DEF LinesOf
  <2>2. \A k : k \in early <=> k \in 1..f - 1 /\ text[k].kind \in {kind}
    BY DEF LinesOf
  <2>3. 1..f - 1 \subseteq 1..n /\ 1..n \subseteq Nat
    BY <1>1
  <2>4. \A x \in 1..f - 1, y \in 1..n : y \notin 1..f - 1 => x <= y
    BY <1>1
  <2> HIDE DEF all, early
  <2>5. all \subseteq Nat /\ early \subseteq all
    BY <2>1, <2>2, <2>3, Zenon
  <2> QED
    BY <2>1, <2>2, <2>4, <2>5, Zenon
<1>3. early # {}
  BY DEF f
<1> HIDE DEF all, early
<1>4. FirstOf(all) = Min(early)
  BY <1>2, <1>3, LeastOfPart
<1> QED
  BY <1>4 DEF FirstIn, all, early, n, f

LEMMA ParsedIsAsRead ==
  ASSUME NEW text \in Seq(Line)
  PROVE  ParsedAsRead(text, ParseText(text))
<1> DEFINE parsed == ParseText(text)
           headers == InOrder(NumberedHeaders(text))
           n == Cardinality(NumberedHeaders(text))
           p == FirstIn(text, {"PERFORMER"})
           preamble(kind) == LinesOf(text, {kind}, 1, FirstOf(TrackHeaders(text)) - 1)
<1>1. /\ parsed.tracks = [i \in DOMAIN headers |-> ParseTrack(text, headers[i], p)]
      /\ parsed.performer = p
      /\ parsed.title = FirstIn(text, {"TITLE"})
  BY DEF ParseText
<1>2. /\ n \in Nat
      /\ headers \in [1..n -> NumberedHeaders(text)]
      /\ NumberedHeaders(text) \subseteq TrackHeaders(text)
  BY HeadersInText
<1>3. p \in Nat
  <2>1. Len(text) \in Nat /\ 1 \in Nat
    OBVIOUS
  <2>2. LinesOf(text, {"PERFORMER"}, 1, Len(text)) \subseteq Nat
    BY <2>1, LinesAreNumbers
  <2> QED
    BY <2>2, FirstIsLeast DEF FirstIn
<1>4. \A kind : preamble(kind) # {} => FirstIn(text, {kind}) = Min(preamble(kind))
  BY AlbumFieldIsRead, Zenon
<1> HIDE DEF parsed, headers, n, p
<1>5. DOMAIN headers = 1..n /\ \A i \in 1..n : headers[i] \in TrackHeaders(text)
  BY <1>2
<1>6. Len(parsed.tracks) = Len(headers)
  <2>1. parsed.tracks = [i \in 1..n |-> ParseTrack(text, headers[i], p)]
    BY <1>1, <1>5, Zenon
  <2>2. Len(parsed.tracks) = n
    BY <1>2, <2>1
  <2>3. Len(headers) = n
    BY <1>2
  <2> QED
    BY <2>2, <2>3
<1>7. ASSUME NEW i \in DOMAIN headers
      PROVE  AsRead(text, headers[i], parsed.tracks[i], parsed.performer)
  <2>1. headers[i] \in TrackHeaders(text)
    BY <1>5, <1>7, Zenon
  <2>2. parsed.tracks[i] = ParseTrack(text, headers[i], p)
    BY <1>1, <1>7, Zenon
  <2> QED
    BY <1>1, <1>3, <2>1, <2>2, TrackIsRead, Zenon
<1>8. /\ preamble("TITLE") # {} => parsed.title = Min(preamble("TITLE"))
      /\ preamble("PERFORMER") # {} => parsed.performer = Min(preamble("PERFORMER"))
  BY <1>1, <1>4, Zenon DEF p
<1> QED
  BY <1>6, <1>7, <1>8, Zenon DEF ParsedAsRead, AsRead, headers, parsed

Contents == {case.content : case \in Cases} \union Shifting

(* Reading ends at the first encoding that fits, and UTF-8 is tried first. *)
LEMMA TextIsRead ==
  ASSUME NEW c \in Contents
  PROVE  /\ TextOf(c.sheet) = ReadCUE(c.sheet.as)
         /\ ReadCUE(c.sheet.as) \in Seq(Line)
<1> DEFINE as == c.sheet.as
           tried(k) == as[EncodingNames[k]]
           fits == {k \in 1..7 : Decodes(as, EncodingNames[k]) /\ LooksLikeCUE(tried(k))}
<1>1. /\ DOMAIN EncodingNames = 1..7
      /\ EncodingNames[1] = "utf-8-sig"
      /\ "latin-1" \in Encoding
      /\ \A k \in 1..7 : EncodingNames[k] \in Encoding
  <2>1. DOMAIN EncodingNames = 1..7 /\ EncodingNames[1] = "utf-8-sig"
        /\ EncodingNames[7] = "latin-1"
    BY DEF EncodingNames
  <2>2. Encoding = {EncodingNames[k] : k \in 1..7}
    BY <2>1, Zenon DEF Encoding, ToSet
  <2>3. 7 \in 1..7
    OBVIOUS
  <2> QED
    BY <2>1, <2>2, <2>3, Zenon
<1>2. /\ \A e \in Encoding : as[e] \in {Undecodable} \union Seq(Line)
      /\ as["latin-1"] # Undecodable
  BY CasesAssumption DEF Contents
<1>3. ReadCUE(as) = IF fits = {} THEN as["latin-1"] ELSE tried(Min(fits))
  BY <1>1 DEF ReadCUE
<1>4. fits \subseteq Nat /\ fits \subseteq 1..7
  OBVIOUS
<1>5. \A k \in fits : tried(k) \in Seq(Line)
  BY <1>1, <1>2, Zenon DEF Decodes
<1>6. 1 \in fits <=> as["utf-8-sig"] # Undecodable /\ LooksLikeCUE(as["utf-8-sig"])
  <2>1. 1 \in 1..7
    OBVIOUS
  <2> QED
    BY <1>1, <2>1, Zenon DEF Decodes
<1> HIDE DEF as, fits
<1>7. fits # {} => Min(fits) \in fits /\ \A k \in fits : Min(fits) <= k
  BY <1>4, MinIsLeast
<1>8. ReadCUE(as) \in Seq(Line)
  BY <1>1, <1>2, <1>3, <1>5, <1>7, Zenon
<1>9. 1 \in fits => Min(fits) = 1
  <2> DEFINE m == Min(fits)
  <2>1. 1 \in fits => m \in 1..7 /\ m <= 1
    BY <1>4, <1>7
  <2> HIDE DEF m
  <2>2. 1 \in fits => m = 1
    BY <2>1
  <2> QED
    BY <2>2 DEF m
<1>10. 1 \in fits => ReadCUE(as) = as["utf-8-sig"]
  <2> SUFFICES ASSUME 1 \in fits PROVE ReadCUE(as) = as["utf-8-sig"]
    OBVIOUS
  <2>1. fits # {} /\ tried(1) = as["utf-8-sig"]
    BY <1>1, Zenon
  <2> HIDE DEF tried
  <2> QED
    BY <1>3, <1>9, <2>1
<1>11. TextOf(c.sheet) = IF 1 \in fits THEN as["utf-8-sig"] ELSE ReadCUE(as)
  BY <1>6, Zenon DEF TextOf, as
<1> QED
  BY <1>8, <1>10, <1>11, Zenon DEF as

Read(c) == album = ParseText(ReadCUE(c.sheet.as))

(* Behind the parser, and in the answer, the album is what a sheet that    *)
(* the directory held had in it.                                           *)
Parsed == pc \in {"source", "duration", "cover", "output"} \/ Previewed

SheetInv ==
  /\ past \in Contents
  /\ content \in Contents
  /\ status # 0 => pc = "answered"
  /\ pc \in {"find", "send"} => request.op = "cover"
  /\ Parsed => \E c \in Moments : Read(c)

LEMMA InitSheetInv == Init => SheetInv
BY DEF Init, SheetInv, Contents, Parsed, Previewed

LEMMA NextKeepsSheet == SheetInv /\ [Next]_vars => SheetInv'
<1> SUFFICES ASSUME SheetInv, [Next]_vars PROVE SheetInv'
  OBVIOUS
<1>1. CASE Decode \/ StatCue \/ ContainCue \/ Enqueue
  <2>1. /\ UNCHANGED <<request, content, past, album>>
        /\ pc \notin {"answered"}
    BY <1>1 DEF Decode, StatCue, ContainCue, Enqueue, foundVars
  <2>2. \/ /\ pc' = "answered"
           /\ status' \in {400, 403, 404, 202, 409, 503}
        \/ pc' \in {"stat", "contain", "parse", "enqueue"} /\ status' = status
    BY <1>1 DEF Decode, StatCue, ContainCue, Enqueue, Answer, GoOn
  <2> QED
    BY <2>1, <2>2 DEF SheetInv, Parsed, Previewed
<1>2. CASE Parse
  <2>1. UNCHANGED <<request, content, past>> /\ pc = "parse"
    BY <1>2 DEF Parse
  <2>2. \/ /\ pc' = "source" /\ status' = status
           /\ album' = ParseText(ReadCUE(content.sheet.as))
        \/ pc' = "answered" /\ status' = 500
    BY <1>2 DEF Parse, Answer, GoOn
  <2>3. album' = ParseText(ReadCUE(content.sheet.as)) => \E c \in Moments' : Read(c)'
    BY <2>1 DEF Moments, Read
  <2> QED
    BY <2>1, <2>2, <2>3 DEF SheetInv, Parsed, Previewed
<1>3. CASE Source \/ Duration \/ PreviewCover \/ Output
  <2>1. UNCHANGED <<request, content, past, album>> /\ Parsed
    BY <1>3 DEF Source, Duration, PreviewCover, Output, Parsed
  <2>2. \/ pc' \in {"cover", "duration", "output"} /\ status' = status
        \/ pc' = "answered"
    BY <1>3 DEF Source, Duration, PreviewCover, Output, Answer, GoOn
  <2>3. (\E c \in Moments : Read(c)) /\ pc # "answered"
    BY <1>3, <2>1 DEF SheetInv, Source, Duration, PreviewCover, Output
  <2>4. Moments' = Moments /\ \A c : Read(c) => Read(c)'
    BY <2>1 DEF Moments, Read
  <2> QED
    BY <2>1, <2>2, <2>3, <2>4 DEF SheetInv
<1>4. CASE ContainAlbum \/ FindImage \/ SendImage
  <2>1. UNCHANGED <<request, content, past, album>> /\ request.op = "cover"
    BY <1>4 DEF ContainAlbum, FindImage, SendImage, foundVars, SheetInv
  <2>2. \/ pc' \in {"find", "send"} /\ status' = status /\ pc # "answered"
        \/ pc' = "answered"
    BY <1>4 DEF ContainAlbum, FindImage, SendImage, Answer, GoOn
  <2> QED
    BY <2>1, <2>2 DEF SheetInv, Parsed, Previewed
<1>5. CASE Change
  <2>1. UNCHANGED <<request, past, pc, album, status>> /\ content = past
    BY <1>5 DEF Change, foundVars
  <2>2. content' \in Shifting
    BY <1>5 DEF Change
  <2>3. content' \in Contents
    BY <2>2 DEF Contents
  <2>4. \A c \in Moments : c \in Moments'
    BY <2>1 DEF Moments
  <2>5. (Parsed' => Parsed) /\ \A c : Read(c) => Read(c)'
    BY <2>1 DEF Parsed, Previewed, Read
  <2> QED
    BY <2>1, <2>3, <2>4, <2>5 DEF SheetInv
<1>6. CASE Stopped \/ UNCHANGED vars
  BY <1>6 DEF Stopped, vars, foundVars, SheetInv, Parsed, Previewed, Moments, Read
<1> QED
  BY <1>1, <1>2, <1>3, <1>4, <1>5, <1>6 DEF Next

(* A preview shows the audio tracks of a sheet that its directory held,    *)
(* in their order, each with the fields of its own section, whatever the   *)
(* encoding of the sheet (ParseText, detectDecode).                        *)
THEOREM TracksShowTheirFields == Spec => []FieldsStayWithTheirTrack
<1>1. SheetInv => FieldsStayWithTheirTrack
  <2> SUFFICES ASSUME SheetInv, Previewed
               PROVE  \E c \in Moments : ParsedAsRead(TextOf(c.sheet), album)
    BY DEF FieldsStayWithTheirTrack
  <2>1. PICK c \in Moments : Read(c)
    BY DEF SheetInv, Parsed
  <2>2. c \in Contents
    BY <2>1 DEF SheetInv, Moments
  <2>3. TextOf(c.sheet) \in Seq(Line) /\ album = ParseText(TextOf(c.sheet))
    BY <2>1, <2>2, TextIsRead DEF Read
  <2>4. ParsedAsRead(TextOf(c.sheet), album)
    BY <2>3, ParsedIsAsRead, Zenon
  <2> QED
    BY <2>1, <2>4
<1> QED
  BY <1>1, InitSheetInv, NextKeepsSheet, PTL DEF Spec

-----------------------------------------------------------------------------
(* Functions that are defined by recursion *)

(* What recursion reaches in n steps.                                      *)
Steps(S, s0, step, n) ==
  {g \in [0..n -> S] : /\ g[0] = s0
                       /\ \A k \in 0..n : k < n => g[k + 1] = step[<<k, g[k]>>]}

LEMMA StepsAgree ==
  ASSUME NEW S, NEW s0 \in S, NEW step \in [Nat \X S -> S], NEW m \in Nat, NEW n \in Nat,
         NEW g \in Steps(S, s0, step, m), NEW h \in Steps(S, s0, step, n),
         NEW k \in Nat, k <= m, k <= n
  PROVE  g[k] = h[k]
<1> DEFINE bad == {i \in Nat : i <= m /\ i <= n /\ g[i] # h[i]}
<1>1. SUFFICES ASSUME bad # {} PROVE FALSE
  OBVIOUS
<1>2. PICK i \in bad : \A j \in bad : i <= j
  BY <1>1, MinIsLeast
<1>3. i \in Nat /\ i <= m /\ i <= n /\ g[i] # h[i]
  OBVIOUS
<1>4. i # 0
  BY <1>3 DEF Steps
<1>5. i - 1 \in Nat /\ i - 1 \in 0..m /\ i - 1 \in 0..n /\ i - 1 < m /\ i - 1 < n
      /\ (i - 1) + 1 = i /\ ~(i <= i - 1)
  BY <1>3, <1>4
<1>6. g[i - 1] = h[i - 1]
  BY <1>2, <1>5
<1> DEFINE p == i - 1
<1> HIDE DEF p
<1>7. g[p + 1] = step[<<p, g[p]>>] /\ h[p + 1] = step[<<p, h[p]>>]
  BY <1>5 DEF Steps, p
<1>8. p + 1 = i /\ g[p] = h[p]
  BY <1>5, <1>6 DEF p
<1> QED
  BY <1>3, <1>7, <1>8

LEMMA StepsExist ==
  ASSUME NEW S, NEW s0 \in S, NEW step \in [Nat \X S -> S], NEW n \in Nat
  PROVE  Steps(S, s0, step, n) # {}
<1> DEFINE bad == {i \in Nat : Steps(S, s0, step, i) = {}}
<1>1. SUFFICES ASSUME bad # {} PROVE FALSE
  OBVIOUS
<1>2. PICK m \in bad : \A j \in bad : m <= j
  BY <1>1, MinIsLeast
<1>3. m \in Nat /\ Steps(S, s0, step, m) = {}
  OBVIOUS
<1>4. m # 0
  <2> SUFFICES ASSUME m = 0 PROVE FALSE
    OBVIOUS
  <2>1. [k \in 0..0 |-> s0] \in Steps(S, s0, step, 0)
    BY DEF Steps
  <2> QED
    BY <1>3, <2>1
<1> DEFINE p == m - 1
<1>5. p \in Nat /\ p + 1 = m /\ ~(m <= p)
  BY <1>3, <1>4
<1> HIDE DEF p
<1>6. PICK g : g \in Steps(S, s0, step, p)
  BY <1>2, <1>5
<1> DEFINE h == [k \in 0..m |-> IF k = m THEN step[<<p, g[p]>>] ELSE g[k]]
<1>7. /\ g \in [0..p -> S] /\ g[0] = s0
      /\ \A k \in 0..p : k < p => g[k + 1] = step[<<k, g[k]>>]
  BY <1>6 DEF Steps
<1>8. h \in [0..m -> S]
  <2> SUFFICES ASSUME NEW k \in 0..m
               PROVE  (IF k = m THEN step[<<p, g[p]>>] ELSE g[k]) \in S
    OBVIOUS
  <2>1. p \in 0..p /\ (k # m => k \in 0..p)
    BY <1>5
  <2> QED
    BY <1>5, <1>7, <2>1
<1>9. h[0] = s0
  <2>1. 0 \in 0..m /\ 0 # m
    BY <1>3, <1>4
  <2> QED
    BY <1>7, <2>1
<1>10. ASSUME NEW k \in 0..m, k < m PROVE h[k + 1] = step[<<k, h[k]>>]
  <2>1. k \in 0..p /\ k # m /\ k + 1 \in 0..m /\ (k + 1 = m <=> k = p)
        /\ (k # p => k < p)
    BY <1>3, <1>5, <1>10
  <2>2. h[k] = g[k] /\ h[k + 1] = IF k = p THEN step[<<p, g[p]>>] ELSE g[k + 1]
    BY <2>1
  <2> HIDE DEF h
  <2> QED
    BY <1>7, <2>1, <2>2
<1>11. h \in Steps(S, s0, step, m)
  <2> HIDE DEF h
  <2> QED
    BY <1>8, <1>9, <1>10 DEF Steps
<1> QED
  BY <1>3, <1>11

Recursion(S, s0, step) ==
  \E f \in [Nat -> S] : /\ f[0] = s0
                        /\ \A n \in Nat : f[n + 1] = step[<<n, f[n]>>]

(* Recursion over the numbers defines a function.                          *)
LEMMA RecursionIsDefined ==
  ASSUME NEW S, NEW s0 \in S, NEW step \in [Nat \X S -> S]
  PROVE  Recursion(S, s0, step)
<1> DEFINE g(n) == CHOOSE g : g \in Steps(S, s0, step, n)
           f == [n \in Nat |-> g(n)[n]]
<1>1. \A n \in Nat : g(n) \in Steps(S, s0, step, n)
  BY StepsExist, Zenon
<1> HIDE DEF g
<1>2. \A n \in Nat : n \in 0..n
  OBVIOUS
<1>3. f \in [Nat -> S]
  BY <1>1, <1>2 DEF Steps
<1>4. f[0] = s0
  BY <1>1 DEF Steps
<1>5. ASSUME NEW n \in Nat PROVE f[n + 1] = step[<<n, f[n]>>]
  <2> DEFINE m == n + 1
  <2>1. m \in Nat /\ n <= m /\ n <= n /\ n < m /\ n \in 0..m
    OBVIOUS
  <2>2. g(m)[n + 1] = step[<<n, g(m)[n]>>]
    <3> HIDE DEF m
    <3>1. \A k \in 0..m : k < m => g(m)[k + 1] = step[<<k, g(m)[k]>>]
      BY <1>1, <2>1 DEF Steps
    <3> QED
      BY <2>1, <3>1
  <2>3. g(m)[n] = g(n)[n]
    <3> HIDE DEF m
    <3> QED
      BY <1>1, <2>1, StepsAgree
  <2> QED
    BY <2>1, <2>2, <2>3
<1> QED
  BY <1>3, <1>4, <1>5 DEF Recursion

-----------------------------------------------------------------------------
(* Durations *)

Durations == (Nat \X (Nat \ {0})) \union {Unknown}

Loop == [pos : Nat, rate : Nat \union {Unknown}, data : Nat \union {Unknown}]

LEMMA QuotientType ==
  ASSUME NEW amount \in Nat, NEW rate \in Nat
  PROVE  Quotient(amount, rate) \in Durations
BY DEF Quotient, Durations


LEMMA ChunkFields ==
  ASSUME NEW chunks \in Seq(Chunk)
  PROVE  \A k \in DOMAIN chunks : chunks[k].size \in Nat /\ chunks[k].rate \in Nat
<1>1. \A c \in Chunk : c.size \in Nat /\ c.rate \in Nat
  BY DEF Chunk
<1>2. \A k \in DOMAIN chunks : chunks[k] \in Chunk
  OBVIOUS
<1> QED
  BY <1>1, <1>2

(* What a chunk that is read says of itself.                               *)
LEMMA ChunkAtType ==
  ASSUME NEW file, file.chunks \in Seq(Chunk), NEW pos
  PROVE  ChunkAt(file, pos).size \in Nat /\ ChunkAt(file, pos).rate \in Nat
<1> DEFINE here == {k \in DOMAIN file.chunks : StartOf(file.chunks)[k] = pos}
           k == Min(here)
           c == file.chunks[k]
<1>1. ChunkAt(file, pos) = IF here = {} THEN [id |-> "zero", size |-> 0, rate |-> 0] ELSE c
  BY DEF ChunkAt
<1>2. here \subseteq Nat /\ here \subseteq DOMAIN file.chunks
  OBVIOUS
<1> HIDE DEF here
<1>3. here # {} => k \in here
  BY <1>2, MinIsLeast
<1> HIDE DEF k
<1>4. here # {} => c.size \in Nat /\ c.rate \in Nat
  BY <1>2, <1>3, ChunkFields
<1> HIDE DEF c
<1> QED
  BY <1>1, <1>4

NextRound(file, s) == IF Over(file, s) THEN s ELSE Round(file, s)

LEMMA NextRoundType ==
  ASSUME NEW file, file.chunks \in Seq(Chunk), NEW s \in Loop
  PROVE  NextRound(file, s) \in Loop
<1> DEFINE c == ChunkAt(file, s.pos)
           body == s.pos + ChunkHeader
           rate == IF c.id = FmtID THEN c.rate ELSE s.rate
           data == IF c.id = DataID THEN c.size ELSE s.data
<1>1. /\ s.pos \in Nat
      /\ s.rate \in Nat \union {Unknown}
      /\ s.data \in Nat \union {Unknown}
  BY DEF Loop
<1>2. c.size \in Nat /\ c.rate \in Nat
  BY ChunkAtType
<1>3. Round(file, s) =
        IF c.id = FmtID /\ body + RateEnd > EndOfRead(file)
          THEN [pos |-> body + RateEnd, rate |-> Unknown, data |-> Unknown]
          ELSE [pos |-> body + Advance(c.size), rate |-> rate, data |-> data]
  BY DEF Round
<1> HIDE DEF c
<1>4. Advance(c.size) \in Nat
  BY <1>2 DEF Advance
<1>5. body + RateEnd \in Nat /\ body + Advance(c.size) \in Nat
  BY <1>1, <1>4 DEF ChunkHeader, RateEnd
<1>6. rate \in Nat \union {Unknown} /\ data \in Nat \union {Unknown}
  BY <1>1, <1>2
<1> HIDE DEF body, rate, data
<1>7. /\ [pos |-> body + RateEnd, rate |-> Unknown, data |-> Unknown] \in Loop
      /\ [pos |-> body + Advance(c.size), rate |-> rate, data |-> data] \in Loop
  BY <1>5, <1>6 DEF Loop
<1>8. Round(file, s) \in Loop
  BY <1>3, <1>7, Zenon
<1> QED
  BY <1>8 DEF NextRound

(* Where the loop of parseWavDuration is after each round.                 *)
StartOfLoop == [pos |-> HeaderSize, rate |-> Unknown, data |-> Unknown]

Walks(file) ==
  {w \in [Nat -> Loop] :
     /\ w[0] = StartOfLoop
     /\ \A n \in Nat : w[n + 1] = NextRound(file, w[n])
     /\ LET last == w[ReadLimit]
        IN  ParseWavDuration(file) =
              IF ~file.riff \/ EndOfRead(file) < HeaderSize \/ ~Found(last) THEN Unknown
              ELSE Quotient(last.data, last.rate)}

LEMMA LoopWalks ==
  ASSUME NEW file, file.chunks \in Seq(Chunk)
  PROVE  Walks(file) # {}
<1> DEFINE walk[n \in Nat] ==
             IF n = 0 THEN [pos |-> HeaderSize, rate |-> Unknown, data |-> Unknown]
             ELSE LET s == walk[n - 1] IN IF Over(file, s) THEN s ELSE Round(file, s)
           step == [p \in Nat \X Loop |-> NextRound(file, p[2])]
<1>1. StartOfLoop \in Loop
  BY DEF Loop, StartOfLoop, HeaderSize
<1>2. step \in [Nat \X Loop -> Loop]
  BY NextRoundType
<1>3. PICK f \in [Nat -> Loop] : /\ f[0] = StartOfLoop
                                 /\ \A n \in Nat : f[n + 1] = step[<<n, f[n]>>]
  <2> HIDE DEF step
  <2>1. Recursion(Loop, StartOfLoop, step)
    BY <1>1, <1>2, RecursionIsDefined, Zenon
  <2> QED
    BY <2>1, Zenon DEF Recursion
<1>4. \A n \in Nat : f[n + 1] = NextRound(file, f[n])
  BY <1>3
<1>5. f = [n \in Nat |-> IF n = 0 THEN StartOfLoop ELSE NextRound(file, f[n - 1])]
  <2> SUFFICES ASSUME NEW n \in Nat, n # 0 PROVE f[n] = NextRound(file, f[n - 1])
    BY <1>3
  <2>1. n - 1 \in Nat /\ (n - 1) + 1 = n
    OBVIOUS
  <2> QED
    BY <1>4, <2>1
<1>6. f = [n \in Nat |-> IF n = 0
             THEN [pos |-> HeaderSize, rate |-> Unknown, data |-> Unknown]
             ELSE LET s == f[n - 1] IN IF Over(file, s) THEN s ELSE Round(file, s)]
  BY <1>5 DEF NextRound, StartOfLoop
<1>7. walk = [n \in Nat |-> IF n = 0
                THEN [pos |-> HeaderSize, rate |-> Unknown, data |-> Unknown]
                ELSE LET s == walk[n - 1] IN IF Over(file, s) THEN s ELSE Round(file, s)]
  BY <1>6
<1>8. LET last == walk[ReadLimit]
      IN  ParseWavDuration(file) =
            IF ~file.riff \/ EndOfRead(file) < HeaderSize \/ ~Found(last) THEN Unknown
            ELSE Quotient(last.data, last.rate)
  BY DEF ParseWavDuration
<1> HIDE DEF walk
<1>9. walk = [n \in Nat |-> IF n = 0 THEN StartOfLoop ELSE NextRound(file, walk[n - 1])]
  BY <1>7 DEF NextRound, StartOfLoop
<1>10. walk[0] = StartOfLoop /\ \A n \in Nat : walk[n + 1] = NextRound(file, walk[n])
  <2>1. walk[0] = StartOfLoop
    BY <1>9
  <2>2. ASSUME NEW n \in Nat PROVE walk[n + 1] = NextRound(file, walk[n])
    <3>1. n + 1 \in Nat /\ n + 1 # 0 /\ (n + 1) - 1 = n
      OBVIOUS
    <3> QED
      BY <1>9, <3>1
  <2> QED
    BY <2>1, <2>2
<1> DEFINE bad == {n \in Nat : walk[n] \notin Loop}
<1>11. bad = {}
  <2> SUFFICES ASSUME bad # {} PROVE FALSE
    OBVIOUS
  <2>1. PICK n \in bad : \A j \in bad : n <= j
    BY MinIsLeast
  <2>2. n \in Nat /\ walk[n] \notin Loop
    OBVIOUS
  <2>3. n # 0
    BY <1>1, <1>10, <2>2
  <2>4. n - 1 \in Nat /\ ~(n <= n - 1) /\ (n - 1) + 1 = n
    BY <2>2, <2>3
  <2>5. walk[n - 1] \in Loop
    BY <2>1, <2>4
  <2> QED
    BY <1>10, <2>2, <2>4, <2>5, NextRoundType
<1>12. walk \in [Nat -> Loop]
  BY <1>9, <1>11
<1> QED
  BY <1>8, <1>10, <1>12, Zenon DEF Walks

LEMMA WavDurationType ==
  ASSUME NEW file, file.chunks \in Seq(Chunk)
  PROVE  ParseWavDuration(file) \in Durations
<1>1. PICK w : w \in Walks(file)
  BY LoopWalks
<1> DEFINE last == w[ReadLimit]
<1>2. last \in Loop
  BY <1>1, ReadLimitAssumption DEF Walks
<1>3. ParseWavDuration(file) =
        IF ~file.riff \/ EndOfRead(file) < HeaderSize \/ ~Found(last) THEN Unknown
        ELSE Quotient(last.data, last.rate)
  BY <1>1, Zenon DEF Walks
<1> HIDE DEF last
<1>4. Found(last) => Quotient(last.data, last.rate) \in Durations
  BY <1>2, QuotientType DEF Found, Loop
<1> QED
  BY <1>3, <1>4 DEF Durations

LEMMA DurationType ==
  ASSUME NEW file \in AudioFile
  PROVE  TotalSeconds(file) \in Durations
<1>1. CASE file.type = "wav"
  <2>1. file.chunks \in Seq(Chunk)
    BY <1>1 DEF AudioFile
  <2> QED
    BY <1>1, <2>1, WavDurationType DEF TotalSeconds
<1>2. CASE file.type # "wav" /\ (file.type = "other" \/ file.says = Unknown)
  BY <1>2 DEF TotalSeconds, Durations
<1>3. CASE file.type # "wav" /\ ~(file.type = "other" \/ file.says = Unknown)
  <2>1. file.says \in Nat \X Nat
    BY <1>3 DEF AudioFile
  <2>2. file.says[1] \in Nat /\ file.says[2] \in Nat
    BY <2>1
  <2> QED
    BY <1>3, <2>2, QuotientType DEF TotalSeconds
<1> QED
  BY <1>1, <1>2, <1>3

-----------------------------------------------------------------------------
(* Types *)

LEMMA FirstInType ==
  ASSUME NEW text \in Seq(Line), NEW kinds
  PROVE  FirstIn(text, kinds) \in Nat
<1>1. Len(text) \in Nat /\ 1 \in Nat
  OBVIOUS
<1>2. LinesOf(text, kinds, 1, Len(text)) \subseteq Nat
  BY <1>1, LinesAreNumbers
<1> QED
  BY <1>2, FirstIsLeast DEF FirstIn

LEMMA FileReferencesType ==
  ASSUME NEW text \in Seq(Line)
  PROVE  FileReferences(text) \in Seq(Names)
<1> DEFINE fs == LinesOf(text, {"FILE"}, 1, Len(text))
           lines == InOrder(fs)
           n == Cardinality(fs)
<1>1. Len(text) \in Nat /\ 1 \in Nat
  OBVIOUS
<1>2. fs \subseteq Nat /\ IsFiniteSet(fs)
  BY <1>1, LinesAreNumbers
<1>3. \A k \in fs : text[k].arg \in Names
  <2> SUFFICES ASSUME NEW k \in fs PROVE text[k].arg \in Names
    OBVIOUS
  <2>1. k \in 1..Len(text) /\ text[k].kind = "FILE"
    BY DEF LinesOf
  <2>2. text[k] \in Line
    BY <2>1
  <2> QED
    BY <2>1, <2>2 DEF Line
<1>4. FileReferences(text) = [i \in DOMAIN lines |-> text[lines[i]].arg]
  BY DEF FileReferences
<1> HIDE DEF fs
<1>5. lines \in [1..n -> fs] /\ n \in Nat
  BY <1>2, InOrderElements
<1> HIDE DEF lines, n
<1>6. FileReferences(text) = [i \in 1..n |-> text[lines[i]].arg]
  BY <1>4, <1>5
<1>7. FileReferences(text) \in [1..n -> Names]
  BY <1>3, <1>5, <1>6
<1> QED
  BY <1>5, <1>7

LEMMA ParseTrackType ==
  ASSUME NEW text \in Seq(Line), NEW h \in TrackHeaders(text), NEW p \in Nat
  PROVE  ParseTrack(text, h, p) \in Track
<1> DEFINE first(kinds) == FirstOf(LinesOf(text, kinds, h + 1, BlockEnd(text, h)))
           q == first({"PERFORMER", "performer"})
<1>1. \A kinds : first(kinds) \in Nat
  BY FirstIsOwnField, Zenon
<1>2. text[h].arg \in Nat
  <2>1. h \in 1..Len(text) /\ text[h].kind \in AudioHeader
    BY HeadersInText
  <2>2. text[h] \in Line
    BY <2>1
  <2> QED
    BY <2>1, <2>2 DEF Line, AudioHeader
<1> DEFINE title == first({"TITLE", "title"})
           index == first({"INDEX 01"})
           performer == IF q # 0 THEN q ELSE p
<1>3. ParseTrack(text, h, p) = [number |-> text[h].arg, title |-> title,
                                performer |-> performer, index |-> index]
  BY DEF ParseTrack
<1>4. title \in Nat /\ index \in Nat /\ performer \in Nat
  BY <1>1
<1> HIDE DEF title, index, performer
<1> QED
  BY <1>2, <1>3, <1>4 DEF Track

LEMMA ParseTextType ==
  ASSUME NEW text \in Seq(Line)
  PROVE  /\ ParseText(text) \in Album
         /\ ParseText(text).file \in Seq(Names)
         /\ Len(ParseText(text).tracks) \in Nat
<1> DEFINE p == FirstIn(text, {"PERFORMER"})
           files == FileReferences(text)
           file == IF files = <<>> THEN <<>> ELSE <<Head(files)>>
           headers == InOrder(NumberedHeaders(text))
           n == Cardinality(NumberedHeaders(text))
           tracks == [i \in DOMAIN headers |-> ParseTrack(text, headers[i], p)]
<1>1. ParseText(text) =
        [performer |-> p, title |-> FirstIn(text, {"TITLE"}), file |-> file,
         genre |-> FirstIn(text, {"GENRE"}), date |-> FirstIn(text, {"DATE"}),
         tracks |-> tracks]
  BY DEF ParseText
<1>2. /\ p \in Nat /\ FirstIn(text, {"TITLE"}) \in Nat
      /\ FirstIn(text, {"GENRE"}) \in Nat /\ FirstIn(text, {"DATE"}) \in Nat
  BY FirstInType
<1>3. file \in Seq(Names) /\ file \in Seq(Nat)
  <2>1. files \in Seq(Names)
    BY FileReferencesType
  <2> HIDE DEF files
  <2>2. files # <<>> => Head(files) = files[1] /\ files[1] \in Names
    BY <2>1
  <2>3. \A k \in Names : k \in Nat
    BY NamesAssumption
  <2> QED
    BY <2>2, <2>3
<1>4. /\ n \in Nat
      /\ headers \in [1..n -> NumberedHeaders(text)]
      /\ NumberedHeaders(text) \subseteq TrackHeaders(text)
  BY HeadersInText
<1> HIDE DEF p, file, headers, n
<1>5. tracks \in [1..n -> Track]
  <2>1. tracks = [i \in 1..n |-> ParseTrack(text, headers[i], p)]
    BY <1>4
  <2>2. \A i \in 1..n : ParseTrack(text, headers[i], p) \in Track
    BY <1>2, <1>4, ParseTrackType
  <2> QED
    BY <2>1, <2>2
<1> HIDE DEF tracks
<1>6. tracks \in Seq(Track) /\ Len(tracks) \in Nat
  BY <1>4, <1>5
<1> QED
  BY <1>1, <1>2, <1>3, <1>6 DEF Album

LEMMA SourceType ==
  ASSUME NEW files \in Seq(Names), NEW place
  PROVE  SourceFLAC([files |-> files], place) \in Names \union {NoSource}
<1> DEFINE inDir == {n \in Audio : place[n] = "here"}
           s == [files |-> files]
<1>1. s.files = files
  OBVIOUS
<1>2. files # <<>> => files[1] \in Names
  OBVIOUS
<1>3. inDir \subseteq Names /\ inDir \subseteq Nat
  BY NamesAssumption
<1> HIDE DEF inDir
<1>4. inDir # {} => Min(inDir) \in Names
  BY <1>3, MinIsLeast
<1>5. SourceFLAC(s, place) =
        IF s.files # <<>> /\ Contained(s.files[1], place) THEN s.files[1]
        ELSE IF inDir # {} THEN Min(inDir) ELSE NoSource
  BY DEF SourceFLAC, inDir
<1> HIDE DEF s
<1> QED
  BY <1>1, <1>2, <1>4, <1>5 DEF s

LEMMA CoverType ==
  ASSUME NEW images \in Seq(Image)
  PROVE  FindCover(images) \in Nat
<1>1. Best(images, FindCover(images))
  BY FoundCoverIsBest
<1> QED
  BY <1>1 DEF Best, NoCover

TypeInv ==
  /\ TypeOK
  /\ past \in Contents
  /\ content \in Contents
  /\ album.file \in Seq(Names)
  /\ pc = "duration" => source \in Names

LEMMA InitTypeInv == Init => TypeInv
<1> SUFFICES ASSUME Init PROVE TypeInv
  OBVIOUS
<1>1. <<>> \in Seq(Line)
  OBVIOUS
<1>2. album \in Album /\ album.file \in Seq(Names)
  BY <1>1, ParseTextType DEF Init, NoAlbum
<1>3. past \in Contents /\ content \in Contents
  BY DEF Init, Contents
<1>4. TypeOK
  BY <1>2 DEF Init, TypeOK, NoOutput, NoCover
<1> QED
  BY <1>2, <1>3, <1>4 DEF Init, TypeInv

(* The steps that find nothing out.                                        *)
LEMMA PlainStepsKeepTypes ==
  ASSUME TypeInv, Decode \/ StatCue \/ ContainCue \/ Enqueue \/ ContainAlbum \/ SendImage
  PROVE  TypeInv'
<1>1. UNCHANGED <<request, content, past, album, source, total, cover, output>>
  BY DEF Decode, StatCue, ContainCue, Enqueue, ContainAlbum, SendImage, foundVars
<1>2. pc # "answered"
  BY DEF Decode, StatCue, ContainCue, Enqueue, ContainAlbum, SendImage
<1>3. \/ pc' = "answered" /\ status' \in {200, 400, 403, 404, 202, 409, 503}
      \/ pc' \in {"stat", "contain", "parse", "enqueue", "find"} /\ status' = status
  BY DEF Decode, StatCue, ContainCue, Enqueue, ContainAlbum, SendImage, Answer, GoOn
<1> QED
  BY <1>1, <1>2, <1>3 DEF TypeInv, TypeOK

(* A look at the sheet, at where its file is, and at the images.           *)
LEMMA LooksKeepTypes ==
  ASSUME TypeInv, Parse \/ Source \/ PreviewCover
  PROVE  TypeInv'
<1>1. UNCHANGED <<request, content, past, total, output>> /\ pc # "answered"
  BY DEF Parse, Source, PreviewCover
<1>2. content.images \in Seq(Image)
  BY CasesAssumption DEF TypeInv, Contents
<1>3. CASE Parse
  <2>1. UNCHANGED <<source, cover>>
    BY <1>3 DEF Parse
  <2>2. ReadCUE(content.sheet.as) \in Seq(Line)
    BY TextIsRead DEF TypeInv
  <2>3. album' \in Album /\ album'.file \in Seq(Names)
    <3>1. album' = album \/ album' = ParseText(ReadCUE(content.sheet.as))
      BY <1>3 DEF Parse
    <3> QED
      BY <2>2, <3>1, ParseTextType DEF TypeInv, TypeOK
  <2>4. \/ pc' = "source" /\ status' = status
        \/ pc' = "answered" /\ status' = 500
    BY <1>3 DEF Parse, Answer, GoOn
  <2> QED
    BY <1>1, <2>1, <2>3, <2>4 DEF TypeInv, TypeOK
<1>4. CASE Source
  <2>1. UNCHANGED <<album, cover>>
    BY <1>4 DEF Source
  <2>2. source' \in Names \union {NoSource}
    BY <1>4, SourceType DEF Source, TypeInv
  <2>3. pc' = (IF source' = NoSource THEN "cover" ELSE "duration") /\ status' = status
    BY <1>4 DEF Source, GoOn
  <2> QED
    BY <1>1, <2>1, <2>2, <2>3 DEF TypeInv, TypeOK
<1>5. CASE PreviewCover
  <2>1. UNCHANGED <<album, source>> /\ cover' = FindCover(content.images)
    BY <1>5 DEF PreviewCover
  <2>2. cover' \in Nat
    BY <1>2, <2>1, CoverType
  <2>3. pc' = "output" /\ status' = status
    BY <1>5 DEF PreviewCover, GoOn
  <2> QED
    BY <1>1, <2>1, <2>2, <2>3 DEF TypeInv, TypeOK
<1> QED
  BY <1>3, <1>4, <1>5

LEMMA DurationKeepsTypes ==
  ASSUME TypeInv, Duration
  PROVE  TypeInv'
<1>1. /\ UNCHANGED <<request, content, past, album, source, cover, output>>
      /\ pc = "duration" /\ pc' = "cover" /\ status' = status
  BY DEF Duration, GoOn
<1>2. content.audio[source] \in AudioFile
  <2>1. source \in Names /\ content \in Contents
    BY <1>1 DEF TypeInv
  <2>2. content.audio \in [Names -> AudioFile]
    BY <2>1, CasesAssumption DEF Contents
  <2> QED
    BY <2>1, <2>2
<1>3. Unknown \in Durations
  BY DEF Durations
<1>4. total' \in Durations
  BY <1>2, <1>3, DurationType DEF Duration
<1> QED
  BY <1>1, <1>4 DEF TypeInv, TypeOK, Durations

LEMMA OutputKeepsTypes ==
  ASSUME TypeInv, Output
  PROVE  TypeInv'
<1>1. /\ UNCHANGED <<request, content, past, album, source, total, cover>>
      /\ pc = "output" /\ pc' = "answered" /\ status' = 200
  BY DEF Output, Answer
<1> DEFINE found == content.output
           expected == SheetOf(content.sheet).tracks
<1>2. output' = [tracks |-> found, done |-> found > 0 /\ found >= expected /\ expected > 0]
  BY DEF Output
<1>3. found \in Nat
  BY CasesAssumption DEF TypeInv, Contents
<1> HIDE DEF found, expected
<1>4. output' \in [done : BOOLEAN, tracks : Nat]
  BY <1>2, <1>3
<1> QED
  BY <1>1, <1>4 DEF TypeInv, TypeOK

LEMMA OtherStepsKeepTypes ==
  ASSUME TypeInv, FindImage \/ Change \/ Stopped \/ UNCHANGED vars
  PROVE  TypeInv'
<1>1. CASE FindImage
  <2>1. /\ UNCHANGED <<request, content, past, album, source, total, output>>
        /\ cover' = FindCover(content.images)
    BY <1>1 DEF FindImage
  <2>2. content.images \in Seq(Image)
    BY CasesAssumption DEF TypeInv, Contents
  <2>3. cover' \in Nat
    BY <2>1, <2>2, CoverType
  <2>4. \/ pc' = "send" /\ status' = status /\ pc = "find"
        \/ pc' = "answered" /\ status' = 404
    BY <1>1 DEF FindImage, Answer, GoOn
  <2> QED
    BY <2>1, <2>3, <2>4 DEF TypeInv, TypeOK
<1>2. CASE Change
  <2>1. UNCHANGED <<request, past, pc, album, source, total, cover, output, status>>
    BY <1>2 DEF Change, foundVars
  <2>2. content' \in Shifting
    BY <1>2 DEF Change
  <2>3. content' \in Contents
    BY <2>2 DEF Contents
  <2> QED
    BY <2>1, <2>3 DEF TypeInv, TypeOK
<1>3. CASE Stopped \/ UNCHANGED vars
  BY <1>3 DEF Stopped, vars, foundVars, TypeInv, TypeOK
<1> QED
  BY <1>1, <1>2, <1>3

LEMMA NextKeepsTypes == TypeInv /\ [Next]_vars => TypeInv'
BY PlainStepsKeepTypes, LooksKeepTypes, DurationKeepsTypes, OutputKeepsTypes,
   OtherStepsKeepTypes DEF Next

(* A request's variables keep their types, whatever the sheet, the chunks  *)
(* of the audio file and the images are: a source is one of the names, a   *)
(* duration that is not unknown has a rate that it can be divided by       *)
(* (handlePreview, parseWavDuration, parseMetaflacDuration).               *)
THEOREM RequestTypeCorrect == Spec => []TypeOK
<1>1. TypeInv => TypeOK
  BY DEF TypeInv
<1> QED
  BY <1>1, InitTypeInv, NextKeepsTypes, PTL DEF Spec

-----------------------------------------------------------------------------
(* The duration of a preview *)

(* The first of a set in order is its least.                               *)
LEMMA InOrderBegins ==
  ASSUME NEW S \in SUBSET Nat, IsFiniteSet(S), NEW m \in S, \A j \in S : m <= j
  PROVE  Cardinality(S) \in Nat /\ Cardinality(S) # 0 /\ InOrder(S)[1] = m
<1> DEFINE upTo(k) == {j \in S : j <= k}
           n == Cardinality(S)
<1>1. n \in Nat /\ n # 0
  BY FS_CardinalityType, FS_EmptySet
<1>2. upTo(m) = {m}
  <2>1. \A j \in S : j <= m <=> j = m
    <3> SUFFICES ASSUME NEW j \in S PROVE j <= m <=> j = m
      OBVIOUS
    <3>1. j \in Nat /\ m \in Nat /\ m <= j
      OBVIOUS
    <3> QED
      BY <3>1
  <2> QED
    BY <2>1
<1>3. Cardinality(upTo(m)) = 1
  BY <1>2, FS_Singleton
<1>4. ASSUME NEW k \in S, Cardinality(upTo(k)) = 1 PROVE k = m
  <2>1. m \in upTo(k) /\ k \in upTo(k) /\ upTo(k) \subseteq S
    OBVIOUS
  <2> HIDE DEF upTo
  <2>2. IsFiniteSet(upTo(k))
    BY <2>1, FS_Subset
  <2>3. \E x : upTo(k) = {x}
    BY <1>4, <2>2, FS_Singleton
  <2> QED
    BY <2>1, <2>3
<1>5. InOrder(S) = [i \in 1..n |-> CHOOSE k \in S : Cardinality(upTo(k)) = i]
  BY DEF InOrder
<1>6. 1 \in 1..n
  BY <1>1
<1> HIDE DEF upTo
<1>7. InOrder(S)[1] = CHOOSE k \in S : Cardinality(upTo(k)) = 1
  BY <1>5, <1>6
<1> QED
  BY <1>1, <1>3, <1>4, <1>7

(* The file of an album is the one the sheet names first.                  *)
LEMMA FirstFileIsTaken ==
  ASSUME NEW text \in Seq(Line), NEW k \in DOMAIN text, text[k].kind = "FILE",
         \A l \in 1..k - 1 : text[l].kind # "FILE"
  PROVE  ParseText(text).file = <<text[k].arg>>
<1> DEFINE fs == LinesOf(text, {"FILE"}, 1, Len(text))
           lines == InOrder(fs)
           n == Cardinality(fs)
           files == FileReferences(text)
<1>1. Len(text) \in Nat /\ 1 \in Nat /\ DOMAIN text = 1..Len(text) /\ k \in Nat
  OBVIOUS
<1>2. fs \subseteq Nat /\ IsFiniteSet(fs)
  BY <1>1, LinesAreNumbers
<1>3. k \in fs
  BY <1>1 DEF LinesOf
<1>4. \A j \in fs : k <= j
  <2> SUFFICES ASSUME NEW j \in fs, ~(k <= j) PROVE FALSE
    OBVIOUS
  <2>1. j \in 1..Len(text) /\ text[j].kind = "FILE"
    BY DEF LinesOf
  <2>2. j \in 1..k - 1
    BY <1>1, <2>1
  <2> QED
    BY <2>1, <2>2
<1>5. files = [i \in DOMAIN lines |-> text[lines[i]].arg]
  BY DEF FileReferences
<1>6. ParseText(text).file = IF files = <<>> THEN <<>> ELSE <<Head(files)>>
  BY DEF ParseText
<1> HIDE DEF fs
<1>7. n \in Nat /\ n # 0 /\ lines[1] = k
  BY <1>2, <1>3, <1>4, InOrderBegins
<1>8. lines \in [1..n -> fs]
  BY <1>2, InOrderElements
<1>9. files \in Seq(Names)
  BY FileReferencesType
<1> HIDE DEF lines, n, files
<1>10. DOMAIN files = 1..n /\ 1 \in 1..n
  BY <1>5, <1>7, <1>8
<1>11. files[1] = text[k].arg
  BY <1>5, <1>7, <1>8, <1>10
<1>12. files # <<>> /\ Head(files) = files[1]
  BY <1>7, <1>9, <1>10
<1> QED
  BY <1>6, <1>11, <1>12

LEMMA NamedFileIsSource ==
  ASSUME NEW n, NEW place, Contained(n, place)
  PROVE  SourceFLAC([files |-> <<n>>], place) = n
<1>1. <<n>> # <<>> /\ <<n>>[1] = n
  OBVIOUS
<1> QED
  BY <1>1 DEF SourceFLAC

(* Where the chunks of a file stand.                                       *)
Layout(chunks) ==
  LET n == Len(chunks)
  IN  {s \in [1..n + 1 -> Nat] :
         /\ s = StartOf(chunks)
         /\ s[1] = HeaderSize
         /\ \A k \in 1..n : s[k + 1] = s[k] + ChunkHeader + Advance(chunks[k].size)}

LEMMA AdvanceIsPadded ==
  ASSUME NEW size \in Nat
  PROVE  Advance(size) \in Nat /\ size + (size % 2) = Advance(size) /\ size <= Advance(size)
<1>1. size % 2 = 0 \/ size % 2 = 1
  OBVIOUS
<1> QED
  BY <1>1 DEF Advance

LEMMA ChunksAreLaidOut ==
  ASSUME NEW chunks \in Seq(Chunk)
  PROVE  Layout(chunks) # {}
<1> DEFINE n == Len(chunks)
           start[k \in 1..Len(chunks) + 1] ==
             IF k = 1 THEN HeaderSize
             ELSE LET size == chunks[k - 1].size
                  IN  start[k - 1] + ChunkHeader + size + (size % 2)
           room(k) == ChunkHeader + Advance(chunks[k].size)
           step == [p \in Nat \X Nat |->
                      IF p[1] + 1 \in 1..n THEN p[2] + room(p[1] + 1) ELSE p[2]]
<1>1. n \in Nat /\ \A k \in 1..n : chunks[k].size \in Nat
  <2>1. n \in Nat /\ DOMAIN chunks = 1..n
    OBVIOUS
  <2> QED
    BY <2>1, ChunkFields
<1>2. \A k \in 1..n : room(k) \in Nat
  BY <1>1, AdvanceIsPadded DEF ChunkHeader
<1>3. \A k \in 1..n : \A x \in Nat :
        x + ChunkHeader + chunks[k].size + (chunks[k].size % 2) = x + room(k)
  <2> SUFFICES ASSUME NEW k \in 1..n, NEW x \in Nat
               PROVE  x + ChunkHeader + chunks[k].size + (chunks[k].size % 2) = x + room(k)
    OBVIOUS
  <2> DEFINE size == chunks[k].size
  <2>1. size \in Nat
    BY <1>1
  <2> HIDE DEF size
  <2>2. Advance(size) \in Nat /\ size + (size % 2) = Advance(size) /\ size % 2 \in Nat
    BY <2>1, AdvanceIsPadded
  <2>3. x + ChunkHeader + size + (size % 2) = x + (ChunkHeader + Advance(size))
    BY <2>1, <2>2 DEF ChunkHeader
  <2> QED
    BY <2>3 DEF size
<1> HIDE DEF room
<1>4. step \in [Nat \X Nat -> Nat]
  <2> SUFFICES ASSUME NEW p \in Nat \X Nat
               PROVE  (IF p[1] + 1 \in 1..n THEN p[2] + room(p[1] + 1) ELSE p[2]) \in Nat
    OBVIOUS
  <2>1. p[2] \in Nat
    OBVIOUS
  <2>2. p[1] + 1 \in 1..n => room(p[1] + 1) \in Nat
    BY <1>2
  <2> QED
    BY <2>1, <2>2
<1>5. PICK f \in [Nat -> Nat] : /\ f[0] = HeaderSize
                                /\ \A k \in Nat : f[k + 1] = step[<<k, f[k]>>]
  <2> HIDE DEF step
  <2>0. HeaderSize \in Nat
    BY DEF HeaderSize
  <2>1. Recursion(Nat, HeaderSize, step)
    BY <1>4, <2>0, RecursionIsDefined, Zenon
  <2> QED
    BY <2>1, Zenon DEF Recursion
<1>6. \A k \in 1..n : f[k] = f[k - 1] + room(k)
  <2> SUFFICES ASSUME NEW k \in 1..n PROVE f[k] = f[k - 1] + room(k)
    OBVIOUS
  <2>1. k - 1 \in Nat /\ (k - 1) + 1 = k
    BY <1>1
  <2>2. f[k] = step[<<k - 1, f[k - 1]>>]
    <3> HIDE DEF step
    <3> QED
      BY <1>5, <2>1
  <2>3. <<k - 1, f[k - 1]>> \in Nat \X Nat
    BY <2>1
  <2> QED
    BY <2>1, <2>2, <2>3
<1> HIDE DEF step
<1> DEFINE g == [k \in 1..n + 1 |-> f[k - 1]]
<1>7. g \in [1..n + 1 -> Nat]
  <2>1. \A k \in 1..n + 1 : k - 1 \in Nat
    BY <1>1
  <2> QED
    BY <2>1
<1>8. g[1] = HeaderSize /\ \A k \in 1..n : g[k + 1] = g[k] + room(k)
  <2>1. 1 \in 1..n + 1 /\ 1 - 1 = 0
    BY <1>1
  <2>2. \A k \in 1..n : k \in 1..n + 1 /\ k + 1 \in 1..n + 1 /\ (k + 1) - 1 = k
    BY <1>1
  <2>3. g[1] = f[1 - 1] /\ \A k \in 1..n : g[k + 1] = f[(k + 1) - 1] /\ g[k] = f[k - 1]
    BY <2>1, <2>2
  <2> HIDE DEF g
  <2> QED
    BY <1>5, <1>6, <2>1, <2>2, <2>3
<1> HIDE DEF g
<1>9. g = [k \in 1..Len(chunks) + 1 |->
             IF k = 1 THEN HeaderSize
             ELSE LET size == chunks[k - 1].size
                  IN  g[k - 1] + ChunkHeader + size + (size % 2)]
  <2>1. ASSUME NEW k \in 1..n + 1, k # 1
        PROVE  g[k] = g[k - 1] + ChunkHeader + chunks[k - 1].size + (chunks[k - 1].size % 2)
    <3>1. k - 1 \in 1..n /\ k - 1 \in 1..n + 1 /\ (k - 1) + 1 = k
      BY <1>1, <2>1
    <3>2. g[k] = g[k - 1] + room(k - 1)
      BY <1>8, <3>1
    <3>3. g[k - 1] \in Nat
      BY <1>7, <3>1
    <3> QED
      BY <1>3, <3>1, <3>2, <3>3
  <2>2. g = [k \in 1..n + 1 |-> g[k]]
    BY <1>7
  <2> QED
    BY <1>8, <2>1, <2>2
<1>10. start = [k \in 1..Len(chunks) + 1 |->
                  IF k = 1 THEN HeaderSize
                  ELSE LET size == chunks[k - 1].size
                       IN  start[k - 1] + ChunkHeader + size + (size % 2)]
  BY <1>9
<1>11. StartOf(chunks) = start
  BY DEF StartOf
<1> HIDE DEF start
<1>12. /\ start[1] = HeaderSize
       /\ \A k \in 1..n : start[k + 1] = start[k] + ChunkHeader + chunks[k].size
                                          + (chunks[k].size % 2)
  <2>1. 1 \in 1..n + 1
    BY <1>1
  <2>2. ASSUME NEW m \in Nat
        PROVE  \A k \in 1..m : k + 1 \in 1..m + 1 /\ k + 1 # 1 /\ (k + 1) - 1 = k
    OBVIOUS
  <2>3. start[1] = HeaderSize
    BY <1>10, <2>1
  <2>4. ASSUME NEW k \in 1..n
        PROVE  start[k + 1] = start[k] + ChunkHeader + chunks[k].size + (chunks[k].size % 2)
    BY <1>1, <1>10, <2>2
  <2> QED
    BY <2>3, <2>4
<1> DEFINE bad == {k \in Nat : k \in 1..n + 1 /\ start[k] \notin Nat}
<1>13. \A k \in 1..n + 1 : start[k] \in Nat
  <2> SUFFICES ASSUME bad # {} PROVE FALSE
    <3>1. \A k \in 1..n + 1 : k \in Nat
      BY <1>1
    <3> QED
      BY <3>1
  <2>1. PICK k \in bad : \A j \in bad : k <= j
    BY MinIsLeast
  <2>2. k \in 1..n + 1 /\ k \in Nat /\ start[k] \notin Nat
    OBVIOUS
  <2>3. k # 1
    BY <1>12, <2>2 DEF HeaderSize
  <2>4. PICK j : j = k - 1
    OBVIOUS
  <2>5. j \in 1..n /\ j \in 1..n + 1 /\ j \in Nat /\ ~(k <= j) /\ j + 1 = k
    BY <1>1, <2>2, <2>3, <2>4
  <2>6. start[j] \in Nat
    BY <2>1, <2>5
  <2>7. start[j + 1] = start[j] + room(j) /\ room(j) \in Nat
    BY <1>2, <1>3, <1>12, <2>5, <2>6
  <2>8. \A x, y \in Nat : x + y \in Nat
    OBVIOUS
  <2>9. start[j + 1] \in Nat
    BY <2>6, <2>7, <2>8, Zenon
  <2> QED
    BY <2>2, <2>5, <2>9
<1>14. ASSUME NEW k \in 1..n
       PROVE  start[k + 1] = start[k] + ChunkHeader + Advance(chunks[k].size)
  <2>1. start[k] \in Nat
    <3>1. k \in 1..n + 1
      BY <1>1
    <3> QED
      BY <1>13, <3>1
  <2>2. start[k + 1] = start[k] + (ChunkHeader + Advance(chunks[k].size))
    BY <1>3, <1>12, <2>1 DEF room
  <2>3. Advance(chunks[k].size) \in Nat
    BY <1>1, AdvanceIsPadded
  <2>4. \A x, a \in Nat : x + (ChunkHeader + a) = x + ChunkHeader + a
    BY DEF ChunkHeader
  <2> QED
    BY <2>1, <2>2, <2>3, <2>4, Zenon
<1>15. start \in [1..n + 1 -> Nat]
  BY <1>10, <1>13
<1>16. start \in Layout(chunks)
  BY <1>11, <1>12, <1>14, <1>15, Zenon DEF Layout, n
<1> QED
  BY <1>16

(* Chunks do not overlap.                                                  *)
LEMMA ChunksAreApart ==
  ASSUME NEW chunks \in Seq(Chunk), NEW s \in Layout(chunks),
         NEW j \in 1..Len(chunks), NEW k \in 1..Len(chunks) + 1, j < k
  PROVE  s[j] + ChunkHeader + Advance(chunks[j].size) <= s[k]
<1> DEFINE n == Len(chunks)
           bad == {i \in Nat : i \in 1..n + 1 /\ j < i
                                 /\ ~(s[j] + ChunkHeader + Advance(chunks[j].size) <= s[i])}
<1>1. n \in Nat /\ j \in Nat /\ k \in Nat
  OBVIOUS
<1>2. /\ s \in [1..n + 1 -> Nat]
      /\ \A i \in 1..n : s[i + 1] = s[i] + ChunkHeader + Advance(chunks[i].size)
  BY Zenon DEF Layout, n
<1>3. \A i \in 1..n : Advance(chunks[i].size) \in Nat
  <2>1. DOMAIN chunks = 1..n
    OBVIOUS
  <2> QED
    BY <2>1, ChunkFields, AdvanceIsPadded
<1>4. SUFFICES ASSUME bad # {} PROVE FALSE
  BY <1>1
<1>5. PICK i \in bad : \A l \in bad : i <= l
  BY <1>4, MinIsLeast
<1>6. /\ i \in Nat /\ i \in 1..n + 1 /\ j < i
      /\ ~(s[j] + ChunkHeader + Advance(chunks[j].size) <= s[i])
  OBVIOUS
<1>7. PICK h : h = i - 1
  OBVIOUS
<1>8. h \in 1..n /\ h \in 1..n + 1 /\ h \in Nat /\ ~(i <= h) /\ h + 1 = i /\ j <= h
      /\ j \in 1..n + 1
  BY <1>1, <1>6, <1>7
<1>9. PICK x, y, a, b : x = s[j] /\ y = s[h] /\ a = Advance(chunks[j].size)
                        /\ b = Advance(chunks[h].size)
  OBVIOUS
<1>10. x \in Nat /\ y \in Nat /\ a \in Nat /\ b \in Nat
  BY <1>2, <1>3, <1>8, <1>9
<1>11. s[i] = y + ChunkHeader + b
  BY <1>2, <1>8, <1>9
<1>12. CASE j = h
  <2>1. x + ChunkHeader + a = y + ChunkHeader + b
    BY <1>9, <1>12
  <2>2. x + ChunkHeader + a <= y + ChunkHeader + b
    BY <1>10, <2>1 DEF ChunkHeader
  <2> QED
    BY <1>6, <1>9, <1>11, <2>2
<1>13. CASE j < h
  <2>1. x + ChunkHeader + a <= y
    BY <1>5, <1>8, <1>9, <1>13
  <2>2. x + ChunkHeader + a <= y + ChunkHeader + b
    BY <1>10, <2>1 DEF ChunkHeader
  <2> QED
    BY <1>6, <1>9, <1>11, <2>2
<1> QED
  BY <1>1, <1>8, <1>12, <1>13

(* A file has no more chunks than bytes.                                   *)
LEMMA ChunksTakeRoom ==
  ASSUME NEW chunks \in Seq(Chunk), NEW s \in Layout(chunks), NEW k \in 1..Len(chunks) + 1
  PROVE  k <= s[k] /\ HeaderSize <= s[k]
<1> DEFINE n == Len(chunks)
           bad == {i \in Nat : i \in 1..n + 1 /\ ~(i <= s[i] /\ HeaderSize <= s[i])}
<1>1. n \in Nat /\ k \in Nat
  OBVIOUS
<1>2. /\ s \in [1..n + 1 -> Nat] /\ s[1] = HeaderSize
      /\ \A i \in 1..n : s[i + 1] = s[i] + ChunkHeader + Advance(chunks[i].size)
  BY Zenon DEF Layout, n
<1>3. \A i \in 1..n : Advance(chunks[i].size) \in Nat
  <2>1. DOMAIN chunks = 1..n
    OBVIOUS
  <2> QED
    BY <2>1, ChunkFields, AdvanceIsPadded
<1>4. SUFFICES ASSUME bad # {} PROVE FALSE
  BY <1>1
<1>5. PICK i \in bad : \A l \in bad : i <= l
  BY <1>4, MinIsLeast
<1>6. i \in Nat /\ i \in 1..n + 1 /\ ~(i <= s[i] /\ HeaderSize <= s[i])
  OBVIOUS
<1>7. i # 1
  BY <1>2, <1>6 DEF HeaderSize
<1>8. PICK h : h = i - 1
  OBVIOUS
<1>9. h \in 1..n /\ h \in 1..n + 1 /\ h \in Nat /\ ~(i <= h) /\ h + 1 = i
  BY <1>1, <1>6, <1>7, <1>8
<1>10. PICK y, b : y = s[h] /\ b = Advance(chunks[h].size)
  OBVIOUS
<1>11. y \in Nat /\ b \in Nat
  BY <1>2, <1>3, <1>9, <1>10
<1>12. s[i] = y + ChunkHeader + b
  BY <1>2, <1>9, <1>10
<1>13. h <= y /\ HeaderSize <= y
  BY <1>5, <1>9, <1>10
<1>14. h + 1 <= y + ChunkHeader + b /\ HeaderSize <= y + ChunkHeader + b
  BY <1>9, <1>11, <1>13 DEF ChunkHeader, HeaderSize
<1> QED
  BY <1>6, <1>9, <1>12, <1>14

(* The one chunk of an ordinary file with an identifier.                   *)
LEMMA OnlyOne ==
  ASSUME NEW file, NEW id, NEW k \in DOMAIN file.chunks, OneOf(file, id, k)
  PROVE  /\ \A j \in DOMAIN file.chunks : file.chunks[j].id = id <=> j = k
         /\ (CHOOSE c \in {file.chunks[j] : j \in DOMAIN file.chunks} : c.id = id)
              = file.chunks[k]
<1>1. \A j \in DOMAIN file.chunks : file.chunks[j].id = id <=> j = k
  BY DEF OneOf
<1>2. /\ file.chunks[k] \in {file.chunks[j] : j \in DOMAIN file.chunks}
      /\ file.chunks[k].id = id
  BY <1>1
<1>3. \A c \in {file.chunks[j] : j \in DOMAIN file.chunks} :
        c.id = id => c = file.chunks[k]
  BY <1>1
<1> QED
  BY <1>1, <1>2, <1>3

(* Where a chunk starts, it is read.                                       *)
LEMMA ChunkIsRead ==
  ASSUME NEW file, file.chunks \in Seq(Chunk), NEW s \in Layout(file.chunks),
         NEW k \in DOMAIN file.chunks
  PROVE  ChunkAt(file, s[k]) = file.chunks[k]
<1> DEFINE n == Len(file.chunks)
           here == {j \in DOMAIN file.chunks : StartOf(file.chunks)[j] = s[k]}
<1>1. n \in Nat /\ DOMAIN file.chunks = 1..n /\ \A j \in 1..n : j \in 1..n + 1
  OBVIOUS
<1>2. s = StartOf(file.chunks) /\ s \in [1..n + 1 -> Nat]
  BY Zenon DEF Layout, n
<1>3. ASSUME NEW i \in 1..n, NEW j \in 1..n, i < j PROVE s[i] # s[j]
  <2>1. s[i] + ChunkHeader + Advance(file.chunks[i].size) <= s[j]
    BY <1>1, <1>3, ChunksAreApart
  <2>2. Advance(file.chunks[i].size) \in Nat
    BY <1>1, ChunkFields, AdvanceIsPadded
  <2>3. s[i] \in Nat /\ s[j] \in Nat
    BY <1>1, <1>2
  <2>4. \A x, y, a \in Nat : x + ChunkHeader + a <= y => x # y
    BY DEF ChunkHeader
  <2> QED
    BY <2>1, <2>2, <2>3, <2>4
<1>4. \A j \in 1..n : s[j] = s[k] => j = k
  <2> SUFFICES ASSUME NEW j \in 1..n, s[j] = s[k] PROVE j = k
    OBVIOUS
  <2>1. ~(j < k) /\ ~(k < j)
    BY <1>1, <1>3
  <2>2. j \in Nat /\ k \in Nat
    BY <1>1
  <2> QED
    BY <2>1, <2>2
<1>5. here = {k}
  BY <1>1, <1>2, <1>4
<1>6. ChunkAt(file, s[k]) =
        IF here = {} THEN [id |-> "zero", size |-> 0, rate |-> 0]
        ELSE file.chunks[Min(here)]
  BY DEF ChunkAt
<1> HIDE DEF here
<1>7. Min(here) = k
  <2>1. here \subseteq Nat /\ here # {}
    BY <1>1, <1>5
  <2> QED
    BY <1>5, <2>1, MinIsLeast
<1> QED
  BY <1>5, <1>6, <1>7

(* What is read of a file, as far as both chunks are concerned.            *)
LEMMA ReadReaches ==
  ASSUME NEW file, file.chunks \in Seq(Chunk), NEW s \in Layout(file.chunks),
         NEW x \in Nat, x <= ReadLimit, x <= s[Len(file.chunks) + 1]
  PROVE  EndOfRead(file) \in Nat /\ x <= EndOfRead(file) /\ EndOfRead(file) <= ReadLimit
<1> DEFINE n == Len(file.chunks)
           both == {ReadLimit, s[n + 1]}
<1>1. n \in Nat
  OBVIOUS
<1>2. s = StartOf(file.chunks) /\ s \in [1..n + 1 -> Nat]
  BY Zenon DEF Layout, n
<1>3. both \subseteq Nat /\ both # {}
  BY <1>1, <1>2, ReadLimitAssumption
<1>4. EndOfRead(file) = Min(both)
  BY <1>2 DEF EndOfRead
<1>5. Min(both) \in both /\ \A y \in both : Min(both) <= y
  <2> HIDE DEF both
  <2> QED
    BY <1>3, MinIsLeast
<1>6. Min(both) \in Nat /\ Min(both) <= ReadLimit /\ x <= Min(both)
  <2> DEFINE e == Min(both)
  <2>1. e \in both /\ \A y \in both : e <= y
    BY <1>5
  <2> HIDE DEF e
  <2> QED
    BY <1>3, <2>1 DEF e
<1> QED
  BY <1>4, <1>6

(* What the loop has found before chunk i + 1, if f and d are the format   *)
(* and the data chunk.                                                     *)
FoundBefore(chunks, s, f, d, i) ==
  [pos  |-> s[i + 1],
   rate |-> IF f <= i THEN chunks[f].rate ELSE Unknown,
   data |-> IF d <= i THEN chunks[d].size ELSE Unknown]

(* A round takes one chunk, as long as one of the two is missing.          *)
LEMMA RoundTakesChunk ==
  ASSUME NEW file, file.chunks \in Seq(Chunk), NEW s \in Layout(file.chunks),
         NEW f \in DOMAIN file.chunks, OneOf(file, FmtID, f),
         NEW d \in DOMAIN file.chunks, OneOf(file, DataID, d),
         NEW i \in Nat, i + 1 \in DOMAIN file.chunks, ~(f <= i /\ d <= i),
         EndOfRead(file) \in Nat,
         s[i + 1] + ChunkHeader <= EndOfRead(file),
         s[f] + ChunkHeader + RateEnd <= EndOfRead(file)
  PROVE  NextRound(file, FoundBefore(file.chunks, s, f, d, i)) =
           FoundBefore(file.chunks, s, f, d, i + 1)
<1> DEFINE chunks == file.chunks
           n == Len(chunks)
           e == EndOfRead(file)
<1>1. PICK k, q, c : k = i + 1 /\ q = FoundBefore(chunks, s, f, d, i) /\ c = chunks[k]
  OBVIOUS
<1>2. n \in Nat /\ DOMAIN chunks = 1..n
  OBVIOUS
<1>3. /\ f \in 1..n /\ d \in 1..n /\ k \in 1..n /\ k \in Nat
      /\ \A j \in 1..n : chunks[j].id = FmtID <=> j = f
      /\ \A j \in 1..n : chunks[j].id = DataID <=> j = d
  BY <1>1, <1>2, OnlyOne
<1>4. /\ q.pos = s[k]
      /\ q.rate = IF f <= i THEN chunks[f].rate ELSE Unknown
      /\ q.data = IF d <= i THEN chunks[d].size ELSE Unknown
  BY <1>1 DEF FoundBefore
<1>5. ~Found(q)
  BY <1>4 DEF Found
<1>6. s \in [1..n + 1 -> Nat] /\ s[k + 1] = s[k] + ChunkHeader + Advance(chunks[k].size)
  BY <1>3, Zenon DEF Layout, n
<1>7. s[k] \in Nat
  BY <1>2, <1>3, <1>6
<1>8. ~(s[k] + ChunkHeader > e)
  BY <1>1, <1>7 DEF ChunkHeader
<1>9. ~Over(file, q)
  BY <1>4, <1>5, <1>8 DEF Over
<1>10. ChunkAt(file, q.pos) = c
  BY <1>1, <1>2, <1>3, <1>4, ChunkIsRead
<1>11. ~(c.id = FmtID /\ q.pos + ChunkHeader + RateEnd > e)
  <2>1. c.id = FmtID => k = f
    BY <1>1, <1>3
  <2>2. k = f => ~(s[k] + ChunkHeader + RateEnd > e)
    BY <1>7 DEF ChunkHeader, RateEnd
  <2> QED
    BY <1>4, <2>1, <2>2
<1>12. NextRound(file, q) =
         [pos  |-> q.pos + ChunkHeader + Advance(c.size),
          rate |-> IF c.id = FmtID THEN c.rate ELSE q.rate,
          data |-> IF c.id = DataID THEN c.size ELSE q.data]
  BY <1>9, <1>10, <1>11 DEF NextRound, Round
<1>13. q.pos + ChunkHeader + Advance(c.size) = s[k + 1]
  BY <1>1, <1>4, <1>6
<1>14. (IF c.id = FmtID THEN c.rate ELSE q.rate) =
         IF f <= k THEN chunks[f].rate ELSE Unknown
  <2>1. f \in Nat /\ (f <= k <=> f <= i \/ f = k) /\ ~(k <= i)
    BY <1>1, <1>2, <1>3
  <2> QED
    BY <1>1, <1>3, <1>4, <2>1
<1>15. (IF c.id = DataID THEN c.size ELSE q.data) =
         IF d <= k THEN chunks[d].size ELSE Unknown
  <2>1. d \in Nat /\ (d <= k <=> d <= i \/ d = k) /\ ~(k <= i)
    BY <1>1, <1>2, <1>3
  <2> QED
    BY <1>1, <1>3, <1>4, <2>1
<1>16. NextRound(file, q) = FoundBefore(chunks, s, f, d, k)
  BY <1>12, <1>13, <1>14, <1>15 DEF FoundBefore
<1> QED
  BY <1>1, <1>16

(* In an ordinary file, the loop finds the format and the data chunk, and  *)
(* the quotient of theirs is what a player says.                           *)
LEMMA OrdinaryIsPlayed ==
  ASSUME NEW file, file.chunks \in Seq(Chunk), Ordinary(file)
  PROVE  ParseWavDuration(file) = Played(file)
<1> DEFINE chunks == file.chunks
           n == Len(chunks)
           e == EndOfRead(file)
<1>1. n \in Nat /\ DOMAIN chunks = 1..n
  OBVIOUS
<1>2. PICK s : s \in Layout(chunks)
  BY ChunksAreLaidOut
<1>3. s = StartOf(chunks) /\ s \in [1..n + 1 -> Nat]
  BY <1>2, Zenon DEF Layout, n
<1>4. PICK f \in DOMAIN chunks, d \in DOMAIN chunks :
        /\ OneOf(file, FmtID, f) /\ OneOf(file, DataID, d)
        /\ chunks[f].rate > 0 /\ chunks[f].size >= RateEnd
        /\ s[f] + ChunkHeader + RateEnd <= ReadLimit
        /\ s[d] + ChunkHeader <= ReadLimit
  BY <1>3, Zenon DEF Ordinary
<1>5. f \in 1..n /\ d \in 1..n /\ f \in Nat /\ d \in Nat
  BY <1>1
<1>6. /\ s[f] \in Nat /\ s[d] \in Nat /\ s[n + 1] \in Nat
      /\ chunks[f].size \in Nat /\ chunks[f].rate \in Nat /\ chunks[d].size \in Nat
  <2>1. f \in 1..n + 1 /\ d \in 1..n + 1 /\ n + 1 \in 1..n + 1
    BY <1>1, <1>5
  <2> QED
    BY <1>1, <1>3, <1>5, <2>1, ChunkFields
<1>7. /\ s[f] + ChunkHeader + Advance(chunks[f].size) <= s[n + 1]
      /\ s[d] + ChunkHeader + Advance(chunks[d].size) <= s[n + 1]
  <2>1. n + 1 \in 1..n + 1 /\ f < n + 1 /\ d < n + 1
    BY <1>1, <1>5
  <2> QED
    BY <1>2, <1>5, <2>1, ChunksAreApart
<1>8. e \in Nat /\ s[f] + ChunkHeader + RateEnd <= e /\ e <= ReadLimit
  <2> DEFINE x == s[f] + ChunkHeader + RateEnd
             a == Advance(chunks[f].size)
  <2>1. a \in Nat /\ chunks[f].size <= a
    BY <1>6, AdvanceIsPadded
  <2> HIDE DEF a
  <2>2. x \in Nat /\ x <= ReadLimit
    BY <1>4, <1>6 DEF ChunkHeader, RateEnd
  <2>3. \A y, z, b, t \in Nat :
          z >= RateEnd /\ z <= b /\ y + ChunkHeader + b <= t =>
            y + ChunkHeader + RateEnd <= t
    BY DEF ChunkHeader, RateEnd
  <2>4. x <= s[n + 1]
    BY <1>4, <1>6, <1>7, <2>1, <2>3 DEF a
  <2> HIDE DEF x
  <2>5. e \in Nat /\ x <= e /\ e <= ReadLimit
    BY <1>2, <2>2, <2>4, ReadReaches
  <2> QED
    BY <2>5 DEF x
<1>9. s[d] + ChunkHeader <= e
  <2> DEFINE x == s[d] + ChunkHeader
           a == Advance(chunks[d].size)
  <2>1. a \in Nat
    BY <1>6, AdvanceIsPadded
  <2> HIDE DEF a
  <2>2. x \in Nat /\ x <= ReadLimit
    BY <1>4, <1>6 DEF ChunkHeader
  <2>3. \A y, b, t \in Nat : y + ChunkHeader + b <= t => y + ChunkHeader <= t
    BY DEF ChunkHeader
  <2>4. x <= s[n + 1]
    BY <1>6, <1>7, <2>1, <2>3 DEF a
  <2> HIDE DEF x
  <2>5. x <= e
    BY <1>2, <2>2, <2>4, ReadReaches
  <2> QED
    BY <2>5 DEF x
<1> HIDE DEF e
<1>10. PICK m \in {f, d} : f <= m /\ d <= m
  BY <1>5
<1>11. m \in 1..n /\ m \in Nat /\ s[m] \in Nat /\ s[m] + ChunkHeader <= e
  <2>1. s[f] + ChunkHeader <= e
    BY <1>6, <1>8 DEF ChunkHeader, RateEnd
  <2> QED
    BY <1>5, <1>6, <1>9, <2>1
<1>12. PICK w : w \in Walks(file)
  BY LoopWalks
<1>13. /\ w[0] = StartOfLoop
       /\ \A i \in Nat : w[i + 1] = NextRound(file, w[i])
  BY <1>12, Zenon DEF Walks
<1> DEFINE before(i) == FoundBefore(chunks, s, f, d, i)
           bad == {i \in Nat : i <= m /\ w[i] # before(i)}
<1>14. w[m] = before(m)
  <2> SUFFICES ASSUME bad # {} PROVE FALSE
    <3>1. m <= m
      BY <1>11
    <3> QED
      BY <1>11, <3>1
  <2>1. PICK i \in bad : \A j \in bad : i <= j
    BY MinIsLeast
  <2>2. i \in Nat /\ i <= m /\ w[i] # before(i)
    OBVIOUS
  <2>3. i # 0
    <3>1. s[1] = HeaderSize
      BY <1>2, Zenon DEF Layout
    <3>2. ~(f <= 0) /\ ~(d <= 0) /\ 0 + 1 = 1
      BY <1>5
    <3>3. before(0) = [pos |-> s[1], rate |-> Unknown, data |-> Unknown]
      BY <3>2 DEF FoundBefore
    <3> QED
      BY <1>13, <2>2, <3>1, <3>3 DEF StartOfLoop
  <2>4. PICK h : h = i - 1
    OBVIOUS
  <2>5. /\ h \in Nat /\ h <= m /\ h < m /\ ~(i <= h) /\ h + 1 = i
        /\ i \in 1..n /\ i <= m /\ ~(f <= h /\ d <= h)
    BY <1>1, <1>5, <1>10, <1>11, <2>2, <2>3, <2>4
  <2>6. w[h] = before(h)
    BY <2>1, <2>5
  <2>7. s[i] + ChunkHeader <= e
    <3>1. CASE i = m
      BY <1>11, <3>1
    <3>2. CASE i < m
      <4>1. m \in 1..n + 1 /\ i \in 1..n + 1
        BY <1>1, <1>11, <2>5
      <4>2. s[i] + ChunkHeader + Advance(chunks[i].size) <= s[m]
        BY <1>2, <2>5, <3>2, <4>1, ChunksAreApart
      <4>3. Advance(chunks[i].size) \in Nat /\ s[i] \in Nat
        BY <1>1, <1>3, <2>5, <4>1, ChunkFields, AdvanceIsPadded
      <4>4. \A x, y, a \in Nat :
              x + ChunkHeader + a <= y /\ y + ChunkHeader <= e => x + ChunkHeader <= e
        BY <1>8 DEF ChunkHeader
      <4> QED
        BY <1>11, <4>2, <4>3, <4>4
    <3> QED
      BY <1>11, <2>2, <3>1, <3>2
  <2>8. NextRound(file, before(h)) = before(h + 1)
    BY <1>1, <1>2, <1>4, <1>8, <2>5, <2>7, RoundTakesChunk DEF e
  <2> QED
    BY <1>13, <2>2, <2>5, <2>6, <2>8
<1>15. /\ w[m].rate = chunks[f].rate /\ w[m].data = chunks[d].size
       /\ Found(w[m])
  <2>1. w[m].rate = chunks[f].rate /\ w[m].data = chunks[d].size
    BY <1>10, <1>14 DEF FoundBefore
  <2> QED
    BY <1>6, <2>1, ReadLimitAssumption DEF Found
<1>16. m <= ReadLimit
  <2>1. m \in 1..n + 1
    BY <1>1, <1>11
  <2>2. m <= s[m]
    BY <1>2, <2>1, ChunksTakeRoom
  <2> QED
    BY <1>8, <1>11, <2>2, ReadLimitAssumption DEF ChunkHeader
<1> DEFINE late == {i \in Nat : m <= i /\ w[i] # w[m]}
<1>17. w[ReadLimit] = w[m]
  <2> SUFFICES ASSUME late # {} PROVE FALSE
    BY <1>16, ReadLimitAssumption
  <2>1. PICK i \in late : \A j \in late : i <= j
    BY MinIsLeast
  <2>2. i \in Nat /\ m <= i /\ w[i] # w[m]
    OBVIOUS
  <2>3. PICK h : h = i - 1
    OBVIOUS
  <2>4. h \in Nat /\ m <= h /\ ~(i <= h) /\ h + 1 = i
    BY <1>11, <2>2, <2>3
  <2>5. w[h] = w[m]
    BY <2>1, <2>4
  <2>6. NextRound(file, w[m]) = w[m]
    BY <1>15 DEF NextRound, Over
  <2> QED
    BY <1>13, <2>2, <2>4, <2>5, <2>6
<1>18. file.riff /\ ~(e < HeaderSize)
  <2>1. file.riff
    BY DEF Ordinary
  <2>2. f \in 1..n + 1
    BY <1>1, <1>5
  <2>3. HeaderSize <= s[f]
    BY <1>2, <2>2, ChunksTakeRoom
  <2> QED
    BY <1>6, <1>8, <2>1, <2>3 DEF ChunkHeader, RateEnd, HeaderSize
<1>19. ParseWavDuration(file) = Quotient(chunks[d].size, chunks[f].rate)
  <2>1. ParseWavDuration(file) =
          IF ~file.riff \/ e < HeaderSize \/ ~Found(w[ReadLimit]) THEN Unknown
          ELSE Quotient(w[ReadLimit].data, w[ReadLimit].rate)
    BY <1>12, Zenon DEF Walks, e
  <2> QED
    BY <1>15, <1>17, <1>18, <2>1
<1>20. Quotient(chunks[d].size, chunks[f].rate) = <<chunks[d].size, chunks[f].rate>>
  BY <1>4, <1>6 DEF Quotient
<1>21. Played(file) = <<chunks[d].size, chunks[f].rate>>
  <2>1. (CHOOSE c \in {chunks[k] : k \in DOMAIN chunks} : c.id = FmtID) = chunks[f]
    BY <1>4, OnlyOne
  <2>2. (CHOOSE c \in {chunks[k] : k \in DOMAIN chunks} : c.id = DataID) = chunks[d]
    BY <1>4, OnlyOne
  <2> QED
    BY <2>1, <2>2, Zenon DEF Played
<1> QED
  BY <1>19, <1>20, <1>21

(* What a preview has found in its three looks, each at some moment.       *)
Sourced == pc \in {"duration", "cover", "output"} \/ Previewed

Timed == pc \in {"cover", "output"} \/ Previewed

FileOf(c) == SourceFLAC([files |-> album.file], c.place)

TimeOf(c) ==
  IF c.place[source] = "none" THEN Unknown ELSE TotalSeconds(c.audio[source])

FoundAt(a, b) == InTurn(a, b) /\ Read(a) /\ source = FileOf(b)

TimedAt(b, c) == InTurn(b, c) /\ (source # NoSource => total = TimeOf(c))

LookInv ==
  /\ Sourced => \E a, b \in Moments : FoundAt(a, b)
  /\ Timed => \E a, b, c \in Moments : FoundAt(a, b) /\ TimedAt(b, c)

LEMMA InitLookInv == Init => LookInv
BY DEF Init, LookInv, Sourced, Timed, Previewed

(* A directory that changes keeps what was found before: until then there  *)
(* was one moment only.                                                    *)
LEMMA ChangeKeepsLooks == SheetInv /\ LookInv /\ Change => LookInv'
<1> SUFFICES ASSUME LookInv, Change PROVE LookInv'
  OBVIOUS
<1>1. /\ UNCHANGED <<request, past, pc, album, source, total, status>>
      /\ content = past /\ content' # past
  BY DEF Change, foundVars
<1>2. Moments = {past} /\ past \in Moments' /\ past # content'
  BY <1>1 DEF Moments
<1>3. (Sourced' => Sourced) /\ (Timed' => Timed)
  BY <1>1 DEF Sourced, Timed, Previewed
<1>4. FoundAt(past, past) => FoundAt(past, past)'
  BY <1>1 DEF FoundAt, InTurn, Read, FileOf
<1>5. TimedAt(past, past) => TimedAt(past, past)'
  BY <1>1 DEF TimedAt, InTurn, TimeOf
<1>6. Sourced => FoundAt(past, past)
  BY <1>2 DEF LookInv
<1>7. Timed => FoundAt(past, past) /\ TimedAt(past, past)
  BY <1>2 DEF LookInv
<1>8. past' = past
  BY <1>1
<1> QED
  BY <1>2, <1>3, <1>4, <1>5, <1>6, <1>7, <1>8 DEF LookInv

LEMMA NextKeepsLooks == SheetInv /\ LookInv /\ [Next]_vars => LookInv'
<1> SUFFICES ASSUME SheetInv, LookInv, [Next]_vars PROVE LookInv'
  OBVIOUS
<1>1. CASE Decode \/ StatCue \/ ContainCue \/ Enqueue
  <2>1. \/ pc' = "answered" /\ status' \in {400, 403, 404, 202, 409, 503}
        \/ pc' \in {"stat", "contain", "parse", "enqueue"} /\ status' = status
    BY <1>1 DEF Decode, StatCue, ContainCue, Enqueue, Answer, GoOn
  <2>2. pc # "answered"
    BY <1>1 DEF Decode, StatCue, ContainCue, Enqueue
  <2> QED
    BY <2>1, <2>2 DEF SheetInv, LookInv, Sourced, Timed, Previewed
<1>2. CASE Parse
  <2>1. \/ pc' = "source" /\ status' = status
        \/ pc' = "answered" /\ status' = 500
    BY <1>2, Zenon DEF Parse, Answer, GoOn
  <2>2. pc = "parse"
    BY <1>2 DEF Parse
  <2> QED
    BY <2>1, <2>2 DEF SheetInv, LookInv, Sourced, Timed, Previewed
<1>3. CASE Source
  <2>1. /\ UNCHANGED <<request, content, past, album, total>> /\ pc = "source"
        /\ source' = FileOf(content)
    BY <1>3 DEF Source, FileOf
  <2>2. /\ status' = status
        /\ pc' = IF source' = NoSource THEN "cover" ELSE "duration"
    BY <1>3 DEF Source, GoOn
  <2>3. PICK a \in Moments : Read(a)
    BY <2>1 DEF SheetInv, Parsed
  <2>4. a \in Moments' /\ content \in Moments' /\ content' = content
    BY <2>1 DEF Moments
  <2>5. FoundAt(a, content)'
    <3>1. FileOf(content)' = FileOf(content) /\ Read(a)'
      BY <2>1, <2>3 DEF FileOf, Read
    <3> QED
      BY <2>1, <2>4, <3>1 DEF FoundAt, InTurn, FileOf, Read
  <2>6. Timed' => TimedAt(content, content)'
    <3>1. Timed' => source' = NoSource
      BY <2>1, <2>2 DEF SheetInv, Timed, Previewed
    <3> QED
      BY <3>1 DEF TimedAt, InTurn
  <2> QED
    BY <2>4, <2>5, <2>6 DEF LookInv
<1>4. CASE Duration
  <2>1. /\ UNCHANGED <<request, content, past, album, source>> /\ pc = "duration"
        /\ total' = TimeOf(content)
    BY <1>4 DEF Duration, TimeOf
  <2>2. PICK a \in Moments, b \in Moments : FoundAt(a, b)
    BY <2>1 DEF LookInv, Sourced
  <2>3. /\ a \in Moments' /\ b \in Moments' /\ content \in Moments'
        /\ content' = content
    BY <2>1 DEF Moments
  <2>4. FoundAt(a, b)'
    BY <2>1, <2>2 DEF FoundAt, InTurn, Read, FileOf
  <2>5. TimedAt(b, content)'
    BY <2>1 DEF TimedAt, InTurn, TimeOf
  <2> QED
    BY <2>3, <2>4, <2>5 DEF LookInv
<1>5. CASE PreviewCover \/ Output \/ Stopped \/ UNCHANGED vars
  <2>1. UNCHANGED <<request, content, past, album, source, total>>
    BY <1>5 DEF PreviewCover, Output, Stopped, vars, foundVars
  <2>2. (Sourced' => Sourced) /\ (Timed' => Timed)
    BY <1>5 DEF PreviewCover, Output, Stopped, vars, Sourced, Timed, Previewed
  <2>3. Moments' = Moments /\ \A a, b : FoundAt(a, b) => FoundAt(a, b)'
    BY <2>1 DEF Moments, FoundAt, InTurn, Read, FileOf
  <2>4. \A b, c : TimedAt(b, c) => TimedAt(b, c)'
    BY <2>1 DEF TimedAt, InTurn, TimeOf
  <2> QED
    BY <2>2, <2>3, <2>4 DEF LookInv
<1>6. CASE ContainAlbum \/ FindImage \/ SendImage
  <2>1. request' = request /\ request.op = "cover"
    BY <1>6 DEF ContainAlbum, FindImage, SendImage, SheetInv
  <2>2. pc' \in {"find", "send", "answered"}
    BY <1>6 DEF ContainAlbum, FindImage, SendImage, Answer, GoOn
  <2> QED
    BY <2>1, <2>2 DEF LookInv, Sourced, Timed, Previewed
<1> QED
  BY <1>1, <1>2, <1>3, <1>4, <1>5, <1>6, ChangeKeepsLooks DEF Next

(* However the directory changes between the three looks of a preview, its *)
(* duration is that of the file which the sheet it shows has named and     *)
(* which was there when it was looked for, as a player would have it at    *)
(* the third look, or unknown if the file was gone (SourceFLAC,            *)
(* TotalSeconds).                                                          *)
THEOREM PreviewTellsDuration == Spec => []DurationIsOfSource
<1>1. SheetInv /\ LookInv => DurationIsOfSource
  <2> SUFFICES ASSUME SheetInv, LookInv, Previewed PROVE DurationIsOfSource
    BY DEF DurationIsOfSource
  <2>1. PICK a \in Moments, b \in Moments, c \in Moments : FoundAt(a, b) /\ TimedAt(b, c)
    BY DEF LookInv, Timed
  <2>2. InTurn(a, b) /\ InTurn(b, c)
    BY <2>1 DEF FoundAt, TimedAt
  <2>3. a \in Contents /\ c \in Contents
    BY <2>1 DEF SheetInv, Moments
  <2>4. TextOf(a.sheet) \in Seq(Line) /\ album = ParseText(TextOf(a.sheet))
    BY <2>1, <2>3, TextIsRead DEF FoundAt, Read
  <2>5. ParsedAsRead(TextOf(a.sheet), album)
    BY <2>4, ParsedIsAsRead, Zenon
  <2>6. ASSUME NEW n \in NamedSource(a.sheet, b.place)
        PROVE  /\ n \in Names
               /\ c.place[n] = "none" => total = Unknown
               /\ c.place[n] # "none" => total = TotalSeconds(c.audio[n])
    <3>1. PICK text : text = TextOf(a.sheet)
      OBVIOUS
    <3>2. /\ n \in Audio /\ n \in Names /\ n # NoSource /\ Contained(n, b.place)
      BY NamesAssumption DEF NamedSource
    <3>3. PICK k \in DOMAIN text : /\ text[k].kind = "FILE" /\ text[k].arg = n
                                  /\ \A l \in 1..k - 1 : text[l].kind # "FILE"
      BY <3>1 DEF NamedSource
    <3>4. album.file = <<n>>
      BY <2>4, <3>1, <3>3, FirstFileIsTaken
    <3>5. source = n
      BY <2>1, <3>2, <3>4, NamedFileIsSource DEF FoundAt, FileOf
    <3>6. total = TimeOf(c)
      BY <2>1, <3>2, <3>5 DEF TimedAt
    <3> QED
      BY <3>2, <3>5, <3>6 DEF TimeOf
  <2>7. ASSUME NEW n \in Names, c.audio[n].type = "wav", Ordinary(c.audio[n])
        PROVE  TotalSeconds(c.audio[n]) = Played(c.audio[n])
    <3>1. c.audio[n] \in AudioFile
      BY <2>3, CasesAssumption DEF Contents
    <3>2. c.audio[n].chunks \in Seq(Chunk)
      BY <2>7, <3>1 DEF AudioFile
    <3> QED
      BY <2>7, <3>2, OrdinaryIsPlayed DEF TotalSeconds
  <2>8. \A n \in NamedSource(a.sheet, b.place) :
          /\ c.place[n] = "none" => total = Unknown
          /\ c.place[n] # "none" /\ c.audio[n].type = "wav" /\ Ordinary(c.audio[n]) =>
               total = Played(c.audio[n])
    BY <2>6, <2>7
  <2> QED
    BY <2>1, <2>2, <2>5, <2>8 DEF DurationIsOfSource
<1> QED
  BY <1>1, InitSheetInv, InitLookInv, NextKeepsSheet, NextKeepsLooks, PTL DEF Spec

-----------------------------------------------------------------------------
(* Paths *)

LEMMA CleanStepType ==
  ASSUME NEW done \in Seq(Component), NEW c \in Component, NEW rooted
  PROVE  CleanStep(done, c, rooted) \in Seq(Component)
<1>1. Append(done, c) \in Seq(Component)
  OBVIOUS
<1>2. done # <<>> => Front(done) \in Seq(Component)
  BY DEF Front
<1> QED
  BY <1>1, <1>2 DEF CleanStep

(* What Follow has reached after each component.                           *)
Stages(from, p, rooted) ==
  {d \in [0..Len(p) -> Seq(Component)] :
     /\ d[0] = from
     /\ \A k \in 1..Len(p) : d[k] = CleanStep(d[k - 1], p[k], rooted)
     /\ Follow(from, p, rooted) = d[Len(p)]}

LEMMA FollowGoesByStages ==
  ASSUME NEW from \in Seq(Component), NEW p \in Seq(Component), NEW rooted
  PROVE  Stages(from, p, rooted) # {}
<1> DEFINE n == Len(p)
           S == Seq(Component)
           step == [x \in Nat \X S |->
                      IF x[1] + 1 \in 1..n THEN CleanStep(x[2], p[x[1] + 1], rooted)
                      ELSE x[2]]
           w[k \in 0..Len(p)] ==
             IF k = 0 THEN from ELSE CleanStep(w[k - 1], p[k], rooted)
<1>1. n \in Nat /\ \A k \in 1..n : p[k] \in Component
  OBVIOUS
<1>2. step \in [Nat \X S -> S]
  <2> SUFFICES ASSUME NEW x \in Nat \X S
               PROVE  (IF x[1] + 1 \in 1..n THEN CleanStep(x[2], p[x[1] + 1], rooted)
                       ELSE x[2]) \in S
    OBVIOUS
  <2>1. x[2] \in S
    OBVIOUS
  <2>2. x[1] + 1 \in 1..n => CleanStep(x[2], p[x[1] + 1], rooted) \in S
    BY <1>1, <2>1, CleanStepType
  <2> QED
    BY <2>1, <2>2
<1>3. PICK f \in [Nat -> S] : /\ f[0] = from
                              /\ \A k \in Nat : f[k + 1] = step[<<k, f[k]>>]
  <2> HIDE DEF step
  <2>1. Recursion(S, from, step)
    BY <1>2, RecursionIsDefined, Zenon
  <2> QED
    BY <2>1, Zenon DEF Recursion
<1>4. \A k \in 1..n : f[k] = CleanStep(f[k - 1], p[k], rooted)
  <2> SUFFICES ASSUME NEW k \in 1..n PROVE f[k] = CleanStep(f[k - 1], p[k], rooted)
    OBVIOUS
  <2>1. k - 1 \in Nat /\ (k - 1) + 1 = k
    BY <1>1
  <2>2. f[k] = step[<<k - 1, f[k - 1]>>]
    <3> HIDE DEF step
    <3> QED
      BY <1>3, <2>1
  <2>3. <<k - 1, f[k - 1]>> \in Nat \X S
    BY <2>1
  <2> QED
    BY <2>1, <2>2, <2>3
<1> HIDE DEF step
<1> DEFINE g == [k \in 0..n |-> f[k]]
<1>5. g = [k \in 0..Len(p) |->
             IF k = 0 THEN from ELSE CleanStep(g[k - 1], p[k], rooted)]
  <2>1. ASSUME NEW k \in 0..n, k # 0
        PROVE  k \in 1..n /\ k - 1 \in 0..n
    BY <1>1, <2>1
  <2> SUFFICES ASSUME NEW k \in 0..n
               PROVE  f[k] = IF k = 0 THEN from ELSE CleanStep(g[k - 1], p[k], rooted)
    OBVIOUS
  <2>2. k # 0 => g[k - 1] = f[k - 1]
    BY <2>1
  <2> QED
    BY <1>3, <1>4, <2>1, <2>2
<1> HIDE DEF g
<1>6. w = [k \in 0..Len(p) |-> IF k = 0 THEN from ELSE CleanStep(w[k - 1], p[k], rooted)]
  BY <1>5
<1>7. Follow(from, p, rooted) = w[Len(p)]
  BY DEF Follow
<1> HIDE DEF w
<1>8. /\ w[0] = from
      /\ \A k \in 1..n : w[k] = CleanStep(w[k - 1], p[k], rooted)
  <2>1. 0 \in 0..n
    BY <1>1
  <2>2. \A k \in 1..n : k \in 0..n /\ k # 0
    BY <1>1
  <2> QED
    BY <1>6, <2>1, <2>2
<1>9. \A k \in 0..n : w[k] \in S
  <2> DEFINE bad == {k \in Nat : k \in 0..n /\ w[k] \notin S}
  <2>0. \A k \in 0..n : k \in Nat
    BY <1>1
  <2>1. SUFFICES ASSUME bad # {} PROVE FALSE
    BY <2>0
  <2>2. PICK k \in bad : \A j \in bad : k <= j
    BY <2>1, MinIsLeast
  <2>3. k \in Nat /\ k \in 0..n /\ w[k] \notin S
    OBVIOUS
  <2>4. k # 0
    BY <1>8, <2>3
  <2>5. k \in 1..n /\ k - 1 \in 0..n /\ k - 1 \in Nat /\ ~(k <= k - 1)
    BY <1>1, <2>3, <2>4
  <2>6. w[k - 1] \in S
    BY <2>2, <2>5
  <2> QED
    BY <1>1, <1>8, <2>3, <2>5, <2>6, CleanStepType
<1>10. w \in [0..Len(p) -> S]
  BY <1>6, <1>9
<1>11. w \in Stages(from, p, rooted)
  BY <1>7, <1>8, <1>10, Zenon DEF Stages, n
<1> QED
  BY <1>11

LEMMA DotsAreDots == ".." \notin Idle /\ "." \in Idle /\ "." # ".."
BY Zenon DEF Idle

(* ".." stands only in front.                                              *)
Cleaned(d) ==
  /\ d \in Seq(Component)
  /\ \A i \in 1..Len(d) : /\ d[i] \notin Idle
                          /\ d[i] = ".." /\ i > 1 => d[i - 1] = ".."

LEMMA CleanStepCleans ==
  ASSUME NEW d, Cleaned(d), NEW c \in Component
  PROVE  Cleaned(CleanStep(d, c, FALSE))
<1>1. d \in Seq(Component) /\ Len(d) \in Nat
  BY DEF Cleaned
<1>2. CASE c \in Idle
  BY <1>2 DEF CleanStep
<1>3. CASE c = ".." /\ d # <<>> /\ Last(d) # ".."
  <2>1. CleanStep(d, c, FALSE) = Front(d)
    BY <1>3, DotsAreDots DEF CleanStep
  <2>2. Len(d) >= 1
    BY <1>1, <1>3, EmptySeq
  <2>3. /\ Front(d) \in Seq(Component) /\ Len(Front(d)) = Len(d) - 1
        /\ \A i \in 1..Len(d) - 1 : Front(d)[i] = d[i]
    <3> DEFINE m == Len(d) - 1
    <3>1. m \in Nat /\ m <= Len(d) /\ 1..m \subseteq 1..Len(d) /\ 1 \in Nat
      BY <1>1, <2>2
    <3>2. Front(d) = SubSeq(d, 1, m)
      BY DEF Front
    <3> HIDE DEF m
    <3>3. Front(d) = [i \in 1..m |-> d[i]]
      BY <1>1, <3>1, <3>2
    <3>4. Front(d) \in [1..m -> Component]
      BY <1>1, <3>1, <3>3
    <3>5. Front(d) \in Seq(Component) /\ Len(Front(d)) = m
      BY <3>1, <3>4
    <3> QED
      BY <3>3, <3>5 DEF m
  <2>4. ASSUME NEW i \in 1..Len(Front(d))
        PROVE  /\ Front(d)[i] \notin Idle
               /\ Front(d)[i] = ".." /\ i > 1 => Front(d)[i - 1] = ".."
    <3>1. i \in 1..Len(d) /\ i \in 1..Len(d) - 1 /\ (i > 1 => i - 1 \in 1..Len(d) - 1)
      BY <1>1, <2>3
    <3> QED
      BY <2>3, <3>1 DEF Cleaned
  <2> QED
    BY <2>1, <2>3, <2>4 DEF Cleaned
<1>4. CASE c \notin Idle /\ (c = ".." /\ d # <<>> => Last(d) = "..")
  <2> DEFINE e == Append(d, c)
  <2>1. CleanStep(d, c, FALSE) = e
    BY <1>4 DEF CleanStep
  <2>2. /\ e \in Seq(Component) /\ Len(e) = Len(d) + 1
        /\ \A i \in 1..Len(d) : e[i] = d[i]
        /\ e[Len(d) + 1] = c
    BY <1>1
  <2> HIDE DEF e
  <2>3. ASSUME NEW i \in 1..Len(e)
        PROVE  /\ e[i] \notin Idle
               /\ e[i] = ".." /\ i > 1 => e[i - 1] = ".."
    <3>1. CASE i = Len(d) + 1
      <4>1. i > 1 => d # <<>> /\ i - 1 = Len(d) /\ i - 1 \in 1..Len(d)
        BY <1>1, <3>1, EmptySeq
      <4> QED
        BY <1>4, <2>2, <3>1, <4>1 DEF Last
    <3>2. CASE i # Len(d) + 1
      <4>1. i \in 1..Len(d) /\ (i > 1 => i - 1 \in 1..Len(d))
        BY <1>1, <2>2, <3>2
      <4> QED
        BY <2>2, <4>1 DEF Cleaned
    <3> QED
      BY <3>1, <3>2
  <2> QED
    BY <2>1, <2>2, <2>3 DEF Cleaned
<1> QED
  BY <1>2, <1>3, <1>4

LEMMA CleanedPath ==
  ASSUME NEW p \in Seq(Component)
  PROVE  Cleaned(Follow(<<>>, p, FALSE))
<1> DEFINE n == Len(p)
<1>1. n \in Nat /\ <<>> \in Seq(Component) /\ \A k \in 1..n : p[k] \in Component
  OBVIOUS
<1>2. PICK d : d \in Stages(<<>>, p, FALSE)
  BY <1>1, FollowGoesByStages
<1>3. /\ d[0] = <<>>
      /\ \A k \in 1..n : d[k] = CleanStep(d[k - 1], p[k], FALSE)
      /\ Follow(<<>>, p, FALSE) = d[n]
  BY <1>2, Zenon DEF Stages
<1> DEFINE bad == {k \in Nat : k \in 0..n /\ ~Cleaned(d[k])}
<1> HIDE DEF n
<1>4. SUFFICES ASSUME bad # {} PROVE FALSE
  <2>1. n \in Nat /\ n \in 0..n
    BY <1>1
  <2>2. bad = {} => Cleaned(d[n])
    BY <2>1
  <2> QED
    BY <1>3, <2>2
<1>5. PICK k \in bad : \A j \in bad : k <= j
  BY <1>4, MinIsLeast
<1>6. k \in Nat /\ k \in 0..n /\ ~Cleaned(d[k])
  OBVIOUS
<1>7. k # 0
  <2>1. Cleaned(<<>>)
    BY DEF Cleaned
  <2> QED
    BY <1>3, <1>6, <2>1
<1>8. k \in 1..n /\ k - 1 \in 0..n /\ k - 1 \in Nat /\ ~(k <= k - 1)
  BY <1>1, <1>6, <1>7
<1>9. Cleaned(d[k - 1])
  BY <1>5, <1>8
<1> QED
  BY <1>1, <1>3, <1>6, <1>8, <1>9, CleanStepCleans

LEMMA ConcatIsOnto ==
  ASSUME NEW s \in Seq(Component), NEW t \in Seq(Component),
         NEW x \in Component
  PROVE  Append(s \o t, x) = s \o Append(t, x)
<1>1. /\ Append(t, x) \in Seq(Component) /\ s \o t \in Seq(Component)
      /\ <<x>> \in Seq(Component)
  OBVIOUS
<1>2. Append(s \o t, x) = (s \o t) \o <<x>>
  BY <1>1, AppendIsConcat
<1>3. Append(t, x) = t \o <<x>>
  BY AppendIsConcat
<1>4. (s \o t) \o <<x>> = s \o (t \o <<x>>)
  BY <1>1, ConcatAssociative
<1> QED
  BY <1>2, <1>3, <1>4

(* Names of files and directories.                                         *)
PlainPath(p) == p \in Seq(Component) /\ \A i \in 1..Len(p) : p[i] \notin Dots

(* A cleaned path that does not begin with ".." has none.                  *)
LEMMA CleanedIsPlain ==
  ASSUME NEW d, Cleaned(d), d # <<>> => d[1] # ".."
  PROVE  PlainPath(d)
<1> DEFINE bad == {i \in Nat : i \in 1..Len(d) /\ d[i] = ".."}
<1>1. d \in Seq(Component) /\ Len(d) \in Nat /\ \A i \in 1..Len(d) : d[i] \notin Idle
  BY DEF Cleaned
<1>2. \A i \in 1..Len(d) : i \in Nat
  OBVIOUS
<1>3. bad = {}
  <2> SUFFICES ASSUME bad # {} PROVE FALSE
    OBVIOUS
  <2>1. PICK i \in bad : \A j \in bad : i <= j
    BY MinIsLeast
  <2>2. i \in Nat /\ i \in 1..Len(d) /\ d[i] = ".."
    OBVIOUS
  <2>3. d # <<>>
    BY <1>1, <2>2
  <2>4. i # 1
    BY <2>2, <2>3
  <2>5. i > 1 /\ i - 1 \in 1..Len(d) /\ i - 1 \in Nat /\ ~(i <= i - 1)
    BY <1>1, <2>2, <2>4
  <2>6. d[i - 1] = ".."
    BY <2>2, <2>5 DEF Cleaned
  <2> QED
    BY <2>1, <2>5, <2>6
<1>4. \A i \in 1..Len(d) : d[i] # ".."
  BY <1>2, <1>3
<1> QED
  BY <1>1, <1>4 DEF PlainPath, Dots

(* What a path adds to the directory it is joined to.                      *)
Below(rel) == IF rel = <<".">> THEN <<>> ELSE rel

LEMMA RelIsPlain ==
  ASSUME NEW p \in Seq(Component), ScanRelPath(p) # Refused
  PROVE  LET rel == ScanRelPath(p)
         IN  /\ PlainPath(Below(rel))
             /\ rel = <<".">> \/ (rel = Below(rel) /\ rel # <<>>)
<1> DEFINE d == Follow(<<>>, p, FALSE)
           rel == ScanRelPath(p)
<1>1. Cleaned(d)
  BY CleanedPath
<1>2. rel = Clean(p) /\ Head(Clean(p)) # ".."
  BY DEF ScanRelPath
<1>3. Clean(p) = IF d = <<>> THEN <<".">> ELSE d
  BY DEF Clean
<1> HIDE DEF d, rel
<1>4. d # <<>> => d[1] # ".."
  <2>1. d \in Seq(Component)
    BY <1>1 DEF Cleaned
  <2>2. d # <<>> => Head(d) = d[1]
    BY <2>1
  <2> QED
    BY <1>2, <1>3, <2>2
<1>5. PlainPath(d)
  BY <1>1, <1>4, CleanedIsPlain
<1>6. PlainPath(<<>>)
  BY DEF PlainPath
<1>7. d # <<".">>
  <2> SUFFICES ASSUME d = <<".">> PROVE FALSE
    OBVIOUS
  <2>1. Len(d) = 1 /\ d[1] = "." /\ 1 \in 1..1
    OBVIOUS
  <2> QED
    BY <1>5, <2>1, DotsAreDots DEF PlainPath, Dots
<1> QED
  BY <1>2, <1>3, <1>5, <1>6, <1>7 DEF Below, rel

(* Plain names are put behind a directory as they are.                     *)
LEMMA JoinIsConcatenation ==
  ASSUME NEW dir \in Seq(Component), NEW p, PlainPath(p)
  PROVE  Join(dir, p) = dir \o p
<1> DEFINE n == Len(p)
           pre(k) == [i \in 1..k |-> p[i]]
<1>1. /\ p \in Seq(Component) /\ n \in Nat
      /\ \A k \in 1..n : p[k] \in Component /\ p[k] \notin Idle /\ p[k] # ".."
  BY DEF PlainPath, Dots
<1>2. PICK d : d \in Stages(dir, p, TRUE)
  BY <1>1, FollowGoesByStages
<1>3. /\ d[0] = dir
      /\ \A k \in 1..n : d[k] = CleanStep(d[k - 1], p[k], TRUE)
      /\ Join(dir, p) = d[n]
  BY <1>2, Zenon DEF Stages, Join
<1>4. \A k \in 1..n : d[k] = Append(d[k - 1], p[k])
  BY <1>1, <1>3 DEF CleanStep
<1> DEFINE bad == {k \in Nat : k \in 0..n /\ d[k] # dir \o pre(k)}
<1>5. bad = {}
  <2> SUFFICES ASSUME bad # {} PROVE FALSE
    OBVIOUS
  <2>1. PICK k \in bad : \A j \in bad : k <= j
    BY MinIsLeast
  <2>2. k \in Nat /\ k \in 0..n /\ d[k] # dir \o pre(k)
    OBVIOUS
  <2>3. k # 0
    <3>1. pre(0) = <<>>
      OBVIOUS
    <3>2. dir \o <<>> = dir
      OBVIOUS
    <3> QED
      BY <1>3, <2>2, <3>1, <3>2
  <2>4. k \in 1..n /\ k - 1 \in 0..n /\ k - 1 \in Nat /\ ~(k <= k - 1)
    BY <1>1, <2>2, <2>3
  <2>5. d[k - 1] = dir \o pre(k - 1)
    BY <2>1, <2>4
  <2>6. Append(dir \o pre(k - 1), p[k]) = dir \o pre(k)
    <3>1. pre(k - 1) \in Seq(Component) /\ Len(pre(k - 1)) = k - 1
      <4>1. pre(k - 1) \in [1..k - 1 -> Component]
        <5>1. \A i \in 1..k - 1 : i \in 1..n
          BY <1>1, <2>4
        <5> QED
          BY <1>1, <5>1
      <4> QED
        BY <2>4, <4>1
    <3>2. pre(k) = Append(pre(k - 1), p[k])
      <4> DEFINE a == pre(k - 1)
      <4>1. \A i \in 1..k - 1 : a[i] = p[i]
        OBVIOUS
      <4> HIDE DEF a
      <4>2. Append(a, p[k]) = [i \in 1..k |-> IF i = k THEN p[k] ELSE a[i]]
        BY <2>4, <3>1 DEF a
      <4>3. \A i \in 1..k : i # k => i \in 1..k - 1
        BY <2>4
      <4> QED
        BY <4>1, <4>2, <4>3 DEF a
    <3>3. p[k] \in Component
      BY <1>1, <2>4
    <3> DEFINE a == pre(k - 1)
    <3> HIDE DEF a, pre
    <3>4. a \in Seq(Component)
      BY <3>1 DEF a
    <3>5. \A t \in Seq(Component) : \A x \in Component :
            Append(dir \o t, x) = dir \o Append(t, x)
      BY ConcatIsOnto
    <3>6. Append(dir \o a, p[k]) = dir \o Append(a, p[k])
      BY <3>3, <3>4, <3>5, Zenon
    <3> QED
      BY <3>2, <3>6 DEF a
  <2> QED
    BY <1>4, <2>2, <2>4, <2>5, <2>6
<1>6. d[n] = dir \o pre(n)
  <2>1. n \in Nat /\ n \in 0..n
    BY <1>1
  <2> HIDE DEF pre
  <2> QED
    BY <1>5, <2>1
<1>7. pre(n) = p
  BY <1>1
<1> QED
  BY <1>3, <1>6, <1>7

(* A directory joined to "." is itself.                                    *)
LEMMA JoinDot ==
  ASSUME NEW dir
  PROVE  Join(dir, <<".">>) = dir
<1> DEFINE p == <<".">>
           w[k \in 0..Len(p)] == IF k = 0 THEN dir ELSE CleanStep(w[k - 1], p[k], TRUE)
           g == [k \in 0..1 |-> dir]
<1>1. Len(p) = 1 /\ p[1] = "."
  OBVIOUS
<1>2. CleanStep(dir, ".", TRUE) = dir
  BY DotsAreDots DEF CleanStep
<1>3. Join(dir, p) = w[Len(p)]
  BY DEF Join, Follow
<1> HIDE DEF p
<1>4. g = [k \in 0..Len(p) |-> IF k = 0 THEN dir ELSE CleanStep(g[k - 1], p[k], TRUE)]
  <2>1. \A k \in 0..1 : k = 0 \/ (k = 1 /\ k - 1 = 0)
    BY SMT
  <2>2. g[0] = dir
    OBVIOUS
  <2> HIDE DEF g
  <2>3. \A k \in 0..1 :
          dir = IF k = 0 THEN dir ELSE CleanStep(g[k - 1], p[k], TRUE)
    BY <1>1, <1>2, <2>1, <2>2
  <2> QED
    BY <1>1, <2>3 DEF g
<1> HIDE DEF g
<1>5. w = [k \in 0..Len(p) |-> IF k = 0 THEN dir ELSE CleanStep(w[k - 1], p[k], TRUE)]
  BY <1>4
<1> HIDE DEF w
<1>6. 0 \in 0..Len(p) /\ 1 \in 0..Len(p) /\ 1 - 1 = 0
  BY <1>1
<1>7. w[0] = dir
  BY <1>5, <1>6
<1>8. w[1] = CleanStep(w[0], ".", TRUE)
  <2>1. w[1] = IF 1 = 0 THEN dir ELSE CleanStep(w[1 - 1], p[1], TRUE)
    BY <1>5, <1>6, Zenon
  <2>2. 1 # 0
    OBVIOUS
  <2> QED
    BY <1>1, <1>6, <2>1, <2>2
<1> QED
  BY <1>1, <1>2, <1>3, <1>7, <1>8 DEF p

(* Where an accepted path leads from a root.                               *)
LEMMA JoinIsBelow ==
  ASSUME NEW dir \in Seq(Component), NEW p \in Seq(Component), ScanRelPath(p) # Refused
  PROVE  Join(dir, ScanRelPath(p)) = dir \o Below(ScanRelPath(p))
<1> DEFINE rel == ScanRelPath(p)
<1>1. PlainPath(Below(rel)) /\ (rel = <<".">> \/ rel = Below(rel))
  BY RelIsPlain
<1> HIDE DEF rel
<1>2. CASE rel = Below(rel)
  BY <1>1, <1>2, JoinIsConcatenation DEF rel
<1>3. CASE rel = <<".">>
  <2>1. Below(rel) = <<>> /\ dir \o <<>> = dir
    BY <1>3 DEF Below
  <2>2. Join(dir, rel) = dir
    BY <1>3, JoinDot
  <2> QED
    BY <2>1, <2>2 DEF rel
<1> QED
  BY <1>1, <1>2, <1>3

(* What lies below a directory begins with its path, and goes on with what *)
(* it has been joined to.                                                  *)
LEMMA BelowDirectory ==
  ASSUME NEW dir \in Seq(Component), NEW p \in Seq(Component)
  PROVE  /\ IsPrefix(dir, dir \o p)
         /\ SubSeq(dir \o p, Len(dir) + 1, Len(dir \o p)) = p
<1> DEFINE s == dir \o p
           n == Len(dir)
           m == Len(p)
<1>1. n \in Nat /\ m \in Nat
  OBVIOUS
<1>2. /\ s \in Seq(Component) /\ Len(s) = n + m
      /\ \A i \in 1..n + m : s[i] = IF i <= n THEN dir[i] ELSE p[i - n]
  BY ConcatProperties
<1> HIDE DEF s
<1>3. SubSeq(dir, 1, n) = SubSeq(s, 1, n)
  <2>1. \A i \in 1..n : i \in 1..n + m /\ i <= n
    BY <1>1
  <2>2. \A i \in 1..n : s[i] = dir[i]
    BY <1>2, <2>1
  <2> HIDE DEF n
  <2>3. SubSeq(dir, 1, n) = [i \in 1..n |-> dir[i]]
    BY <1>1
  <2>4. SubSeq(s, 1, n) = [i \in 1..n |-> s[i]]
    BY <1>1
  <2> QED
    BY <2>2, <2>3, <2>4
<1>4. SubSeq(s, n + 1, n + m) = p
  <2> DEFINE t == SubSeq(s, n + 1, n + m)
  <2> HIDE DEF n, m
  <2>1. t = [i \in 1..((n + m) - (n + 1) + 1) |-> s[(n + 1) + i - 1]]
    BY <1>1
  <2>2. (n + m) - (n + 1) + 1 = m
    BY <1>1
  <2>3. \A i \in 1..m : s[(n + 1) + i - 1] = p[i]
    <3> SUFFICES ASSUME NEW i \in 1..m PROVE s[(n + 1) + i - 1] = p[i]
      OBVIOUS
    <3>1. (n + 1) + i - 1 = n + i /\ n + i \in 1..n + m /\ ~(n + i <= n) /\ (n + i) - n = i
      BY <1>1
    <3> QED
      BY <1>2, <3>1
  <2>4. p = [i \in 1..m |-> p[i]]
    BY DEF m
  <2> HIDE DEF t
  <2>5. t = [i \in 1..m |-> s[(n + 1) + i - 1]]
    BY <2>1, <2>2
  <2> QED
    BY <2>3, <2>4, <2>5 DEF t
<1>5. n <= n + m
  BY <1>1
<1> QED
  BY <1>2, <1>3, <1>4, <1>5 DEF IsPrefix, s

-----------------------------------------------------------------------------
(* What the handler has looked at before it enqueues a job.                *)
PathInv ==
  /\ request \in AllRequests
  /\ status # 0 => pc = "answered"
  /\ pc \in {"find", "send"} => request.op = "cover"
  /\ request.op = "split" =>
       /\ pc \in {"decode", "stat", "contain", "enqueue", "answered"}
       /\ pc \in {"stat", "contain", "enqueue"} \/ status \in {202, 409, 503} =>
            Accepts(request)

LEMMA InitPathInv == Init => PathInv
BY DEF Init, PathInv, AllRequests

LEMMA NextKeepsPathInv == PathInv /\ [Next]_vars => PathInv'
<1> SUFFICES ASSUME PathInv, [Next]_vars PROVE PathInv'
  OBVIOUS
<1>1. request' = request /\ (Accepts(request))' = Accepts(request)
  <2>1. request' = request
    BY DEF Next, Decode, StatCue, ContainCue, Parse, Source, Duration, PreviewCover,
           Output, ContainAlbum, FindImage, SendImage, Enqueue, Change, Stopped, vars
  <2> QED
    BY <2>1 DEF Accepts
<1>2. CASE Decode
  <2>1. request.op = "split" /\ pc' = "stat" => Accepts(request)
    BY <1>2 DEF Decode, Answer, GoOn, Accepts, Rel
  <2>2. \/ pc' = "answered" /\ status' \in {400, 403}
        \/ pc' = "stat" /\ status' = status /\ pc = "decode"
    BY <1>2 DEF Decode, Answer, GoOn
  <2> QED
    BY <1>1, <2>1, <2>2 DEF PathInv, AllRequests
<1>3. CASE StatCue \/ ContainCue
  <2>1. pc \in {"stat", "contain"}
    BY <1>3 DEF StatCue, ContainCue
  <2>2. \/ pc' = "answered" /\ status' \in {403, 404}
        \/ /\ status' = status
           /\ pc' \in {"contain", "enqueue", "parse"}
           /\ request.op = "split" => pc' # "parse"
    BY <1>3 DEF StatCue, ContainCue, Answer, GoOn
  <2> QED
    BY <1>1, <2>1, <2>2 DEF PathInv, AllRequests
<1>4. CASE Enqueue
  <2>1. pc = "enqueue" /\ pc' = "answered"
    BY <1>4 DEF Enqueue, Answer
  <2> QED
    BY <1>1, <2>1 DEF PathInv, AllRequests
<1>5. CASE Parse \/ Source \/ Duration \/ PreviewCover \/ Output
  <2>1. request.op # "split"
    BY <1>5 DEF Parse, Source, Duration, PreviewCover, Output, PathInv
  <2>2. \/ pc' = "answered"
        \/ status' = status /\ pc # "answered" /\ pc' \notin {"find", "send"}
    BY <1>5 DEF Parse, Source, Duration, PreviewCover, Output, Answer, GoOn
  <2> QED
    BY <1>1, <2>1, <2>2 DEF PathInv, AllRequests
<1>7. CASE ContainAlbum \/ FindImage \/ SendImage
  <2>1. request.op = "cover" /\ pc # "answered"
    BY <1>7 DEF ContainAlbum, FindImage, SendImage, PathInv
  <2>2. pc' = "answered" \/ status' = status
    BY <1>7 DEF ContainAlbum, FindImage, SendImage, Answer, GoOn
  <2> QED
    BY <1>1, <2>1, <2>2 DEF PathInv, AllRequests
<1>6. CASE Change \/ Stopped \/ UNCHANGED vars
  <2>1. UNCHANGED <<pc, status>>
    BY <1>6 DEF Change, Stopped, vars
  <2> QED
    BY <1>1, <2>1 DEF PathInv, AllRequests
<1> QED
  BY <1>2, <1>3, <1>4, <1>5, <1>6, <1>7 DEF Next

LEMMA RequestsHavePaths ==
  ASSUME NEW r \in AllRequests
  PROVE  r.path \in Seq(Component) /\ r.cue \in Seq(Component)
BY CasesAssumption DEF AllRequests

(* The split of an accepted request reads and writes in the same place of  *)
(* the two trees, below their roots, however long the path is and wherever *)
(* "." and ".." and empty segments stand in it (scanRelPath).              *)
THEOREM SplitStaysInSubtree == Spec => []SameSubtree
<1>1. PathInv => SameSubtree
  <2> SUFFICES ASSUME PathInv, request.op = "split", status \in {202, 409, 503}
               PROVE  /\ IsPrefix(InputDir, SourceDir(Rel))
                      /\ IsPrefix(OutputDir, OutDir(Rel))
                      /\ SubSeq(SourceDir(Rel), Len(InputDir) + 1, Len(SourceDir(Rel))) =
                           SubSeq(OutDir(Rel), Len(OutputDir) + 1, Len(OutDir(Rel)))
    BY DEF SameSubtree
  <2>1. request.path \in Seq(Component) /\ Rel # Refused
    BY RequestsHavePaths DEF PathInv, Accepts, Rel
  <2>2. InputDir \in Seq(Component) /\ OutputDir \in Seq(Component)
    BY RootsAssumption
  <2>3. Below(Rel) \in Seq(Component)
    BY <2>1, RelIsPlain DEF Rel, PlainPath
  <2>4. SourceDir(Rel) = InputDir \o Below(Rel) /\ OutDir(Rel) = OutputDir \o Below(Rel)
    BY <2>1, <2>2, JoinIsBelow DEF Rel, SourceDir, OutDir
  <2> QED
    BY <2>2, <2>3, <2>4, BelowDirectory
<1> QED
  BY <1>1, InitPathInv, NextKeepsPathInv, PTL DEF Spec

(* What an accepted path may hold: names, or a single ".".                 *)
Segment == Component \union {"."}

LEMMA PathsAreOfSegments == \A p \in Seq(Component) : p \in Seq(Segment)
<1>1. Component \subseteq Segment
  BY DEF Segment
<1> QED
  BY <1>1

(* A name put behind a path tells the path and the name.                   *)
LEMMA NamesBehindPaths ==
  \A s, t, a, b \in Seq(Segment) :
    Len(a) = 1 /\ Len(b) = 1 /\ s \o a = t \o b => s = t /\ a = b
<1> SUFFICES ASSUME NEW s \in Seq(Segment), NEW t \in Seq(Segment),
                    NEW a \in Seq(Segment), NEW b \in Seq(Segment),
                    Len(a) = 1, Len(b) = 1, s \o a = t \o b
             PROVE  s = t /\ a = b
  OBVIOUS
<1>1. /\ a[1] \in Segment /\ b[1] \in Segment
      /\ a = <<a[1]>> /\ b = <<b[1]>>
  OBVIOUS
<1> DEFINE x == a[1]
           y == b[1]
<1>2. s \o a = Append(s, x) /\ t \o b = Append(t, y)
  BY <1>1, AppendIsConcat
<1>3. x \in Segment /\ y \in Segment /\ a = <<x>> /\ b = <<y>>
  BY <1>1
<1> HIDE DEF x, y
<1>4. Append(s, x) = Append(t, y) <=> s = t /\ x = y
  BY <1>3, AppendInjective
<1>5. x = y <=> a = b
  BY <1>3 DEF x, y
<1> QED
  BY <1>2, <1>4, <1>5

LEMMA SameBelow ==
  ASSUME NEW dir \in Seq(Component), NEW s \in Seq(Component), NEW t \in Seq(Component),
         dir \o s = dir \o t
  PROVE  s = t
<1>1. \A S : \A x, y, z \in Seq(S) : x \o y = x \o z => y = z
  BY ConcatSimplifications
<1> QED
  BY <1>1, Zenon

(* The id and the paths of an accepted split.                              *)
LEMMA AcceptedPaths ==
  ASSUME NEW r \in AllRequests, Accepts(r), PlainName(r.cue)
  PROVE  LET rel == ScanRelPath(r.path)
         IN  /\ rel \in Seq(Segment) /\ Below(rel) \in Seq(Component)
             /\ rel = <<".">> \/ PlainPath(rel)
             /\ rel = <<".">> <=> Below(rel) = <<>>
             /\ rel # <<".">> => Below(rel) = rel
             /\ JobOf(r, rel) = rel \o r.cue
             /\ CuePath(rel, r.cue) = (InputDir \o Below(rel)) \o r.cue
             /\ OutDir(rel) = OutputDir \o Below(rel)
<1> DEFINE rel == ScanRelPath(r.path)
<1>1. r.path \in Seq(Component) /\ r.cue \in Seq(Component) /\ rel # Refused
  BY RequestsHavePaths DEF Accepts
<1>2. InputDir \in Seq(Component) /\ OutputDir \in Seq(Component)
  BY RootsAssumption
<1>3. PlainPath(Below(rel)) /\ (rel = <<".">> \/ (rel = Below(rel) /\ rel # <<>>))
  BY <1>1, RelIsPlain
<1>4. SourceDir(rel) = InputDir \o Below(rel) /\ OutDir(rel) = OutputDir \o Below(rel)
  BY <1>1, <1>2, JoinIsBelow DEF SourceDir, OutDir
<1>5. PlainPath(r.cue)
  <2>1. \A i \in 1..Len(r.cue) : r.cue[i] \notin Dots
    BY <1>1 DEF PlainName
  <2> QED
    BY <1>1, <2>1 DEF PlainPath
<1>6. JobOf(r, rel) = rel \o r.cue
  BY DEF JobOf, JobID
<1> HIDE DEF rel
<1>7. rel \in Seq(Segment)
  <2>1. CASE rel = <<".">>
    <3>1. "." \in Segment
      BY DEF Segment
    <3> QED
      BY <2>1, <3>1
  <2>2. CASE rel = Below(rel)
    BY <1>3, <2>2, PathsAreOfSegments DEF PlainPath
  <2> QED
    BY <1>3, <2>1, <2>2
<1>8. Below(rel) \in Seq(Component) /\ InputDir \o Below(rel) \in Seq(Component)
  BY <1>2, <1>3 DEF PlainPath
<1>9. CuePath(rel, r.cue) = (InputDir \o Below(rel)) \o r.cue
  BY <1>4, <1>5, <1>8, JoinIsConcatenation DEF CuePath
<1>10. rel = <<".">> <=> Below(rel) = <<>>
  BY <1>3 DEF Below
<1>11. rel # <<".">> => Below(rel) = rel /\ PlainPath(rel)
  BY <1>3
<1> QED
  BY <1>4, <1>6, <1>7, <1>8, <1>9, <1>10, <1>11 DEF rel

(* Two splits have the same id if and only if they read and write the same. *)
LEMMA IdTellsSheet ==
  ASSUME NEW r \in AllRequests, Accepts(r), PlainName(r.cue),
         NEW o \in AllRequests, Accepts(o), PlainName(o.cue)
  PROVE  LET rel == ScanRelPath(r.path)
             q == ScanRelPath(o.path)
         IN  JobOf(r, rel) = JobOf(o, q) <=>
               CuePath(rel, r.cue) = CuePath(q, o.cue) /\ OutDir(rel) = OutDir(q)
<1>1. PICK rel, q, d, c : /\ rel = ScanRelPath(r.path) /\ q = ScanRelPath(o.path)
                          /\ d = r.cue /\ c = o.cue
  OBVIOUS
<1>2. /\ d \in Seq(Component) /\ Len(d) = 1 /\ c \in Seq(Component) /\ Len(c) = 1
      /\ InputDir \in Seq(Component) /\ OutputDir \in Seq(Component)
  BY <1>1, RequestsHavePaths, RootsAssumption DEF PlainName
<1>3. /\ rel \in Seq(Segment) /\ Below(rel) \in Seq(Component)
      /\ rel = <<".">> <=> Below(rel) = <<>>
      /\ rel # <<".">> => Below(rel) = rel
      /\ JobOf(r, rel) = rel \o d
      /\ CuePath(rel, d) = (InputDir \o Below(rel)) \o d
      /\ OutDir(rel) = OutputDir \o Below(rel)
  BY <1>1, AcceptedPaths
<1>4. /\ q \in Seq(Segment) /\ Below(q) \in Seq(Component)
      /\ q = <<".">> <=> Below(q) = <<>>
      /\ q # <<".">> => Below(q) = q
      /\ JobOf(o, q) = q \o c
      /\ CuePath(q, c) = (InputDir \o Below(q)) \o c
      /\ OutDir(q) = OutputDir \o Below(q)
  BY <1>1, AcceptedPaths
<1>5. Below(rel) = Below(q) <=> rel = q
  BY <1>4, <1>3
<1>6. c \in Seq(Segment) /\ d \in Seq(Segment)
  BY <1>2, PathsAreOfSegments
<1>7. rel \o d = q \o c <=> rel = q /\ d = c
  <2>1. q \in Seq(Segment) /\ rel \in Seq(Segment) /\ Len(c) = 1 /\ Len(d) = 1
    BY <1>2, <1>3, <1>4
  <2>2. rel \o d = q \o c => rel = q /\ d = c
    BY <1>6, <2>1, NamesBehindPaths, Zenon
  <2> QED
    BY <2>2
<1>8. OutDir(rel) = OutDir(q) <=> rel = q
  BY <1>2, <1>4, <1>3, <1>5, SameBelow
<1>9. PICK u, v : u = InputDir \o Below(rel) /\ v = InputDir \o Below(q)
  OBVIOUS
<1>10. u \in Seq(Segment) /\ v \in Seq(Segment)
  <2>1. u \in Seq(Component) /\ v \in Seq(Component)
    BY <1>2, <1>4, <1>3, <1>9
  <2> QED
    BY <2>1, PathsAreOfSegments
<1>11. rel = q => u = v
  BY <1>9
<1>12. CuePath(rel, d) = u \o d /\ CuePath(q, c) = v \o c
  BY <1>4, <1>3, <1>9
<1>13. u \o d = v \o c <=> u = v /\ d = c
  <2>1. Len(c) = 1 /\ Len(d) = 1
    BY <1>2
  <2>2. u \o d = v \o c => u = v /\ d = c
    BY <1>6, <1>10, <2>1, NamesBehindPaths, Zenon
  <2> QED
    BY <2>2
<1>14. rel \o d = q \o c <=> u \o d = v \o c /\ OutDir(rel) = OutDir(q)
  BY <1>7, <1>8, <1>11, <1>13, Zenon
<1>15. JobOf(r, rel) = JobOf(o, q) <=>
         CuePath(rel, d) = CuePath(q, c) /\ OutDir(rel) = OutDir(q)
  BY <1>4, <1>3, <1>12, <1>14, Zenon
<1> QED
  BY <1>1, <1>15, Zenon

(* An id names one sheet of one directory, however its path is spelled,    *)
(* and can be put into a URL as it is, unless the directory is the input   *)
(* root (JobID, scanRelPath).                                              *)
THEOREM IdIsOfOneSheet == Spec => []IdNamesSheet
<1>1. PathInv => IdNamesSheet
  <2> SUFFICES ASSUME PathInv, request.op = "split", status \in {202, 409},
                      PlainName(request.cue)
               PROVE  /\ \A r \in AllRequests : Accepts(r) /\ PlainName(r.cue) =>
                           LET rel == ScanRelPath(r.path)
                           IN  JobOf(r, rel) = JobOf(request, Rel) <=>
                                 /\ CuePath(rel, r.cue) = CuePath(Rel, request.cue)
                                 /\ OutDir(rel) = OutDir(Rel)
                      /\ Rel # <<".">> => StandsInURL(JobOf(request, Rel))
    BY DEF IdNamesSheet
  <2>0. PICK q, c : q = Rel /\ c = request.cue
    OBVIOUS
  <2>1. request \in AllRequests /\ Accepts(request) /\ q = ScanRelPath(request.path)
    BY <2>0 DEF PathInv, Rel
  <2>2. c \in Seq(Component) /\ InputDir \in Seq(Component) /\ OutputDir \in Seq(Component)
    BY <2>0, <2>1, RequestsHavePaths, RootsAssumption
  <2>3. /\ q \in Seq(Segment) /\ Below(q) \in Seq(Component)
        /\ q = <<".">> \/ PlainPath(q)
        /\ q = <<".">> <=> Below(q) = <<>>
        /\ q # <<".">> => Below(q) = q
        /\ JobOf(request, q) = q \o c
        /\ CuePath(q, c) = (InputDir \o Below(q)) \o c
        /\ OutDir(q) = OutputDir \o Below(q)
    BY <2>0, <2>1, AcceptedPaths
  <2>4. Len(c) = 1 /\ c[1] \notin Dots
    BY <2>0 DEF PlainName
  <2>5. ASSUME NEW r \in AllRequests, Accepts(r), PlainName(r.cue)
        PROVE  LET rel == ScanRelPath(r.path)
               IN  JobOf(r, rel) = JobOf(request, q) <=>
                     CuePath(rel, r.cue) = CuePath(q, c) /\ OutDir(rel) = OutDir(q)
    BY <2>0, <2>1, <2>5, IdTellsSheet
  <2>6. q # <<".">> => StandsInURL(q \o c)
    <3> SUFFICES ASSUME q # <<".">> PROVE StandsInURL(q \o c)
      OBVIOUS
    <3>1. PlainPath(q) /\ q \in Seq(Component)
      BY <2>3 DEF PlainPath
    <3> DEFINE s == q \o c
    <3>0. /\ s \in Seq(Component) /\ Len(s) = Len(q) + Len(c)
          /\ \A i \in 1..Len(q) + Len(c) :
               s[i] = IF i <= Len(q) THEN q[i] ELSE c[i - Len(q)]
      BY <2>2, <3>1, ConcatProperties
    <3> HIDE DEF s
    <3>2. /\ s \in Seq(Component) /\ Len(s) = Len(q) + 1 /\ Len(q) \in Nat
          /\ \A i \in 1..Len(q) + 1 : s[i] = IF i <= Len(q) THEN q[i] ELSE c[i - Len(q)]
      BY <2>4, <3>0, <3>1
    <3>3. ASSUME NEW i \in 1..Len(q) + 1
          PROVE  s[i] \notin Dots
      <4>1. CASE i <= Len(q)
        <5>1. i \in 1..Len(q)
          BY <3>2, <4>1
        <5> QED
          BY <3>1, <3>2, <4>1, <5>1 DEF PlainPath
      <4>2. CASE ~(i <= Len(q))
        <5>1. i - Len(q) = 1
          BY <3>2, <4>2
        <5> QED
          BY <2>4, <3>2, <4>2, <5>1
      <4> QED
        BY <4>1, <4>2
    <3>4. DOMAIN s = 1..Len(q) + 1
      BY <3>2
    <3> QED
      BY <3>3, <3>4 DEF StandsInURL, s
  <2> QED
    BY <2>0, <2>3, <2>5, <2>6
<1> QED
  BY <1>1, InitPathInv, NextKeepsPathInv, PTL DEF Spec

=============================================================================
