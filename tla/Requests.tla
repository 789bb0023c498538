------------------------------- MODULE Requests -------------------------------
(***************************************************************************)
(* internal/server: one request for a preview, a cover or a split, from    *)
(* its body to its answer, while the directory it names may change between *)
(* any two looks at it.  An action is one look at the disk and what the    *)
(* handler does with it.  The job manager is JobManager's; here it accepts *)
(* a job, has one of that id already, or refuses.                          *)
(***************************************************************************)
EXTENDS CueSheet, AudioDuration, Cover, RequestPaths

CONSTANTS
  Cases,       \* bound: the requests, each with what its directory holds
  Shifting     \* bound: the contents that may change into one another

ASSUME CasesAssumption ==
  /\ \A case \in Cases :
       /\ case.request.op \in {"preview", "cover", "split"}
       /\ case.request.path \in Seq(Component)
       /\ case.request.cue \in Seq(Component)
  /\ \A c \in {case.content : case \in Cases} \union Shifting :
       /\ \A e \in Encoding : c.sheet.as[e] \in {Undecodable} \union Seq(Line)
       /\ c.sheet.as["latin-1"] # Undecodable
       /\ c.place \in [Names -> Place]
       /\ c.audio \in [Names -> AudioFile]
       /\ \A n \in Names : n \in Audio <=> c.audio[n].type # "other"
       /\ c.images \in Seq(Image)
       /\ c.output \in Nat

VARIABLES
  request,     \* op, decodes, path, cue
  content,     \* of the directory: its sheet, where names lead, what is there,
               \* the images, and the .flac files of its output directory
  past,        \* auxiliary: what it was when the request arrived
  pc,          \* where the handler is
  album,       \* what it found so far: the album,
  source,      \* the audio file,
  total,       \* its duration,
  cover,       \* the cover,
  output,      \* the state of the output
  status       \* the answer's status, 0 before there is one

foundVars == <<album, source, total, cover, output>>
vars == <<request, content, past, pc, foundVars, status>>

NoAlbum == ParseText(<<>>)

NoOutput == [done |-> FALSE, tracks |-> 0]

TypeOK ==
  /\ pc \in {"decode", "stat", "contain", "parse", "source", "duration", "cover",
             "output", "find", "send", "enqueue", "answered"}
  /\ album \in Album
  /\ source \in Names \union {NoSource}
  /\ total \in (Nat \X (Nat \ {0})) \union {Unknown}
  /\ cover \in Nat
  /\ output \in [done : BOOLEAN, tracks : Nat]
  /\ status \in {0, 200, 202, 400, 403, 404, 409, 500, 503}
  /\ status # 0 <=> pc = "answered"

Init ==
  /\ \E case \in Cases : request = case.request /\ content = case.content
  /\ past = content
  /\ pc = "decode"
  /\ album = NoAlbum
  /\ source = NoSource
  /\ total = Unknown
  /\ cover = NoCover
  /\ output = NoOutput
  /\ status = 0

Answer(code) ==
  /\ pc' = "answered"
  /\ status' = code

GoOn(next) ==
  /\ pc' = next
  /\ UNCHANGED status

-----------------------------------------------------------------------------
(* The directories and the file of a request *)

Rel == ScanRelPath(request.path)

(* A cover's path comes from the URL and is not cleaned by scanRelPath.    *)
SourceDir(rel) == Join(InputDir, rel)

OutDir(rel) == Join(OutputDir, rel)

CuePath(rel, cueFile) == Join(SourceDir(rel), cueFile)

(* Mutant: the id is made of the path as the client spells it.             *)
JobOfSpelling(r, rel) == JobID(r.path, r.cue)

JobOf(r, rel) == JobID(rel, r.cue)

-----------------------------------------------------------------------------
(* decodePathRequest, scanRelPath, cueFileContained *)

Decode ==
  /\ pc = "decode"
  /\ request.op # "cover"
  /\ IF ~request.decodes THEN Answer(400)
     ELSE IF Rel = Refused THEN Answer(403)
     ELSE GoOn("stat")
  /\ UNCHANGED <<request, content, past, foundVars>>

StatCue ==
  /\ pc = "stat"
  /\ IF IsFile(CuePath(Rel, request.cue)) THEN GoOn("contain") ELSE Answer(404)
  /\ UNCHANGED <<request, content, past, foundVars>>

ContainCue ==
  /\ pc = "contain"
  /\ IF ~ContainedRealPath(CuePath(Rel, request.cue)) THEN Answer(403)
     ELSE GoOn(IF request.op = "split" THEN "enqueue" ELSE "parse")
  /\ UNCHANGED <<request, content, past, foundVars>>

-----------------------------------------------------------------------------
(* handlePreview *)

(* The file was there a moment ago and may be gone.                        *)
Parse ==
  /\ pc = "parse"
  /\ IF content.sheet.readable
       THEN /\ album' = ParseText(ReadCUE(content.sheet.as))
            /\ GoOn("source")
       ELSE /\ Answer(500)
            /\ UNCHANGED album
  /\ UNCHANGED <<request, content, past, source, total, cover, output>>

Source ==
  /\ pc = "source"
  /\ source' = SourceFLAC([files |-> album.file], content.place)
  /\ GoOn(IF source' = NoSource THEN "cover" ELSE "duration")
  /\ UNCHANGED <<request, content, past, album, total, cover, output>>

Duration ==
  /\ pc = "duration"
  /\ total' = IF content.place[source] = "none" THEN Unknown
              ELSE TotalSeconds(content.audio[source])
  /\ GoOn("cover")
  /\ UNCHANGED <<request, content, past, album, source, cover, output>>

PreviewCover ==
  /\ pc = "cover"
  /\ cover' = FindCover(content.images)
  /\ GoOn("output")
  /\ UNCHANGED <<request, content, past, album, source, total, output>>

(* CheckOutputStatus parses the sheet once more; one that cannot be read   *)
(* any more has no tracks.                                                 *)
Output ==
  /\ pc = "output"
  /\ LET expected == SheetOf(content.sheet).tracks
     IN  output' = [tracks |-> content.output,
                    done   |-> content.output > 0 /\ content.output >= expected
                                 /\ expected > 0]
  /\ Answer(200)
  /\ UNCHANGED <<request, content, past, album, source, total, cover>>

-----------------------------------------------------------------------------
(* handleCover, handleSplit *)

ContainAlbum ==
  /\ pc = "decode"
  /\ request.op = "cover"
  /\ IF ContainedRealPath(SourceDir(request.path)) THEN GoOn("find") ELSE Answer(403)
  /\ UNCHANGED <<request, content, past, foundVars>>

FindImage ==
  /\ pc = "find"
  /\ cover' = FindCover(content.images)
  /\ IF cover' = NoCover THEN Answer(404) ELSE GoOn("send")
  /\ UNCHANGED <<request, content, past, album, source, total, output>>

(* The image may be gone if the directory has changed (http.ServeFile).    *)
SendImage ==
  /\ pc = "send"
  /\ \E code \in {200, 404} : Answer(code) /\ (code = 404 => content # past)
  /\ UNCHANGED <<request, content, past, foundVars>>

Enqueue ==
  /\ pc = "enqueue"
  /\ \E code \in {202, 409, 503} : Answer(code)
  /\ UNCHANGED <<request, content, past, foundVars>>

-----------------------------------------------------------------------------
(* Users change the directory, once while the request is under way.        *)
Change ==
  /\ pc # "answered"
  /\ content = past
  /\ content \in Shifting
  /\ \E c \in Shifting \ {content} : content' = c
  /\ UNCHANGED <<request, past, pc, foundVars, status>>

Stopped ==
  /\ pc = "answered"
  /\ UNCHANGED vars

Next ==
  \/ Decode
  \/ StatCue
  \/ ContainCue
  \/ Parse
  \/ Source
  \/ Duration
  \/ PreviewCover
  \/ Output
  \/ ContainAlbum
  \/ FindImage
  \/ SendImage
  \/ Enqueue
  \/ Change
  \/ Stopped

Spec == Init /\ [][Next]_vars

-----------------------------------------------------------------------------
(* What the directory held at some moment of the request.                  *)
Moments == {past, content}

(* A sheet in UTF-8, with or without a byte order mark, is read as that,   *)
(* whatever else its bytes could be.                                       *)
TextOf(file) ==
  LET utf8 == file.as["utf-8-sig"]
  IN  IF utf8 # Undecodable /\ LooksLikeCUE(utf8) THEN utf8 ELSE ReadCUE(file.as)

Previewed == request.op = "preview" /\ status = 200

(* The split of an accepted request reads and writes in the same place of  *)
(* the two trees: "keeps the two joins in the same relative subtree"       *)
(* (scanRelPath), and never above either root.                             *)
SameSubtree ==
  request.op = "split" /\ status \in {202, 409, 503} =>
    LET src == SourceDir(Rel)
        out == OutDir(Rel)
    IN  /\ IsPrefix(InputDir, src)
        /\ IsPrefix(OutputDir, out)
        /\ SubSeq(src, Len(InputDir) + 1, Len(src)) =
             SubSeq(out, Len(OutputDir) + 1, Len(out))

(* A file name within its directory, as the API wants it.                  *)
PlainName(cueFile) == Len(cueFile) = 1 /\ cueFile[1] \notin Dots

AllRequests == {case.request : case \in Cases}

Accepts(r) == r.op = "split" /\ r.decodes /\ ScanRelPath(r.path) # Refused

(* An id names one sheet of one directory, however the path is spelled: so *)
(* a second split of an album is a duplicate, and a split of another is    *)
(* not.  Unless the directory is the input root itself, the id can be put  *)
(* into the path of a status request as it is.                             *)
IdNamesSheet ==
  request.op = "split" /\ status \in {202, 409} /\ PlainName(request.cue) =>
    /\ \A r \in AllRequests : Accepts(r) /\ PlainName(r.cue) =>
         LET rel == ScanRelPath(r.path)
         IN  JobOf(r, rel) = JobOf(request, Rel) <=>
               /\ CuePath(rel, r.cue) = CuePath(Rel, request.cue)
               /\ OutDir(rel) = OutDir(Rel)
    /\ Rel # <<".">> => StandsInURL(JobOf(request, Rel))

(* A preview shows the tracks of the sheet, each with its own title, index *)
(* and performer, or the album's performer, and never those of another     *)
(* audio track (ParseText), whatever its encoding was taken for before     *)
(* (detectDecode).                                                         *)
FieldsStayWithTheirTrack ==
  Previewed => \E c \in Moments : ParsedAsRead(TextOf(c.sheet), album)

(* A preview's or cover's image is the best the directory has, and one of  *)
(* its own, even if a better named one is passed over (FindCover).         *)
CoverIsBest ==
  Previewed \/ (request.op = "cover" /\ status \in {200, 404}) =>
    \E c \in Moments : Best(c.images, cover)

(* The file that the sheet names, if it can be had in the directory.       *)
NamedSource(sheet, place) ==
  LET text == TextOf(sheet)
  IN  {n \in Audio : Contained(n, place) /\
         \E k \in DOMAIN text :
           /\ text[k].kind = "FILE" /\ text[k].arg = n
           /\ \A l \in 1..k - 1 : text[l].kind # "FILE"}

(* Of two moments, y is not the earlier one.                               *)
InTurn(x, y) == x = content => y = content

(* A preview reads the sheet, then looks for the file it names, then into  *)
(* the file (Parse, SourceFLAC, TotalSeconds).  However the directory      *)
(* changes in between, the duration it shows is that of the file named in  *)
(* the sheet whose tracks it shows, if that file was there at the second   *)
(* look: as a player would have it at the third, wherever the format and   *)
(* data chunks stand among others, and unknown if the file is gone then.   *)
DurationIsOfSource ==
  Previewed =>
    \E read, found, timed \in Moments :
      /\ InTurn(read, found) /\ InTurn(found, timed)
      /\ ParsedAsRead(TextOf(read.sheet), album)
      /\ \A n \in NamedSource(read.sheet, found.place) :
           LET file == timed.audio[n]
           IN  /\ timed.place[n] = "none" => total = Unknown
               /\ timed.place[n] # "none" /\ file.type = "wav" /\ Ordinary(file) =>
                    total = Played(file)

=============================================================================
