------------------------------- MODULE CueSheet -------------------------------
(***************************************************************************)
(* internal/cue: from the bytes of a CUE file to an Album.  A text is the  *)
(* sequence of its lines, each reduced to what the regular expressions of  *)
(* cue.go recognise in it.  A field of an album or a track is the number   *)
(* of the line it is taken from, 0 if it is left empty, so that it can be  *)
(* said whose field it is.                                                 *)
(***************************************************************************)
EXTENDS CueSource, SequencesExt

CONSTANT Undecodable

(* Keywords at the start of their line are in capitals, indented ones are  *)
(* not.  TRACK is a header of an audio track, "TRACK huge" one whose       *)
(* number does not fit into an int, DATA that of another track, which no   *)
(* expression matches.                                                     *)
AudioHeader == {"TRACK", "TRACK huge"}

Kinds == AudioHeader \union
         {"PERFORMER", "TITLE", "FILE", "GENRE", "DATE", "performer", "title",
          "DATA", "INDEX 00", "INDEX 01", "other"}

(* arg is the name in a FILE line and the number in a TRACK line; words    *)
(* are those of TRACK and INDEX that stand behind the keyword, in a title  *)
(* or a remark.                                                            *)
Line == [kind : Kinds \ {"FILE"}, arg : Nat, words : SUBSET {"TRACK", "INDEX"}]
          \union [kind : {"FILE"}, arg : Names, words : SUBSET {"TRACK", "INDEX"}]

Track == [number : Nat, title : Nat, performer : Nat, index : Nat]

Album == [performer : Nat, title : Nat, file : Seq(Nat), genre : Nat, date : Nat,
          tracks : Seq(Track)]

-----------------------------------------------------------------------------
(* detectDecode *)

EncodingNames ==
  <<"utf-8-sig", "utf-8", "cp1251", "cp1252", "shift_jis", "euc-kr", "latin-1">>

(* A CUE file: whether it can be read, and what each encoding makes of it; *)
(* latin-1 decodes anything.                                               *)
Encoding == ToSet(EncodingNames)

Decodes(as, e) == as[e] # Undecodable

(* Anywhere in the line, as its keyword or not.                            *)
Says(line, word) ==
  \/ word \in line.words
  \/ word = "TRACK" /\ line.kind \in AudioHeader \union {"DATA"}
  \/ word = "INDEX" /\ line.kind \in {"INDEX 00", "INDEX 01"}

LooksLikeCUE(text) ==
  \A word \in {"TRACK", "INDEX"} : \E k \in DOMAIN text : Says(text[k], word)

(* The first encoding that gives a text with TRACK and INDEX in it.        *)
ReadCUE(as) ==
  LET fits == {k \in DOMAIN EncodingNames :
                 Decodes(as, EncodingNames[k]) /\ LooksLikeCUE(as[EncodingNames[k]])}
  IN  IF fits = {} THEN as["latin-1"] ELSE as[EncodingNames[Min(fits)]]

-----------------------------------------------------------------------------
(* ParseText *)

(* The first line of a set, as firstMatch finds it.                        *)
FirstOf(lines) == IF lines = {} THEN 0 ELSE Min(lines)

LinesOf(text, kinds, from, to) == {k \in from..to : text[k].kind \in kinds}

FirstIn(text, kinds) == FirstOf(LinesOf(text, kinds, 1, Len(text)))

TrackHeaders(text) == LinesOf(text, AudioHeader, 1, Len(text))

(* Those whose number can be read.                                         *)
NumberedHeaders(text) == LinesOf(text, {"TRACK"}, 1, Len(text))

(* Mutant: a block goes on to the end of the sheet.                        *)
BlockToEnd(text, h) == Len(text)

(* A block ends before the next header, whether that one's number can be   *)
(* read or not.                                                            *)
BlockEnd(text, h) ==
  LET later == {k \in TrackHeaders(text) : k > h}
  IN  IF later = {} THEN Len(text) ELSE Min(later) - 1

(* A set of lines in the order they have in the text.                      *)
InOrder(lines) ==
  [i \in 1..Cardinality(lines) |->
     CHOOSE k \in lines : Cardinality({j \in lines : j <= k}) = i]

(* fileReferences *)
FileReferences(text) ==
  LET lines == InOrder(LinesOf(text, {"FILE"}, 1, Len(text)))
  IN  [i \in DOMAIN lines |-> text[lines[i]].arg]

ParseTrack(text, h, albumPerformer) ==
  LET first(kinds) == FirstOf(LinesOf(text, kinds, h + 1, BlockEnd(text, h)))
      performer    == first({"PERFORMER", "performer"})
  IN  [number    |-> text[h].arg,
       title     |-> first({"TITLE", "title"}),
       performer |-> IF performer # 0 THEN performer ELSE albumPerformer,
       index     |-> first({"INDEX 01"})]

ParseText(text) ==
  LET performer == FirstIn(text, {"PERFORMER"})
      files     == FileReferences(text)
      headers   == InOrder(NumberedHeaders(text))
  IN  [performer |-> performer,
       title     |-> FirstIn(text, {"TITLE"}),
       file      |-> IF files = <<>> THEN <<>> ELSE <<Head(files)>>,
       genre     |-> FirstIn(text, {"GENRE"}),
       date      |-> FirstIn(text, {"DATE"}),
       tracks    |-> [i \in DOMAIN headers |-> ParseTrack(text, headers[i], performer)]]

(* The sheet of CueSource that a file holds.                               *)
SheetOf(file) ==
  LET text == ReadCUE(file.as)
  IN  [readable |-> file.readable,
       files    |-> IF file.readable THEN FileReferences(text) ELSE <<>>,
       tracks   |-> IF file.readable THEN Len(ParseText(text).tracks) ELSE 0]

-----------------------------------------------------------------------------
(* What a reader of the sheet expects of its fields.                       *)

(* Where the section of a track ends for a reader: at the next track of    *)
(* any kind.                                                               *)
SectionEnd(text, h) ==
  LET later == LinesOf(text, AudioHeader \union {"DATA"}, h + 1, Len(text))
  IN  IF later = {} THEN Len(text) ELSE Min(later) - 1

(* A field of the track with header h, taken from line k: its section's    *)
(* own line wins; a line behind it is taken only where a data track comes  *)
(* between, and never one of another audio track.                          *)
OwnField(text, h, k, kinds) ==
  LET own == LinesOf(text, kinds, h + 1, SectionEnd(text, h))
  IN  IF own # {} THEN k = Min(own)
      ELSE k # 0 => /\ k > h
                    /\ \A l \in h + 1..k : text[l].kind \notin AudioHeader
                    /\ \E l \in h + 1..k : text[l].kind = "DATA"

(* Every audio track in order; each field its own or absent, a performer   *)
(* its own or the album's; the album's fields from before the first track  *)
(* if they are there.                                                      *)
ParsedAsRead(text, album) ==
  LET headers == InOrder(NumberedHeaders(text))
      preamble(kind) == LinesOf(text, {kind}, 1, FirstOf(TrackHeaders(text)) - 1)
  IN  /\ Len(album.tracks) = Len(headers)
      /\ \A i \in DOMAIN headers :
           LET t == album.tracks[i]
               h == headers[i]
               performers == {"PERFORMER", "performer"}
           IN  /\ t.number = text[h].arg
               /\ OwnField(text, h, t.title, {"TITLE", "title"})
               /\ OwnField(text, h, t.index, {"INDEX 01"})
               /\ \/ OwnField(text, h, t.performer, performers)
                  \/ /\ t.performer = album.performer
                     /\ LinesOf(text, performers, h + 1, SectionEnd(text, h)) = {}
      /\ preamble("TITLE") # {} => album.title = Min(preamble("TITLE"))
      /\ preamble("PERFORMER") # {} => album.performer = Min(preamble("PERFORMER"))

=============================================================================
