------------------------------ MODULE MCRequests ------------------------------
(***************************************************************************)
(* The instance of Requests for TLC: every short path to a small tree with *)
(* symbolic links, for an ordinary album; and an ordinary request for      *)
(* albums that differ from it in one respect: the lines of the sheet, its  *)
(* encoding and the file it names, the chunks of that file, the images.    *)
(* Name 1 is a WAV file, name 3 a FLAC file, name 2 is no audio file.      *)
(***************************************************************************)
EXTENDS Requests

MCInputDir == <<"in">>
MCOutputDir == <<"out">>

Real(kind, path) == [kind |-> kind, real |-> path]

(* l and z.cue are links to another place.                                 *)
MCTree ==
  LET here == {<<<<"in">>, "dir">>, <<<<"in", "x.cue">>, "file">>,
               <<<<"in", "a">>, "dir">>, <<<<"in", "a", "x.cue">>, "file">>,
               <<<<"in", "a", "y.cue">>, "file">>, <<<<"in", "a", "a">>, "dir">>,
               <<<<"in", "a", "a", "x.cue">>, "file">>, <<<<"out">>, "dir">>}
      linked == {<<<<"in", "l">>, "dir", <<"els">>>>,
                 <<<<"in", "l", "x.cue">>, "file", <<"els", "x.cue">>>>,
                 <<<<"in", "a", "z.cue">>, "file", <<"els", "x.cue">>>>}
      kindOf(p) == CHOOSE k \in {"dir", "file"} : <<p, k>> \in here
  IN  [p \in {h[1] : h \in here} \union {l[1] : l \in linked} |->
         IF \E h \in here : h[1] = p THEN Real(kindOf(p), p)
         ELSE LET l == CHOOSE l \in linked : l[1] = p IN Real(l[2], l[3])]

-----------------------------------------------------------------------------
L(kind) == [kind |-> kind, arg |-> 0, words |-> {}]
FileLine(n) == [L("FILE") EXCEPT !.arg = n]
TrackLine(n) == [L("TRACK") EXCEPT !.arg = n]

TextNaming(n) ==
  <<L("PERFORMER"), L("TITLE"), L("GENRE"), L("DATE"), FileLine(n),
    TrackLine(1), L("title"), L("INDEX 01"),
    TrackLine(2), L("title"), L("performer"), L("INDEX 00"), L("INDEX 01")>>

(* The same bytes in every encoding, or different ones from utf-8, from    *)
(* cp1251, and from the others.                                            *)
Plain(text) == [readable |-> TRUE, as |-> [e \in Encoding |-> text]]

Encoded(bom, utf8, cyrillic, others) ==
  [readable |-> TRUE,
   as |-> [e \in Encoding |-> CASE e = "utf-8-sig" -> bom
                                [] e = "utf-8"     -> utf8
                                [] e = "cp1251"    -> cyrillic
                                [] OTHER           -> others]]

Unreadable == [Plain(TextNaming(1)) EXCEPT !.readable = FALSE]

NoCueText == <<L("other"), L("other")>>

(* Both words are in it, one in a title and one in a remark.               *)
Mentioning ==
  <<[L("TITLE") EXCEPT !.words = {"INDEX"}], FileLine(1),
    [L("other") EXCEPT !.words = {"TRACK"}]>>

Encodings ==
  LET right == TextNaming(1)
      wrong == TextNaming(2)
      withBOM == [right EXCEPT ![1] = L("other")]
  IN  {Plain(right),
       Encoded(right, right, wrong, wrong),
       Encoded(right, withBOM, wrong, wrong),
       Encoded(Undecodable, Undecodable, right, wrong),
       Encoded(Undecodable, Undecodable, wrong, right),
       Encoded(Undecodable, Undecodable, Undecodable, right),
       Encoded(Undecodable, Undecodable, NoCueText, NoCueText),
       Encoded(Undecodable, Undecodable, Mentioning, right),
       Plain(TextNaming(3)),
       Plain(NoCueText),
       Unreadable}

-----------------------------------------------------------------------------
C(id, size, rate) == [id |-> id, size |-> size, rate |-> rate]

Wav(chunks) == [type |-> "wav", riff |-> TRUE, chunks |-> chunks]

Flac(says) == [type |-> "flac", says |-> says]

MCAudio ==
  <<Wav(<<C(FmtID, 16, 4), C(DataID, 8, 0)>>), [type |-> "other"], Flac(<<9, 3>>)>>

Chunks == {C(FmtID, 16, 4), C(FmtID, 12, 0), C(DataID, 8, 0), C("LIST", 3, 0),
           C("LIST", 6, 0), C("LIST", 33, 0)}

Images == [stem : {1, 4, 5}, contained : BOOLEAN]

Album1 ==
  [sheet  |-> Plain(TextNaming(1)),
   place  |-> <<"here", "none", "here">>,
   audio  |-> MCAudio,
   images |-> <<[stem |-> 5, contained |-> TRUE], [stem |-> 1, contained |-> TRUE]>>,
   output |-> 2]

Lines == {L("TITLE"), L("title"), L("PERFORMER"), TrackLine(0), TrackLine(1),
          L("TRACK huge"), L("DATA"), L("INDEX 01")}

Sheets == {Plain(text) : text \in SeqOf(Lines, 4)}

Contents ==
  {[Album1 EXCEPT !.sheet = s] : s \in Sheets}
    \union {[Album1 EXCEPT !.sheet = s, !.place = <<one, two, three>>] :
              s \in Encodings, one \in Place, two \in {"none", "here"}, three \in Place}
    \union {[Album1 EXCEPT !.audio[1] = Wav(chunks)] : chunks \in SeqOf(Chunks, 3)}
    \union {[Album1 EXCEPT !.audio[1].riff = FALSE],
            [Album1 EXCEPT !.audio[1] = Flac(Unknown)],
            [Album1 EXCEPT !.audio[1] = Flac(<<9, 0>>)]}
    \union {[Album1 EXCEPT !.images = images] : images \in SeqOf(Images, 3)}
    \union {[Album1 EXCEPT !.output = n] : n \in 0..3}

(* While a request is under way the sheet may lose its second track or be  *)
(* gone, its audio file be moved or replaced, an image disappear, the      *)
(* output grow.                                                            *)
MCShifting ==
  {Album1,
   [Album1 EXCEPT !.sheet = Plain(SubSeq(TextNaming(3), 1, 8))],
   [Album1 EXCEPT !.sheet = Unreadable],
   [Album1 EXCEPT !.place = <<"none", "none", "here">>],
   [Album1 EXCEPT !.audio[1] = Wav(<<C(FmtID, 16, 4), C(DataID, 12, 0)>>)],
   [Album1 EXCEPT !.images = Tail(@)],
   [Album1 EXCEPT !.output = 3]}

-----------------------------------------------------------------------------
R(op, path, cueFile) == [op |-> op, decodes |-> TRUE, path |-> path, cue |-> cueFile]

Paths == SeqOf({"", ".", "..", "a", "l", "in"}, 3) \ {<<>>}

CueFiles ==
  {<<"x.cue">>, <<"y.cue">>, <<"z.cue">>, <<".", "x.cue">>, <<"..", "x.cue">>,
   <<"a", "x.cue">>, <<"a">>, <<"">>}

Case(r, c) == [request |-> r, content |-> c]

MCCases ==
  {Case(R("split", p, f), Album1) : p \in Paths, f \in CueFiles}
    \union {Case(R("cover", p, <<>>), Album1) : p \in Paths}
    \union {Case(R("preview", <<"a">>, f), Album1) : f \in CueFiles}
    \union {Case([R("split", <<"a">>, <<"x.cue">>) EXCEPT !.decodes = FALSE], Album1)}
    \union {Case(R("preview", <<"a">>, <<"x.cue">>), c) : c \in Contents}
    \union {Case(R("cover", <<"a">>, <<>>), c) : c \in Contents}

=============================================================================
