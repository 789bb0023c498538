---------------------------- MODULE AudioDuration ----------------------------
(***************************************************************************)
(* cue.TotalSeconds: the length of an audio file, from the headers of a    *)
(* WAV file's chunks or from what metaflac says.  A duration is the pair   *)
(* of amount and rate whose quotient the code returns.                     *)
(*                                                                         *)
(* A WAV file is the sequence of its chunks, laid out as RIFF wants it:    *)
(* a header of HeaderSize bytes, then for each chunk its own header, its   *)
(* body and a byte of padding if the body is odd.  All other bytes are 0,  *)
(* and 0 is what an identifier and a size read from them are.              *)
(***************************************************************************)
EXTENDS Naturals, Sequences, FiniteSetsExt

CONSTANTS
  ReadLimit,   \* wavHeaderReadLimit
  Unknown

ASSUME ReadLimitAssumption == ReadLimit \in Nat /\ Unknown \notin Nat

HeaderSize == 12
ChunkHeader == 8
RateEnd == 12      \* where the byte rate ends in the body of a fmt chunk

FmtID == "fmt "
DataID == "data"

Chunk == [id : {FmtID, DataID, "LIST"}, size : Nat, rate : Nat]

(* Of a FLAC file it is what metaflac prints, or Unknown if it fails; any  *)
(* other file is not looked into.                                          *)
AudioFile ==
  [type : {"wav"}, riff : BOOLEAN, chunks : Seq(Chunk)]
    \union [type : {"flac"}, says : (Nat \X Nat) \union {Unknown}]
    \union [type : {"other"}]

(* Where the k-th chunk starts, and where the file ends.                   *)
StartOf(chunks) ==
  LET start[k \in 1..Len(chunks) + 1] ==
        IF k = 1 THEN HeaderSize
        ELSE LET size == chunks[k - 1].size
             IN  start[k - 1] + ChunkHeader + size + (size % 2)
  IN  start

(* Mutant: a chunk is not padded to an even length.                        *)
Unpadded(size) == size

(* RIFF chunks are word-aligned.                                           *)
Advance(size) == IF size % 2 = 1 THEN size + 1 ELSE size

(* Mutant: the rate is not looked at.                                      *)
QuotientOfAny(amount, rate) == <<amount, rate>>

Quotient(amount, rate) == IF rate = 0 THEN Unknown ELSE <<amount, rate>>

(* How far the header of a file is read.                                   *)
EndOfRead(file) == Min({ReadLimit, StartOf(file.chunks)[Len(file.chunks) + 1]})

ChunkAt(file, pos) ==
  LET here == {k \in DOMAIN file.chunks : StartOf(file.chunks)[k] = pos}
  IN  IF here = {} THEN [id |-> "zero", size |-> 0, rate |-> 0]
      ELSE file.chunks[Min(here)]

(* The loop of parseWavDuration: where it stands and what it has found.    *)
Found(s) == s.rate # Unknown /\ s.data # Unknown

Over(file, s) == Found(s) \/ s.pos + ChunkHeader > EndOfRead(file)

(* A format chunk that is cut off ends it with nothing.                    *)
Round(file, s) ==
  LET c    == ChunkAt(file, s.pos)
      body == s.pos + ChunkHeader
  IN  IF c.id = FmtID /\ body + RateEnd > EndOfRead(file)
        THEN [pos |-> body + RateEnd, rate |-> Unknown, data |-> Unknown]
        ELSE [pos  |-> body + Advance(c.size),
              rate |-> IF c.id = FmtID THEN c.rate ELSE s.rate,
              data |-> IF c.id = DataID THEN c.size ELSE s.data]

(* A round moves on, so that ReadLimit rounds are more than enough.        *)
ParseWavDuration(file) ==
  LET walk[n \in Nat] ==
        IF n = 0 THEN [pos |-> HeaderSize, rate |-> Unknown, data |-> Unknown]
        ELSE LET s == walk[n - 1] IN IF Over(file, s) THEN s ELSE Round(file, s)
      last == walk[ReadLimit]
  IN  IF ~file.riff \/ EndOfRead(file) < HeaderSize \/ ~Found(last) THEN Unknown
      ELSE Quotient(last.data, last.rate)

(* Errors are not fatal: the duration is unknown.                          *)
TotalSeconds(file) ==
  IF file.type = "wav" THEN ParseWavDuration(file)
  ELSE IF file.type = "other" \/ file.says = Unknown THEN Unknown
  ELSE Quotient(file.says[1], file.says[2])

-----------------------------------------------------------------------------
(* What a player would say of a file with one format and one data chunk,   *)
(* where both headers lie within the bytes that are read.                  *)
OneOf(file, id, k) == {j \in DOMAIN file.chunks : file.chunks[j].id = id} = {k}

Ordinary(file) ==
  /\ file.riff
  /\ \E f, d \in DOMAIN file.chunks :
       /\ OneOf(file, FmtID, f) /\ OneOf(file, DataID, d)
       /\ file.chunks[f].rate > 0 /\ file.chunks[f].size >= RateEnd
       /\ StartOf(file.chunks)[f] + ChunkHeader + RateEnd <= ReadLimit
       /\ StartOf(file.chunks)[d] + ChunkHeader <= ReadLimit

Played(file) ==
  LET the(id) == CHOOSE c \in {file.chunks[k] : k \in DOMAIN file.chunks} : c.id = id
  IN  <<the(DataID).size, the(FmtID).rate>>

=============================================================================
