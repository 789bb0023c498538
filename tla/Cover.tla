--------------------------------- MODULE Cover ---------------------------------
(***************************************************************************)
(* scan.FindCover: which image of an album's directory is its cover.  The  *)
(* images are those of the directory in order of their names; an image is  *)
(* its stem's place in coverNamePrefixes (one more than the last for any   *)
(* other stem) and whether its real path stays in the directory.           *)
(***************************************************************************)
EXTENDS Naturals, Sequences, FiniteSetsExt

NamePrefixes == 4     \* cover, folder, front, album

Image == [stem : 1..NamePrefixes + 1, contained : BOOLEAN]

NoCover == 0

(* Mutant: the first image that has one of the names is taken.             *)
FindCoverByName(images) ==
  LET usable == {k \in DOMAIN images : images[k].contained}
      named  == {k \in usable : images[k].stem <= NamePrefixes}
  IN  CASE named # {}                 -> Min(named)
        [] named = {} /\ usable # {}  -> Min(usable)
        [] OTHER                      -> NoCover

(* One prefix after the other, then any image; one that leads elsewhere is *)
(* passed over.                                                            *)
FindCover(images) ==
  LET usable  == {k \in DOMAIN images : images[k].contained}
      with(p) == {k \in usable : images[k].stem = p}
      hits    == {p \in 1..NamePrefixes : with(p) # {}}
  IN  CASE hits # {}                 -> Min(with(Min(hits)))
        [] hits = {} /\ usable # {}  -> Min(usable)
        [] OTHER                     -> NoCover

(* No image of the directory would be a better cover than k.               *)
Best(images, k) ==
  IF k = NoCover THEN \A j \in DOMAIN images : ~images[j].contained
  ELSE /\ k \in DOMAIN images
       /\ images[k].contained
       /\ \A j \in DOMAIN images : images[j].contained =>
            \/ images[k].stem < images[j].stem
            \/ images[k].stem = images[j].stem /\ k <= j

=============================================================================
