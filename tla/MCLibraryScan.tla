---------------------------- MODULE MCLibraryScan ----------------------------
(***************************************************************************)
(* An instance of LibraryScan for TLC: a root without albums, a directory  *)
(* in it with another below, and one beside it.  Name 1 is an audio file,  *)
(* name 2 is not, name 3 is an audio file.                                 *)
(***************************************************************************)
EXTENDS LibraryScan

MCChildren ==
  [d \in Dirs |-> CASE d = "root" -> <<"a", "b">>
                    [] d = "a"    -> <<"x">>
                    [] OTHER      -> <<>>]

(* "a b" sorts before "a/x".                                               *)
MCPathOrder == [d \in Dirs |-> CASE d = "root" -> 0
                                 [] d = "a"    -> 1
                                 [] d = "b"    -> 2
                                 [] d = "x"    -> 3]

Cue(files, tracks) == [readable |-> TRUE, files |-> files, tracks |-> tracks]

Holding(cues, one, three) ==
  [cues |-> cues, place |-> <<one, "here", three>>]

Empty == Holding(<<>>, "none", "none")

MCContents ==
  [d \in Dirs |->
     CASE d = "root" -> {Empty}
       [] d = "a" -> {Holding(<<Cue(<<1>>, 1), Cue(<<2>>, 1)>>, "here", "here"),
                      Holding(<<Cue(<<1>>, 2)>>, "elsewhere", "here"),
                      Holding(<<Cue(<<1, 3>>, 2), Cue(<<>>, 0)>>, "here", "here")}
       [] d = "b" -> {Empty, Holding(<<Cue(<<3>>, 1)>>, "here", "below")}
       [] d = "x" -> {Empty, Holding(<<Cue(<<1>>, 1)>>, "here", "none"),
                      Holding(<<Cue(<<1>>, 1)>>, "none", "none")}]

=============================================================================
