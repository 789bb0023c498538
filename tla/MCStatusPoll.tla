----------------------------- MODULE MCStatusPoll -----------------------------
(* Instances of StatusPoll for TLC.  Only the calls are interchangeable:   *)
(* the client polls one particular id.                                     *)
EXTENDS StatusPoll, TLC

CallSymmetry == Permutations(Calls)

=============================================================================
