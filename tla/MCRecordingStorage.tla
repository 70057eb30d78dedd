------------------------- MODULE MCRecordingStorage -------------------------
(* RecordingStorage on a user's and a scheduler's recording. *)
EXTENDS RecordingStorage, TLC

CONSTANTS u1, u2, s1, p1, p2

\* Programmes of their own, or one for all.
OwnPrograms == u1 :> p1 @@ s1 :> p2
SameProgram == u1 :> p1 @@ u2 :> p1

Symmetry == Permutations(Requests)
=============================================================================
