----------------------------- MODULE MCCoverGate -----------------------------
(* TLC instance of CoverGate: a small legacy cover whose source was never   *)
(* recorded, a good provider cover, and an upload.                          *)
EXTENDS CoverGate, TLC

small  == [img |-> "small", url |-> "u1", source |-> "add", w |-> 300, h |-> 400]
good   == [img |-> "good", url |-> "u2", source |-> "openlibrary", w |-> 400, h |-> 600]
upload == [img |-> "upload", url |-> "none", source |-> "user_upload", w |-> 500, h |-> 700]

MCCovers == {small, good, upload}
MCHostSource == ("u1" :> "hardcover") @@ ("u2" :> "openlibrary") @@ ("none" :> "none")

\* A lapse is for good and the properties are about behaviours without one, so
\* nothing is lost where TLC does not go on: after the call of a dropped request
\* has ended, or when somebody takes the lock or crashes before it has.
Followed == /\ lapse = "dropped" => stray # Idle
            /\ stray # Idle => lock = NoTask /\ crashes = 0

Symmetry == Permutations(Tasks)
=============================================================================
