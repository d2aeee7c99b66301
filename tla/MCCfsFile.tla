----------------------------- MODULE MCCfsFile -----------------------------
(* Values for TLC.                                                          *)
EXTENDS CfsFile, TLC

CONSTANTS t1, t2, h1, h2, f1, f2, b1, b2

\* Two blocks of different sizes, one and two bytes.
MCSizeOf == b1 :> 1 @@ b2 :> 2

\* Blocks of one size, two bytes: half a block can be there.
MCEven == [b \in Blocks |-> 2]

\* Threads are alike, and so are handles, and blocks of one size.
Alike == {p @@ q @@ r : p \in Permutations(Threads), q \in Permutations(Handles),
                        r \in Permutations(Blocks)}

=============================================================================
