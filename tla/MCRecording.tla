----------------------------- MODULE MCRecording -----------------------------
(* Recording with two or three channels, each on a transponder of its own. *)
EXTENDS Recording, TLC

CONSTANTS ch1, ch2, ch3, tp1, tp2, tp3

TwoChannels      == {ch1, ch2}
TwoTransponders  == {tp1, tp2}
TwoOf            == [c \in TwoChannels |-> IF c = ch1 THEN tp1 ELSE tp2]

\* The two channels may change places together with their transponders.
TwoSymmetry ==
    {p \in Permutations(TwoChannels \cup TwoTransponders) :
        \A c \in TwoChannels : p[c] \in TwoChannels /\ TwoOf[p[c]] = p[TwoOf[c]]}

ThreeChannels     == {ch1, ch2, ch3}
ThreeTransponders == {tp1, tp2, tp3}
ThreeOf           == [c \in ThreeChannels |->
                         IF c = ch1 THEN tp1 ELSE IF c = ch2 THEN tp2 ELSE tp3]

OneReceivable    == {tp1}

OneFrontend      == {1}
TwoFrontends     == {1, 2}
=============================================================================
