------------------------------ MODULE MCUclamp ------------------------------
(* Uclamp for TLC.                                                         *)
EXTENDS Uclamp, TLC

CONSTANT a

MCParent == (a :> Root)

\* Lower defaults; a maximum below the minimum and too large an RT default are
\* refused.
MCSysctls == {<<"min", 1>>, <<"max", 1>>, <<"rt", 1>>, <<"rt", 3>>}

MCUtils == {<<"MIN", 1>>, <<"MAX", 1>>}

\* Class changes, a minimum, a maximum, and back to the default.
MCAttrs == {[class |-> "rt", MIN |-> Keep, MAX |-> Keep],
            [class |-> "fair", MIN |-> 2, MAX |-> 2],
            [class |-> "rt", MIN |-> Unset, MAX |-> 1],
            [class |-> "dl", MIN |-> Keep, MAX |-> Keep]}
=============================================================================
