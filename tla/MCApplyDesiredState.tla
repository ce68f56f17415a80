----------------------- MODULE MCApplyDesiredState -----------------------
(***************************************************************************)
(* Small instances of ApplyDesiredState for TLC.                           *)
(***************************************************************************)
EXTENDS ApplyDesiredState

\* Not set, negative, too short, around the worst case, and an hour.
SomeOverrides ==
    {0, -1, 10, worstCaseApplyCycle - 1, worstCaseApplyCycle,
     worstCaseApplyCycle + 1, 60}
=============================================================================
