------------------------------- MODULE MCBoot -------------------------------
(* An instance of Boot for TLC: two refs of one repository, whose archives   *)
(* differ in size, a report that meets the baseline and one that does not.   *)
EXTENDS Boot, TLC

CONSTANTS main, dev

Sizes == ("lean" :> 2) @@ (main :> 2) @@ (dev :> 1)
AllVersions == {"lean", main, dev}
SomeReports ==
    {[solved |-> MinSolved, clean |-> TRUE, rejects |-> HardRejects],
     [solved |-> MinSolved, clean |-> TRUE, rejects |-> HardRejects - 1]}
=============================================================================
