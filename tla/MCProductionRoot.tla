-------------------------- MODULE MCProductionRoot --------------------------
(***************************************************************************)
(* Small instances of ProductionRoot for TLC.  A grant lasts 2 units of    *)
(* time, where the scripts' lasts 900 seconds.                             *)
(***************************************************************************)
EXTENDS ProductionRoot, TLC

CONSTANTS p1, p2, current, previous

\* The first grant of the epoch-6 lane that the script names was bound to the
\* previous identity.
FirstRequest == InkRequest(previous, 3)

\* The epoch-5 script names the first of them.
TwoPreparations == <<previous, current>>

\* No rebind: the checkout the epoch-5 script was written for.
OnePreparation == <<previous>>

Processes == Permutations(Proc)
=============================================================================
