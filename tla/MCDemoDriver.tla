---------------------------- MODULE MCDemoDriver ----------------------------
(* TLC instances of DemoDriver.                                             *)
EXTENDS DemoDriver

Symmetry == Permutations(Task)
=============================================================================
