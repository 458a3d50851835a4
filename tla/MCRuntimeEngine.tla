-------------------------- MODULE MCRuntimeEngine --------------------------
(* RuntimeEngine with interchangeable drivers, for the runs with several of *)
(* them: no action and no property names a driver.                         *)
EXTENDS RuntimeEngine, TLC

DriverSymmetry == Permutations(Drivers)
=============================================================================
