-------------------------- MODULE MCLocalHeartbeat --------------------------
(* LocalHeartbeat on small instances.  Goroutines are interchangeable, and  *)
(* so are monitors.                                                        *)
EXTENDS LocalHeartbeat, TLC

Mixed == {<<"DOWN", FALSE>>, <<"UP", FALSE>>, <<"DOWN", TRUE>>}

Symmetry == Permutations(Checks) \cup Permutations(Monitors)
=============================================================================
