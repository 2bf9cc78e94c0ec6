---------------------------- MODULE MCNamedAgent ----------------------------
EXTENDS NamedAgent, TLC
CONSTANTS p1, p2, r1, r2, r3
Mishaps(asked, c, f, s) == [asked |-> asked, crashes |-> c, faults |-> f, stops |-> s]
MCScenarios ==
  {Mishaps({r1}, 1, 1, 1), Mishaps({r1, r2}, 1, 1, 0), Mishaps({r1, r2}, 1, 0, 1),
   Mishaps({r1, r3}, 1, 0, 0)}
Symmetry == Permutations(Runtimes)
=============================================================================
