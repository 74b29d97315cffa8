----------------------------- MODULE MCFigures ------------------------------
(* Bounded instances of Figures for TLC: threads are interchangeable.      *)
EXTENDS Figures, TLC

FiguresSymmetry == Permutations(Threads)
=============================================================================
