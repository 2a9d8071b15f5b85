------------------------------- MODULE MCJobs -------------------------------
(* Jobs for TLC: two interchangeable GPU jobs, up to two readers.          *)
EXTENDS Jobs, TLC

CONSTANTS g1, g2, r1, r2

Symmetry == Permutations(Jobs)
=============================================================================
