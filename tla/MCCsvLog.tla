------------------------------ MODULE MCCsvLog ------------------------------
(* Two writers; they differ in nothing but their names.                      *)
EXTENDS CsvLog, TLC

CONSTANTS w1, w2

Symmetry == Permutations(Writers)
=============================================================================
