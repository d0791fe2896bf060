-------------------------- MODULE MCCompareCommand --------------------------
(* CompareCommand: three processes with any arguments, in a directory with *)
(* the input, another name of it or of another file, and a free path.      *)
EXTENDS CompareCommand, TLC

MCResult(t) == t

Symmetry == Permutations(Proc)
=============================================================================
