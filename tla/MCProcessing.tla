------------------------------ MODULE MCProcessing ------------------------------
(* Small instances of Processing. *)
EXTENDS Processing, TLC

CONSTANTS g1, x

Symmetry == Permutations(Workers)

Everything == Readings \X Configs
===============================================================================
