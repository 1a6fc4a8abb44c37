--------------------------- MODULE MCConsoleService ---------------------------
(***************************************************************************)
(* Instances of ConsoleService for TLC: processes are strings, modules and *)
(* admin clients are interchangeable model values.                         *)
(***************************************************************************)
EXTENDS ConsoleService, TLC

Symmetry == Permutations(Module) \cup Permutations(Client)
=============================================================================
