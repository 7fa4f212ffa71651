------------------------------- MODULE MCKeygen -------------------------------
(***************************************************************************)
(* A small instance of Keygen: two files, one of them under two spellings, *)
(* and a path in a directory that does not exist.                          *)
(***************************************************************************)
EXTENDS Keygen, TLC

CONSTANTS f1, f2, plain, dotted, second, lost

MCPaths == {plain, dotted, second, lost}

MCResolved ==
  [path \in MCPaths |-> CASE path = lost -> NoParent
                          [] path = second -> f2
                          [] OTHER -> f1]

MCSymmetry == Permutations(Commands)

=============================================================================
