------------------------------ MODULE MCScaffold ------------------------------
(* Two commands for one directory: of each language one that vendors the    *)
(* SDK and one that is given a directory, and some that are refused.        *)
EXTENDS Scaffold, TLC

CONSTANTS c1, c2

Plain ==
  [name |-> "accepted", lang |-> "rust", sdk |-> "unset", ref |-> "unset",
   path |-> "unset", holds_target |-> FALSE, bare |-> FALSE]

MCArguments ==
  {Plain,
   [Plain EXCEPT !.sdk = "git", !.ref = "accepted"],
   [Plain EXCEPT !.lang = "zig", !.path = "sdk"],
   [Plain EXCEPT !.lang = "zig", !.path = "sdk", !.holds_target = TRUE],
   [Plain EXCEPT !.lang = "zig", !.path = "sdk", !.holds_target = TRUE, !.bare = TRUE],
   [Plain EXCEPT !.lang = "zig", !.sdk = "crates"]}

Interchangeable == Permutations(Commands)

=============================================================================
