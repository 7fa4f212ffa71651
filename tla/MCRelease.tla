------------------------------ MODULE MCRelease ------------------------------
(***************************************************************************)
(* Small instances of Release.  The project is what the scaffold writes: a *)
(* Rust package or a Zig project with a hyphen in its name, whose binary   *)
(* has an underscore there, or is called payload.  A target directory may  *)
(* be configured for Rust, the manifest of Zig may lack a pack_id, and the *)
(* package may be renamed.                                                 *)
(***************************************************************************)
EXTENDS Release, TLC

CONSTANTS p1, hyphen, underscore, payload, other

MCNames == {hyphen, underscore, payload, other}
MCUnderscored == [n \in MCNames |-> IF n = hyphen THEN underscore ELSE n]

Rust ==
  [kind |-> "Rust", configured |-> FALSE, pack_id |-> hyphen, package |-> hyphen,
   dir_name |-> hyphen, output |-> "target", artifact |-> underscore]

NamelessZig ==
  [Rust EXCEPT !.kind = "Zig", !.pack_id = NoName, !.package = NoName,
               !.dir_name = other, !.output = "zig-out", !.artifact = payload]

Configured == [Rust EXCEPT !.configured = TRUE, !.output = "configured"]
Renamed == [Rust EXCEPT !.package = other, !.artifact = other]

MCConfiguredLayouts == [p \in Projects |-> {Rust, Configured, NamelessZig}]
MCRenamedLayouts == [p \in Projects |-> {Rust, Renamed}]

\* The assumption under which a pack is proved to find what it compiled.
ASSUME MCLayoutAssumption ==
  FoundFirst <=> \A p \in Projects : Renamed \notin Layouts[p]

\* The first code and the second version of the manifest do not go together.
MCCompatible == ((0 .. MaxCode) \X (0 .. MaxCode)) \ {<<0, 1>>}

MCSymmetry == Permutations(Commands)

=============================================================================
