--------------------------------- MODULE Build ---------------------------------
(***************************************************************************)
(* The pack projects on disk and the wasm binaries compiled from them:     *)
(* commands/build.rs.  The compiler puts a binary where its own rules say; *)
(* the tool then looks for one under names and in directories of its own,  *)
(* and takes the first that exists.  Nothing removes old binaries.         *)
(*                                                                         *)
(* A project's layout is everything these rules read; its code is a number *)
(* that grows with every edit, and stands for the binary compiled from it. *)
(*                                                                         *)
(* An operator commented "Fault:" is the definition after it with a bug    *)
(* this code could have; no definition uses it.                            *)
(***************************************************************************)
EXTENDS Naturals, Sequences

CONSTANTS
  Projects,
  Names,        \* of packs, packages, directories and binaries
  NoName,       \* a name the project does not have
  Underscored,  \* name.replace('-', '_')
  Payload,      \* the name "payload"
  Layouts,      \* the layouts each project may have
  MaxCode       \* bound: edits considered

RustDirs == {"configured", "target", "../target", "../../target"}
ZigDirs == {"zig-out", "../zig-out", "../../zig-out"}

\* configured: CARGO_TARGET_DIR is set; output and artifact: the directory and
\* the name the compiler gives its binary.
LayoutType ==
  [kind: {"Rust", "Zig"}, configured: BOOLEAN,
   pack_id: Names \cup {NoName}, package: Names \cup {NoName}, dir_name: Names,
   output: RustDirs \cup ZigDirs, artifact: Names]

ASSUME BuildAssumption ==
  /\ Underscored \in [Names -> Names] /\ Payload \in Names /\ NoName \notin Names
  /\ Layouts \in [Projects -> SUBSET LayoutType]
  /\ MaxCode \in Nat

VARIABLES
  project, \* the layout, the code and the manifest version of each project
  targets  \* the binaries around each project: what each [dir, name] holds

Places == [dir: RustDirs \cup ZigDirs, name: Names]

ProjectType == [layout: LayoutType, code: 0 .. MaxCode, version: 0 .. MaxCode]

BuildInit ==
  /\ project \in [Projects -> ProjectType]
  /\ \A p \in Projects :
       /\ project[p].layout \in Layouts[p]
       /\ project[p].code = 0 /\ project[p].version = 0
  /\ targets = [p \in Projects |-> << >>]

\* The author edits the project, with a new manifest version or without.
Edit(p, layout, version) ==
  /\ layout \in Layouts[p]
  /\ project[p].code < MaxCode
  /\ version \in {project[p].version, project[p].version + 1}
  /\ project' = [project EXCEPT ![p] = [layout |-> layout, code |-> @.code + 1,
                                        version |-> version]]
  /\ UNCHANGED targets

-----------------------------------------------------------------------------
(* Where a binary is looked for.                                           *)

BothForms(name) ==
  IF name = NoName THEN << >> ELSE <<Underscored[name], name>>

\* get_project_candidate_names; only Zig projects try "payload" as well.
CandidateNames(layout) ==
  BothForms(layout.pack_id) \o BothForms(layout.package) \o BothForms(layout.dir_name)
    \o (IF layout.kind = "Zig" THEN <<Payload>> ELSE << >>)

SearchDirs(layout) ==
  IF layout.kind = "Zig" THEN <<"zig-out", "../zig-out", "../../zig-out">>
  ELSE (IF layout.configured THEN <<"configured">> ELSE << >>)
         \o <<"target", "../target", "../../target">>

PlaceOf(layout, h) ==
  [dir |-> SearchDirs(layout)[h[1]], name |-> CandidateNames(layout)[h[2]]]

Searched(layout) == (DOMAIN SearchDirs(layout)) \X (DOMAIN CandidateNames(layout))

\* Where the search meets a binary: which directory, which name in it.
Hits(layout, binaries) ==
  {h \in Searched(layout) : PlaceOf(layout, h) \in DOMAIN binaries}

Before(h, k) == h[1] < k[1] \/ (h[1] = k[1] /\ h[2] <= k[2])

\* Fault: the search goes on after a binary, and ends with the last one.
FoundLast(layout, binaries) ==
  LET hits == Hits(layout, binaries)
  IN  PlaceOf(layout, CHOOSE h \in hits : \A k \in hits : Before(k, h))

\* find_rust_wasm_binary and find_zig_wasm_binary: directory by directory, in
\* each name by name.
Found(layout, binaries) ==
  LET hits == Hits(layout, binaries)
  IN  PlaceOf(layout, CHOOSE h \in hits : \A k \in hits : Before(h, k))

WasmNotFound(layout, binaries) == Hits(layout, binaries) = {}

\* Where the compiler puts the binary.
OutputPlace(layout) == [dir |-> layout.output, name |-> layout.artifact]

\* A successful run of the compiler.
Compiled(p) ==
  LET new == OutputPlace(project[p].layout)
  IN  [place \in DOMAIN targets[p] \cup {new} |->
         IF place = new THEN project[p].code ELSE targets[p][place]]

\* No layout of a project looks at the output of another one before its own.
FoundFirst ==
  \A p \in Projects : \A layout \in Layouts[p] :
    \E h \in Searched(layout) :
      /\ PlaceOf(layout, h) = OutputPlace(layout)
      /\ \A k \in Searched(layout), other \in Layouts[p] :
           PlaceOf(layout, k) = OutputPlace(other) => Before(h, k)

=============================================================================
