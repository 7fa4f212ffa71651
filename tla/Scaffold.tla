------------------------------- MODULE Scaffold -------------------------------
(***************************************************************************)
(* cargo goaria-pack new (commands/new.rs, scaffold/): it writes a project *)
(* into one target directory, which must be absent or empty.  Commands for *)
(* the same directory may run at the same time or one after another, fail  *)
(* at any call of the file system, and be killed anywhere; the user of the *)
(* directory may put a file of his own in it, and take the SDK directory   *)
(* given as --sdk-path apart.                                              *)
(*                                                                         *)
(* A step of generate is one directory, or files written one by one: those *)
(* of the package (Cargo.toml or build.zig, manifest.json), the source     *)
(* file with the .gitignore after it, vendor/ and the skill.  A step that  *)
(* is not whole lacks some of its files, or has one that is truncated.     *)
(* An operator commented "Fault:" is the definition after it with a bug    *)
(* this code could have; no definition uses it.                            *)
(***************************************************************************)
EXTENDS Naturals, Sequences

CONSTANTS
  Commands,     \* the processes
  Arguments,    \* what they may be called with, of ArgumentsType
  User          \* who puts files in the directory besides them

\* path: what --sdk-path names; holds_target: the target is inside of it; bare:
\* the target is one name in the working directory, as it is without --path.
ArgumentsType ==
  [name: {"accepted", "refused", "reserved"}, lang: {"rust", "zig"},
   sdk: {"unset", "vendor", "git", "crates"}, ref: {"unset", "accepted", "refused"},
   path: {"unset", "sdk", "other"}, holds_target: BOOLEAN, bare: BOOLEAN]

ASSUME ScaffoldAssumption ==
  /\ Arguments \subseteq ArgumentsType
  /\ User \notin Commands

VARIABLES
  args,       \* of each command
  target,     \* what is at the target path: "absent", "file" or "directory"
  entries,    \* what the directory holds: name, who wrote it, is it whole
  sdk_whole,  \* the SDK directory still holds an SDK
  visited,    \* the user has put his file there
  pc,         \* of each command
  created,    \* created: the target was absent when the command looked
  next,       \* the step of generate each command is at
  before,     \* history: what was there when the command looked, while it works
  overlapped, \* history: commands that used the directory at the same time
  littered    \* history: commands whose remove_dir_all failed or was killed

vars == <<args, target, entries, sdk_whole, visited, pc, created, next, before,
          overlapped, littered>>

Entry(n, who, is_whole) == [name |-> n, by |-> who, whole |-> is_whole]

UserFile == Entry("notes", User, TRUE)

Init ==
  /\ args \in [Commands -> Arguments]
  /\ \/ target \in {"absent", "file"} /\ entries = {}
     \/ target = "directory" /\ entries \in SUBSET {UserFile}
  /\ sdk_whole = TRUE /\ visited = (entries # {})
  /\ pc = [c \in Commands |-> "resolve"]
  /\ created = [c \in Commands |-> FALSE]
  /\ next = [c \in Commands |-> 1]
  /\ before = [c \in Commands |-> {}]
  /\ overlapped = {} /\ littered = {}

Directory == UNCHANGED <<target, entries>>
Others == UNCHANGED <<args, sdk_whole, visited>>
History == UNCHANGED <<overlapped, littered>>

Ended == {"ok", "failed", "killed"}

At(c, from, to) ==
  /\ pc[c] = from /\ pc' = [pc EXCEPT ![c] = to]
  /\ before' = [before EXCEPT ![c] = IF from = "look" /\ to \notin Ended THEN entries
                                     ELSE IF to \in Ended THEN {} ELSE @]

-----------------------------------------------------------------------------
(* The arguments.                                                          *)

\* resolve_sdk_spec: where the SDK comes from.
Source(a) ==
  IF a.path # "unset" THEN "path" ELSE IF a.sdk = "unset" THEN "vendor" ELSE a.sdk

SpecRefused(a) ==
  \/ a.path # "unset" /\ (a.sdk # "unset" \/ a.ref # "unset")
  \/ a.path = "other" \/ (a.path = "sdk" /\ ~sdk_whole)
  \/ a.path = "unset" /\ a.ref # "unset" /\ Source(a) # "git"
  \/ a.ref = "refused"
  \/ a.lang = "zig" /\ Source(a) \in {"git", "crates"}

\* validate_pack_name, and the names of the vendored crates.
NameRefused(a) == a.name = "refused" \/ (a.name = "reserved" /\ a.lang = "rust")

\* Nothing is touched before the arguments are accepted.
Resolve(c) ==
  /\ At(c, "resolve", IF SpecRefused(args[c]) \/ NameRefused(args[c]) THEN "failed"
                      ELSE "look")
  /\ Directory /\ Others /\ History
  /\ UNCHANGED <<created, next>>

-----------------------------------------------------------------------------
(* scaffold_project: the target directory.                                 *)

\* Between exists() and its last access of the directory.
Working(c) == pc[c] \in {"create", "list", "write", "cleanup"}

\* target_dir.exists() and is_dir()
Look(c) ==
  /\ At(c, "look", CASE target = "absent" -> "create"
                     [] target = "file" -> "failed"
                     [] target = "directory" -> "list")
  /\ created' = [created EXCEPT ![c] = target = "absent"]
  /\ LET others == {d \in Commands \ {c} : Working(d)}
     IN  overlapped' = IF others = {} \/ target = "file" THEN overlapped
                       ELSE overlapped \cup others \cup {c}
  /\ Directory /\ Others
  /\ UNCHANGED <<next, littered>>

\* create_dir_all: a directory made in the meantime is as good as its own.
Create(c, fails) ==
  /\ IF fails \/ target = "file"
       THEN At(c, "create", "failed") /\ UNCHANGED target
       ELSE At(c, "create", "write") /\ target' = "directory"
  /\ Others /\ History
  /\ UNCHANGED <<entries, created, next>>

\* Fault: a directory that is not empty is not refused.
ListRefusedNever(fails) == fails \/ target # "directory"

\* read_dir fails, or returns an entry.
ListRefused(fails) == fails \/ target # "directory" \/ entries # {}

List(c, fails) ==
  /\ At(c, "list", IF ListRefused(fails) THEN "failed" ELSE "write")
  /\ Directory /\ Others /\ History
  /\ UNCHANGED <<created, next>>

-----------------------------------------------------------------------------
(* generate: what is written, in which order.                              *)

\* A directory or a tree is made with create_dir_all, its parents included;
\* a file needs its directory, that of src/ or the root.
Dir(n)         == [name |-> n, kind |-> "directory", inside |-> "."]
File(n)        == [name |-> n, kind |-> "file", inside |-> "."]
SourceFile(n)  == [name |-> n, kind |-> "file", inside |-> "src"]
Tree(n)        == [name |-> n, kind |-> "tree", inside |-> "."]

Skill == Tree(".agents")

RustSteps(a) ==
  IF Source(a) = "vendor"
    THEN <<Dir("src"), File("package"), SourceFile("lib.rs"), Tree("vendor"), Skill>>
    ELSE <<Dir("src"), File("package"), SourceFile("lib.rs"), Skill>>

\* Fault: the SDK is copied after other things were written.
ZigStepsLate ==
  <<Dir("src"), File("package"), Tree("vendor"), SourceFile("main.zig"), Skill>>

ZigSteps ==
  <<Tree("vendor"), Dir("src"), File("package"), SourceFile("main.zig"), Skill>>

Steps(a) == IF a.lang = "rust" THEN RustSteps(a) ELSE ZigSteps

Step(c) == Steps(args[c])[next[c]]

CopiesIntoItself(a) == a.lang = "zig" /\ Source(a) = "path" /\ a.holds_target

\* canonical_loose makes no absolute path of a bare name that is not there.
Recognised(c) == ~(args[c].bare /\ target = "absent")

\* write_zig_sdk: only these can be vendored, and copy_dir_recursive copies no
\* SDK directory into itself that it recognises.  What it does not recognise it
\* copies, as far as it gets: deeper down it looks again.
StepRefused(c) ==
  /\ args[c].lang = "zig" /\ Step(c).name = "vendor"
  /\ \/ Source(args[c]) \in {"git", "crates"}
     \/ CopiesIntoItself(args[c]) /\ Recognised(c)

Reachable(step) ==
  IF step.kind = "file"
    THEN /\ target = "directory"
         /\ step.inside = "src" => \E e \in entries : e.name = "src"
    ELSE target # "file"

\* fs::write truncates a file that is there, create_dir_all keeps a directory.
EntriesWith(c, step, is_whole) ==
  IF step.kind = "directory" /\ (\E e \in entries : e.name = step.name) THEN entries
  ELSE {e \in entries : e.name # step.name} \cup {Entry(step.name, c, is_whole)}

\* A copy takes what the SDK directory holds by now.
CopyWhole(c) == Source(args[c]) = "path" /\ Step(c).name = "vendor" => sdk_whole

WriteStep(c) ==
  /\ At(c, "write", IF next[c] = Len(Steps(args[c])) THEN "ok" ELSE "write")
  /\ ~StepRefused(c) /\ Reachable(Step(c))
  /\ next' = [next EXCEPT ![c] = @ + 1]
  /\ target' = "directory"
  /\ entries' = EntriesWith(c, Step(c), CopyWhole(c))
  /\ Others /\ History
  /\ UNCHANGED created

\* Fault: the cleanup does not depend on who created the directory.
AfterFailureAlways(c) == "cleanup"

AfterFailure(c) == IF created[c] THEN "cleanup" ELSE "failed"

\* What a write that does not complete leaves: nothing, or a truncated file.
Interrupted(c) ==
  \/ Directory
  \/ /\ ~StepRefused(c) /\ Reachable(Step(c))
     /\ target' = "directory"
     /\ entries' = EntriesWith(c, Step(c), FALSE)

WriteFails(c) ==
  /\ At(c, "write", AfterFailure(c))
  /\ Interrupted(c)
  /\ Others /\ History
  /\ UNCHANGED <<created, next>>

-----------------------------------------------------------------------------
(* remove_dir_all, whose result is ignored.                                *)

RemoveEntry(c, e) ==
  /\ pc[c] = "cleanup" /\ e \in entries
  /\ e.name = "src" => \A f \in entries : f.name \notin {"lib.rs", "main.zig"}
  /\ entries' = entries \ {e}
  /\ Others /\ History
  /\ UNCHANGED <<target, pc, created, next, before>>

RemoveDirectory(c) ==
  /\ At(c, "cleanup", "failed")
  /\ target = "directory" /\ entries = {}
  /\ target' = "absent"
  /\ Others /\ History
  /\ UNCHANGED <<entries, created, next>>

RemoveFails(c) ==
  /\ At(c, "cleanup", "failed")
  /\ littered' = IF target = "absent" THEN littered ELSE littered \cup {c}
  /\ Directory /\ Others
  /\ UNCHANGED <<created, next, overlapped>>

-----------------------------------------------------------------------------
(* What happens around the commands.                                       *)

Killed(c) ==
  /\ pc[c] \notin Ended /\ At(c, pc[c], "killed")
  /\ IF pc[c] = "write" THEN Interrupted(c) ELSE Directory
  /\ Others /\ History
  /\ UNCHANGED <<created, next>>

UserWrites ==
  /\ target = "directory" /\ ~visited
  /\ entries' = entries \cup {UserFile} /\ visited' = TRUE
  /\ UNCHANGED <<args, target, sdk_whole, pc, created, next, before, overlapped, littered>>

SdkTakenApart ==
  /\ sdk_whole /\ sdk_whole' = FALSE /\ \E c \in Commands : args[c].path = "sdk"
  /\ UNCHANGED <<args, target, entries, visited, pc, created, next, before, overlapped,
                 littered>>

Acts(c) ==
  \/ Resolve(c) \/ Look(c)
  \/ \E fails \in BOOLEAN : Create(c, fails) \/ List(c, fails)
  \/ WriteStep(c) \/ WriteFails(c)
  \/ \E e \in entries : RemoveEntry(c, e)
  \/ RemoveDirectory(c) \/ RemoveFails(c)

Next ==
  \/ \E c \in Commands : Acts(c) \/ Killed(c)
  \/ UserWrites \/ SdkTakenApart

Spec == Init /\ [][Next]_vars

-----------------------------------------------------------------------------
(* Properties.                                                             *)

Names ==
  {"notes", "src", "package", "lib.rs", "main.zig", "vendor", ".agents"}

EntryType == [name: Names, by: Commands \cup {User}, whole: BOOLEAN]

\* Every variable holds a value of the type its Rust counterpart has, and an
\* absent directory holds nothing.
TypeOK ==
  /\ args \in [Commands -> Arguments]
  /\ target \in {"absent", "file", "directory"}
  /\ entries \subseteq EntryType
  /\ entries # {} => target = "directory"
  /\ sdk_whole \in BOOLEAN /\ visited \in BOOLEAN
  /\ pc \in [Commands -> {"resolve", "look", "create", "list", "write", "cleanup",
                          "ok", "failed", "killed"}]
  /\ created \in [Commands -> BOOLEAN]
  /\ next \in [Commands -> Nat \ {0}]
  /\ before \in [Commands -> SUBSET EntryType]
  /\ overlapped \subseteq Commands /\ littered \subseteq Commands

\* Whatever commands race, fail or are killed, an entry only ever disappears
\* or is overwritten while a command works that looked at the directory before
\* the entry was there, and the directory itself only disappears while one
\* works that found none: no command harms what it could have found.
OlderEntriesKept ==
  /\ \A e \in entries \ entries' : \E c \in Commands : Working(c) /\ e \notin before[c]
  /\ target = "directory" /\ target' # "directory" =>
       \E c \in Commands : Working(c) /\ created[c]

OlderEntriesLast == [][OlderEntriesKept]_vars

IsWhole(c) ==
  \A i \in 1 .. Len(Steps(args[c])) :
    \E e \in entries :
      /\ e.name = Steps(args[c])[i].name /\ e.by = c
      /\ e.whole \/ (Source(args[c]) = "path" /\ ~sdk_whole)

\* A command that reported success, and shared the directory with no other
\* while it worked, leaves a complete project, which commands that come later
\* never damage; only an SDK directory taken apart under it shows in the copy.
SuccessIsWhole ==
  \A c \in Commands \ overlapped : pc[c] = "ok" => IsWhole(c)

\* Whatever other commands do, a command that failed leaves nothing of its own
\* in the directory, unless it found the directory there or its cleanup failed
\* too.  One that was to copy the SDK into itself leaves nothing even then,
\* unless its target is a bare name that another took away at the same time.
FailureLeavesNothing ==
  \A c \in Commands \ littered : \A e \in entries :
    pc[c] = "failed" /\ e.by = c =>
      /\ ~created[c]
      /\ CopiesIntoItself(args[c]) => args[c].bare /\ c \in overlapped

\* Files of two commands only ever meet in the directory when the commands
\* ran at the same time: what one left behind, complete or not, is never
\* completed by the next.
NoMixedProjects ==
  \A e, f \in entries :
    {e.by, f.by} \subseteq Commands /\ e.by # f.by => {e.by, f.by} \subseteq overlapped

=============================================================================
