--------------------------------- MODULE Keygen ---------------------------------
(***************************************************************************)
(* keygen (commands/keygen.rs), run by several processes on the same       *)
(* paths.  A run makes a key, puts its seed into a file that must not      *)
(* exist, and then, if asked to, the public key into another.  It may be   *)
(* killed or fail at any step, and nothing cleans up behind it.            *)
(*                                                                         *)
(* A key is the run that made it.  A file holds [kind, key], or is Partial *)
(* until it has been written and synced.                                   *)
(*                                                                         *)
(* An operator commented "Fault:" is the definition after it with a bug    *)
(* this code could have; no definition uses it.                            *)
(***************************************************************************)
EXTENDS Naturals

CONSTANTS
  Commands, \* the runs of keygen
  Paths,    \* spellings of output paths
  Resolved, \* the file each of them leads to, or NoParent
  Files,
  NoParent, \* the directory of the path does not exist
  NoPath,   \* the option is not given
  Partial

ASSUME KeygenAssumption ==
  /\ Resolved \in [Paths -> Files \cup {NoParent}]
  /\ NoParent \notin Files /\ NoPath \notin Paths
  /\ Partial \notin [kind : {"seed", "public"}, key : Commands]

VARIABLES
  disk, \* what each existing file holds
  run   \* what each command was asked for, and how far it got

vars == <<disk, run>>

Contents == [kind : {"seed", "public"}, key : Commands]

Steps == {"none", "create_seed", "write_seed", "create_public", "write_public",
          "ok", "failed"}

RunType == [pc : Steps, seed : Paths \cup {NoPath}, public : Paths \cup {NoPath}]

Init ==
  /\ disk = << >>
  /\ run = [c \in Commands |-> [pc |-> "none", seed |-> NoPath, public |-> NoPath]]

At(c, step) == run[c].pc = step
GoTo(c, step) == run' = [run EXCEPT ![c].pc = step]

-----------------------------------------------------------------------------

\* No seed path, a path that does not resolve, or twice the same one.
Refused(seed, public) ==
  \/ seed = NoPath
  \/ /\ public # NoPath
     /\ \/ NoParent \in {Resolved[seed], Resolved[public]}
        \/ Resolved[seed] = Resolved[public]

Start(c, seed, public) ==
  /\ At(c, "none")
  /\ run' = [run EXCEPT ![c] =
               [pc |-> IF Refused(seed, public) THEN "failed" ELSE "create_seed",
                seed |-> seed, public |-> public]]
  /\ UNCHANGED disk

\* Fault: the file is opened whether it exists or not.
OpensAny(path) == Resolved[path] # NoParent

\* create_new(true).
Opens(path) == Resolved[path] # NoParent /\ Resolved[path] \notin DOMAIN disk

DiskWith(path, content) ==
  [f \in DOMAIN disk \cup {Resolved[path]} |->
     IF f = Resolved[path] THEN content ELSE disk[f]]

Create(c, path, next) ==
  IF Opens(path)
    THEN disk' = DiskWith(path, Partial) /\ GoTo(c, next)
    ELSE UNCHANGED disk /\ GoTo(c, "failed")

CreateSeed(c) == At(c, "create_seed") /\ Create(c, run[c].seed, "write_seed")

\* Fault: the public key is written without waiting for the seed.
WriteSeedLater(c) ==
  /\ At(c, "write_seed") /\ run[c].public # NoPath
  /\ UNCHANGED disk
  /\ GoTo(c, "create_public")

WriteSeed(c) ==
  /\ At(c, "write_seed")
  /\ disk' = DiskWith(run[c].seed, [kind |-> "seed", key |-> c])
  /\ GoTo(c, IF run[c].public = NoPath THEN "ok" ELSE "create_public")

CreatePublic(c) == At(c, "create_public") /\ Create(c, run[c].public, "write_public")

WritePublic(c) ==
  /\ At(c, "write_public")
  /\ disk' = DiskWith(run[c].public, [kind |-> "public", key |-> c])
  /\ GoTo(c, "ok")

\* The command is killed, or a write or a sync fails.
Stops(c) ==
  /\ run[c].pc \notin {"none", "ok", "failed"}
  /\ GoTo(c, "failed")
  /\ UNCHANGED disk

Next ==
  \E c \in Commands :
    \/ \E seed, public \in Paths \cup {NoPath} : Start(c, seed, public)
    \/ CreateSeed(c) \/ WriteSeed(c)
    \/ CreatePublic(c) \/ WritePublic(c)
    \/ Stops(c)

Spec == Init /\ [][Next]_vars

-----------------------------------------------------------------------------

Holds(path, kind, key) ==
  /\ Resolved[path] \in DOMAIN disk
  /\ disk[Resolved[path]] = [kind |-> kind, key |-> key]

\* Files hold a key or are partial, and a command that turns to the public key
\* has put the seed on disk.
TypeOK ==
  /\ run \in [Commands -> RunType]
  /\ DOMAIN disk \subseteq Files
  /\ \A f \in DOMAIN disk : disk[f] \in Contents \cup {Partial}
  /\ \A c \in Commands : At(c, "create_public") => Holds(run[c].seed, "seed", c)

\* A success means that both files hold the halves of the same new key, then
\* and from then on, whatever other runs do with the same paths.
SuccessLasts ==
  \A c \in Commands :
    At(c, "ok") =>
      /\ Holds(run[c].seed, "seed", c)
      /\ run[c].public = NoPath \/ Holds(run[c].public, "public", c)

\* There is no public key on disk without the seed that signs for it, wherever
\* its run or another one was stopped.
PublicHasSeed ==
  \A f \in DOMAIN disk :
    disk[f] # Partial /\ disk[f].kind = "public" =>
      \E g \in DOMAIN disk : disk[g] = [kind |-> "seed", key |-> disk[f].key]

Kept == \A f \in DOMAIN disk : disk[f] # Partial => f \in DOMAIN disk' /\ disk'[f] = disk[f]

\* keygen never overwrites: no run changes a key, not even when an earlier run
\* failed between its two files and is started again with the same paths.
NothingOverwritten == [][Kept]_vars

=============================================================================
