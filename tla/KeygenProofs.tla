------------------------------ MODULE KeygenProofs ------------------------------
(***************************************************************************)
(* keygen never overwrites a key, and a key it reports is on disk and      *)
(* stays there: for any number of runs, on any paths, stopped anywhere.    *)
(*                                                                         *)
(* The argument: a file being written is the writer's alone, because only  *)
(* the run that created it writes it (OwnersOK), and it is partial until   *)
(* then; so no write can meet a file that holds a key already.             *)
(***************************************************************************)
EXTENDS Keygen, TLAPS

Writing(c) == run[c].pc \in {"write_seed", "write_public"}

Target(c) == Resolved[IF At(c, "write_seed") THEN run[c].seed ELSE run[c].public]

\* A file being written is partial, and nobody else writes it.
OwnersOK ==
  \A c \in Commands :
    Writing(c) =>
      /\ Target(c) \in DOMAIN disk /\ disk[Target(c)] = Partial
      /\ \A d \in Commands \ {c} : Writing(d) => Target(d) # Target(c)

\* What a run has written so far is there.
WrittenOK ==
  \A c \in Commands :
    /\ run[c].pc \in {"create_public", "write_public", "ok"}
         => Holds(run[c].seed, "seed", c)
    /\ At(c, "ok") => run[c].public = NoPath \/ Holds(run[c].public, "public", c)

\* Every public key on disk is one of a run that wrote its seed.
PublicsOK ==
  \A f \in DOMAIN disk :
    disk[f] \in Contents /\ disk[f].kind = "public" => At(disk[f].key, "ok")

ContentsOK == \A f \in DOMAIN disk : disk[f] \in Contents \cup {Partial}

\* A run opens only the paths it was given, in directories that exist.
PathsOK ==
  /\ DOMAIN disk \subseteq Files
  /\ \A c \in Commands :
       /\ run[c].pc \in {"create_seed", "write_seed"} => run[c].seed # NoPath
       /\ run[c].pc \in {"create_public", "write_public"} => run[c].public # NoPath

KInv ==
  /\ run \in [Commands -> RunType] /\ PathsOK
  /\ ContentsOK /\ OwnersOK /\ WrittenOK /\ PublicsOK

-----------------------------------------------------------------------------

\* A content is never what a file holds before it is written.
LEMMA SeedOrPublic ==
  ASSUME NEW c \in Commands, NEW kind \in {"seed", "public"}
  PROVE  LET content == [kind |-> kind, key |-> c]
         IN  content \in Contents /\ content # Partial
BY KeygenAssumption DEF Contents

\* Creating a file that did not exist takes nothing from anybody.
LEMMA CreateOK ==
  ASSUME KInv, NEW c \in Commands, NEW path, NEW step,
         \/ step = "write_seed" /\ path = run[c].seed /\ At(c, "create_seed")
         \/ step = "write_public" /\ path = run[c].public /\ At(c, "create_public"),
         Create(c, path, step)
  PROVE  KInv' /\ Kept
<1> DEFINE file == Resolved[path]
<1>1. CASE Opens(path)
  <2>1. /\ file \notin DOMAIN disk
        /\ disk' = DiskWith(path, Partial)
        /\ run' = [run EXCEPT ![c].pc = step]
    BY <1>1 DEF Create, Opens, GoTo
  <2>2. /\ DOMAIN disk' = DOMAIN disk \cup {file}
        /\ disk'[file] = Partial
        /\ \A f \in DOMAIN disk : disk'[f] = disk[f]
    BY <2>1 DEF DiskWith
  <2>3. /\ run' \in [Commands -> RunType]
        /\ \A d \in Commands : run'[d].seed = run[d].seed /\ run'[d].public = run[d].public
        /\ \A d \in Commands \ {c} : run'[d] = run[d]
        /\ run'[c].pc = step
    BY <2>1 DEF KInv, RunType, Steps
  <2>4. Kept
    BY <2>2 DEF Kept
  <2>5. ContentsOK'
    BY <2>2 DEF KInv, ContentsOK
  <2>6. Target(c)' = file /\ Writing(c)'
    BY <2>3 DEF Target, At, Writing
  <2>7. \A d \in Commands \ {c} : Target(d)' = Target(d) /\ Writing(d)' = Writing(d)
    BY <2>3 DEF Target, At, Writing
  <2>8. OwnersOK'
    BY <2>1, <2>2, <2>6, <2>7 DEF KInv, OwnersOK
  <2>9. WrittenOK'
    <3>1. ASSUME NEW p, NEW kind, NEW key, Holds(p, kind, key)
          PROVE  Holds(p, kind, key)'
      BY <2>2, <3>1 DEF Holds
    <3>2. ASSUME NEW d \in Commands,
                 run'[d].pc \in {"create_public", "write_public", "ok"}
          PROVE  Holds(run[d].seed, "seed", d)
      BY <2>3, <3>2 DEF KInv, WrittenOK, At
    <3>3. ASSUME NEW d \in Commands, run'[d].pc = "ok"
          PROVE  run[d].public = NoPath \/ Holds(run[d].public, "public", d)
      BY <2>3, <3>3 DEF KInv, WrittenOK, At
    <3>4. \A d \in Commands : run'[d].seed = run[d].seed /\ run'[d].public = run[d].public
      BY <2>3
    <3> QED
      BY <3>1, <3>2, <3>3, <3>4 DEF WrittenOK, At
  <2>10. PublicsOK'
    BY <2>2, <2>3, KeygenAssumption DEF KInv, PublicsOK, At, Contents
  <2>11. PathsOK'
    <3>1. path \in Paths
      BY DEF KInv, PathsOK, RunType, At
    <3>2. file \in Files
      BY <1>1, <3>1, KeygenAssumption DEF Opens
    <3> QED
      BY <2>2, <2>3, <3>2 DEF KInv, PathsOK, At
  <2> QED
    BY <2>3, <2>4, <2>5, <2>8, <2>9, <2>10, <2>11 DEF KInv
<1>2. CASE ~Opens(path)
  <2>1. disk' = disk /\ run' = [run EXCEPT ![c].pc = "failed"]
    BY <1>2 DEF Create, GoTo
  <2>2. /\ run' \in [Commands -> RunType]
        /\ \A d \in Commands \ {c} : run'[d] = run[d]
        /\ run'[c].pc = "failed"
    BY <2>1 DEF KInv, RunType, Steps
  <2>3. ContentsOK' /\ Kept
    BY <2>1 DEF KInv, ContentsOK, Kept
  <2>4. OwnersOK'
    BY <2>1, <2>2 DEF KInv, OwnersOK, Target, At, Writing
  <2>5. WrittenOK'
    BY <2>1, <2>2 DEF KInv, WrittenOK, Holds, At
  <2>6. PublicsOK'
    BY <2>1, <2>2 DEF KInv, PublicsOK, At, Contents
  <2>7. PathsOK'
    BY <2>1, <2>2 DEF KInv, PathsOK
  <2> QED
    BY <2>2, <2>3, <2>4, <2>5, <2>6, <2>7 DEF KInv
<1> QED
  BY <1>1, <1>2

\* Writing fills the writer's own file, which nobody else relies on.
LEMMA WriteOK ==
  ASSUME KInv, NEW c \in Commands, NEW path, NEW kind, NEW step,
         \/ /\ kind = "seed" /\ path = run[c].seed /\ At(c, "write_seed")
            /\ step = IF run[c].public = NoPath THEN "ok" ELSE "create_public"
         \/ /\ kind = "public" /\ path = run[c].public /\ At(c, "write_public")
            /\ step = "ok",
         disk' = DiskWith(path, [kind |-> kind, key |-> c]),
         GoTo(c, step)
  PROVE  KInv' /\ Kept
<1> DEFINE file == Resolved[path]
           content == [kind |-> kind, key |-> c]
<1>1. content \in Contents /\ content # Partial
  BY SeedOrPublic
<1>2. Writing(c) /\ Target(c) = file
  BY DEF Writing, Target, At
<1>3. file \in DOMAIN disk /\ disk[file] = Partial
  BY <1>2 DEF KInv, OwnersOK
<1>4. /\ DOMAIN disk' = DOMAIN disk /\ disk'[file] = content
      /\ \A f \in DOMAIN disk : f # file => disk'[f] = disk[f]
  BY <1>3 DEF DiskWith
<1>5. /\ run' \in [Commands -> RunType]
      /\ \A d \in Commands : run'[d].seed = run[d].seed /\ run'[d].public = run[d].public
      /\ \A d \in Commands \ {c} : run'[d] = run[d]
      /\ run'[c].pc = step
  BY DEF KInv, RunType, Steps, GoTo
<1>6. step \in {"ok", "create_public"}
  OBVIOUS
<1>7. Kept
  BY <1>3, <1>4 DEF Kept
<1>8. ContentsOK'
  BY <1>1, <1>4 DEF KInv, ContentsOK, Contents
<1>9. OwnersOK'
  <2>1. ~Writing(c)'
    BY <1>5, <1>6 DEF Writing
  <2>2. \A d \in Commands \ {c} : Target(d)' = Target(d) /\ Writing(d)' = Writing(d)
    BY <1>5 DEF Target, At, Writing
  <2>3. \A d \in Commands \ {c} : Writing(d) => Target(d) # file
    BY <1>2 DEF KInv, OwnersOK
  <2> QED
    BY <1>4, <2>1, <2>2, <2>3 DEF KInv, OwnersOK
<1>10. WrittenOK'
  <2>1. ASSUME NEW p, NEW k \in {"seed", "public"}, NEW d \in Commands, Holds(p, k, d)
        PROVE  Holds(p, k, d)'
    <3>1. disk[Resolved[p]] # Partial
      BY <2>1, SeedOrPublic DEF Holds
    <3> QED
      BY <1>3, <1>4, <2>1, <3>1 DEF Holds
  <2>2. Holds(path, kind, c)'
    BY <1>3, <1>4 DEF Holds
  <2>3. ASSUME NEW d \in Commands,
               run'[d].pc \in {"create_public", "write_public", "ok"}
        PROVE  Holds(run[d].seed, "seed", d)'
    <3>1. run'[d].seed = run[d].seed
      BY <1>5
    <3>2. CASE d = c /\ kind = "seed"
      <4>1. path = run[c].seed
        BY <3>2
      <4> QED
        BY <2>2, <3>1, <3>2, <4>1 DEF Holds
    <3>3. CASE d = c /\ kind = "public"
      <4>1. Holds(run[c].seed, "seed", c)
        BY <3>3 DEF KInv, WrittenOK, At
      <4> QED
        BY <2>1, <3>1, <3>3, <4>1 DEF Holds
    <3>4. CASE d # c
      <4>1. Holds(run[d].seed, "seed", d)
        BY <1>5, <2>3, <3>4 DEF KInv, WrittenOK
      <4> QED
        BY <2>1, <3>1, <4>1 DEF Holds
    <3> QED
      BY <3>2, <3>3, <3>4
  <2>4. ASSUME NEW d \in Commands, run'[d].pc = "ok"
        PROVE  run[d].public = NoPath \/ Holds(run[d].public, "public", d)'
    <3>1. CASE d = c
      BY <1>5, <2>2, <2>4, <3>1
    <3>2. CASE d # c
      BY <1>5, <2>1, <2>4, <3>2 DEF KInv, WrittenOK, At
    <3> QED
      BY <3>1, <3>2
  <2>5. \A d \in Commands : run'[d].seed = run[d].seed /\ run'[d].public = run[d].public
    BY <1>5
  <2> QED
    BY <2>3, <2>4, <2>5 DEF WrittenOK, At
<1>11. PublicsOK'
  <2> SUFFICES ASSUME NEW f \in DOMAIN disk', disk'[f] \in Contents,
                      disk'[f].kind = "public"
               PROVE  run'[disk'[f].key].pc = "ok"
    BY DEF PublicsOK, At
  <2>1. CASE f = file
    <3>1. kind = "public" /\ disk'[f].key = c
      BY <1>4, <2>1
    <3>2. step = "ok"
      BY <3>1
    <3> QED
      BY <1>5, <3>1, <3>2
  <2>2. CASE f # file
    <3>1. disk'[f] = disk[f] /\ f \in DOMAIN disk
      BY <1>4, <2>2
    <3>2. At(disk[f].key, "ok") /\ disk[f].key \in Commands
      BY <3>1 DEF KInv, PublicsOK, Contents
    <3>3. disk[f].key # c
      BY <1>2, <3>2 DEF Writing, At
    <3> QED
      BY <1>5, <3>1, <3>2, <3>3 DEF At
  <2> QED
    BY <2>1, <2>2
<1>12. PathsOK'
  BY <1>4, <1>5 DEF KInv, PathsOK
<1> QED
  BY <1>5, <1>7, <1>8, <1>9, <1>10, <1>11, <1>12 DEF KInv

\* A step that leaves the disk alone and takes a run to its start or its end.
LEMMA QuietOK ==
  ASSUME KInv, NEW c \in Commands, run' \in [Commands -> RunType], UNCHANGED disk,
         \A d \in Commands \ {c} : run'[d] = run[d],
         run[c].pc # "ok", run'[c].pc \in {"create_seed", "failed"},
         run'[c].pc = "create_seed" => run'[c].seed # NoPath
  PROVE  KInv' /\ Kept
<1>1. ContentsOK' /\ Kept
  BY DEF KInv, ContentsOK, Kept
<1>2. OwnersOK'
  BY DEF KInv, OwnersOK, Target, At, Writing
<1>3. WrittenOK'
  BY DEF KInv, WrittenOK, Holds, At
<1>4. PublicsOK'
  BY DEF KInv, PublicsOK, At, Contents
<1>5. PathsOK'
  BY DEF KInv, PathsOK
<1> QED
  BY <1>1, <1>2, <1>3, <1>4, <1>5 DEF KInv

LEMMA InitOK == Init => KInv
<1> SUFFICES ASSUME Init PROVE KInv
  OBVIOUS
<1>1. disk = << >> /\ \A c \in Commands : run[c].pc = "none"
  BY DEF Init
<1>2. run \in [Commands -> RunType]
  BY DEF Init, RunType, Steps
<1> QED
  BY <1>1, <1>2 DEF KInv, PathsOK, ContentsOK, OwnersOK, WrittenOK, PublicsOK, Writing, At

LEMMA NextOK == KInv /\ [Next]_vars => KInv' /\ Kept
<1> SUFFICES ASSUME KInv, [Next]_vars PROVE KInv' /\ Kept
  OBVIOUS
<1>1. ASSUME NEW c \in Commands, NEW seed \in Paths \cup {NoPath},
             NEW public \in Paths \cup {NoPath}, Start(c, seed, public)
      PROVE  KInv' /\ Kept
  <2>1. /\ run' \in [Commands -> RunType] /\ UNCHANGED disk
        /\ \A d \in Commands \ {c} : run'[d] = run[d]
        /\ run[c].pc # "ok" /\ run'[c].pc \in {"create_seed", "failed"}
        /\ run'[c].pc = "create_seed" => run'[c].seed # NoPath
    BY <1>1 DEF KInv, Start, Refused, RunType, Steps, At
  <2> QED
    BY <2>1, QuietOK
<1>2. ASSUME NEW c \in Commands, CreateSeed(c) PROVE KInv' /\ Kept
  BY <1>2, CreateOK DEF CreateSeed
<1>3. ASSUME NEW c \in Commands, WriteSeed(c) PROVE KInv' /\ Kept
  BY <1>3, WriteOK DEF WriteSeed
<1>4. ASSUME NEW c \in Commands, CreatePublic(c) PROVE KInv' /\ Kept
  BY <1>4, CreateOK DEF CreatePublic
<1>5. ASSUME NEW c \in Commands, WritePublic(c) PROVE KInv' /\ Kept
  BY <1>5, WriteOK DEF WritePublic
<1>6. ASSUME NEW c \in Commands, Stops(c) PROVE KInv' /\ Kept
  <2>1. /\ run' \in [Commands -> RunType] /\ UNCHANGED disk
        /\ \A d \in Commands \ {c} : run'[d] = run[d]
        /\ run[c].pc # "ok" /\ run'[c].pc = "failed"
    BY <1>6 DEF KInv, Stops, GoTo, RunType, Steps
  <2> QED
    BY <2>1, QuietOK
<1>7. CASE UNCHANGED vars
  <2>1. run' = run /\ disk' = disk
    BY <1>7 DEF vars
  <2> QED
    BY <2>1 DEF KInv, PathsOK, ContentsOK, OwnersOK, WrittenOK, PublicsOK, Target, Writing, At,
       Holds, Kept
<1> QED
  BY <1>1, <1>2, <1>3, <1>4, <1>5, <1>6, <1>7 DEF Next

\* Every reachable state satisfies the invariant.
THEOREM KeygenInvariant == Spec => []KInv
BY InitOK, NextOK, PTL DEF Spec

\* Runs and files keep their types, and whoever turns to the public key has
\* put the seed on disk.
THEOREM TypeCorrect == Spec => []TypeOK
<1>1. KInv => TypeOK
  BY DEF KInv, PathsOK, ContentsOK, WrittenOK, TypeOK, At
<1> QED
  BY <1>1, KeygenInvariant, PTL

\* No run ever changes a file that holds a key.
THEOREM NeverOverwrites == Spec => NothingOverwritten
BY InitOK, NextOK, PTL DEF Spec, NothingOverwritten

\* The key files of a run that reported success are there for good.
THEOREM SuccessIsForGood == Spec => []SuccessLasts
<1>1. KInv => SuccessLasts
  BY DEF KInv, WrittenOK, SuccessLasts, At
<1> QED
  BY <1>1, KeygenInvariant, PTL

\* A public key on disk has its seed on disk.
THEOREM PublicsHaveSeeds == Spec => []PublicHasSeed
<1>1. KInv => PublicHasSeed
  <2> SUFFICES ASSUME KInv, NEW f \in DOMAIN disk, disk[f] # Partial,
                      disk[f].kind = "public"
               PROVE  \E g \in DOMAIN disk :
                        disk[g] = [kind |-> "seed", key |-> disk[f].key]
    BY DEF PublicHasSeed
  <2>1. disk[f].key \in Commands /\ At(disk[f].key, "ok")
    BY DEF KInv, ContentsOK, PublicsOK, Contents
  <2>2. Holds(run[disk[f].key].seed, "seed", disk[f].key)
    BY <2>1 DEF KInv, WrittenOK, At
  <2> QED
    BY <2>2 DEF Holds
<1> QED
  BY <1>1, KeygenInvariant, PTL

=============================================================================
