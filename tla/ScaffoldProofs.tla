---------------------------- MODULE ScaffoldProofs ----------------------------
(* Proofs about Scaffold: every property of the module, for any number of   *)
(* commands and any arguments.                                              *)
EXTENDS Scaffold, TLAPS

-----------------------------------------------------------------------------
(* The inductive invariant.                                                *)

NotYet == {"resolve", "look", "create", "list"}

StepCount(c) == Len(Steps(args[c]))

Writers ==
  \A c \in Commands :
    /\ pc[c] # "ok" => next[c] <= StepCount(c)
    /\ pc[c] \in NotYet => next[c] = 1

\* Two commands that work at the same time both know.
Overlap ==
  \A c, d \in Commands : c # d /\ Working(c) /\ Working(d) => {c, d} \subseteq overlapped

\* A step c has taken.
Took(c, n) == \E i \in 1 .. next[c] - 1 : Steps(args[c])[i].name = n

\* What can never be written again: a command writes a name once.
Spent(e) ==
  IF e.by = User THEN visited /\ e = UserFile
  ELSE pc[e.by] \notin NotYet /\ (pc[e.by] = "write" => Took(e.by, e.name))

AllSpent ==
  /\ \A e \in entries : Spent(e)
  /\ \A c \in Commands : \A e \in before[c] : Spent(e)

\* A command that may change the directory found nothing in it.
FoundNothing ==
  \A c \in Commands :
    /\ pc[c] \in {"create", "write", "cleanup"} => before[c] \cap entries = {}
    /\ pc[c] = "cleanup" => created[c]

\* What it meets there later is of a command it overlaps with.
Strangers ==
  \A c \in Commands : \A e \in entries :
    /\ pc[c] \in {"create", "write", "cleanup"}
    /\ e.by \in Commands /\ e.by # c
    => {c, e.by} \subseteq overlapped

\* The steps taken are there.
Present ==
  \A c \in Commands \ overlapped :
    /\ pc[c] = "ok" => next[c] = StepCount(c) + 1
    /\ pc[c] \in {"write", "ok"} =>
         \A i \in 1 .. next[c] - 1 : \E e \in entries :
           /\ e.name = Steps(args[c])[i].name /\ e.by = c
           /\ e.whole \/ (Source(args[c]) = "path" /\ ~sdk_whole)

\* Who comes after a success does not get past the list.
Latecomers ==
  \A c \in Commands \ overlapped : \A d \in Commands :
    pc[c] = "ok" /\ Working(d) => pc[d] = "list"

Clean ==
  \A c \in Commands : \A e \in entries :
    e.by = c /\ pc[c] = "failed" /\ created[c] => c \in littered

\* Only another command at work takes the directory away.
Standing ==
  \A c \in Commands \ overlapped : pc[c] = "write" => target = "directory"

\* A command begins to copy the SDK into itself only where nothing is left.
Selfless ==
  \A c \in Commands :
    /\ CopiesIntoItself(args[c])
    /\ next[c] > 1 \/ \E e \in entries : e.by = c
    => args[c].bare /\ c \in overlapped

IInv ==
  /\ TypeOK /\ Writers /\ Overlap /\ AllSpent /\ FoundNothing /\ Strangers
  /\ Present /\ Latecomers /\ Clean /\ Standing /\ Selfless /\ NoMixedProjects

-----------------------------------------------------------------------------
(* The steps of generate.                                                  *)

LEMMA StepsFacts ==
  ASSUME NEW a \in ArgumentsType
  PROVE  /\ Len(Steps(a)) \in Nat /\ Len(Steps(a)) >= 1
         /\ \A i \in 1 .. Len(Steps(a)) :
              /\ Steps(a)[i].name \in Names \ {"notes"}
              /\ Steps(a)[i].kind \in {"file", "directory", "tree"}
              /\ a.lang = "zig" /\ Steps(a)[i].name = "vendor" => i = 1
         /\ \A i, j \in 1 .. Len(Steps(a)) : Steps(a)[i].name = Steps(a)[j].name => i = j
  BY DEF ArgumentsType, Steps, RustSteps, ZigSteps, Skill, Dir, File, SourceFile, Tree, Names

LEMMA ArgsFacts ==
  ASSUME TypeOK, NEW c \in Commands
  PROVE  /\ args[c] \in ArgumentsType
         /\ StepCount(c) \in Nat /\ StepCount(c) >= 1
         /\ next[c] \in Nat /\ next[c] >= 1
         /\ \A i \in 1 .. StepCount(c) : Steps(args[c])[i].name \in Names \ {"notes"}
         /\ \A i, j \in 1 .. StepCount(c) :
              Steps(args[c])[i].name = Steps(args[c])[j].name => i = j
         /\ args[c].lang = "zig" =>
              \A i \in 1 .. StepCount(c) : Steps(args[c])[i].name = "vendor" => i = 1
<1>1. args[c] \in ArgumentsType BY ScaffoldAssumption DEF TypeOK
<1> HIDE DEF ArgumentsType
<1>2. QED BY <1>1, StepsFacts DEF TypeOK, StepCount

\* What writing a step does to the directory.
LEMMA EntriesWithFacts ==
  ASSUME TypeOK, Writers, NEW c \in Commands, pc[c] = "write", NEW w \in BOOLEAN
  PROVE  LET after == EntriesWith(c, Step(c), w)
         IN  /\ Step(c).name \in Names \ {"notes"}
             /\ \A e \in after : e \in entries \/ e = Entry(Step(c).name, c, w)
             /\ \A e \in entries \ after : e.name = Step(c).name
             /\ \E e \in after : e.name = Step(c).name /\ (e \in entries \/ e = Entry(Step(c).name, c, w))
             /\ after \subseteq EntryType
<1>1. next[c] \in 1 .. StepCount(c) BY ArgsFacts DEF Writers
<1>2. Step(c).name \in Names \ {"notes"} BY <1>1, ArgsFacts DEF Step
<1>3. Entry(Step(c).name, c, w) \in EntryType BY <1>2 DEF Entry, EntryType
<1>4. entries \subseteq EntryType BY DEF TypeOK, EntryType
<1>5. Entry(Step(c).name, c, w).name = Step(c).name BY DEF Entry
<1>6. QED BY <1>2, <1>3, <1>4, <1>5 DEF EntriesWith

-----------------------------------------------------------------------------
(* Type correctness.                                                       *)

LEMMA UserFileType == UserFile \in EntryType
  BY DEF UserFile, Entry, EntryType, Names

LEMMA TypeInit == Init => TypeOK
<1> SUFFICES ASSUME Init PROVE TypeOK OBVIOUS
<1>1. entries \subseteq EntryType BY UserFileType DEF Init
<1>2. QED BY <1>1 DEF Init, TypeOK, EntryType

LEMMA InterruptedType ==
  ASSUME TypeOK, Writers, NEW c \in Commands, pc[c] = "write", Interrupted(c)
  PROVE  /\ target' \in {"absent", "file", "directory"}
         /\ entries' \subseteq EntryType
         /\ entries' # {} => target' = "directory"
<1>1. CASE Directory BY <1>1 DEF Directory, TypeOK, EntryType
<1>2. CASE target' = "directory" /\ entries' = EntriesWith(c, Step(c), FALSE)
  BY <1>2, EntriesWithFacts
<1>3. QED BY <1>1, <1>2 DEF Interrupted

LEMMA TypeStep ==
  ASSUME TypeOK, Writers, [Next]_vars
  PROVE  TypeOK'
<1>1. ASSUME NEW c \in Commands, Resolve(c) PROVE TypeOK'
  BY <1>1 DEF Resolve, TypeOK, At, Directory, Others, History
<1>2. ASSUME NEW c \in Commands, Look(c) PROVE TypeOK'
  BY <1>2 DEF Look, TypeOK, At, Directory, Others
<1>3. ASSUME NEW c \in Commands, NEW fails \in BOOLEAN, Create(c, fails) PROVE TypeOK'
  BY <1>3 DEF Create, TypeOK, At, Others, History
<1>4. ASSUME NEW c \in Commands, NEW fails \in BOOLEAN, List(c, fails) PROVE TypeOK'
  BY <1>4 DEF List, TypeOK, At, Directory, Others, History
<1>5. ASSUME NEW c \in Commands, WriteStep(c) PROVE TypeOK'
  <2>1. pc[c] = "write" /\ entries' = EntriesWith(c, Step(c), CopyWhole(c)) BY <1>5 DEF WriteStep, At
  <2>2. CopyWhole(c) \in BOOLEAN BY DEF CopyWhole, TypeOK
  <2>3. entries' \subseteq EntryType BY <2>1, <2>2, EntriesWithFacts
  <2>4. next' \in [Commands -> Nat \ {0}] BY <1>5 DEF WriteStep, TypeOK
  <2>5. QED BY <1>5, <2>3, <2>4 DEF WriteStep, TypeOK, At, Others, History
<1>6. ASSUME NEW c \in Commands, WriteFails(c) PROVE TypeOK'
  <2>1. pc[c] = "write" /\ Interrupted(c) BY <1>6 DEF WriteFails, At
  <2>2. QED BY <1>6, <2>1, InterruptedType DEF WriteFails, AfterFailure, TypeOK, At, Others, History
<1>7. ASSUME NEW c \in Commands, NEW e \in entries, RemoveEntry(c, e) PROVE TypeOK'
  BY <1>7 DEF RemoveEntry, TypeOK, Others, History
<1>8. ASSUME NEW c \in Commands, RemoveDirectory(c) PROVE TypeOK'
  BY <1>8 DEF RemoveDirectory, TypeOK, At, Others, History
<1>9. ASSUME NEW c \in Commands, RemoveFails(c) PROVE TypeOK'
  BY <1>9 DEF RemoveFails, TypeOK, At, Directory, Others
<1>10. ASSUME NEW c \in Commands, Killed(c) PROVE TypeOK'
  <2>1. CASE pc[c] = "write"
    BY <1>10, <2>1, InterruptedType DEF Killed, TypeOK, At, Others, History
  <2>2. CASE pc[c] # "write"
    BY <1>10, <2>2 DEF Killed, TypeOK, At, Directory, Others, History
  <2>3. QED BY <2>1, <2>2
<1>11. CASE UserWrites BY <1>11, UserFileType DEF UserWrites, TypeOK
<1>12. CASE SdkTakenApart BY <1>12 DEF SdkTakenApart, TypeOK
<1>13. CASE UNCHANGED vars BY <1>13 DEF vars, TypeOK
<1>14. QED
  BY <1>1, <1>2, <1>3, <1>4, <1>5, <1>6, <1>7, <1>8, <1>9, <1>10, <1>11, <1>12, <1>13
  DEF Next, Acts

-----------------------------------------------------------------------------
(* Each part of the invariant is kept.                                     *)

\* A command takes its steps one by one.
LEMMA WritersStep ==
  ASSUME IInv, [Next]_vars
  PROVE  Writers'
<1> USE DEF IInv, TypeOK, Writers, StepCount, NotYet, Ended
<1>1. ASSUME NEW c \in Commands, Resolve(c) PROVE Writers'
  BY <1>1 DEF Resolve, At, Directory, Others, History
<1>2. ASSUME NEW c \in Commands, Look(c) PROVE Writers'
  BY <1>2 DEF Look, At, Directory, Others
<1>3. ASSUME NEW c \in Commands, NEW fails \in BOOLEAN, Create(c, fails) PROVE Writers'
  BY <1>3 DEF Create, At, Others, History
<1>4. ASSUME NEW c \in Commands, NEW fails \in BOOLEAN, List(c, fails) PROVE Writers'
  BY <1>4 DEF List, At, Directory, Others, History
<1>5. ASSUME NEW c \in Commands, WriteStep(c) PROVE Writers'
  BY <1>5, ArgsFacts DEF WriteStep, At, Others, History, StepCount
<1>6. ASSUME NEW c \in Commands, WriteFails(c) PROVE Writers'
  BY <1>6 DEF WriteFails, AfterFailure, At, Others, History
<1>7. ASSUME NEW c \in Commands, NEW e \in entries, RemoveEntry(c, e) PROVE Writers'
  BY <1>7 DEF RemoveEntry, Others, History
<1>8. ASSUME NEW c \in Commands, RemoveDirectory(c) PROVE Writers'
  BY <1>8 DEF RemoveDirectory, At, Others, History
<1>9. ASSUME NEW c \in Commands, RemoveFails(c) PROVE Writers'
  BY <1>9 DEF RemoveFails, At, Directory, Others
<1>10. ASSUME NEW c \in Commands, Killed(c) PROVE Writers'
  BY <1>10 DEF Killed, At, Others, History
<1>11. ASSUME UserWrites PROVE Writers'
  BY <1>11 DEF UserWrites
<1>12. ASSUME SdkTakenApart PROVE Writers'
  BY <1>12 DEF SdkTakenApart
<1>13. ASSUME UNCHANGED vars PROVE Writers'
  BY <1>13 DEF vars
<1>14. QED
  BY <1>1, <1>2, <1>3, <1>4, <1>5, <1>6, <1>7, <1>8, <1>9, <1>10, <1>11, <1>12, <1>13
  DEF Next, Acts

\* Whoever starts while another works marks both.
LEMMA OverlapStep ==
  ASSUME IInv, [Next]_vars
  PROVE  Overlap'
<1> USE DEF IInv, TypeOK, Overlap, Working, Ended
<1>1. ASSUME NEW c \in Commands, Resolve(c) PROVE Overlap'
  BY <1>1 DEF Resolve, At, Directory, Others, History
<1>2. ASSUME NEW c \in Commands, Look(c) PROVE Overlap'
  BY <1>2 DEF Look, At, Directory, Others
<1>3. ASSUME NEW c \in Commands, NEW fails \in BOOLEAN, Create(c, fails) PROVE Overlap'
  BY <1>3 DEF Create, At, Others, History
<1>4. ASSUME NEW c \in Commands, NEW fails \in BOOLEAN, List(c, fails) PROVE Overlap'
  BY <1>4 DEF List, At, Directory, Others, History
<1>5. ASSUME NEW c \in Commands, WriteStep(c) PROVE Overlap'
  BY <1>5 DEF WriteStep, At, Others, History
<1>6. ASSUME NEW c \in Commands, WriteFails(c) PROVE Overlap'
  BY <1>6 DEF WriteFails, AfterFailure, At, Others, History
<1>7. ASSUME NEW c \in Commands, NEW e \in entries, RemoveEntry(c, e) PROVE Overlap'
  BY <1>7 DEF RemoveEntry, Others, History
<1>8. ASSUME NEW c \in Commands, RemoveDirectory(c) PROVE Overlap'
  BY <1>8 DEF RemoveDirectory, At, Others, History
<1>9. ASSUME NEW c \in Commands, RemoveFails(c) PROVE Overlap'
  BY <1>9 DEF RemoveFails, At, Directory, Others
<1>10. ASSUME NEW c \in Commands, Killed(c) PROVE Overlap'
  BY <1>10 DEF Killed, At, Others, History
<1>11. ASSUME UserWrites PROVE Overlap'
  BY <1>11 DEF UserWrites
<1>12. ASSUME SdkTakenApart PROVE Overlap'
  BY <1>12 DEF SdkTakenApart
<1>13. ASSUME UNCHANGED vars PROVE Overlap'
  BY <1>13 DEF vars
<1>14. QED
  BY <1>1, <1>2, <1>3, <1>4, <1>5, <1>6, <1>7, <1>8, <1>9, <1>10, <1>11, <1>12, <1>13
  DEF Next, Acts

\* What is spent stays spent.
LEMMA SpentLasts ==
  ASSUME IInv, [Next]_vars, NEW e \in EntryType, Spent(e)
  PROVE  Spent(e)'
<1> USE DEF IInv, TypeOK, Spent, Took, NotYet, Ended, EntryType, UserFile, Entry
<1>1. ASSUME NEW c \in Commands, Resolve(c) PROVE Spent(e)'
  BY <1>1 DEF Resolve, At, Directory, Others, History
<1>2. ASSUME NEW c \in Commands, Look(c) PROVE Spent(e)'
  BY <1>2 DEF Look, At, Directory, Others
<1>3. ASSUME NEW c \in Commands, NEW fails \in BOOLEAN, Create(c, fails) PROVE Spent(e)'
  BY <1>3 DEF Create, At, Others, History
<1>4. ASSUME NEW c \in Commands, NEW fails \in BOOLEAN, List(c, fails) PROVE Spent(e)'
  BY <1>4 DEF List, At, Directory, Others, History
<1>5. ASSUME NEW c \in Commands, WriteStep(c) PROVE Spent(e)'
  BY <1>5 DEF WriteStep, At, Others, History
<1>6. ASSUME NEW c \in Commands, WriteFails(c) PROVE Spent(e)'
  BY <1>6 DEF WriteFails, AfterFailure, At, Others, History
<1>7. ASSUME NEW c \in Commands, NEW f \in entries, RemoveEntry(c, f) PROVE Spent(e)'
  BY <1>7 DEF RemoveEntry, Others, History
<1>8. ASSUME NEW c \in Commands, RemoveDirectory(c) PROVE Spent(e)'
  BY <1>8 DEF RemoveDirectory, At, Others, History
<1>9. ASSUME NEW c \in Commands, RemoveFails(c) PROVE Spent(e)'
  BY <1>9 DEF RemoveFails, At, Directory, Others
<1>10. ASSUME NEW c \in Commands, Killed(c) PROVE Spent(e)'
  BY <1>10 DEF Killed, At, Others, History
<1>11. ASSUME UserWrites PROVE Spent(e)'
  BY <1>11 DEF UserWrites
<1>12. ASSUME SdkTakenApart PROVE Spent(e)'
  BY <1>12 DEF SdkTakenApart
<1>13. ASSUME UNCHANGED vars PROVE Spent(e)'
  BY <1>13 DEF vars
<1>14. QED
  BY <1>1, <1>2, <1>3, <1>4, <1>5, <1>6, <1>7, <1>8, <1>9, <1>10, <1>11, <1>12, <1>13
  DEF Next, Acts

-----------------------------------------------------------------------------
(* What a step may do to the directory and to a command.                   *)

\* c writes e.
Adds(c, e) ==
  /\ pc[c] = "write" /\ ~StepRefused(c)
  /\ e.by = c /\ e.name = Step(c).name
  /\ pc'[c] \notin NotYet
  /\ pc'[c] \in {"write", "ok"} => next'[c] = next[c] + 1

LEMMA InterruptedAdds ==
  ASSUME IInv, NEW c \in Commands, pc[c] = "write", Interrupted(c)
  PROVE  /\ \A e \in entries' \ entries :
              ~StepRefused(c) /\ e.by = c /\ e.name = Step(c).name
         /\ \A e \in entries \ entries' : e.name = Step(c).name
<1>1. CASE Directory BY <1>1 DEF Directory
<1>2. CASE ~StepRefused(c) /\ entries' = EntriesWith(c, Step(c), FALSE)
  <2>1. TypeOK /\ Writers /\ FALSE \in BOOLEAN BY DEF IInv
  <2>2. \A e \in entries' : e \in entries \/ e = Entry(Step(c).name, c, FALSE)
    BY <1>2, <2>1, EntriesWithFacts
  <2>3. \A e \in entries \ entries' : e.name = Step(c).name BY <1>2, <2>1, EntriesWithFacts
  <2>4. \A e \in entries' \ entries : e = Entry(Step(c).name, c, FALSE) BY <2>2
  <2>5. \A e \in entries' \ entries : e.by = c /\ e.name = Step(c).name BY <2>4 DEF Entry
  <2>6. QED BY <1>2, <2>3, <2>5
<1>3. QED BY <1>1, <1>2 DEF Interrupted

\* An entry is new because the user put it there or a command wrote it.
OnlyAdded ==
  \A e \in entries' \ entries :
    (e = UserFile /\ ~visited /\ visited') \/ \E c \in Commands : Adds(c, e)

LEMMA NewEntries ==
  ASSUME IInv, [Next]_vars
  PROVE  OnlyAdded
<1> USE DEF OnlyAdded
<1>1. ASSUME NEW c \in Commands, Resolve(c) PROVE OnlyAdded
  BY <1>1 DEF Resolve, At, Directory, Others, History
<1>2. ASSUME NEW c \in Commands, Look(c) PROVE OnlyAdded
  BY <1>2 DEF Look, At, Directory, Others
<1>3. ASSUME NEW c \in Commands, NEW fails \in BOOLEAN, Create(c, fails) PROVE OnlyAdded
  BY <1>3 DEF Create, At, Others, History
<1>4. ASSUME NEW c \in Commands, NEW fails \in BOOLEAN, List(c, fails) PROVE OnlyAdded
  BY <1>4 DEF List, At, Directory, Others, History
<1>5. ASSUME NEW c \in Commands, WriteStep(c) PROVE OnlyAdded
  <2>1. pc[c] = "write" /\ ~StepRefused(c) /\ entries' = EntriesWith(c, Step(c), CopyWhole(c))
    BY <1>5 DEF WriteStep, At
  <2>2. CopyWhole(c) \in BOOLEAN BY DEF CopyWhole, IInv, TypeOK
  <2>3. \A e \in entries' \ entries : e.by = c /\ e.name = Step(c).name
    BY <2>1, <2>2, EntriesWithFacts DEF IInv, Entry
  <2>4. pc'[c] \notin NotYet /\ next'[c] = next[c] + 1
    BY <1>5 DEF WriteStep, At, NotYet, IInv, TypeOK
  <2>5. QED BY <2>1, <2>3, <2>4 DEF Adds
<1>6. ASSUME NEW c \in Commands, WriteFails(c) PROVE OnlyAdded
  <2>1. pc[c] = "write" /\ Interrupted(c) /\ pc'[c] \in {"cleanup", "failed"}
    BY <1>6 DEF WriteFails, AfterFailure, At, IInv, TypeOK
  <2>2. QED BY <2>1, InterruptedAdds DEF Adds, NotYet
<1>7. ASSUME NEW c \in Commands, NEW f \in entries, RemoveEntry(c, f) PROVE OnlyAdded
  BY <1>7 DEF RemoveEntry, Others, History
<1>8. ASSUME NEW c \in Commands, RemoveDirectory(c) PROVE OnlyAdded
  BY <1>8 DEF RemoveDirectory, At, Others, History
<1>9. ASSUME NEW c \in Commands, RemoveFails(c) PROVE OnlyAdded
  BY <1>9 DEF RemoveFails, At, Directory, Others
<1>10. ASSUME NEW c \in Commands, Killed(c) PROVE OnlyAdded
  <2>1. CASE pc[c] = "write"
    <3>1. Interrupted(c) /\ pc'[c] = "killed" BY <1>10, <2>1 DEF Killed, At, IInv, TypeOK
    <3>2. QED BY <2>1, <3>1, InterruptedAdds DEF Adds, NotYet
  <2>2. CASE pc[c] # "write" BY <1>10, <2>2 DEF Killed, Directory
  <2>3. QED BY <2>1, <2>2
<1>11. ASSUME UserWrites PROVE OnlyAdded
  BY <1>11 DEF UserWrites
<1>12. ASSUME SdkTakenApart PROVE OnlyAdded
  BY <1>12 DEF SdkTakenApart
<1>13. ASSUME UNCHANGED vars PROVE OnlyAdded
  BY <1>13 DEF vars
<1>14. QED
  BY <1>1, <1>2, <1>3, <1>4, <1>5, <1>6, <1>7, <1>8, <1>9, <1>10, <1>11, <1>12, <1>13
  DEF Next, Acts

\* A command at work takes entries away: one that cleans up, or overwrites.
OnlyRemoved ==
  \A e \in entries \ entries' : \E c \in Commands :
    pc[c] = "cleanup" \/ (pc[c] = "write" /\ e.name = Step(c).name)

LEMMA GoneEntries ==
  ASSUME IInv, [Next]_vars
  PROVE  OnlyRemoved
<1> USE DEF OnlyRemoved
<1>1. ASSUME NEW c \in Commands, Resolve(c) PROVE OnlyRemoved
  BY <1>1 DEF Resolve, At, Directory, Others, History
<1>2. ASSUME NEW c \in Commands, Look(c) PROVE OnlyRemoved
  BY <1>2 DEF Look, At, Directory, Others
<1>3. ASSUME NEW c \in Commands, NEW fails \in BOOLEAN, Create(c, fails) PROVE OnlyRemoved
  BY <1>3 DEF Create, At, Others, History
<1>4. ASSUME NEW c \in Commands, NEW fails \in BOOLEAN, List(c, fails) PROVE OnlyRemoved
  BY <1>4 DEF List, At, Directory, Others, History
<1>5. ASSUME NEW c \in Commands, WriteStep(c) PROVE OnlyRemoved
  <2>1. pc[c] = "write" /\ entries' = EntriesWith(c, Step(c), CopyWhole(c))
    BY <1>5 DEF WriteStep, At
  <2>2. CopyWhole(c) \in BOOLEAN BY DEF CopyWhole, IInv, TypeOK
  <2>3. QED BY <2>1, <2>2, EntriesWithFacts DEF IInv
<1>6. ASSUME NEW c \in Commands, WriteFails(c) PROVE OnlyRemoved
  <2>1. pc[c] = "write" /\ Interrupted(c) BY <1>6 DEF WriteFails, At
  <2>2. QED BY <2>1, InterruptedAdds
<1>7. ASSUME NEW c \in Commands, NEW f \in entries, RemoveEntry(c, f) PROVE OnlyRemoved
  BY <1>7 DEF RemoveEntry, Others, History
<1>8. ASSUME NEW c \in Commands, RemoveDirectory(c) PROVE OnlyRemoved
  BY <1>8 DEF RemoveDirectory, At, Others, History
<1>9. ASSUME NEW c \in Commands, RemoveFails(c) PROVE OnlyRemoved
  BY <1>9 DEF RemoveFails, At, Directory, Others
<1>10. ASSUME NEW c \in Commands, Killed(c) PROVE OnlyRemoved
  <2>1. CASE pc[c] = "write"
    <3>1. Interrupted(c) BY <1>10, <2>1 DEF Killed
    <3>2. QED BY <2>1, <3>1, InterruptedAdds
  <2>2. CASE pc[c] # "write" BY <1>10, <2>2 DEF Killed, Directory
  <2>3. QED BY <2>1, <2>2
<1>11. ASSUME UserWrites PROVE OnlyRemoved
  BY <1>11 DEF UserWrites
<1>12. ASSUME SdkTakenApart PROVE OnlyRemoved
  BY <1>12 DEF SdkTakenApart
<1>13. ASSUME UNCHANGED vars PROVE OnlyRemoved
  BY <1>13 DEF vars
<1>14. QED
  BY <1>1, <1>2, <1>3, <1>4, <1>5, <1>6, <1>7, <1>8, <1>9, <1>10, <1>11, <1>12, <1>13
  DEF Next, Acts

\* Where a command may come from, and what it remembers.
Moved(d) ==
  /\ before'[d] = before[d] \/ before'[d] = {} \/ (before'[d] = entries /\ pc[d] = "look")
  /\ pc'[d] \in {"create", "write", "cleanup"} =>
       \/ pc[d] \in {"create", "write", "cleanup"} /\ before'[d] = before[d]
       \/ entries = {} /\ entries' = {}
  /\ pc'[d] = "cleanup" /\ pc[d] # "cleanup" => pc[d] = "write" /\ created[d]
  /\ created'[d] # created[d] => pc[d] = "look"
  /\ pc'[d] \in {"write", "ok"} =>
       \/ pc[d] = "write" /\ next'[d] = next[d] + 1 /\ WriteStep(d)
       \/ pc'[d] = pc[d] /\ next'[d] = next[d]
       \/ next'[d] = next[d] /\ pc[d] \in NotYet /\ pc'[d] = "write"
  /\ next'[d] = next[d] \/ (next'[d] = next[d] + 1 /\ pc'[d] \in {"write", "ok"})

AllMoved == \A d \in Commands : Moved(d)

LEMMA Moves ==
  ASSUME IInv, [Next]_vars
  PROVE  AllMoved
<1> USE DEF AllMoved, Moved, IInv, TypeOK, NotYet, Ended
<1>1. ASSUME NEW c \in Commands, Resolve(c) PROVE AllMoved
  BY <1>1 DEF Resolve, At, Directory, Others, History
<1>2. ASSUME NEW c \in Commands, Look(c) PROVE AllMoved
  BY <1>2 DEF Look, At, Directory, Others
<1>3. ASSUME NEW c \in Commands, NEW fails \in BOOLEAN, Create(c, fails) PROVE AllMoved
  BY <1>3 DEF Create, At, Others, History
<1>4. ASSUME NEW c \in Commands, NEW fails \in BOOLEAN, List(c, fails) PROVE AllMoved
  BY <1>4 DEF List, ListRefused, At, Directory, Others, History
<1>5. ASSUME NEW c \in Commands, WriteStep(c) PROVE AllMoved
  BY <1>5 DEF WriteStep, At, Others, History
<1>6. ASSUME NEW c \in Commands, WriteFails(c) PROVE AllMoved
  BY <1>6 DEF WriteFails, AfterFailure, At, Others, History
<1>7. ASSUME NEW c \in Commands, NEW f \in entries, RemoveEntry(c, f) PROVE AllMoved
  BY <1>7 DEF RemoveEntry, Others, History
<1>8. ASSUME NEW c \in Commands, RemoveDirectory(c) PROVE AllMoved
  BY <1>8 DEF RemoveDirectory, At, Others, History
<1>9. ASSUME NEW c \in Commands, RemoveFails(c) PROVE AllMoved
  BY <1>9 DEF RemoveFails, At, Directory, Others
<1>10. ASSUME NEW c \in Commands, Killed(c) PROVE AllMoved
  BY <1>10 DEF Killed, At, Others, History
<1>11. ASSUME UserWrites PROVE AllMoved
  BY <1>11 DEF UserWrites
<1>12. ASSUME SdkTakenApart PROVE AllMoved
  BY <1>12 DEF SdkTakenApart
<1>13. ASSUME UNCHANGED vars PROVE AllMoved
  BY <1>13 DEF vars
<1>14. QED
  BY <1>1, <1>2, <1>3, <1>4, <1>5, <1>6, <1>7, <1>8, <1>9, <1>10, <1>11, <1>12, <1>13
  DEF Next, Acts

-----------------------------------------------------------------------------
(* The parts about what is in the directory.                               *)

LEMMA ArgsKept ==
  ASSUME [Next]_vars
  PROVE  args' = args
<1>1. ASSUME NEW c \in Commands, Resolve(c) PROVE args' = args
  BY <1>1 DEF Resolve, At, Directory, Others, History
<1>2. ASSUME NEW c \in Commands, Look(c) PROVE args' = args
  BY <1>2 DEF Look, At, Directory, Others
<1>3. ASSUME NEW c \in Commands, NEW fails \in BOOLEAN, Create(c, fails) PROVE args' = args
  BY <1>3 DEF Create, At, Others, History
<1>4. ASSUME NEW c \in Commands, NEW fails \in BOOLEAN, List(c, fails) PROVE args' = args
  BY <1>4 DEF List, At, Directory, Others, History
<1>5. ASSUME NEW c \in Commands, WriteStep(c) PROVE args' = args
  BY <1>5 DEF WriteStep, At, Others, History
<1>6. ASSUME NEW c \in Commands, WriteFails(c) PROVE args' = args
  BY <1>6 DEF WriteFails, AfterFailure, At, Others, History
<1>7. ASSUME NEW c \in Commands, NEW f \in entries, RemoveEntry(c, f) PROVE args' = args
  BY <1>7 DEF RemoveEntry, Others, History
<1>8. ASSUME NEW c \in Commands, RemoveDirectory(c) PROVE args' = args
  BY <1>8 DEF RemoveDirectory, At, Others, History
<1>9. ASSUME NEW c \in Commands, RemoveFails(c) PROVE args' = args
  BY <1>9 DEF RemoveFails, At, Directory, Others
<1>10. ASSUME NEW c \in Commands, Killed(c) PROVE args' = args
  BY <1>10 DEF Killed, At, Others, History
<1>11. ASSUME UserWrites PROVE args' = args
  BY <1>11 DEF UserWrites
<1>12. ASSUME SdkTakenApart PROVE args' = args
  BY <1>12 DEF SdkTakenApart
<1>13. ASSUME UNCHANGED vars PROVE args' = args
  BY <1>13 DEF vars
<1>14. QED
  BY <1>1, <1>2, <1>3, <1>4, <1>5, <1>6, <1>7, <1>8, <1>9, <1>10, <1>11, <1>12, <1>13
  DEF Next, Acts

LEMMA OverlappedGrows ==
  ASSUME IInv, [Next]_vars
  PROVE  overlapped \subseteq overlapped'
<1>1. ASSUME NEW c \in Commands, Resolve(c) PROVE overlapped \subseteq overlapped'
  BY <1>1 DEF Resolve, At, Directory, Others, History
<1>2. ASSUME NEW c \in Commands, Look(c) PROVE overlapped \subseteq overlapped'
  BY <1>2 DEF Look, At, Directory, Others
<1>3. ASSUME NEW c \in Commands, NEW fails \in BOOLEAN, Create(c, fails) PROVE overlapped \subseteq overlapped'
  BY <1>3 DEF Create, At, Others, History
<1>4. ASSUME NEW c \in Commands, NEW fails \in BOOLEAN, List(c, fails) PROVE overlapped \subseteq overlapped'
  BY <1>4 DEF List, At, Directory, Others, History
<1>5. ASSUME NEW c \in Commands, WriteStep(c) PROVE overlapped \subseteq overlapped'
  BY <1>5 DEF WriteStep, At, Others, History
<1>6. ASSUME NEW c \in Commands, WriteFails(c) PROVE overlapped \subseteq overlapped'
  BY <1>6 DEF WriteFails, AfterFailure, At, Others, History
<1>7. ASSUME NEW c \in Commands, NEW f \in entries, RemoveEntry(c, f) PROVE overlapped \subseteq overlapped'
  BY <1>7 DEF RemoveEntry, Others, History
<1>8. ASSUME NEW c \in Commands, RemoveDirectory(c) PROVE overlapped \subseteq overlapped'
  BY <1>8 DEF RemoveDirectory, At, Others, History
<1>9. ASSUME NEW c \in Commands, RemoveFails(c) PROVE overlapped \subseteq overlapped'
  BY <1>9 DEF RemoveFails, At, Directory, Others
<1>10. ASSUME NEW c \in Commands, Killed(c) PROVE overlapped \subseteq overlapped'
  BY <1>10 DEF Killed, At, Others, History
<1>11. ASSUME UserWrites PROVE overlapped \subseteq overlapped'
  BY <1>11 DEF UserWrites
<1>12. ASSUME SdkTakenApart PROVE overlapped \subseteq overlapped'
  BY <1>12 DEF SdkTakenApart
<1>13. ASSUME UNCHANGED vars PROVE overlapped \subseteq overlapped'
  BY <1>13 DEF vars
<1>14. QED
  BY <1>1, <1>2, <1>3, <1>4, <1>5, <1>6, <1>7, <1>8, <1>9, <1>10, <1>11, <1>12, <1>13
  DEF Next, Acts

\* Who starts where something is stops at the list.
StopsAtList ==
  \A d \in Commands :
    /\ entries # {} /\ target = "directory"
    /\ Working(d) => pc[d] = "list"
    /\ Working(d)'
    => pc'[d] = "list"

LEMMA LateComes ==
  ASSUME IInv, [Next]_vars
  PROVE  StopsAtList
<1> USE DEF StopsAtList, Working, IInv, TypeOK, Ended
<1>1. ASSUME NEW c \in Commands, Resolve(c) PROVE StopsAtList
  BY <1>1 DEF Resolve, At, Directory, Others, History
<1>2. ASSUME NEW c \in Commands, Look(c) PROVE StopsAtList
  BY <1>2 DEF Look, At, Directory, Others
<1>3. ASSUME NEW c \in Commands, NEW fails \in BOOLEAN, Create(c, fails) PROVE StopsAtList
  BY <1>3 DEF Create, At, Others, History
<1>4. ASSUME NEW c \in Commands, NEW fails \in BOOLEAN, List(c, fails) PROVE StopsAtList
  BY <1>4, <1>4 DEF List, At, Directory, Others, History, ListRefused
<1>5. ASSUME NEW c \in Commands, WriteStep(c) PROVE StopsAtList
  BY <1>5 DEF WriteStep, At, Others, History
<1>6. ASSUME NEW c \in Commands, WriteFails(c) PROVE StopsAtList
  BY <1>6 DEF WriteFails, AfterFailure, At, Others, History
<1>7. ASSUME NEW c \in Commands, NEW f \in entries, RemoveEntry(c, f) PROVE StopsAtList
  BY <1>7 DEF RemoveEntry, Others, History
<1>8. ASSUME NEW c \in Commands, RemoveDirectory(c) PROVE StopsAtList
  BY <1>8 DEF RemoveDirectory, At, Others, History
<1>9. ASSUME NEW c \in Commands, RemoveFails(c) PROVE StopsAtList
  BY <1>9 DEF RemoveFails, At, Directory, Others
<1>10. ASSUME NEW c \in Commands, Killed(c) PROVE StopsAtList
  BY <1>10 DEF Killed, At, Others, History
<1>11. ASSUME UserWrites PROVE StopsAtList
  BY <1>11 DEF UserWrites
<1>12. ASSUME SdkTakenApart PROVE StopsAtList
  BY <1>12 DEF SdkTakenApart
<1>13. ASSUME UNCHANGED vars PROVE StopsAtList
  BY <1>13 DEF vars
<1>14. QED
  BY <1>1, <1>2, <1>3, <1>4, <1>5, <1>6, <1>7, <1>8, <1>9, <1>10, <1>11, <1>12, <1>13
  DEF Next, Acts

LEMMA SdkStaysApart ==
  ASSUME [Next]_vars
  PROVE  ~sdk_whole => ~sdk_whole'
<1>1. ASSUME NEW c \in Commands, Resolve(c) PROVE ~sdk_whole => ~sdk_whole'
  BY <1>1 DEF Resolve, At, Directory, Others, History
<1>2. ASSUME NEW c \in Commands, Look(c) PROVE ~sdk_whole => ~sdk_whole'
  BY <1>2 DEF Look, At, Directory, Others
<1>3. ASSUME NEW c \in Commands, NEW fails \in BOOLEAN, Create(c, fails) PROVE ~sdk_whole => ~sdk_whole'
  BY <1>3 DEF Create, At, Others, History
<1>4. ASSUME NEW c \in Commands, NEW fails \in BOOLEAN, List(c, fails) PROVE ~sdk_whole => ~sdk_whole'
  BY <1>4 DEF List, At, Directory, Others, History
<1>5. ASSUME NEW c \in Commands, WriteStep(c) PROVE ~sdk_whole => ~sdk_whole'
  BY <1>5 DEF WriteStep, At, Others, History
<1>6. ASSUME NEW c \in Commands, WriteFails(c) PROVE ~sdk_whole => ~sdk_whole'
  BY <1>6 DEF WriteFails, AfterFailure, At, Others, History
<1>7. ASSUME NEW c \in Commands, NEW f \in entries, RemoveEntry(c, f) PROVE ~sdk_whole => ~sdk_whole'
  BY <1>7 DEF RemoveEntry, Others, History
<1>8. ASSUME NEW c \in Commands, RemoveDirectory(c) PROVE ~sdk_whole => ~sdk_whole'
  BY <1>8 DEF RemoveDirectory, At, Others, History
<1>9. ASSUME NEW c \in Commands, RemoveFails(c) PROVE ~sdk_whole => ~sdk_whole'
  BY <1>9 DEF RemoveFails, At, Directory, Others
<1>10. ASSUME NEW c \in Commands, Killed(c) PROVE ~sdk_whole => ~sdk_whole'
  BY <1>10 DEF Killed, At, Others, History
<1>11. ASSUME UserWrites PROVE ~sdk_whole => ~sdk_whole'
  BY <1>11 DEF UserWrites
<1>12. ASSUME SdkTakenApart PROVE ~sdk_whole => ~sdk_whole'
  BY <1>12 DEF SdkTakenApart
<1>13. ASSUME UNCHANGED vars PROVE ~sdk_whole => ~sdk_whole'
  BY <1>13 DEF vars
<1>14. QED
  BY <1>1, <1>2, <1>3, <1>4, <1>5, <1>6, <1>7, <1>8, <1>9, <1>10, <1>11, <1>12, <1>13
  DEF Next, Acts

LEMMA SuccessStays ==
  ASSUME IInv, [Next]_vars, NEW d \in Commands
  PROVE  pc[d] = "ok" => pc'[d] = "ok"
<1> USE DEF IInv, TypeOK, Ended
<1>1. ASSUME NEW c \in Commands, Resolve(c) PROVE pc[d] = "ok" => pc'[d] = "ok"
  BY <1>1 DEF Resolve, At, Directory, Others, History
<1>2. ASSUME NEW c \in Commands, Look(c) PROVE pc[d] = "ok" => pc'[d] = "ok"
  BY <1>2 DEF Look, At, Directory, Others
<1>3. ASSUME NEW c \in Commands, NEW fails \in BOOLEAN, Create(c, fails) PROVE pc[d] = "ok" => pc'[d] = "ok"
  BY <1>3 DEF Create, At, Others, History
<1>4. ASSUME NEW c \in Commands, NEW fails \in BOOLEAN, List(c, fails) PROVE pc[d] = "ok" => pc'[d] = "ok"
  BY <1>4 DEF List, At, Directory, Others, History
<1>5. ASSUME NEW c \in Commands, WriteStep(c) PROVE pc[d] = "ok" => pc'[d] = "ok"
  BY <1>5 DEF WriteStep, At, Others, History
<1>6. ASSUME NEW c \in Commands, WriteFails(c) PROVE pc[d] = "ok" => pc'[d] = "ok"
  BY <1>6 DEF WriteFails, AfterFailure, At, Others, History
<1>7. ASSUME NEW c \in Commands, NEW f \in entries, RemoveEntry(c, f) PROVE pc[d] = "ok" => pc'[d] = "ok"
  BY <1>7 DEF RemoveEntry, Others, History
<1>8. ASSUME NEW c \in Commands, RemoveDirectory(c) PROVE pc[d] = "ok" => pc'[d] = "ok"
  BY <1>8 DEF RemoveDirectory, At, Others, History
<1>9. ASSUME NEW c \in Commands, RemoveFails(c) PROVE pc[d] = "ok" => pc'[d] = "ok"
  BY <1>9 DEF RemoveFails, At, Directory, Others
<1>10. ASSUME NEW c \in Commands, Killed(c) PROVE pc[d] = "ok" => pc'[d] = "ok"
  BY <1>10 DEF Killed, At, Others, History
<1>11. ASSUME UserWrites PROVE pc[d] = "ok" => pc'[d] = "ok"
  BY <1>11 DEF UserWrites
<1>12. ASSUME SdkTakenApart PROVE pc[d] = "ok" => pc'[d] = "ok"
  BY <1>12 DEF SdkTakenApart
<1>13. ASSUME UNCHANGED vars PROVE pc[d] = "ok" => pc'[d] = "ok"
  BY <1>13 DEF vars
<1>14. QED
  BY <1>1, <1>2, <1>3, <1>4, <1>5, <1>6, <1>7, <1>8, <1>9, <1>10, <1>11, <1>12, <1>13
  DEF Next, Acts

\* Who fails once it wrote something has tried to clean up.
Failed ==
  /\ littered \subseteq littered'
  /\ \A d \in Commands :
       pc[d] # "failed" /\ pc'[d] = "failed" /\ pc[d] \notin NotYet /\ created'[d] =>
         entries' = {} \/ d \in littered'

LEMMA FailsAfterCleanup ==
  ASSUME IInv, [Next]_vars
  PROVE  Failed
<1> USE DEF Failed, IInv, TypeOK, Ended, NotYet
<1>1. ASSUME NEW c \in Commands, Resolve(c) PROVE Failed
  BY <1>1 DEF Resolve, At, Directory, Others, History
<1>2. ASSUME NEW c \in Commands, Look(c) PROVE Failed
  BY <1>2 DEF Look, At, Directory, Others
<1>3. ASSUME NEW c \in Commands, NEW fails \in BOOLEAN, Create(c, fails) PROVE Failed
  BY <1>3 DEF Create, At, Others, History
<1>4. ASSUME NEW c \in Commands, NEW fails \in BOOLEAN, List(c, fails) PROVE Failed
  BY <1>4 DEF List, At, Directory, Others, History
<1>5. ASSUME NEW c \in Commands, WriteStep(c) PROVE Failed
  BY <1>5 DEF WriteStep, At, Others, History
<1>6. ASSUME NEW c \in Commands, WriteFails(c) PROVE Failed
  BY <1>6 DEF WriteFails, AfterFailure, At, Others, History
<1>7. ASSUME NEW c \in Commands, NEW f \in entries, RemoveEntry(c, f) PROVE Failed
  BY <1>7 DEF RemoveEntry, Others, History
<1>8. ASSUME NEW c \in Commands, RemoveDirectory(c) PROVE Failed
  BY <1>8 DEF RemoveDirectory, At, Others, History
<1>9. ASSUME NEW c \in Commands, RemoveFails(c) PROVE Failed
  BY <1>9 DEF RemoveFails, At, Directory, Others
<1>10. ASSUME NEW c \in Commands, Killed(c) PROVE Failed
  BY <1>10 DEF Killed, At, Others, History
<1>11. ASSUME UserWrites PROVE Failed
  BY <1>11 DEF UserWrites
<1>12. ASSUME SdkTakenApart PROVE Failed
  BY <1>12 DEF SdkTakenApart
<1>13. ASSUME UNCHANGED vars PROVE Failed
  BY <1>13 DEF vars
<1>14. QED
  BY <1>1, <1>2, <1>3, <1>4, <1>5, <1>6, <1>7, <1>8, <1>9, <1>10, <1>11, <1>12, <1>13
  DEF Next, Acts

LEMMA EntryFacts ==
  ASSUME IInv
  PROVE  /\ entries \subseteq EntryType
         /\ \A c \in Commands : before[c] \subseteq EntryType
         /\ \A e \in EntryType : e.by = User \/ e.by \in Commands
         /\ entries # {} => target = "directory"
  BY DEF IInv, TypeOK, EntryType

\* What is written was never there before.
LEMMA AddedIsNew ==
  ASSUME IInv, NEW e, NEW c \in Commands, Adds(c, e)
  PROVE  ~Spent(e)
<1>1. next[c] \in 1 .. StepCount(c) /\ 1 .. next[c] - 1 \subseteq 1 .. StepCount(c)
  BY ArgsFacts DEF IInv, Writers, Adds
<1>2. ~Took(c, Step(c).name)
  <2> SUFFICES ASSUME NEW i \in 1 .. next[c] - 1, Steps(args[c])[i].name = Step(c).name
      PROVE  FALSE
    BY DEF Took
  <2>1. i = next[c] BY <1>1, ArgsFacts DEF Step, IInv
  <2>2. QED BY <2>1, <1>1
<1>3. e.by # User BY ScaffoldAssumption DEF Adds
<1>4. QED BY <1>2, <1>3 DEF Spent, Adds

LEMMA AllSpentStep ==
  ASSUME IInv, [Next]_vars
  PROVE  AllSpent'
<1>1. \A e \in EntryType : Spent(e) => Spent(e)' BY SpentLasts
<1>2. ASSUME NEW e \in entries' PROVE Spent(e)'
  <2>1. CASE e \in entries BY <1>1, <2>1, EntryFacts DEF IInv, AllSpent
  <2>2. CASE e = UserFile /\ visited'
    <3>1. QED BY <2>2 DEF Spent, UserFile, Entry
  <2>3. CASE \E c \in Commands : Adds(c, e)
    <3>1. PICK c \in Commands : Adds(c, e) BY <2>3
    <3>2. e.by = c /\ c # User BY <3>1, ScaffoldAssumption DEF Adds
    <3>3. pc'[c] = "write" => Took(c, e.name)'
      BY <3>1, ArgsFacts, ArgsKept DEF Adds, Took, Step, IInv
    <3>4. QED BY <3>1, <3>2, <3>3 DEF Spent, Adds
  <2>4. QED BY <2>1, <2>2, <2>3, NewEntries DEF OnlyAdded
<1>3. ASSUME NEW c \in Commands, NEW e \in before'[c] PROVE Spent(e)'
  <2>1. e \in before[c] \/ e \in entries BY <1>3, Moves DEF AllMoved, Moved
  <2>2. QED BY <1>1, <2>1, EntryFacts DEF IInv, AllSpent
<1>4. QED BY <1>2, <1>3 DEF AllSpent

LEMMA FoundNothingStep ==
  ASSUME IInv, [Next]_vars
  PROVE  FoundNothing'
<1> SUFFICES ASSUME NEW c \in Commands
    PROVE  /\ pc'[c] \in {"create", "write", "cleanup"} => before'[c] \cap entries' = {}
           /\ pc'[c] = "cleanup" => created'[c]
  BY DEF FoundNothing
<1>1. Moved(c) BY Moves DEF AllMoved
<1>2. ASSUME pc[c] \in {"create", "write", "cleanup"}, before'[c] = before[c],
             NEW e \in before[c], e \in entries'
      PROVE FALSE
  <2>1. e \notin entries BY <1>2 DEF IInv, FoundNothing
  <2>2. Spent(e) BY <1>2 DEF IInv, AllSpent
  <2>3. CASE e = UserFile /\ ~visited
    BY <2>2, <2>3 DEF Spent, UserFile, Entry
  <2>4. CASE \E d \in Commands : Adds(d, e) BY <2>2, <2>4, AddedIsNew
  <2>5. QED BY <1>2, <2>1, <2>3, <2>4, NewEntries DEF OnlyAdded
<1>3. pc'[c] = "cleanup" => created'[c]
  <2>1. CASE pc[c] = "cleanup" BY <1>1, <2>1 DEF Moved, IInv, FoundNothing
  <2>2. CASE pc[c] # "cleanup" BY <1>1, <2>2 DEF Moved
  <2>3. QED BY <2>1, <2>2
<1>4. QED BY <1>1, <1>2, <1>3 DEF Moved

LEMMA StrangersStep ==
  ASSUME IInv, [Next]_vars
  PROVE  Strangers'
<1> SUFFICES ASSUME NEW c \in Commands, NEW e \in entries',
                    pc'[c] \in {"create", "write", "cleanup"},
                    e.by \in Commands, e.by # c
    PROVE  {c, e.by} \subseteq overlapped'
  BY DEF Strangers
<1>1. overlapped \subseteq overlapped' BY OverlappedGrows
<1>2. pc[c] \in {"create", "write", "cleanup"} BY Moves DEF AllMoved, Moved
<1>3. CASE e \in entries BY <1>1, <1>2, <1>3 DEF IInv, Strangers
<1>4. CASE \E d \in Commands : Adds(d, e)
  <2>1. PICK d \in Commands : Adds(d, e) BY <1>4
  <2>2. e.by = d /\ Working(d) /\ Working(c) BY <1>2, <2>1 DEF Adds, Working
  <2>3. QED BY <1>1, <2>2 DEF IInv, Overlap
<1>5. CASE e = UserFile BY <1>5, ScaffoldAssumption DEF UserFile, Entry
<1>6. QED BY <1>3, <1>4, <1>5, NewEntries DEF OnlyAdded

LEMMA LatecomersStep ==
  ASSUME IInv, [Next]_vars
  PROVE  Latecomers'
<1> SUFFICES ASSUME NEW c \in Commands, c \notin overlapped', NEW d \in Commands,
                    pc'[c] = "ok", Working(d)'
    PROVE  pc'[d] = "list"
  BY DEF Latecomers
<1>1. c \notin overlapped BY OverlappedGrows
<1>2. c # d BY DEF Working
<1>3. CASE pc[c] = "ok"
  <2>1. Working(d) => pc[d] = "list" BY <1>1, <1>3 DEF IInv, Latecomers
  <2>2. entries # {} /\ target = "directory"
    <3>1. next[c] = StepCount(c) + 1 BY <1>1, <1>3 DEF IInv, Present
    <3>2. 1 \in 1 .. next[c] - 1 BY <3>1, ArgsFacts DEF IInv
    <3>3. entries # {} BY <1>1, <1>3, <3>2 DEF IInv, Present
    <3>4. QED BY <3>3, EntryFacts
  <2>3. QED BY <2>1, <2>2, LateComes DEF StopsAtList
<1>4. CASE pc[c] # "ok"
  <2>1. pc[c] = "write" /\ WriteStep(c) BY <1>4, Moves DEF AllMoved, Moved
  <2>2. pc'[d] = pc[d] BY <1>2, <2>1 DEF WriteStep, At, IInv, TypeOK
  <2>3. Working(c) /\ Working(d) BY <2>1, <2>2 DEF Working
  <2>4. QED BY <1>1, <1>2, <2>3 DEF IInv, Overlap
<1>5. QED BY <1>3, <1>4

LEMMA NoMixedProjectsStep ==
  ASSUME IInv, [Next]_vars
  PROVE  NoMixedProjects'
<1> SUFFICES ASSUME NEW e \in entries', NEW f \in entries',
                    e.by \in Commands, f.by \in Commands, e.by # f.by
    PROVE  {e.by, f.by} \subseteq overlapped'
  BY DEF NoMixedProjects
<1>1. overlapped \subseteq overlapped' BY OverlappedGrows
<1>2. ASSUME NEW g \in entries', g.by \in Commands, g \notin entries PROVE Adds(g.by, g)
  BY <1>2, NewEntries, ScaffoldAssumption DEF OnlyAdded, Adds, UserFile, Entry
<1>3. CASE e \in entries /\ f \in entries BY <1>1, <1>3 DEF IInv, NoMixedProjects
<1>4. CASE e \notin entries /\ f \in entries
  <2>1. pc[e.by] = "write" BY <1>2, <1>4 DEF Adds
  <2>2. QED BY <1>1, <1>4, <2>1 DEF IInv, Strangers
<1>5. CASE e \in entries /\ f \notin entries
  <2>1. pc[f.by] = "write" BY <1>2, <1>5 DEF Adds
  <2>2. QED BY <1>1, <1>5, <2>1 DEF IInv, Strangers
<1>6. CASE e \notin entries /\ f \notin entries
  <2>1. pc[e.by] = "write" /\ pc[f.by] = "write" BY <1>2, <1>6 DEF Adds
  <2>2. QED BY <1>1, <2>1 DEF IInv, Overlap, Working
<1>7. QED BY <1>3, <1>4, <1>5, <1>6

\* Step i of c is done: what Present says of it.
Done(c, i) ==
  \E e \in entries :
    /\ e.name = Steps(args[c])[i].name /\ e.by = c
    /\ e.whole \/ (Source(args[c]) = "path" /\ ~sdk_whole)

\* The step a command writes is done by it alone.
LEMMA StepDone ==
  ASSUME IInv, [Next]_vars, NEW c \in Commands \ overlapped, WriteStep(c),
         NEW i, i = next[c]
  PROVE  Done(c, i)'
<1> DEFINE w == CopyWhole(c)
           new == Entry(Step(c).name, c, w)
<1>1. pc[c] = "write" /\ entries' = EntriesWith(c, Step(c), w) /\ UNCHANGED <<args, sdk_whole>>
  BY DEF WriteStep, At, Others
<1>2. w \in BOOLEAN /\ (w \/ (Source(args[c]) = "path" /\ ~sdk_whole))
  BY DEF CopyWhole, IInv, TypeOK
<1>3. PICK e \in entries' : e.name = Step(c).name /\ (e \in entries \/ e = new)
  <2>1. TypeOK /\ Writers BY DEF IInv
  <2> HIDE DEF w
  <2>2. QED BY <1>1, <1>2, <2>1, EntriesWithFacts
<1>4. e = new
  <2> SUFFICES ASSUME e \in entries PROVE FALSE BY <1>3
  <2>1. Step(c).name # "notes"
    <3>1. next[c] \in 1 .. StepCount(c) BY <1>1, ArgsFacts DEF IInv, Writers
    <3>2. QED BY <3>1, ArgsFacts DEF Step, IInv
  <2>2. e.by # User BY <1>3, <2>1 DEF IInv, AllSpent, Spent, UserFile, Entry
  <2>3. e.by \in Commands BY <2>2, EntryFacts
  <2>4. e.by = c BY <1>1, <2>3 DEF IInv, Strangers
  <2>5. Took(c, Step(c).name) BY <1>1, <1>3, <2>2, <2>4 DEF IInv, AllSpent, Spent
  <2>6. next[c] \in 1 .. StepCount(c) /\ 1 .. next[c] - 1 \subseteq 1 .. StepCount(c)
    BY <1>1, ArgsFacts DEF IInv, Writers
  <2>7. PICK k \in 1 .. next[c] - 1 : Steps(args[c])[k].name = Step(c).name BY <2>5 DEF Took
  <2>8. k = next[c] BY <2>6, <2>7, ArgsFacts DEF Step, IInv
  <2>9. QED BY <2>6, <2>8
<1>5. e.name = Step(c).name /\ e.by = c /\ e.whole = w BY <1>4 DEF Entry
<1> HIDE DEF w
<1>6. \E f \in entries' :
        /\ f.name = Steps(args[c])[next[c]].name /\ f.by = c
        /\ f.whole \/ (Source(args[c]) = "path" /\ ~sdk_whole)
  BY <1>2, <1>3, <1>5 DEF Step
<1>7. QED BY <1>1, <1>6 DEF Done

\* What is done stays done, as long as nobody else is at work.
LEMMA DoneLasts ==
  ASSUME IInv, [Next]_vars, NEW c \in Commands \ overlapped,
         pc[c] \in {"write", "ok"}, pc'[c] \in {"write", "ok"},
         NEW i \in 1 .. next[c] - 1, Done(c, i), i \in 1 .. StepCount(c)
  PROVE  Done(c, i)'
<1>1. PICK e \in entries :
        /\ e.name = Steps(args[c])[i].name /\ e.by = c
        /\ e.whole \/ (Source(args[c]) = "path" /\ ~sdk_whole)
  BY DEF Done
<1>2. e \in entries'
  <2> SUFFICES ASSUME e \notin entries' PROVE FALSE OBVIOUS
  <2>1. PICK d \in Commands :
          pc[d] = "cleanup" \/ (pc[d] = "write" /\ e.name = Step(d).name)
    BY <1>1, GoneEntries DEF OnlyRemoved
  <2>2. d = c BY <2>1 DEF IInv, Overlap, Latecomers, Working
  <2>3. pc[c] = "write" /\ e.name = Step(c).name BY <2>1, <2>2
  <2>4. next[c] \in 1 .. StepCount(c) BY <2>3, ArgsFacts DEF IInv, Writers
  <2>5. i = next[c] BY <1>1, <2>3, <2>4, ArgsFacts DEF Step, IInv
  <2>6. QED BY <2>4, <2>5
<1>3. args' = args /\ (~sdk_whole => ~sdk_whole') BY ArgsKept, SdkStaysApart
<1>4. QED BY <1>1, <1>2, <1>3 DEF Done

LEMMA PresentStep ==
  ASSUME IInv, [Next]_vars
  PROVE  Present'
<1> SUFFICES ASSUME NEW c \in Commands, c \notin overlapped'
    PROVE  /\ pc'[c] = "ok" => next'[c] = StepCount(c)' + 1
           /\ pc'[c] \in {"write", "ok"} => \A i \in 1 .. next'[c] - 1 : Done(c, i)'
  BY DEF Present, Done
<1>1. c \notin overlapped BY OverlappedGrows
<1>2. StepCount(c)' = StepCount(c) BY ArgsKept DEF StepCount
<1>3. Moved(c) BY Moves DEF AllMoved
<1>4. CASE pc[c] = "write" /\ next'[c] = next[c] + 1 /\ WriteStep(c)
  <2>1. next[c] \in 1 .. StepCount(c) /\ pc'[c] \in {"write", "ok"}
    BY <1>4, ArgsFacts DEF IInv, Writers, WriteStep, At, TypeOK
  <2>2. pc'[c] = "ok" => next'[c] = StepCount(c)' + 1
    BY <1>2, <1>4 DEF WriteStep, At, IInv, TypeOK, StepCount
  <2>3. ASSUME NEW i \in 1 .. next'[c] - 1 PROVE Done(c, i)'
    <3>1. CASE i = next[c] BY <1>1, <1>4, <3>1, StepDone
    <3>2. CASE i # next[c]
      <4>1. i \in 1 .. next[c] - 1 /\ i \in 1 .. StepCount(c)
        BY <1>4, <2>1, <3>2, ArgsFacts DEF IInv
      <4>2. Done(c, i) BY <1>1, <1>4, <4>1 DEF IInv, Present, Done
      <4>3. QED BY <1>1, <1>4, <2>1, <4>1, <4>2, DoneLasts
    <3>3. QED BY <3>1, <3>2
  <2>4. QED BY <2>2, <2>3
<1>5. CASE pc'[c] \in {"write", "ok"} /\ pc'[c] = pc[c] /\ next'[c] = next[c]
  <2>1. pc'[c] = "ok" => next'[c] = StepCount(c)' + 1 BY <1>1, <1>2, <1>5 DEF IInv, Present
  <2>2. ASSUME NEW i \in 1 .. next'[c] - 1 PROVE Done(c, i)'
    <3>1. i \in 1 .. next[c] - 1 BY <1>5
    <3>2. Done(c, i) BY <1>1, <1>5, <3>1 DEF IInv, Present, Done
    <3>3. i \in 1 .. StepCount(c)
      <4>1. next[c] - 1 <= StepCount(c) BY <1>1, <1>5, ArgsFacts DEF IInv, Writers, Present
      <4>2. QED BY <3>1, <4>1, ArgsFacts DEF IInv
    <3>4. QED BY <1>1, <1>5, <3>1, <3>2, <3>3, DoneLasts
  <2>3. QED BY <2>1, <2>2
<1>6. CASE next'[c] = next[c] /\ pc[c] \in NotYet /\ pc'[c] = "write"
  BY <1>6 DEF IInv, Writers
<1>7. QED BY <1>3, <1>4, <1>5, <1>6 DEF Moved

LEMMA CleanStep ==
  ASSUME IInv, [Next]_vars, TypeOK', Writers'
  PROVE  Clean'
<1> SUFFICES ASSUME NEW c \in Commands, NEW e \in entries', e.by = c
    PROVE  pc'[c] = "failed" /\ created'[c] => c \in littered'
  BY DEF Clean
<1>1. Moved(c) BY Moves DEF AllMoved
<1>2. e \in entries \/ Adds(c, e)
  BY NewEntries, ScaffoldAssumption DEF OnlyAdded, Adds, UserFile, Entry
<1>3. e \in entries => pc[c] \notin NotYet BY ScaffoldAssumption DEF IInv, AllSpent, Spent
<1>4. pc[c] \notin NotYet BY <1>2, <1>3 DEF Adds, NotYet
<1>5. CASE pc[c] = "failed" /\ c \in littered BY <1>5, FailsAfterCleanup DEF Failed
<1>6. CASE pc[c] = "failed" /\ c \notin littered
  <2>1. e \in entries BY <1>2, <1>6 DEF Adds
  <2>2. ~created[c] BY <1>6, <2>1 DEF IInv, Clean
  <2>3. QED BY <1>1, <1>6, <2>2 DEF Moved
<1>7. CASE pc[c] # "failed" BY <1>4, <1>7, FailsAfterCleanup DEF Failed
<1>8. QED BY <1>5, <1>6, <1>7

LEMMA StandingStep ==
  ASSUME IInv, [Next]_vars
  PROVE  Standing'
<1> USE DEF Standing, IInv, TypeOK, Ended
<1>1. ASSUME NEW c \in Commands, Resolve(c) PROVE Standing'
  BY <1>1 DEF Resolve, At, Directory, Others, History
<1>2. ASSUME NEW c \in Commands, Look(c) PROVE Standing'
  BY <1>2 DEF Look, At, Directory, Others
<1>3. ASSUME NEW c \in Commands, NEW fails \in BOOLEAN, Create(c, fails) PROVE Standing'
  BY <1>3 DEF Create, At, Others, History
<1>4. ASSUME NEW c \in Commands, NEW fails \in BOOLEAN, List(c, fails) PROVE Standing'
  BY <1>4 DEF List, ListRefused, At, Directory, Others, History
<1>5. ASSUME NEW c \in Commands, WriteStep(c) PROVE Standing'
  <2>1. target' = "directory" BY <1>5 DEF WriteStep
  <2>2. QED BY <2>1
<1>6. ASSUME NEW c \in Commands, WriteFails(c) PROVE Standing'
  <2>1. target' = target \/ target' = "directory"
    BY <1>6 DEF WriteFails, Interrupted, Directory
  <2>2. \A d \in Commands : pc'[d] = "write" => pc[d] = "write"
    BY <1>6 DEF WriteFails, AfterFailure, At
  <2>3. overlapped' = overlapped BY <1>6 DEF WriteFails, History
  <2>4. QED BY <2>1, <2>2, <2>3
<1>7. ASSUME NEW c \in Commands, NEW f \in entries, RemoveEntry(c, f) PROVE Standing'
  BY <1>7 DEF RemoveEntry, Others, History
<1>8. ASSUME NEW c \in Commands, RemoveDirectory(c) PROVE Standing'
  <2> SUFFICES ASSUME NEW d \in Commands, d \notin overlapped, pc'[d] = "write" PROVE FALSE
    BY <1>8 DEF RemoveDirectory, History
  <2>1. d # c /\ pc[d] = "write" /\ pc[c] = "cleanup" BY <1>8 DEF RemoveDirectory, At
  <2>2. QED BY <2>1 DEF Overlap, Working
<1>9. ASSUME NEW c \in Commands, RemoveFails(c) PROVE Standing'
  BY <1>9 DEF RemoveFails, At, Directory, Others
<1>10. ASSUME NEW c \in Commands, Killed(c) PROVE Standing'
  <2>1. target' = target \/ target' = "directory"
    BY <1>10 DEF Killed, Interrupted, Directory
  <2>2. \A d \in Commands : pc'[d] = "write" => pc[d] = "write" BY <1>10 DEF Killed, At
  <2>3. overlapped' = overlapped BY <1>10 DEF Killed, History
  <2>4. QED BY <2>1, <2>2, <2>3
<1>11. ASSUME UserWrites PROVE Standing'
  BY <1>11 DEF UserWrites
<1>12. ASSUME SdkTakenApart PROVE Standing'
  BY <1>12 DEF SdkTakenApart
<1>13. ASSUME UNCHANGED vars PROVE Standing'
  BY <1>13 DEF vars
<1>14. QED
  BY <1>1, <1>2, <1>3, <1>4, <1>5, <1>6, <1>7, <1>8, <1>9, <1>10, <1>11, <1>12, <1>13
  DEF Next, Acts

\* A Zig command copies before it writes anything else.
LEMMA CopiedFirst ==
  ASSUME IInv, NEW c \in Commands, CopiesIntoItself(args[c]),
         pc[c] = "write", next[c] = 1, ~StepRefused(c)
  PROVE  args[c].bare /\ c \in overlapped
<1>1. Step(c).name = "vendor"
  BY DEF CopiesIntoItself, Step, Steps, ZigSteps, Tree
<1>2. args[c].bare /\ target = "absent"
  BY <1>1 DEF CopiesIntoItself, StepRefused, Recognised
<1>3. QED BY <1>2 DEF IInv, Standing

LEMMA SelflessStep ==
  ASSUME IInv, [Next]_vars
  PROVE  Selfless'
<1> SUFFICES ASSUME NEW c \in Commands, CopiesIntoItself(args[c]),
                    next'[c] > 1 \/ \E e \in entries' : e.by = c
    PROVE  args[c].bare /\ c \in overlapped'
  BY ArgsKept DEF Selfless
<1>1. overlapped \subseteq overlapped' BY OverlappedGrows
<1>2. CASE next[c] > 1 \/ \E e \in entries : e.by = c
  BY <1>1, <1>2 DEF IInv, Selfless
<1>3. CASE ~(next[c] > 1 \/ \E e \in entries : e.by = c)
  <2>1. next[c] = 1 BY <1>3, ArgsFacts DEF IInv
  <2>2. pc[c] = "write" /\ ~StepRefused(c)
    <3>1. CASE next'[c] > 1
      <4>1. WriteStep(c) /\ pc[c] = "write"
        BY <2>1, <3>1, Moves DEF AllMoved, Moved
      <4>2. QED BY <4>1 DEF WriteStep
    <3>2. CASE \E e \in entries' : e.by = c
      <4>1. PICK e \in entries' : e.by = c BY <3>2
      <4>2. Adds(c, e)
        BY <1>3, <4>1, NewEntries, ScaffoldAssumption DEF OnlyAdded, Adds, UserFile, Entry
      <4>3. QED BY <4>2 DEF Adds
    <3>3. QED BY <3>1, <3>2
  <2>3. QED BY <1>1, <2>1, <2>2, CopiedFirst
<1>4. QED BY <1>2, <1>3

-----------------------------------------------------------------------------
(* The theorems.                                                           *)

LEMMA IInvInit == Init => IInv
<1> SUFFICES ASSUME Init PROVE IInv OBVIOUS
<1>1. TypeOK BY TypeInit
<1>2. \A e \in entries : e = UserFile /\ visited BY DEF Init
<1>3. \A c \in Commands : pc[c] = "resolve" /\ next[c] = 1 /\ before[c] = {} BY DEF Init
<1>4. Writers BY <1>1, <1>3, ArgsFacts DEF Writers
<1>5. AllSpent BY <1>2, <1>3 DEF AllSpent, Spent, UserFile, Entry
<1>6. \A e \in entries : e.by \notin Commands
  BY <1>2, ScaffoldAssumption DEF UserFile, Entry
<1>7. Overlap /\ FoundNothing /\ Strangers /\ Present /\ Latecomers
  BY <1>3, <1>6 DEF Overlap, Working, FoundNothing, Strangers, Present, Latecomers
<1>8. Clean /\ Standing /\ Selfless /\ NoMixedProjects
  BY <1>3, <1>6 DEF Clean, Standing, Selfless, NoMixedProjects
<1>9. QED BY <1>1, <1>4, <1>5, <1>7, <1>8 DEF IInv

LEMMA IInvStep == IInv /\ [Next]_vars => IInv'
<1> SUFFICES ASSUME IInv, [Next]_vars PROVE IInv' OBVIOUS
<1>1. TypeOK' BY TypeStep DEF IInv
<1>2. Writers' BY WritersStep
<1>3. Overlap' /\ AllSpent' /\ FoundNothing' /\ Strangers'
  BY OverlapStep, AllSpentStep, FoundNothingStep, StrangersStep
<1>4. Present' /\ Latecomers' /\ NoMixedProjects'
  BY PresentStep, LatecomersStep, NoMixedProjectsStep
<1>5. Clean' /\ Standing' /\ Selfless' BY <1>1, <1>2, CleanStep, StandingStep, SelflessStep
<1>6. QED BY <1>1, <1>2, <1>3, <1>4, <1>5 DEF IInv

LEMMA IInvAlways == Spec => []IInv
<1>1. QED BY IInvInit, IInvStep, PTL DEF Spec

\* The variables of Scaffold keep their types, whatever commands run, fail,
\* are killed or meet in the directory.
THEOREM TypeCorrect == Spec => []TypeOK
<1>1. IInv => TypeOK BY DEF IInv
<1>2. QED BY <1>1, IInvAlways, PTL

\* A command alone at work that reported success left a whole project, for
\* good: scaffold_project lets nobody in who finds an entry.
THEOREM SuccessIsWholeAlways == Spec => []SuccessIsWhole
<1>1. IInv => SuccessIsWhole
  <2> SUFFICES ASSUME IInv, NEW c \in Commands \ overlapped, pc[c] = "ok",
                      NEW i \in 1 .. Len(Steps(args[c]))
      PROVE  Done(c, i)
    BY DEF SuccessIsWhole, IsWhole, Done
  <2>1. i \in 1 .. StepCount(c) BY DEF StepCount
  <2>2. next[c] = StepCount(c) + 1 BY DEF IInv, Present
  <2>3. i \in 1 .. next[c] - 1 BY <2>1, <2>2, ArgsFacts DEF IInv
  <2>4. QED BY <2>3 DEF IInv, Present, Done
<1>2. QED BY <1>1, IInvAlways, PTL

\* The cleanup of scaffold_project leaves nothing of a failed command, and the
\* order of the steps nothing of one that was to copy the SDK into itself, but
\* where copy_dir_recursive did not recognise the directory for what it is.
THEOREM FailureLeavesNothingAlways == Spec => []FailureLeavesNothing
<1>1. IInv => FailureLeavesNothing
  BY DEF IInv, Clean, Selfless, FailureLeavesNothing
<1>2. QED BY <1>1, IInvAlways, PTL

\* The empty directory is all that keeps two projects apart: commands that
\* were not at work together never both have files in it.
THEOREM NoMixedProjectsAlways == Spec => []NoMixedProjects
<1>1. IInv => NoMixedProjects BY DEF IInv
<1>2. QED BY <1>1, IInvAlways, PTL

LEMMA DirectoryStays ==
  ASSUME IInv, [Next]_vars, target = "directory", target' # "directory"
  PROVE  \E c \in Commands : Working(c) /\ created[c]
<1> DEFINE Goal == \E c \in Commands : Working(c) /\ created[c]
<1> USE DEF IInv, TypeOK, Working
<1>1. ASSUME NEW c \in Commands, Resolve(c) PROVE Goal
  BY <1>1 DEF Resolve, At, Directory, Others, History
<1>2. ASSUME NEW c \in Commands, Look(c) PROVE Goal
  BY <1>2 DEF Look, At, Directory, Others
<1>3. ASSUME NEW c \in Commands, NEW fails \in BOOLEAN, Create(c, fails) PROVE Goal
  BY <1>3 DEF Create, At, Others, History
<1>4. ASSUME NEW c \in Commands, NEW fails \in BOOLEAN, List(c, fails) PROVE Goal
  BY <1>4 DEF List, At, Directory, Others, History
<1>5. ASSUME NEW c \in Commands, WriteStep(c) PROVE Goal
  <2>1. target' = "directory" BY <1>5 DEF WriteStep
  <2>2. QED BY <2>1
<1>6. ASSUME NEW c \in Commands, WriteFails(c) PROVE Goal
  <2>1. target' = target \/ target' = "directory"
    BY <1>6 DEF WriteFails, Interrupted, Directory
  <2>2. QED BY <2>1
<1>7. ASSUME NEW c \in Commands, NEW f \in entries, RemoveEntry(c, f) PROVE Goal
  BY <1>7 DEF RemoveEntry, Others, History
<1>8. ASSUME NEW c \in Commands, RemoveDirectory(c) PROVE Goal
  BY <1>8, <1>8 DEF RemoveDirectory, At, Others, History, FoundNothing
<1>9. ASSUME NEW c \in Commands, RemoveFails(c) PROVE Goal
  BY <1>9 DEF RemoveFails, At, Directory, Others
<1>10. ASSUME NEW c \in Commands, Killed(c) PROVE Goal
  <2>1. target' = target \/ target' = "directory"
    BY <1>10 DEF Killed, Interrupted, Directory
  <2>2. QED BY <2>1
<1>11. ASSUME UserWrites PROVE Goal
  BY <1>11 DEF UserWrites
<1>12. ASSUME SdkTakenApart PROVE Goal
  BY <1>12 DEF SdkTakenApart
<1>13. ASSUME UNCHANGED vars PROVE Goal
  BY <1>13 DEF vars
<1>14. QED
  BY <1>1, <1>2, <1>3, <1>4, <1>5, <1>6, <1>7, <1>8, <1>9, <1>10, <1>11, <1>12, <1>13
  DEF Next, Acts

\* Neither cleaning up nor writing ever harms what a command could have found
\* when it looked, the directory included.
THEOREM OlderEntriesAlwaysLast == Spec => OlderEntriesLast
<1>1. IInv /\ [Next]_vars => [OlderEntriesKept]_vars
  <2> SUFFICES ASSUME IInv, [Next]_vars PROVE OlderEntriesKept OBVIOUS
  <2>1. ASSUME NEW e \in entries \ entries'
        PROVE  \E c \in Commands : Working(c) /\ e \notin before[c]
    <3>1. PICK c \in Commands : pc[c] \in {"cleanup", "write"}
      BY GoneEntries DEF OnlyRemoved
    <3>2. QED BY <3>1 DEF IInv, FoundNothing, Working
  <2>2. QED BY <2>1, DirectoryStays DEF OlderEntriesKept
<1>2. QED BY <1>1, IInvAlways, PTL DEF Spec, OlderEntriesLast

===============================================================================
