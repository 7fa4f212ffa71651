---------------------------- MODULE FixturesProofs ----------------------------
(***************************************************************************)
(* Proofs about Fixtures.  Both properties speak of a command that runs    *)
(* the pack or has ended, and follow from what loading leaves behind: the  *)
(* invariant says, of every file opened so far, that it was in order and   *)
(* that its assertions were taken in.                                      *)
(***************************************************************************)
EXTENDS Fixtures, TLAPS

Later == {"abi", "match", "extract", "negative"}

\* What a step does not touch: the arguments decide which files are used.
LEMMA UsedStays ==
  ASSUME Arguments
  PROVE  /\ Place' = Place /\ Used' = Used /\ Asserted' = Asserted
         /\ domains' = domains
BY DEF Arguments, Place, Used, Asserted

LEMMA FilesTyped ==
  ASSUME TypeOK
  PROVE  /\ Used \subseteq Files
         /\ tree[Place].files \subseteq Files
         /\ Place \in Places
BY DEF TypeOK, Used, Place, TreeType, Places

-----------------------------------------------------------------------------

\* Every variable holds a value of the type its Rust counterpart has.
THEOREM FixturesTypeCorrect == Spec => []TypeOK
<1>1. Init => TypeOK
  BY FixturesAssumption
  DEF Init, TypeOK, NoFile, FileType
<1>2. TypeOK /\ [Next]_vars => TypeOK'
  <2> SUFFICES ASSUME TypeOK, [Next]_vars PROVE TypeOK'
    OBVIOUS
  <2> USE FixturesAssumption
  <2>1. ASSUME NEW accepted \in BOOLEAN, Resolve(accepted) PROVE TypeOK'
    <3>1. tree[Place].files \subseteq Files
      BY FilesTyped
    <3> QED
      BY <2>1, <3>1 DEF TypeOK, Resolve, Errs, Continues, Arguments, Testing
  <2>2. ASSUME NEW f \in unread, OpenFile(f) PROVE TypeOK'
    <3>1. Content[f] \in FileType
      BY DEF TypeOK
    <3> QED
      BY <2>2, <3>1 DEF TypeOK, OpenFile, Errs, Arguments, Testing
  <2>3. ASSUME AddEntry PROVE TypeOK'
    <3>1. file.entries[next] \in EntryType
      BY <2>3 DEF TypeOK, AddEntry, EntriesLeft, FileType
    <3>2. rules' \in Seq(RuleType)
      BY <2>3, <3>1 DEF TypeOK, AddEntry, EntryType, WithRule
    <3>3. expected' \in Nat \cup {NoCount}
      BY <2>3, <3>1 DEF TypeOK, AddEntry, EntryType, ExpectedWith
    <3> QED
      BY <2>3, <3>2, <3>3 DEF TypeOK, AddEntry, Errs, Arguments, Testing
  <2>4. ASSUME Loaded PROVE TypeOK'
    BY <2>4 DEF TypeOK, Loaded, Continues, Arguments, Loading, Testing
  <2>5. ASSUME NEW q \in Requests, Fetch(q) PROVE TypeOK'
    BY <2>5 DEF TypeOK, Fetch, Arguments, Loading
  <2>6. ASSUME NEW result, CheckAbi(result) PROVE TypeOK'
    BY <2>6 DEF TypeOK, CheckAbi, Tests, Counts, TestsDomain, Arguments, Loading
  <2>7. ASSUME NEW result, MatchUrl(result) PROVE TypeOK'
    BY <2>7
    DEF TypeOK, MatchUrl, Tests, Counts, TestsDomain, Continues, Arguments, Loading
  <2>8. ASSUME NEW result, NEW refs \in 0 .. MaxRefs, Extract(result, refs)
        PROVE  TypeOK'
    BY <2>8 DEF TypeOK, Extract, Tests, Counts, TestsDomain, Arguments, Loading
  <2>9. ASSUME NEW result, MatchForeign(result) PROVE TypeOK'
    BY <2>9 DEF TypeOK, MatchForeign, Tests, Counts, Arguments, Loading
  <2>10. CASE UNCHANGED vars
    BY <2>10 DEF TypeOK, vars
  <2> QED
    BY <2>1, <2>2, <2>3, <2>4, <2>5, <2>6, <2>7, <2>8, <2>9, <2>10
    DEF Next, Loads, Operations
<1> QED
  BY <1>1, <1>2, PTL DEF Spec

-----------------------------------------------------------------------------
(* What loading leaves behind.                                             *)

Opened == Used \ unread

\* The entries of the open file up to the one to be added next.
Done(i) == i < next

\* While it loads, what was opened is in order as far as it was read, and its
\* assertions are taken in; nothing of the pack has run.
InOrder ==
  /\ unread \subseteq Used
  /\ \A f \in Opened :
       /\ Content[f].parses
       /\ \A i \in DOMAIN Content[f].entries :
            (Content[f] = file /\ ~Done(i)) \/ ~EntryRefused(Content[f].entries[i])

TakenIn ==
  \A f \in Opened : \A i \in DOMAIN Content[f].entries :
    LET e == Content[f].entries[i]
    IN  \/ IsRule(e) \/ e.count = NoCount
        \/ Content[f] = file /\ ~Done(i)
        \/ expected # NoCount

\* The open file is one of those opened.
FileOpened == EntriesLeft => \E f \in Opened : Content[f] = file

LoadInv ==
  /\ pc = "load" => InOrder /\ TakenIn /\ FileOpened
  /\ pc \in {"resolve", "load"} =>
       ran = {} /\ failed = 0 /\ at = 1 /\ outcome = "none"
  /\ pc = "resolve" => expected = NoCount /\ file = NoFile /\ next = 1

\* Once it is loaded, every file used is in order, and the count expected is
\* one that a file asserts, if any does.
AllInOrder == \A f \in Used : ~Malformed(f)
Expecting == Asserted = {} \/ expected # NoCount
FromAssertion == expected = NoCount \/ expected \in Asserted

LoadedInv ==
  /\ FromAssertion
  /\ pc \in Later => AllInOrder /\ Expecting
  /\ pc = "ended" => AllInOrder \/ (ran = {} /\ outcome = "error")
  /\ pc \in Later => outcome = "none"

LInv == TypeOK /\ LoadInv /\ LoadedInv

LEMMA OpenedInOrder ==
  ASSUME TypeOK, InOrder, TakenIn, unread = {}, ~EntriesLeft
  PROVE  AllInOrder /\ Expecting
<1> USE FixturesAssumption
<1>1. Opened = Used
  BY DEF Opened
<1>2. \A f \in Used : Content[f] \in FileType
  BY FilesTyped
<1>3. \A f \in Used : Content[f] = file => \A i \in DOMAIN Content[f].entries : Done(i)
  BY <1>2 DEF TypeOK, EntriesLeft, Done, FileType
<1>4. AllInOrder
  BY <1>1, <1>3 DEF InOrder, AllInOrder, Malformed, Entries
<1>5. ASSUME NEW count \in Asserted PROVE expected # NoCount
  <2>1. PICK f \in Used : \E i \in DOMAIN Content[f].entries :
          /\ ~IsRule(Content[f].entries[i])
          /\ Content[f].entries[i].count = count /\ count # NoCount
    BY DEF Asserted, Assertions, Entries
  <2> QED
    BY <1>1, <1>3, <2>1 DEF TakenIn
<1> QED
  BY <1>4, <1>5 DEF Expecting

LEMMA UsedEmpty ==
  ASSUME Used = {}
  PROVE  AllInOrder /\ Asserted = {}
BY DEF AllInOrder, Asserted

-----------------------------------------------------------------------------
(* Each step preserves it.                                                 *)

LEMMA LResolve ==
  ASSUME LInv, NEW accepted \in BOOLEAN, Resolve(accepted)
  PROVE  LoadInv' /\ LoadedInv'
<1> USE DEF LInv
<1>1. /\ Used' = Used /\ Asserted' = Asserted /\ Arguments /\ Testing
      /\ pc = "resolve" /\ expected' = expected /\ file' = file /\ next' = next
      /\ expected = NoCount /\ file = NoFile /\ next = 1
      /\ ran = {} /\ failed = 0 /\ at = 1 /\ outcome = "none"
  BY UsedStays DEF Resolve, LoadInv
<1>2. FromAssertion'
  BY <1>1 DEF FromAssertion
<1>3. CASE Errs
  BY <1>1, <1>2, <1>3 DEF Errs, LoadInv, LoadedInv, Testing, Later
<1>4. CASE Continues("abi") /\ (live \/ tree[Place].is = "absent")
  <2>1. Used = {}
    BY <1>4 DEF Used
  <2>2. AllInOrder' /\ Expecting'
    BY <1>1, <2>1, UsedEmpty DEF AllInOrder, Expecting
  <2> QED
    BY <1>1, <1>2, <1>4, <2>2 DEF Continues, LoadInv, LoadedInv, Testing, Later
<1>5. CASE /\ Continues("load") /\ unread' = tree[Place].files
           /\ ~live /\ tree[Place].is = "directory"
  <2>1. unread' = Used'
    BY <1>1, <1>5 DEF Used
  <2>2. Opened' = {}
    BY <2>1 DEF Opened
  <2>3. InOrder' /\ TakenIn'
    BY <2>1, <2>2 DEF InOrder, TakenIn
  <2>4. ~EntriesLeft'
    BY <1>1 DEF EntriesLeft, NoFile
  <2> QED
    BY <1>1, <1>2, <1>5, <2>3, <2>4
    DEF Continues, LoadInv, LoadedInv, Testing, Later, FileOpened
<1> QED
  BY <1>3, <1>4, <1>5 DEF Resolve

LEMMA LOpenFile ==
  ASSUME LInv, NEW f \in unread, OpenFile(f)
  PROVE  LoadInv' /\ LoadedInv'
<1> USE FixturesAssumption DEF LInv
<1>1. /\ Used' = Used /\ Asserted' = Asserted /\ Arguments /\ Testing
      /\ pc = "load" /\ expected' = expected /\ ~EntriesLeft
      /\ unread' = unread \ {f}
      /\ InOrder /\ TakenIn /\ FromAssertion
      /\ ran = {} /\ failed = 0 /\ at = 1 /\ outcome = "none"
  BY UsedStays DEF OpenFile, LoadInv, LoadedInv
<1>2. FromAssertion'
  BY <1>1 DEF FromAssertion
<1>3. CASE Errs
  BY <1>1, <1>2, <1>3 DEF Errs, LoadInv, LoadedInv, Testing, Later
<1>4. CASE /\ Content[f].parses
           /\ file' = Content[f] /\ next' = 1 /\ UNCHANGED <<pc, outcome>>
  <2>1. Opened' = Opened \cup {f} /\ f \in Used
    BY <1>1 DEF Opened, InOrder
  <2>2. \A g \in Opened : Content[g] \in FileType
    BY FilesTyped DEF Opened
  <2>3. \A g \in Opened : Content[g] = file => \A i \in DOMAIN Content[g].entries : Done(i)
    BY <1>1, <2>2 DEF TypeOK, EntriesLeft, Done, FileType
  <2>4. \A i \in DOMAIN Content[f].entries : ~Done(i)'
    <3>1. Content[f] \in FileType
      BY DEF TypeOK
    <3> QED
      BY <1>4, <3>1 DEF Done, FileType
  <2>5. InOrder'
    BY <1>1, <1>4, <2>1, <2>3, <2>4 DEF InOrder
  <2>6. TakenIn'
    BY <1>1, <1>4, <2>1, <2>3, <2>4 DEF TakenIn
  <2>7. FileOpened'
    BY <1>4, <2>1 DEF FileOpened
  <2> QED
    BY <1>1, <1>2, <1>4, <2>5, <2>6, <2>7 DEF LoadInv, LoadedInv, Testing, Later
<1> QED
  BY <1>3, <1>4 DEF OpenFile, FileRefused

LEMMA LAddEntry ==
  ASSUME LInv, AddEntry
  PROVE  LoadInv' /\ LoadedInv'
<1> USE FixturesAssumption DEF LInv
<1> DEFINE e == file.entries[next]
<1>1. /\ Used' = Used /\ Asserted' = Asserted /\ Arguments /\ Testing
      /\ pc = "load" /\ EntriesLeft /\ next' = next + 1
      /\ unread' = unread /\ file' = file
      /\ InOrder /\ TakenIn /\ FileOpened /\ FromAssertion
      /\ ran = {} /\ failed = 0 /\ at = 1 /\ outcome = "none"
  BY UsedStays DEF AddEntry, LoadInv, LoadedInv
<1>2. PICK g \in Opened : Content[g] = file
  BY <1>1 DEF FileOpened
<1>3. next \in DOMAIN Content[g].entries /\ g \in Used
  BY <1>1, <1>2 DEF TypeOK, EntriesLeft, Opened, FileType
<1>4. /\ expected' # expected => expected' = e.count /\ ~IsRule(e) /\ e.count # NoCount
      /\ ~EntryRefused(e) /\ ~IsRule(e) /\ e.count # NoCount => expected' = e.count
  BY DEF AddEntry, ExpectedWith
<1>5. FromAssertion'
  <2>1. ~IsRule(e) /\ e.count # NoCount => e.count \in Asserted
    BY <1>2, <1>3 DEF Asserted, Assertions, Entries
  <2> QED
    BY <1>1, <1>4, <2>1 DEF FromAssertion
<1>6. CASE EntryRefused(e)
  BY <1>1, <1>5, <1>6 DEF AddEntry, Errs, LoadInv, LoadedInv, Testing, Later
<1>7. CASE ~EntryRefused(e)
  <2>1. Opened' = Opened
    BY <1>1 DEF Opened
  <2>2. \A h \in Opened : Content[h] \in FileType
    BY FilesTyped DEF Opened
  <2>3. \A h \in Opened : \A i \in DOMAIN Content[h].entries :
          Content[h] = file /\ ~Done(i) => i = next \/ ~Done(i)'
    BY <1>1, <2>2 DEF Done, TypeOK, FileType
  <2>4. expected # NoCount => expected' # NoCount
    BY <1>4
  <2>5. InOrder'
    BY <1>1, <1>7, <2>1, <2>3 DEF InOrder
  <2>6. TakenIn'
    <3> SUFFICES ASSUME NEW h \in Opened, NEW i \in DOMAIN Content[h].entries,
                        ~IsRule(Content[h].entries[i]),
                        Content[h].entries[i].count # NoCount,
                        ~(Content[h] = file /\ ~Done(i)')
                 PROVE  expected' # NoCount
      BY <1>1, <2>1 DEF TakenIn
    <3>1. CASE Content[h] = file /\ ~Done(i)
      BY <1>4, <1>7, <2>3, <3>1
    <3>2. CASE expected # NoCount
      BY <2>4, <3>2
    <3> QED
      BY <1>1, <3>1, <3>2 DEF TakenIn
  <2>7. FileOpened' /\ UNCHANGED <<pc, outcome>>
    BY <1>1, <1>2, <1>7, <2>1 DEF FileOpened, AddEntry
  <2> QED
    BY <1>1, <1>5, <2>5, <2>6, <2>7 DEF LoadInv, LoadedInv, Testing, Later
<1> QED
  BY <1>6, <1>7

LEMMA LLoaded ==
  ASSUME LInv, Loaded
  PROVE  LoadInv' /\ LoadedInv'
<1> USE DEF LInv
<1>1. /\ Used' = Used /\ Asserted' = Asserted
      /\ pc' = "abi" /\ outcome' = outcome /\ expected' = expected /\ ran' = ran
      /\ InOrder /\ TakenIn /\ FromAssertion /\ outcome = "none"
      /\ unread = {} /\ ~EntriesLeft
  BY UsedStays DEF Loaded, LoadInv, LoadedInv, Continues, Loading, Testing
<1>2. AllInOrder' /\ Expecting'
  BY <1>1, OpenedInOrder DEF AllInOrder, Expecting
<1> QED
  BY <1>1, <1>2 DEF LoadInv, LoadedInv, FromAssertion

\* The tests leave the fixtures alone.
LEMMA LOperations ==
  ASSUME LInv, pc \in Later, pc' \in Later \cup {"ended"}, Arguments, Loading,
         pc' \in Later => outcome' = outcome
  PROVE  LoadInv' /\ LoadedInv'
<1>1. AllInOrder' /\ Expecting' /\ FromAssertion'
  BY UsedStays
  DEF LInv, LoadedInv, AllInOrder, Expecting, FromAssertion, Loading, Arguments
<1> QED
  BY <1>1 DEF LInv, LoadedInv, LoadInv, Later

-----------------------------------------------------------------------------
(* What the tests have seen.                                               *)

DomainPassed(i) ==
  /\ Passed("match", i, "matched", 0)
  /\ \E refs \in 0 .. MaxRefs :
       /\ Passed("extract", i, "ok", refs)
       /\ \A count \in Asserted : Asserted = {count} => refs = count

AllBefore(i) ==
  Passed("abi", 1, "ok", 0) /\ \A j \in 1 .. i - 1 : DomainPassed(j)

\* As long as nothing failed, everything before the test under way passed.
TestInv ==
  /\ pc = "abi" => at = 1
  /\ pc \in {"match", "extract", "negative"} /\ failed = 0 => AllBefore(at)
  /\ pc = "extract" /\ failed = 0 => Passed("match", at, "matched", 0)
  /\ pc = "negative" => at = Len(domains) + 1
  /\ SuccessIsEarned

EInv == LInv /\ TestInv

LEMMA PassedStays ==
  ASSUME ran \subseteq ran', Asserted' = Asserted
  PROVE  /\ \A op, i, result, refs :
              Passed(op, i, result, refs) => Passed(op, i, result, refs)'
         /\ \A i : DomainPassed(i) => DomainPassed(i)'
         /\ \A i : AllBefore(i) => AllBefore(i)'
BY DEF Passed, DomainPassed, AllBefore

LEMMA CheckAbiTested ==
  ASSUME EInv, NEW result, CheckAbi(result)
  PROVE  TestInv'
<1> USE FixturesAssumption DEF EInv, LInv
<1>1. /\ ran' = ran \cup {[op |-> "abi", at |-> at, result |-> result, refs |-> 0]}
      /\ at' = 1 /\ domains' = domains /\ Asserted' = Asserted /\ at = 1
      /\ pc' \in {"match", "negative"} /\ outcome' = outcome /\ outcome = "none"
      /\ failed' = 0 => result = "ok"
  BY UsedStays
  DEF CheckAbi, Tests, Ran, Counts, TestsDomain, TestInv, LoadedInv, Later, TypeOK
<1>2. result = "ok" => AllBefore(1)'
  BY <1>1 DEF AllBefore, Passed
<1>3. pc' = "negative" => at' = Len(domains) + 1
  <2>1. Len(domains) \in Nat
    BY DEF TypeOK
  <2>2. CheckAbi(result) /\ pc' = "negative" => ~(1 <= Len(domains))
    BY DEF CheckAbi, TestsDomain
  <2> QED
    BY <1>1, <2>1, <2>2
<1> QED
  BY <1>1, <1>2, <1>3 DEF TestInv, SuccessIsEarned

LEMMA MatchUrlTested ==
  ASSUME EInv, NEW result, MatchUrl(result)
  PROVE  TestInv'
<1> USE FixturesAssumption DEF EInv, LInv
<1>1. /\ ran' = ran \cup {[op |-> "match", at |-> at, result |-> result, refs |-> 0]}
      /\ domains' = domains /\ Asserted' = Asserted
      /\ outcome' = outcome /\ outcome = "none" /\ pc = "match"
  BY UsedStays
  DEF MatchUrl, Tests, Ran, TestsDomain, Continues, LoadedInv, Later
<1>2. CASE result = "matched"
  <2>1. pc' = "extract" /\ at' = at /\ failed' = failed
    BY <1>2 DEF MatchUrl, Counts, Continues, TypeOK
  <2>2. Passed("match", at, "matched", 0)'
    BY <1>1, <1>2, <2>1 DEF Passed
  <2>3. PICK i : i = at
    OBVIOUS
  <2>4. failed = 0 => AllBefore(i)'
    BY <1>1, <2>3, PassedStays DEF TestInv
  <2>5. failed' = 0 => AllBefore(at)'
    BY <2>1, <2>3, <2>4
  <2> QED
    BY <1>1, <2>1, <2>2, <2>5 DEF TestInv, SuccessIsEarned
<1>3. CASE result # "matched"
  <2>1. failed' # 0 /\ at' = at + 1 /\ pc' \in {"match", "negative"}
    BY <1>3 DEF MatchUrl, Counts, TestsDomain, TypeOK
  <2>2. pc' = "negative" => at' = Len(domains) + 1
    BY <1>1, <1>3 DEF MatchUrl, TestsDomain, TypeOK
  <2> QED
    BY <1>1, <2>1, <2>2 DEF TestInv, SuccessIsEarned
<1> QED
  BY <1>2, <1>3

LEMMA ExtractTested ==
  ASSUME EInv, NEW result \in {"ok", "error"}, NEW refs \in 0 .. MaxRefs, Extract(result, refs)
  PROVE  TestInv'
<1> USE FixturesAssumption DEF EInv, LInv
<1>1. /\ ran' = ran \cup {[op |-> "extract", at |-> at, result |-> result, refs |-> refs]}
      /\ domains' = domains /\ Asserted' = Asserted
      /\ outcome' = outcome /\ outcome = "none" /\ pc = "extract"
      /\ at' = at + 1 /\ pc' \in {"match", "negative"}
  BY UsedStays DEF Extract, Tests, Ran, TestsDomain, LoadedInv, Later
<1>2. pc' = "negative" => at' = Len(domains) + 1
  BY <1>1 DEF Extract, TestsDomain, TypeOK
<1>3. ASSUME failed' = 0
      PROVE  failed = 0 /\ result = "ok" /\ (expected = NoCount \/ refs = expected)
  BY <1>3 DEF Extract, Counts, RefsAccepted, TypeOK
<1>4. PICK i : i = at
  OBVIOUS
<1>5. ASSUME failed' = 0 PROVE DomainPassed(i)'
  <2>1. Passed("match", at, "matched", 0)
    BY <1>1, <1>3, <1>5 DEF TestInv
  <2>2. ASSUME NEW count \in Asserted, Asserted = {count} PROVE refs = count
    <3>1. expected = count
      BY <1>1, <2>2 DEF LoadedInv, Later, Expecting, FromAssertion
    <3>2. count # NoCount
      BY DEF Asserted
    <3> QED
      BY <1>3, <1>5, <3>1, <3>2
  <2>3. [op |-> "match", at |-> i, result |-> "matched", refs |-> 0] \in ran'
    BY <1>1, <1>4, <2>1 DEF Passed
  <2>4. [op |-> "extract", at |-> i, result |-> "ok", refs |-> refs] \in ran'
    BY <1>1, <1>3, <1>4, <1>5
  <2> QED
    BY <1>1, <2>2, <2>3, <2>4 DEF DomainPassed, Passed
<1>6. ASSUME failed' = 0 PROVE AllBefore(at)'
  <2>1. AllBefore(i)
    BY <1>1, <1>3, <1>4, <1>6 DEF TestInv
  <2>2. AllBefore(i)'
    BY <1>1, <2>1, PassedStays
  <2>3. PICK n : n = i + 1
    OBVIOUS
  <2>4. Passed("abi", 1, "ok", 0)' /\ \A j \in 1 .. i - 1 : DomainPassed(j)'
    BY <2>2 DEF AllBefore
  <2>5. \A j \in 1 .. n - 1 : j \in 1 .. i - 1 \/ j = i
    BY <1>4, <2>3 DEF TypeOK
  <2>6. ASSUME NEW j \in 1 .. n - 1 PROVE DomainPassed(j)'
    <3>1. CASE j = i
      BY <1>5, <1>6, <3>1
    <3>2. CASE j \in 1 .. i - 1
      BY <2>4, <3>2
    <3> QED
      BY <2>5, <3>1, <3>2
  <2>7. AllBefore(n)'
    BY <2>4, <2>6 DEF AllBefore
  <2> QED
    BY <1>1, <1>4, <2>3, <2>7
<1> QED
  BY <1>1, <1>2, <1>6 DEF TestInv, SuccessIsEarned

LEMMA MatchForeignTested ==
  ASSUME EInv, NEW result, MatchForeign(result)
  PROVE  TestInv'
<1> USE FixturesAssumption DEF EInv, LInv
<1>1. /\ ran' = ran \cup {[op |-> "negative", at |-> at, result |-> result, refs |-> 0]}
      /\ domains' = domains /\ Asserted' = Asserted
      /\ pc = "negative" /\ pc' = "ended" /\ at = Len(domains) + 1
  BY UsedStays DEF MatchForeign, Tests, Ran, TestInv
<1>2. outcome' = "ok" => failed = 0 /\ result = "unmatched"
  BY DEF MatchForeign, Counts, TypeOK
<1>3. PICK n : n = Len(domains)
  OBVIOUS
<1>4. ASSUME outcome' = "ok" PROVE AllBefore(n + 1)'
  <2>1. AllBefore(n + 1)
    BY <1>1, <1>2, <1>3, <1>4 DEF TestInv
  <2> QED
    BY <1>1, <2>1, PassedStays
<1>5. ASSUME outcome' = "ok" PROVE Passed("negative", n + 1, "unmatched", 0)'
  BY <1>1, <1>2, <1>3, <1>5 DEF Passed
<1>6. Len(domains)' = n /\ n + 1 - 1 = n
  BY <1>1, <1>3 DEF TypeOK
<1>7. SuccessIsEarned'
  BY <1>4, <1>5, <1>6 DEF SuccessIsEarned, AllBefore, DomainPassed
<1> QED
  BY <1>1, <1>7 DEF TestInv

\* Loading runs nothing.
LEMMA LoadingTested ==
  ASSUME EInv, LInv', Loads
  PROVE  TestInv'
<1>1. /\ Arguments /\ Testing
      /\ pc \in {"resolve", "load"} /\ pc' \in {"load", "abi", "ended"}
  BY DEF Loads, Resolve, OpenFile, AddEntry, Loaded, Errs, Continues
<1>2. at = 1 /\ outcome = "none" /\ outcome' # "ok"
  BY <1>1
  DEF EInv, LInv, LoadInv, Loads, Resolve, OpenFile, AddEntry, Loaded, Errs, Continues
<1> QED
  BY <1>1, <1>2 DEF TestInv, Testing, SuccessIsEarned

LEMMA FetchTested ==
  ASSUME EInv, NEW q, Fetch(q)
  PROVE  TestInv'
<1>1. /\ domains' = domains /\ Asserted' = Asserted
      /\ UNCHANGED <<pc, at, passed, failed, outcome, ran>>
  BY UsedStays DEF Fetch
<1> QED
  BY <1>1
  DEF EInv, TestInv, SuccessIsEarned, AllBefore, DomainPassed, Passed

-----------------------------------------------------------------------------

LEMMA EInvHolds == Spec => []EInv
<1>1. Init /\ TypeOK => EInv
  BY FixturesAssumption
  DEF Init, EInv, LInv, LoadInv, LoadedInv, TestInv, FromAssertion, SuccessIsEarned, Later
<1>2. EInv /\ TypeOK' /\ [Next]_vars => EInv'
  <2> SUFFICES ASSUME EInv, TypeOK', [Next]_vars PROVE EInv'
    OBVIOUS
  <2>1. ASSUME Loads PROVE EInv'
    <3>1. LoadInv' /\ LoadedInv'
      BY <2>1, LResolve, LOpenFile, LAddEntry, LLoaded DEF Loads, EInv
    <3> QED
      BY <2>1, <3>1, LoadingTested DEF EInv, LInv
  <2>2. ASSUME NEW q \in Requests, Fetch(q) PROVE EInv'
    BY <2>2, FetchTested, LOperations DEF EInv, LInv, Fetch, Later
  <2>3. ASSUME NEW result, CheckAbi(result) PROVE EInv'
    BY <2>3, CheckAbiTested, LOperations
    DEF EInv, LInv, CheckAbi, Tests, TestsDomain, Later
  <2>4. ASSUME NEW result, MatchUrl(result) PROVE EInv'
    BY <2>4, MatchUrlTested, LOperations
    DEF EInv, LInv, MatchUrl, Tests, TestsDomain, Continues, Later
  <2>5. ASSUME NEW result \in {"ok", "error"}, NEW refs \in 0 .. MaxRefs,
               Extract(result, refs)
        PROVE  EInv'
    BY <2>5, ExtractTested, LOperations
    DEF EInv, LInv, Extract, Tests, TestsDomain, Later
  <2>6. ASSUME NEW result, MatchForeign(result) PROVE EInv'
    BY <2>6, MatchForeignTested, LOperations
    DEF EInv, LInv, MatchForeign, Tests, Later
  <2>7. CASE UNCHANGED vars
    <3>1. Arguments /\ Loading /\ Testing /\ UNCHANGED <<pc, outcome>>
      BY <2>7 DEF vars, Arguments, Loading, Testing
    <3>2. Used' = Used /\ Asserted' = Asserted /\ domains' = domains
      BY <3>1, UsedStays
    <3>3. LoadInv' /\ LoadedInv'
      BY <3>1, <3>2
      DEF EInv, LInv, LoadInv, LoadedInv, Loading, Testing, InOrder, TakenIn, FileOpened,
          Opened, Done, EntriesLeft, AllInOrder, Expecting, FromAssertion, Later
    <3>4. TestInv'
      BY <3>1, <3>2
      DEF EInv, TestInv, SuccessIsEarned, AllBefore, DomainPassed, Passed, Testing
    <3> QED
      BY <3>3, <3>4 DEF EInv, LInv
  <2> QED
    BY <2>1, <2>2, <2>3, <2>4, <2>5, <2>6, <2>7 DEF Next, Operations
<1> QED
  BY <1>1, <1>2, FixturesTypeCorrect, PTL DEF Spec

\* For every directory and every order of its listing: a mistake in any
\* fixture stops the command before code of the pack runs.
THEOREM MistakesStopTheTests == Spec => []NothingRunsOnBadFixtures
<1>1. EInv => NothingRunsOnBadFixtures
  BY DEF EInv, LInv, TypeOK, LoadInv, LoadedInv, NothingRunsOnBadFixtures, AllInOrder, Later
<1> QED
  BY <1>1, EInvHolds, PTL

\* For every pack, directory and list of domains: a command that says ok has
\* seen what SuccessIsEarned lists.
THEOREM SuccessEarned == Spec => []SuccessIsEarned
<1>1. EInv => SuccessIsEarned
  BY DEF EInv, TestInv
<1> QED
  BY <1>1, EInvHolds, PTL

-----------------------------------------------------------------------------
(* Which rule answers.                                                     *)

MatchesFirst(k, q) ==
  Matches(rules[k], q) /\ \A j \in 1 .. k - 1 : ~Matches(rules[j], q)

Unmatched(q) == \A k \in DOMAIN rules : ~Matches(rules[k], q)

\* FirstMatch chooses the first rule that matches, if there is one.
LEMMA FirstMatchIs ==
  ASSUME TypeOK, NEW q
  PROVE  /\ \A k \in DOMAIN rules : MatchesFirst(k, q) => FirstMatch(rules, q) = rules[k]
         /\ Unmatched(q) => FirstMatch(rules, q) = NoRule
<1>1. DOMAIN rules = 1 .. Len(rules) /\ Len(rules) \in Nat
  BY DEF TypeOK
<1>2. ASSUME NEW k \in DOMAIN rules, MatchesFirst(k, q)
      PROVE  FirstMatch(rules, q) = rules[k]
  <2>1. \A i \in DOMAIN rules :
          Matches(rules[i], q) /\ (\A j \in 1 .. i - 1 : ~Matches(rules[j], q)) => i = k
    <3> SUFFICES ASSUME NEW i \in DOMAIN rules, Matches(rules[i], q),
                        \A j \in 1 .. i - 1 : ~Matches(rules[j], q)
                 PROVE  i = k
      OBVIOUS
    <3>1. ~(i < k)
      BY <1>1, <1>2 DEF MatchesFirst
    <3>2. ~(k < i)
      BY <1>1, <1>2 DEF MatchesFirst
    <3> QED
      BY <1>1, <3>1, <3>2
  <2> QED
    BY <1>2, <2>1 DEF FirstMatch, MatchesFirst
<1>3. ASSUME Unmatched(q) PROVE FirstMatch(rules, q) = NoRule
  BY <1>3 DEF FirstMatch, Unmatched
<1> QED
  BY <1>2, <1>3

RightAnswer(q, rule) ==
  /\ Answering(q) = {} => rule = NoRule
  /\ \A f \in Answering(q) : \A i \in DOMAIN Content[f].entries :
       Answering(q) = {f} /\ AnswersFirst(f, q, i) => rule = Content[f].entries[i].rule

\* Every rule of the broker is one of a file opened.
RulesKnown ==
  \A k \in DOMAIN rules : \E f \in Opened : \E i \in DOMAIN Content[f].entries :
    IsRule(Content[f].entries[i]) /\ rules[k] = Content[f].entries[i].rule

\* The file has not been read up to its entry i.
Ahead(f, i) == f \in Opened => Content[f] = file /\ next <= i

\* When one file alone answers a request, its first rule that matches is the
\* first of the broker's, as soon as it is loaded; before that none matches.
AloneFirst ==
  \A q \in Requests : \A f \in Used : \A i \in DOMAIN Content[f].entries :
    Answering(q) = {f} /\ AnswersFirst(f, q, i) =>
      \/ Unmatched(q) /\ Ahead(f, i)
      \/ \E k \in DOMAIN rules : MatchesFirst(k, q) /\ rules[k] = Content[f].entries[i].rule

OrderInv ==
  /\ pc = "resolve" => rules = << >>
  /\ pc = "load" => RulesKnown /\ AloneFirst
  /\ pc \in Later => \A q \in Requests : RightAnswer(q, FirstMatch(rules, q))
  /\ AnswersNeedNoOrder

\* What was answered stays right: the files used do not change.
LEMMA AnsweredStays ==
  ASSUME AnswersNeedNoOrder, Arguments, fetched' = fetched
  PROVE  AnswersNeedNoOrder'
<1>1. \A q : Answering(q)' = Answering(q)
  BY UsedStays DEF Answering
<1> QED
  BY <1>1 DEF AnswersNeedNoOrder

LEMMA OrderResolve ==
  ASSUME EInv, OrderInv, NEW accepted \in BOOLEAN, Resolve(accepted)
  PROVE  OrderInv'
<1>1. /\ pc = "resolve" /\ rules' = << >> /\ Used' = Used /\ AnswersNeedNoOrder'
      /\ rules = << >>
  BY UsedStays, AnsweredStays DEF Resolve, OrderInv, Testing
<1>2. CASE Errs
  BY <1>1, <1>2 DEF Errs, OrderInv, Later
<1>3. CASE Continues("abi") /\ (live \/ tree[Place].is = "absent")
  <2>1. Used' = {}
    BY <1>1, <1>3 DEF Used
  <2>2. \A q : FirstMatch(rules, q)' = NoRule
    BY <1>1 DEF FirstMatch
  <2>3. \A q : Answering(q)' = {}
    BY <2>1 DEF Answering
  <2> QED
    BY <1>1, <1>3, <2>2, <2>3 DEF OrderInv, Continues, RightAnswer, Later
<1>4. CASE /\ Continues("load") /\ unread' = tree[Place].files
           /\ ~live /\ tree[Place].is = "directory"
  <2>1. Opened' = {}
    BY <1>1, <1>4 DEF Opened, Used
  <2>2. RulesKnown' /\ AloneFirst'
    BY <1>1, <2>1 DEF RulesKnown, AloneFirst, Unmatched, Ahead
  <2> QED
    BY <1>1, <1>4, <2>2 DEF OrderInv, Continues, Later
<1> QED
  BY <1>2, <1>3, <1>4 DEF Resolve

LEMMA OrderOpenFile ==
  ASSUME EInv, OrderInv, NEW g \in unread, OpenFile(g)
  PROVE  OrderInv'
<1>1. /\ pc = "load" /\ ~EntriesLeft /\ unread' = unread \ {g} /\ rules' = rules
      /\ Used' = Used /\ AnswersNeedNoOrder' /\ RulesKnown /\ AloneFirst
  BY UsedStays, AnsweredStays DEF OpenFile, OrderInv, Testing
<1>2. CASE Errs
  BY <1>1, <1>2 DEF Errs, OrderInv, Later
<1>3. CASE file' = Content[g] /\ next' = 1 /\ UNCHANGED <<pc, outcome>>
  <2>1. Opened' = Opened \cup {g}
    BY <1>1 DEF Opened, EInv, LInv, LoadInv, InOrder
  <2>2. RulesKnown'
    BY <1>1, <2>1 DEF RulesKnown
  <2>3. AloneFirst'
    <3> SUFFICES ASSUME NEW q \in Requests, NEW f \in Used, NEW i \in DOMAIN Content[f].entries,
                        Answering(q) = {f}, AnswersFirst(f, q, i)
                 PROVE  \/ Unmatched(q)' /\ Ahead(f, i)'
                        \/ \E k \in DOMAIN rules' :
                             MatchesFirst(k, q)' /\ rules'[k] = Content[f].entries[i].rule
      BY <1>1 DEF AloneFirst, Answering
    <3>1. i \in Nat \ {0} /\ (Content[f] = file => i < next)
      <4>1. Content[f] \in FileType
        BY FilesTyped, FixturesAssumption DEF EInv, LInv
      <4> QED
        BY <1>1, <4>1 DEF FileType, EntriesLeft, EInv, LInv, TypeOK
    <3>2. CASE Unmatched(q) /\ Ahead(f, i)
      <4>1. f \notin Opened
        BY <3>1, <3>2 DEF Ahead, EInv, LInv, TypeOK
      <4> QED
        BY <1>1, <1>3, <2>1, <3>1, <3>2, <4>1 DEF Ahead, Unmatched
    <3>3. CASE \E k \in DOMAIN rules :
                 MatchesFirst(k, q) /\ rules[k] = Content[f].entries[i].rule
      BY <1>1, <3>3 DEF MatchesFirst
    <3> QED
      BY <1>1, <3>2, <3>3 DEF AloneFirst
  <2> QED
    BY <1>1, <1>3, <2>2, <2>3 DEF OrderInv, Later
<1> QED
  BY <1>2, <1>3 DEF OpenFile

LEMMA OrderAddEntry ==
  ASSUME EInv, OrderInv, AddEntry
  PROVE  OrderInv'
<1> USE FixturesAssumption
<1> DEFINE e == file.entries[next]
<1>1. /\ pc = "load" /\ EntriesLeft /\ next' = next + 1 /\ UNCHANGED <<unread, file>>
      /\ Used' = Used /\ Opened' = Opened
      /\ AnswersNeedNoOrder' /\ RulesKnown /\ AloneFirst /\ FileOpened /\ TypeOK
  BY UsedStays, AnsweredStays DEF AddEntry, OrderInv, Testing, Opened, EInv, LInv, LoadInv
<1>2. PICK h \in Opened : Content[h] = file
  BY <1>1 DEF FileOpened
<1>3. next \in DOMAIN Content[h].entries /\ h \in Used
  BY <1>1, <1>2 DEF TypeOK, EntriesLeft, Opened, FileType
<1>4. CASE EntryRefused(e)
  BY <1>1, <1>4 DEF AddEntry, Errs, OrderInv, Later
<1>5. CASE ~EntryRefused(e)
  <2>1. pc' = pc /\ rules' = IF IsRule(e) THEN Append(rules, e.rule) ELSE rules
    BY <1>5 DEF AddEntry, WithRule
  <2>2. /\ rules \in Seq(RuleType) /\ Len(rules) \in Nat
        /\ e.rule \in RuleType
    <3>1. file.entries \in Seq(EntryType) /\ next \in DOMAIN file.entries
      BY <1>1, <1>2, <1>3 DEF TypeOK, FileType
    <3>2. e \in EntryType
      BY <3>1
    <3> QED
      BY <1>1, <3>2 DEF TypeOK, EntryType
  <2> HIDE DEF e
  <2> DEFINE m == Len(rules) + 1
  <2>3. /\ \A k \in DOMAIN rules : k \in DOMAIN rules' /\ rules'[k] = rules[k]
        /\ \A k \in DOMAIN rules' :
             k \in DOMAIN rules \/ (IsRule(e) /\ k = m /\ rules'[k] = e.rule)
        /\ IsRule(e) => m \in DOMAIN rules' /\ rules'[m] = e.rule
        /\ \A j \in 1 .. m - 1 : j \in DOMAIN rules
    <3>1. /\ DOMAIN rules = 1 .. Len(rules)
          /\ DOMAIN Append(rules, e.rule) = 1 .. m
          /\ Append(rules, e.rule)[m] = e.rule
          /\ \A k \in 1 .. Len(rules) : Append(rules, e.rule)[k] = rules[k]
      BY <2>2
    <3> QED
      BY <2>1, <2>2, <3>1
  <2> HIDE DEF m
  <2>4. RulesKnown'
    BY <1>1, <1>2, <1>3, <2>3 DEF RulesKnown, e
  <2>5. AloneFirst'
    <3> SUFFICES ASSUME NEW q \in Requests, NEW f \in Used, NEW i \in DOMAIN Content[f].entries,
                        Answering(q) = {f}, AnswersFirst(f, q, i)
                 PROVE  \/ Unmatched(q)' /\ Ahead(f, i)'
                        \/ \E k \in DOMAIN rules' :
                             MatchesFirst(k, q)' /\ rules'[k] = Content[f].entries[i].rule
      BY <1>1 DEF AloneFirst, Answering
    <3>1. CASE \E k \in DOMAIN rules :
                 MatchesFirst(k, q) /\ rules[k] = Content[f].entries[i].rule
      <4>1. PICK k \in DOMAIN rules :
              MatchesFirst(k, q) /\ rules[k] = Content[f].entries[i].rule
        BY <3>1
      <4>2. \A j \in 1 .. k - 1 : j \in DOMAIN rules
        BY <2>2
      <4> QED
        BY <2>3, <4>1, <4>2 DEF MatchesFirst
    <3>2. CASE Unmatched(q) /\ Ahead(f, i)
      <4>1. i \in Nat /\ next \in Nat /\ next \in 1 .. next
        <5>1. Content[f] \in FileType
          BY <1>1, FilesTyped
        <5> QED
          BY <1>1, <5>1 DEF FileType, TypeOK
      <4>2. CASE IsRule(e) /\ Matches(e.rule, q)
        <5>1. h = f /\ Answers(f, q, next)
          BY <1>2, <1>3, <4>2 DEF Answering, Answers, e
        <5>2. next <= i /\ ~(next < i)
          BY <1>2, <3>2, <4>1, <5>1 DEF Ahead, AnswersFirst, TypeOK
        <5>3. next = i
          BY <4>1, <5>2
        <5>4. PICK k : k = m
          OBVIOUS
        <5>5. e = Content[f].entries[i]
          BY <1>2, <5>1, <5>3 DEF e
        <5>6. MatchesFirst(k, q)'
          BY <2>3, <3>2, <4>2, <5>4 DEF MatchesFirst, Unmatched
        <5> QED
          BY <2>3, <4>2, <5>4, <5>5, <5>6
      <4>3. CASE ~(IsRule(e) /\ Matches(e.rule, q))
        <5>1. Unmatched(q)'
          BY <2>3, <3>2, <4>3 DEF Unmatched
        <5>2. f \in Opened => Content[f] = file /\ next <= i /\ next # i
          BY <3>2, <4>3 DEF Ahead, AnswersFirst, Answers, e
        <5>3. Ahead(f, i)'
          BY <1>1, <4>1, <5>2 DEF Ahead
        <5> QED
          BY <5>1, <5>3
      <4> QED
        BY <4>2, <4>3
    <3> QED
      BY <1>1, <3>1, <3>2 DEF AloneFirst
  <2> QED
    BY <1>1, <2>1, <2>4, <2>5 DEF OrderInv, Later
<1> QED
  BY <1>4, <1>5

\* When everything is read, no file has a rule ahead.
LEMMA OrderLoaded ==
  ASSUME EInv, OrderInv, Loaded
  PROVE  OrderInv'
<1>1. /\ pc = "load" /\ pc' = "abi" /\ ~EntriesLeft /\ unread = {} /\ rules' = rules
      /\ Used' = Used /\ AnswersNeedNoOrder' /\ RulesKnown /\ AloneFirst /\ TypeOK
  BY UsedStays, AnsweredStays
  DEF Loaded, OrderInv, Testing, Loading, Continues, EInv, LInv
<1>2. Opened = Used
  BY <1>1 DEF Opened
<1>3. ASSUME NEW q \in Requests PROVE RightAnswer(q, FirstMatch(rules, q))
  <2>1. CASE Answering(q) = {}
    <3>1. Unmatched(q)
      BY <1>1, <1>2, <2>1 DEF RulesKnown, Unmatched, Answering, Answers
    <3> QED
      BY <1>1, <2>1, <3>1, FirstMatchIs DEF RightAnswer
  <2>2. ASSUME NEW f \in Answering(q), NEW i \in DOMAIN Content[f].entries,
               Answering(q) = {f}, AnswersFirst(f, q, i)
        PROVE  FirstMatch(rules, q) = Content[f].entries[i].rule
    <3>1. f \in Used
      BY DEF Answering
    <3>2. ~Ahead(f, i)
      <4>1. Content[f] \in FileType
        BY <1>1, <3>1, FilesTyped, FixturesAssumption
      <4> QED
        BY <1>1, <1>2, <3>1, <4>1 DEF Ahead, EntriesLeft, FileType, TypeOK
    <3>3. PICK k \in DOMAIN rules :
            MatchesFirst(k, q) /\ rules[k] = Content[f].entries[i].rule
      BY <1>1, <2>2, <3>1, <3>2 DEF AloneFirst
    <3> QED
      BY <1>1, <3>3, FirstMatchIs
  <2> QED
    BY <2>1, <2>2 DEF RightAnswer
<1>4. \A q : Answering(q)' = Answering(q)
  BY <1>1 DEF Answering
<1> QED
  BY <1>1, <1>3, <1>4 DEF OrderInv, RightAnswer, Later

LEMMA OrderFetch ==
  ASSUME OrderInv, NEW q \in Requests, Fetch(q)
  PROVE  OrderInv'
<1>1. \A r : Answering(r)' = Answering(r)
  BY UsedStays DEF Fetch, Answering
<1>2. /\ pc \in Later /\ pc' = pc /\ rules' = rules
      /\ fetched' = fetched \cup {[request |-> q, rule |-> FirstMatch(rules, q)]}
      /\ RightAnswer(q, FirstMatch(rules, q))
  BY DEF Fetch, Loading, OrderInv, Later
<1>3. AnswersNeedNoOrder'
  BY <1>1, <1>2 DEF AnswersNeedNoOrder, OrderInv, RightAnswer
<1> QED
  BY <1>1, <1>2, <1>3 DEF OrderInv, RightAnswer, Later

\* The tests change neither the rules nor what was fetched.
LEMMA OrderTests ==
  ASSUME OrderInv, pc \in Later, pc' \in Later \cup {"ended"}, Arguments, Loading,
         fetched' = fetched
  PROVE  OrderInv'
<1>1. \A q : Answering(q)' = Answering(q)
  BY UsedStays DEF Answering
<1> QED
  BY <1>1, AnsweredStays DEF OrderInv, RightAnswer, Loading, Later

LEMMA OrderInvHolds == Spec => []OrderInv
<1>1. Init => OrderInv
  BY DEF Init, OrderInv, AnswersNeedNoOrder, Later
<1>2. EInv /\ OrderInv /\ [Next]_vars => OrderInv'
  <2> SUFFICES ASSUME EInv, OrderInv, [Next]_vars PROVE OrderInv'
    OBVIOUS
  <2>1. CASE Loads
    BY <2>1, OrderResolve, OrderOpenFile, OrderAddEntry, OrderLoaded DEF Loads
  <2>2. CASE Operations
    <3>1. ASSUME NEW q \in Requests, Fetch(q) PROVE OrderInv'
      BY <3>1, OrderFetch
    <3>2. CASE ~ \E q \in Requests : Fetch(q)
      <4>1. /\ pc \in Later /\ pc' \in Later \cup {"ended"} /\ Arguments /\ Loading
            /\ fetched' = fetched
        BY <2>2, <3>2
        DEF Operations, CheckAbi, MatchUrl, Extract, MatchForeign, Tests, TestsDomain,
            Continues, Later
      <4> QED
        BY <4>1, OrderTests
    <3> QED
      BY <3>1, <3>2
  <2>3. CASE UNCHANGED vars
    <3>1. \A q : Answering(q)' = Answering(q)
      BY <2>3, UsedStays DEF vars, Arguments, Answering
    <3>2. Opened' = Opened /\ UNCHANGED <<pc, rules, fetched, file, next, unread>>
          /\ Used' = Used
      BY <2>3, UsedStays DEF vars, Arguments, Opened
    <3> QED
      BY <3>1, <3>2
      DEF OrderInv, RulesKnown, AloneFirst, Unmatched, Ahead, MatchesFirst, RightAnswer,
          AnswersNeedNoOrder
  <2> QED
    BY <2>1, <2>2, <2>3 DEF Next
<1> QED
  BY <1>1, <1>2, EInvHolds, PTL DEF Spec

\* For every directory and every order of its listing: a request that one
\* file alone answers gets that file's first rule that matches, and one that
\* no file answers gets none.
THEOREM OrderDoesNotMatter == Spec => []AnswersNeedNoOrder
<1>1. OrderInv => AnswersNeedNoOrder
  BY DEF OrderInv
<1> QED
  BY <1>1, OrderInvHolds, PTL

=============================================================================
