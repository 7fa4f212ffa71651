------------------------------- MODULE Fixtures -------------------------------
(***************************************************************************)
(* cargo goaria-pack test (commands/test.rs): it loads the fixtures of a   *)
(* directory into the mock broker, in whatever order the file system lists *)
(* them, runs the operations of the pack on a url of each domain, and says *)
(* whether the pack passed.  The guest is arbitrary: an operation fetches  *)
(* what it likes and ends with any result.                                 *)
(*                                                                         *)
(* The requests are those that got past the gates of FetchBroker, which    *)
(* also says what becomes of a fixture that is too large or holds a secret.*)
(* A live run has servers in place of fixtures: its fetches are left out.  *)
(* An operator commented "Fault:" is the definition after it with a bug    *)
(* this code could have; no definition uses it.                            *)
(***************************************************************************)
EXTENDS Naturals, Sequences, FiniteSets

CONSTANTS
  Requests,       \* the fetches considered, of RequestType
  Urls, NoUrl,    \* a ref-mode request has no url
  Files,          \* the .json files considered
  Content,        \* of each file, of FileType
  Trees,          \* the directories considered, of TreeType
  DomainLists,    \* the domains a manifest may declare
  MaxRefs,        \* bound: MAX_DOWNLOAD_AUTH_REFS_PER_INVOCATION
  NoCount,        \* no count is asserted
  NoRule          \* no rule matches

RequestType == [url: Urls \cup {NoUrl}, id: Nat]

\* covers: the urls the pattern matches, one if it is exact; met: the requests
\* with every field that expect declares, all of them if it declares none;
\* expects_ref: it declares broker_policy_ref or endpoint_ref.
RuleType ==
  [covers: SUBSET Urls, met: SUBSET Requests, expects_ref: BOOLEAN, id: Nat]

PatternFields == {"url", "exact", "prefix", "pattern"}
StatusFields == {"status_code", "status"}
BodyFields == {"json", "body_base64", "body"}
RuleFields == PatternFields \cup StatusFields \cup BodyFields \cup {"headers", "expect"}

\* An entry of a file: its field names, whether each known field has a value
\* that its parser takes, and the rule or the count it stands for.
EntryType ==
  [fields: SUBSET (RuleFields \cup {"assert", "unknown"}), values_parse: BOOLEAN,
   rule: RuleType, count: Nat \cup {NoCount}]

\* parses: it can be read, and is an object or an array.
FileType == [parses: BOOLEAN, entries: Seq(EntryType)]

Places == {"--fixtures", "fixtures", "tests/fixtures"}
TreeType ==
  [Places -> [is: {"absent", "not_a_directory", "directory"}, files: SUBSET Files]]

ASSUME FixturesAssumption ==
  /\ NoUrl \notin Urls
  /\ Requests \subseteq RequestType
  /\ MaxRefs \in Nat /\ NoCount \notin Nat
  /\ Content \in [Files -> FileType]
  /\ Trees \subseteq TreeType
  /\ \A list \in DomainLists : Len(list) \in Nat
  /\ NoRule \notin RuleType

VARIABLES
  live, explicit, \* the arguments --live and --fixtures
  tree, domains,
  pc,        \* "resolve", "load", "abi", "match", "extract", "negative", "ended"
  unread,    \* files read_dir has not returned yet
  file,      \* whose entries are being added, from entry next on
  next,
  rules,     \* of the mock broker
  expected,  \* FixtureAssertions::registered_download_auth_refs
  at,        \* the domain under test
  passed, failed,
  outcome,   \* of the command: "none", "ok", "failed", "error"
  ran,       \* history: the operations that ended, with their results
  fetched    \* history: the fetches, with the rule that answered

vars == <<live, explicit, tree, domains, pc, unread, file, next, rules, expected,
          at, passed, failed, outcome, ran, fetched>>

NoFile == [parses |-> TRUE, entries |-> << >>]

Init ==
  /\ live \in BOOLEAN /\ explicit \in BOOLEAN
  /\ tree \in Trees /\ domains \in DomainLists
  /\ pc = "resolve"
  /\ unread = {} /\ file = NoFile /\ next = 1
  /\ rules = << >> /\ expected = NoCount
  /\ at = 1 /\ passed = 0 /\ failed = 0
  /\ outcome = "none" /\ ran = {} /\ fetched = {}

Arguments == UNCHANGED <<live, explicit, tree, domains>>
Loading == UNCHANGED <<unread, file, next, rules, expected>>
Testing == UNCHANGED <<at, passed, failed, ran, fetched>>

-----------------------------------------------------------------------------
(* Loading the fixtures.                                                   *)

\* The directory that is given, or the first of the two that is there.
Place ==
  IF explicit THEN "--fixtures"
  ELSE IF tree["fixtures"].is # "absent" THEN "fixtures" ELSE "tests/fixtures"

Errs == pc' = "ended" /\ outcome' = "error"
Continues(to) == pc' = to /\ UNCHANGED outcome

\* The manifest and the binary are found, read and accepted, or they are not.
Resolve(accepted) ==
  /\ pc = "resolve"
  /\ IF ~accepted THEN Errs /\ UNCHANGED unread
     ELSE IF live \/ (~explicit /\ tree[Place].is = "absent")
       THEN Continues("abi") /\ UNCHANGED unread
     ELSE IF tree[Place].is # "directory" THEN Errs /\ UNCHANGED unread
     ELSE Continues("load") /\ unread' = tree[Place].files
  /\ Arguments /\ Testing
  /\ UNCHANGED <<file, next, rules, expected>>

EntriesLeft == next <= Len(file.entries)

\* Fault: a file that does not parse is passed over.
FileRefusedNever(f) == FALSE

FileRefused(f) == ~Content[f].parses

OpenFile(f) ==
  /\ pc = "load" /\ ~EntriesLeft
  /\ f \in unread
  /\ unread' = unread \ {f}
  /\ IF FileRefused(f)
       THEN Errs /\ UNCHANGED <<file, next>>
       ELSE file' = Content[f] /\ next' = 1 /\ UNCHANGED <<pc, outcome>>
  /\ Arguments /\ Testing
  /\ UNCHANGED <<rules, expected>>

\* An assertion stands alone; a rule has one pattern, at most one status and
\* at most one body.
EntryRefused(e) ==
  \/ "unknown" \in e.fields \/ ~e.values_parse
  \/ "assert" \in e.fields /\ e.fields # {"assert"}
  \/ "assert" \notin e.fields /\ Cardinality(e.fields \cap PatternFields) # 1
  \/ StatusFields \subseteq e.fields
  \/ Cardinality(e.fields \cap BodyFields) > 1

IsRule(e) == "assert" \notin e.fields

\* Fault: a new rule goes before the older ones.
WithRuleFirst(rule) == <<rule>> \o rules

WithRule(rule) == Append(rules, rule)

\* parse_run_assertions: the last count asserted is the one expected.
ExpectedWith(e) == IF ~IsRule(e) /\ e.count # NoCount THEN e.count ELSE expected

\* add_single_fixture_rule
AddEntry ==
  LET e == file.entries[next]
  IN  /\ pc = "load" /\ EntriesLeft
      /\ next' = next + 1
      /\ IF EntryRefused(e) THEN Errs ELSE UNCHANGED <<pc, outcome>>
      /\ rules' = IF ~EntryRefused(e) /\ IsRule(e) THEN WithRule(e.rule) ELSE rules
      /\ expected' = IF ~EntryRefused(e) THEN ExpectedWith(e) ELSE expected
      /\ Arguments /\ Testing
      /\ UNCHANGED <<unread, file>>

Loaded ==
  /\ pc = "load" /\ ~EntriesLeft /\ unread = {}
  /\ Continues("abi")
  /\ Arguments /\ Loading /\ Testing

-----------------------------------------------------------------------------
(* The tests.                                                              *)

\* matches_request: without a url, only a rule that expects a ref can match.
Matches(rule, q) ==
  /\ IF q.url = NoUrl THEN rule.expects_ref ELSE q.url \in rule.covers
  /\ q \in rule.met

FirstMatch(rs, q) ==
  IF \E i \in DOMAIN rs : Matches(rs[i], q)
    THEN rs[CHOOSE i \in DOMAIN rs :
              Matches(rs[i], q) /\ \A j \in 1 .. i - 1 : ~Matches(rs[j], q)]
    ELSE NoRule

\* The guest fetches during any operation; NoRule answers no_mock_match.
Fetch(q) ==
  /\ pc \in {"abi", "match", "extract", "negative"} /\ ~live
  /\ fetched' = fetched \cup {[request |-> q, rule |-> FirstMatch(rules, q)]}
  /\ Arguments /\ Loading
  /\ UNCHANGED <<pc, at, passed, failed, outcome, ran>>

\* An operation that ended with this result, with so many refs registered.
Ran(op, result, refs) ==
  ran' = ran \cup {[op |-> op, at |-> at, result |-> result, refs |-> refs]}

Counts(passes, failures) ==
  passed' = passed + passes /\ failed' = failed + failures

TestsDomain(i) ==
  /\ at' = i
  /\ pc' = IF i <= Len(domains) THEN "match" ELSE "negative"
  /\ UNCHANGED outcome

Tests(op) == pc = op /\ Arguments /\ Loading /\ UNCHANGED fetched

CheckAbi(result) ==
  /\ Tests("abi")
  /\ Ran("abi", result, 0)
  /\ IF result = "ok" THEN Counts(1, 0) ELSE Counts(0, 1)
  /\ TestsDomain(1)

MatchUrl(result) ==
  /\ Tests("match")
  /\ Ran("match", result, 0)
  /\ IF result = "matched"
       THEN Counts(1, 0) /\ Continues("extract") /\ UNCHANGED at
       ELSE Counts(0, 1) /\ TestsDomain(at + 1)

\* Fault: registering more than asserted is as good.
RefsAcceptedAtLeast(refs) == expected = NoCount \/ refs >= expected

RefsAccepted(refs) == expected = NoCount \/ refs = expected

\* extract_with_registrations
Extract(result, refs) ==
  /\ Tests("extract")
  /\ Ran("extract", result, refs)
  /\ IF result = "error" THEN Counts(0, 1)
     ELSE IF ~RefsAccepted(refs) THEN Counts(1, 1)
     ELSE Counts(IF expected = NoCount THEN 1 ELSE 2, 0)
  /\ TestsDomain(at + 1)

\* The url of a foreign domain, and the result of the command.
MatchForeign(result) ==
  /\ Tests("negative")
  /\ Ran("negative", result, 0)
  /\ IF result = "unmatched" THEN Counts(1, 0) ELSE Counts(0, 1)
  /\ pc' = "ended" /\ UNCHANGED at
  /\ outcome' = IF failed' > 0 THEN "failed" ELSE "ok"

-----------------------------------------------------------------------------

MatchResults == {"matched", "unmatched", "error"}

Loads ==
  \/ \E accepted \in BOOLEAN : Resolve(accepted)
  \/ \E f \in unread : OpenFile(f)
  \/ AddEntry \/ Loaded

Operations ==
  \/ \E q \in Requests : Fetch(q)
  \/ \E result \in {"ok", "error"} : CheckAbi(result)
  \/ \E result \in MatchResults : MatchUrl(result)
  \/ \E result \in {"ok", "error"}, refs \in 0 .. MaxRefs : Extract(result, refs)
  \/ \E result \in MatchResults : MatchForeign(result)

Next == Loads \/ Operations

Spec == Init /\ [][Next]_vars

-----------------------------------------------------------------------------
(* Properties.                                                             *)

\* The files of the directory that is used, none in a live run.
Used ==
  IF live \/ tree[Place].is # "directory" THEN {} ELSE tree[Place].files

Entries(f) ==
  {Content[f].entries[i] : i \in DOMAIN Content[f].entries}

\* Every variable holds a value of the type its Rust counterpart has.
TypeOK ==
  /\ live \in BOOLEAN /\ explicit \in BOOLEAN
  /\ tree \in TreeType /\ domains \in DomainLists
  /\ pc \in {"resolve", "load", "abi", "match", "extract", "negative", "ended"}
  /\ unread \subseteq Files
  /\ file \in FileType /\ next \in Nat \ {0}
  /\ rules \in Seq(RuleType)
  /\ expected \in Nat \cup {NoCount}
  /\ at \in Nat \ {0} /\ passed \in Nat /\ failed \in Nat
  /\ pc \in {"match", "extract"} => at <= Len(domains)
  /\ outcome \in {"none", "ok", "failed", "error"}

Malformed(f) ==
  ~Content[f].parses \/ \E e \in Entries(f) : EntryRefused(e)

\* A mistake in any fixture stops the command before any code of the pack
\* runs, wherever in the listing the file comes: no test passes, or fails,
\* against half of the fixtures.
NothingRunsOnBadFixtures ==
  (\E f \in Used : Malformed(f)) => ran = {} /\ outcome \in {"none", "error"}

Assertions(f) == {e \in Entries(f) : ~IsRule(e)}

Asserted == {e.count : e \in UNION {Assertions(f) : f \in Used}} \ {NoCount}

Passed(op, i, result, refs) ==
  [op |-> op, at |-> i, result |-> result, refs |-> refs] \in ran

\* A command that says ok has seen the pack match and extract every domain and
\* decline the foreign url; when the fixtures agree on one count, wherever it
\* is asserted, each extraction registered just as many refs.
SuccessIsEarned ==
  outcome = "ok" =>
    /\ Passed("abi", 1, "ok", 0)
    /\ Passed("negative", Len(domains) + 1, "unmatched", 0)
    /\ \A i \in 1 .. Len(domains) :
         /\ Passed("match", i, "matched", 0)
         /\ \E refs \in 0 .. MaxRefs :
              /\ Passed("extract", i, "ok", refs)
              /\ \A count \in Asserted : Asserted = {count} => refs = count

\* Entry i of the file is a rule that matches the request, or the first one.
Answers(f, q, i) ==
  /\ IsRule(Content[f].entries[i])
  /\ Matches(Content[f].entries[i].rule, q)

AnswersFirst(f, q, i) ==
  Answers(f, q, i) /\ \A j \in 1 .. i - 1 : ~Answers(f, q, j)

Answering(q) == {f \in Used : \E i \in DOMAIN Content[f].entries : Answers(f, q, i)}

\* The order in which the file system lists the fixtures only matters between
\* files that answer the same request: when one file alone answers it, its
\* first rule that matches does, and when none does, nothing answers.
AnswersNeedNoOrder ==
  \A answer \in fetched :
    LET files == Answering(answer.request)
    IN  /\ files = {} => answer.rule = NoRule
        /\ \A f \in files : \A i \in DOMAIN Content[f].entries :
             files = {f} /\ AnswersFirst(f, answer.request, i)
               => answer.rule = Content[f].entries[i].rule

=============================================================================
