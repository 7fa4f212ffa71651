------------------------------ MODULE MCFixtures ------------------------------
(***************************************************************************)
(* A small instance of Fixtures: two urls and a ref-mode request, and six  *)
(* files that overlap, assert, hold several entries or are malformed.      *)
(***************************************************************************)
EXTENDS Fixtures, TLC

CONSTANTS u1, u2, wide, narrow, refs, counts, recounts, mixed, broken, d1, d2

get1 == [url |-> u1, id |-> 0]
post1 == [url |-> u1, id |-> 1]
get2 == [url |-> u2, id |-> 0]
ref == [url |-> NoUrl, id |-> 0]
MCRequests == {get1, post1, get2, ref}

Rule(id, covers, met, expects_ref) ==
  [fields |-> {"prefix", "status", "json", "expect"}, values_parse |-> TRUE,
   count |-> NoCount,
   rule |-> [covers |-> covers, met |-> met, expects_ref |-> expects_ref, id |-> id]]

Count(count) == [Rule(0, {}, {}, FALSE) EXCEPT !.fields = {"assert"}, !.count = count]

File(entries) == [parses |-> TRUE, entries |-> entries]

MCContent ==
  [f \in {wide, narrow, refs, counts, recounts, mixed, broken} |->
     CASE f = wide -> File(<<Rule(1, {u1, u2}, {get1, get2}, FALSE)>>)
       [] f = narrow -> File(<<Rule(2, {u1}, {post1}, FALSE), Rule(3, {u1}, MCRequests, FALSE)>>)
       [] f = refs -> File(<<Rule(4, {u2}, {ref}, TRUE), Count(1)>>)
       [] f = counts -> File(<<Count(1), Count(NoCount)>>)
       [] f = recounts -> File(<<Count(2)>>)
       [] f = mixed -> File(<<Count(2), [Count(1) EXCEPT !.fields = @ \cup {"url"}]>>)
       [] OTHER -> [parses |-> FALSE, entries |-> << >>]]

Directories ==
  {files \in SUBSET {wide, narrow, refs, counts, recounts} : Cardinality(files) <= 3}
  \cup {{narrow, mixed}, {wide, broken}, {refs, counts, broken}}

Directory(files) == [is |-> "directory", files |-> files]
Nothing == [Directory({}) EXCEPT !.is = "absent"]
PlainFile == [Directory({}) EXCEPT !.is = "not_a_directory"]

Tree(given, direct, nested) ==
  ("--fixtures" :> given) @@ ("fixtures" :> direct) @@ ("tests/fixtures" :> nested)

MCTrees ==
  {Tree(Nothing, Directory(files), Directory({narrow, mixed})) : files \in Directories}
  \cup {Tree(Nothing, PlainFile, Directory({wide})), Tree(PlainFile, Nothing, Nothing),
        Tree(Nothing, Nothing, Directory({wide, recounts})), Tree(Nothing, Nothing, Nothing),
        Tree(Directory({narrow}), Directory({broken}), Nothing)}

MCDomainLists == {<< >>, <<d1>>, <<d1, d2>>}

=============================================================================
