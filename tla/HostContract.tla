----------------------------- MODULE HostContract -----------------------------
(***************************************************************************)
(* What the host promises a pack about the imports, whatever the pack does *)
(* and however the calls nest: an invocation is served at most             *)
(* max_host_calls times; a registration is one of those served calls and   *)
(* adds one binding from a new ref to its token, at most MaxPerInvocation  *)
(* of them; no binding is changed while the invocation lasts; a later      *)
(* invocation starts from nothing; and the refs an extraction is accepted  *)
(* with are bindings of that same invocation, none of them a raw token.    *)
(***************************************************************************)
EXTENDS Naturals, Sequences

CONSTANTS MaxHostCalls, MaxPerInvocation, Tokens

VARIABLES
  running,  \* an invocation is being executed
  served,   \* calls served in this invocation
  bindings, \* bindings[r] is the token behind ref r
  accepted  \* the refs of the accepted output

Init ==
  /\ running = FALSE
  /\ served = 0 /\ bindings = << >> /\ accepted = {}

Begin ==
  /\ ~running /\ running' = TRUE
  /\ served' = 0 /\ bindings' = << >> /\ accepted' = {}

\* An operation whose input is refused: nothing is run and nothing accepted.
Refuse ==
  /\ ~running /\ UNCHANGED running
  /\ served' = 0 /\ bindings' = << >> /\ accepted' = {}

ServeCall ==
  /\ running /\ served < MaxHostCalls
  /\ served' = served + 1
  /\ UNCHANGED <<running, bindings, accepted>>

Bind(token) ==
  /\ running /\ served < MaxHostCalls
  /\ Len(bindings) < MaxPerInvocation
  /\ served' = served + 1
  /\ bindings' = Append(bindings, token)
  /\ UNCHANGED <<running, accepted>>

\* The invocation ends, in an error (no ref is accepted) or in an output.
End(refs) ==
  /\ running /\ running' = FALSE
  /\ \A r \in refs : \A s \in DOMAIN bindings : bindings[s] # r
  /\ accepted' = refs
  /\ UNCHANGED <<served, bindings>>

Next ==
  \/ Begin \/ Refuse \/ ServeCall
  \/ \E token \in Tokens : Bind(token)
  \/ \E refs \in SUBSET DOMAIN bindings : End(refs)

vars == <<running, served, bindings, accepted>>
Spec == Init /\ [][Next]_vars

=============================================================================
