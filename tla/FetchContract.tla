----------------------------- MODULE FetchContract -----------------------------
(***************************************************************************)
(* What the host promises a pack about one http_fetch, whichever broker    *)
(* answers it and whatever the servers do: at most one answer, and no      *)
(* request after it; a request leaves only for a url of the terms, at most *)
(* Most of them, one if the terms say once; and the code of the answer     *)
(* places the blame.  invalid_request blames the pack, whether or not the  *)
(* manifest grants what it asks; policy_denied blames the manifest of a    *)
(* request that could be understood; neither is answered once a request    *)
(* has left, and every failure after that looks the same.                  *)
(***************************************************************************)
EXTENDS Naturals, Sequences

CONSTANTS
  Urls,
  Most \* requests of one fetch

\* The terms of a fetch.  understood: the request makes sense under this kind
\* of manifest; granted: the manifest declares the capabilities and refs it
\* needs; armed: the profile it names, if any, is there for it.
TermsType ==
  [understood: BOOLEAN, granted: BOOLEAN, armed: BOOLEAN, profile: BOOLEAN,
   once: BOOLEAN, urls: SUBSET Urls, bytes: Nat]

VARIABLES
  terms,
  visited, \* the urls requests left for, in order
  code,    \* of the answer, or "none"
  size     \* bytes of the body delivered

Init ==
  /\ terms \in TermsType
  /\ visited = << >> /\ code = "none" /\ size = 0

Answer(c, n) ==
  /\ code = "none" /\ code' = c /\ size' = n
  /\ UNCHANGED <<terms, visited>>

BlamePack == ~terms.understood /\ Answer("invalid_request", 0)

BlameManifest ==
  /\ terms.understood /\ ~terms.granted
  /\ Answer("policy_denied", 0)

Accepted == terms.understood /\ terms.granted

Visit(u) ==
  /\ Accepted /\ terms.armed /\ code = "none"
  /\ u \in terms.urls
  /\ Len(visited) < IF terms.once THEN 1 ELSE Most
  /\ visited' = Append(visited, u)
  /\ UNCHANGED <<terms, code, size>>

\* One code for every failure of the broker; it only tells a profile was used.
Fail ==
  /\ Accepted
  /\ Answer(IF terms.profile THEN "authenticated_fetch_failed" ELSE "fetch_failed", 0)

\* A broker that asks no server has codes of its own; the mock broker's
\* failures are fetch_failed whether a profile was used or not.
Local(c) ==
  /\ Accepted /\ terms.armed /\ visited = << >>
  /\ Answer(c, 0)

LocalCodes ==
  {"broker_disabled", "no_mock_match", "fetch_failed",
   "ref_mode_not_supported_in_live_runner"}

Deliver(n) ==
  /\ Accepted /\ terms.armed /\ n <= terms.bytes
  /\ Answer("ok", n)

Next ==
  \/ BlamePack \/ BlameManifest \/ Fail
  \/ \E u \in Urls : Visit(u)
  \/ \E c \in LocalCodes : Local(c)
  \/ \E n \in 0 .. terms.bytes : Deliver(n)

vars == <<terms, visited, code, size>>
Spec == Init /\ [][Next]_vars

=============================================================================
