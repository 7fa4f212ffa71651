---------------------------- MODULE MCFetchBroker ----------------------------
(***************************************************************************)
(* Small requests, manifests and urls for model-checking FetchBroker.      *)
(***************************************************************************)
EXTENDS AuthStatus

MCUrls ==
  {[https |-> h, permitted |-> p, secret |-> FALSE] : h, p \in BOOLEAN}
  \cup {[https |-> TRUE, permitted |-> TRUE, secret |-> TRUE]}

\* Every set of capabilities a manifest may declare.
MCManifests ==
  {m \in [http_fetch: BOOLEAN, extended: BOOLEAN, auth_profile: BOOLEAN,
          alias: BOOLEAN, timeout_millis: {3}, max_response_bytes: {3}] :
     m.extended => m.http_fetch}

Plain ==
  [negative_limit |-> FALSE, timeout_millis |-> 0, max_response_bytes |-> 0,
   profile |-> "none", method |-> "GET", body |-> "none", privileged |-> FALSE,
   headers |-> "acceptable", secret |-> "long", omit_browser_context |-> FALSE,
   target |-> "url", refs |-> "declared",
   url |-> [https |-> TRUE, permitted |-> TRUE, secret |-> FALSE]]

\* The requests that differ from a plain GET in what the live broker sees.
MCLiveRequests ==
  {[Plain EXCEPT !.timeout_millis = t, !.max_response_bytes = m, !.profile = p,
                 !.privileged = x, !.secret = s, !.url.https = h] :
     t \in {0, 2}, m \in {0, 2}, p \in {"none", "usable"}, x \in BOOLEAN,
     s \in {"short", "long"}, h \in BOOLEAN}

\* The requests the gates tell apart: the shape, the mode, and the rules that
\* need a capability or a resolved profile.
MCGateRequests ==
  {[Plain EXCEPT !.profile = p, !.method = m, !.body = b, !.privileged = x,
                 !.omit_browser_context = o] :
     p \in {"none", "malformed", "usable"}, m \in {"GET", "POST", "malformed"},
     b \in {"none", "typed", "untyped", "malformed"}, x, o \in BOOLEAN}
  \cup
  {[Plain EXCEPT !.profile = p, !.target = t, !.refs = r, !.negative_limit = n] :
     p \in {"none", "usable"}, n \in BOOLEAN,
     t \in {"none", "url", "mixed", "refs", "refs_with_empty_url"},
     r \in {"malformed_params", "malformed_ref", "malformed_endpoint", "undeclared",
            "declared"}}
  \cup
  {[Plain EXCEPT !.profile = p, !.method = m, !.headers = h, !.url.permitted = u] :
     p \in {"none", "unknown", "unusable", "usable"}, m \in {"GET", "OTHER"},
     h \in {"acceptable", "refused"}, u \in BOOLEAN}

MCRequests == MCLiveRequests \cup MCGateRequests

=============================================================================
