------------------------------ MODULE AuthStatus ------------------------------
(***************************************************************************)
(* auth_profile_status (runner/auth_provider.rs) beside http_fetch: a pack *)
(* asks whether a profile is available for a target, and fetches with it   *)
(* if it is.  The two have gates of their own, in an order of their own;   *)
(* a request of FetchBroker stands for the status request that names the   *)
(* same profile and the same target.                                       *)
(*                                                                         *)
(* A call is answered in one step and changes nothing but the budget,      *)
(* which Invocation pays, so it is an operator.  "Fault:" is read as in    *)
(* FetchBroker.                                                            *)
(***************************************************************************)
EXTENDS FetchBroker

\* Fault: an empty url counts as a url.
StatusModeRefusedOnEmptyUrl(m, r) ==
  \/ r.target \in {"none", "mixed"}
  \/ r.target \in {"url", "refs_with_empty_url"} /\ m.alias
  \/ r.target \in {"refs", "refs_with_empty_url"} /\ ~m.alias

\* url or refs, and which of them the manifest speaks.
StatusModeRefused(m, r) ==
  \/ r.target \in {"none", "mixed"}
  \/ r.target = "url" /\ m.alias
  \/ r.target \in {"refs", "refs_with_empty_url"} /\ ~m.alias

\* The capability, the declared policy ref, and the egress gate of a plain hop.
StatusDenied(m, r) ==
  \/ ~m.auth_profile
  \/ IF r.target = "url" THEN ~r.url.permitted
     ELSE r.refs \notin {"declared", "malformed_endpoint"}

\* handle_status: params are validated before the gates, an endpoint is not
\* validated at all.  A profile of the registry is answered ok and available
\* or not, as it was registered; nobody looks at its secret.
StatusAnswers(m, r) ==
  IF \/ r.profile \in {"none", "malformed"} \/ StatusModeRefused(m, r)
     \/ r.target # "url" /\ r.refs = "malformed_params" THEN {"invalid_request"}
  ELSE IF StatusDenied(m, r) THEN {"policy_denied"}
  ELSE IF r.profile = "unknown" THEN {"auth_unavailable"}
  ELSE {"available", "not_available"}

-----------------------------------------------------------------------------

\* Whatever a fetch with a profile was sent for or answered with, no gate of
\* handle_status refuses the status of that profile for that target, and the
\* registry knows it, though both are decided by other gates, in another order.
\* Whether an ok status then says available is what the profile was registered
\* with, which a fetch never asks.
StatusCoversFetch ==
  HasProfile(request) /\ (sent # << >> \/ answer.code = "ok")
    => StatusAnswers(manifest, request) \subseteq {"available", "not_available"}

=============================================================================
