------------------------------ MODULE FetchBroker ------------------------------
(***************************************************************************)
(* One http_fetch of a pack, from the moment its host call is paid for to  *)
(* the answer: HostBroker::handle_fetch (runner/host_broker.rs), the gates *)
(* in their order, and the broker behind them.                             *)
(*                                                                         *)
(*   - The gates look at the request and the manifest only.                *)
(*   - The mock broker answers from the fixtures, in one step.             *)
(*   - The live broker sends a request, may be redirected, and re-runs its *)
(*     egress gate on every hop; all hops share one deadline.  The servers *)
(*     answer whatever they like, whenever they like, or never.            *)
(*                                                                         *)
(* A request is what the gates tell apart, not its text.  An operator      *)
(* commented "Fault:" is the definition after it with a bug this code      *)
(* could have; no definition uses it.                                      *)
(***************************************************************************)
EXTENDS Naturals, Sequences

CONSTANTS
  Manifests, Requests, Urls, \* the ones considered, of the types below
  NoUrl,          \* no Location header, or one that does not join the url
  RedirectLimit,  \* REDIRECT_LIMIT, 5 in the code
  PolicyTimeout,  \* MAX_FETCH_TIMEOUT_MILLIS
  PolicyBytes,    \* MAX_RESPONSE_BYTES
  Chunks,         \* how many bytes one read of a body, or a fixture, has
  MaxClock        \* bound: the clock stops here

\* permitted: an explicit http(s) url without userinfo, whose host is a domain
\* of the manifest; secret: its text holds a secret of the request.
UrlType == [https: BOOLEAN, permitted: BOOLEAN, secret: BOOLEAN]

\* A limit of 0 stands for one the request leaves out, a negative one is a
\* flag; profile is what the registry holds under the name: nothing ("unknown"),
\* or an entry whose secret is usable or not; privileged is an Authorization or
\* X-* header, secret how long its value or the profile's is.  A malformed_ref
\* is one no manifest declares, a malformed_endpoint is beside a declared ref.
RequestType ==
  [negative_limit: BOOLEAN, timeout_millis: Nat, max_response_bytes: Nat,
   profile: {"none", "malformed", "unknown", "unusable", "usable"},
   method: {"GET", "POST", "OTHER", "malformed"},
   body: {"none", "typed", "untyped", "malformed"},
   privileged: BOOLEAN, headers: {"acceptable", "refused"},
   secret: {"empty", "short", "long"},
   omit_browser_context: BOOLEAN,
   target: {"none", "url", "mixed", "refs", "refs_with_empty_url"},
   refs: {"malformed_params", "malformed_ref", "malformed_endpoint", "undeclared",
          "declared"},
   url: Urls]

ManifestType ==
  [http_fetch: BOOLEAN, extended: BOOLEAN, auth_profile: BOOLEAN, alias: BOOLEAN,
   timeout_millis: Nat \ {0}, max_response_bytes: Nat \ {0}]

\* get_auth_header never resolves to an empty secret.
ASSUME FetchAssumption ==
  /\ Urls \subseteq UrlType /\ NoUrl \notin Urls
  /\ Manifests \subseteq ManifestType
  /\ Requests \subseteq RequestType
  /\ \A r \in Requests : r.profile = "usable" => r.secret # "empty"
  /\ RedirectLimit \in Nat
  /\ PolicyTimeout \in Nat \ {0} /\ PolicyBytes \in Nat \ {0}
  /\ Chunks \subseteq Nat \ {0}
  /\ MaxClock \in Nat /\ PolicyTimeout <= MaxClock

VARIABLES
  manifest, broker, \* of the runner
  request,
  phase,     \* "asked", "hop", "waiting", "reading", "answered"
  clock,
  deadline,  \* Instant::now() + effective_timeout, taken once
  url,       \* current_url
  redirects,
  sent,      \* history: the requests that left the machine
  response,  \* of the delivered hop: is its encoding opaque, does it echo
  read,      \* bytes of its body read so far
  answer

vars == <<manifest, broker, request, phase, clock, deadline, url, redirects,
          sent, response, read, answer>>

NoResponse == [opaque |-> FALSE, echoes |-> FALSE]
NoAnswer == [code |-> "none", reveals |-> FALSE, bytes |-> 0]

Init ==
  /\ manifest \in Manifests /\ broker \in {"Mock", "Live", "Disabled"}
  /\ request \in Requests
  /\ phase = "asked"
  /\ clock = 0 /\ deadline = 0
  /\ url = request.url /\ redirects = 0
  /\ sent = << >> /\ response = NoResponse /\ read = 0
  /\ answer = NoAnswer

-----------------------------------------------------------------------------
(* What a request asks for.                                                *)

HasProfile(r) == r.profile # "none"
WantsExtended(r) == r.method = "POST" \/ r.body # "none" \/ r.privileged

\* get_auth_header has none: no entry, or one without a usable secret.
Unresolved(r) == r.profile \in {"unknown", "unusable"}

\* collect_known_secrets leaves nothing out but empty values.
TracksSecrets(r) == (r.privileged \/ HasProfile(r)) /\ r.secret # "empty"

\* Broker-layer failures classify as authenticated when a profile is set.
DenyCode(r) == IF HasProfile(r) THEN "authenticated_fetch_failed" ELSE "fetch_failed"

\* The smallest of the positive limits and the policy's maximum.
Tightened(limit, by) == IF by > 0 /\ by < limit THEN by ELSE limit

EffectiveTimeout ==
  Tightened(Tightened(PolicyTimeout, manifest.timeout_millis), request.timeout_millis)

EffectiveBytes ==
  Tightened(Tightened(PolicyBytes, manifest.max_response_bytes), request.max_response_bytes)

-----------------------------------------------------------------------------
(* The gates of handle_fetch.                                              *)

\* validate_extended_fetch_shape: the auth slug, the method, the body, and
\* what may not be combined with an auth profile.
ShapeRefused(r) ==
  \/ "malformed" \in {r.profile, r.method, r.body}
  \/ r.body # "none" /\ (r.method # "POST" \/ r.body = "untyped")
  \/ HasProfile(r) /\ (WantsExtended(r) \/ r.omit_browser_context)

\* determine_request_mode: a url under a plain manifest, or a pair of
\* well-formed refs the alias manifest declares.
ModeAnswer(m, r) ==
  CASE r.target = "url" /\ ~m.alias -> "ok"
    [] /\ r.target \in {"refs", "refs_with_empty_url"} /\ m.alias
       /\ r.refs \in {"undeclared", "declared"} ->
         IF r.refs = "declared" THEN "ok" ELSE "policy_denied"
    [] OTHER -> "invalid_request"

HeadersRefused(m, r) == r.headers = "refused" \/ (r.privileged /\ ~m.extended)

\* Fault: the egress gate runs on the pack's url and not on the redirects.
HopRefusedFirstOnly(r, u) ==
  /\ redirects = 0
  /\ \/ ~u.permitted
     \/ ~u.https /\ (WantsExtended(r) \/ HasProfile(r))

\* check_hop_target
HopRefused(r, u) ==
  \/ ~u.permitted
  \/ ~u.https /\ (WantsExtended(r) \/ HasProfile(r))

\* Fault: the capabilities are looked at before the request is.
GatedCapabilitiesFirst(m, r) ==
  IF ~m.http_fetch \/ (WantsExtended(r) /\ ~m.extended) THEN "policy_denied"
  ELSE IF r.negative_limit \/ ShapeRefused(r) THEN "invalid_request"
  ELSE IF ModeAnswer(m, r) # "ok" THEN ModeAnswer(m, r)
  ELSE IF \/ HasProfile(r) /\ ~m.auth_profile
          \/ r.method = "OTHER" \/ HeadersRefused(m, r)
          \/ r.target = "url" /\ HopRefused(r, r.url)
          \/ Unresolved(r) THEN DenyCode(r)
  ELSE "dispatch"

\* The gates in the order of the code; "dispatch" is past all of them.
Gated(m, r) ==
  IF r.negative_limit \/ ShapeRefused(r) THEN "invalid_request"
  ELSE IF ModeAnswer(m, r) # "ok" THEN ModeAnswer(m, r)
  ELSE IF ~m.http_fetch \/ (WantsExtended(r) /\ ~m.extended) THEN "policy_denied"
  ELSE IF HasProfile(r) /\ ~m.auth_profile THEN "authenticated_fetch_failed"
  ELSE IF \/ r.method = "OTHER" \/ HeadersRefused(m, r)
          \/ r.target = "url" /\ HopRefused(r, r.url)
          \/ Unresolved(r) THEN DenyCode(r)
  ELSE "dispatch"

-----------------------------------------------------------------------------
(* Answers.                                                                *)

Answered(code, reveals, bytes) ==
  /\ phase' = "answered"
  /\ answer' = [code |-> code, reveals |-> reveals, bytes |-> bytes]

Failed(code) == Answered(code, FALSE, 0)

\* Fault: the final url is reported as it was spelled.
UnredactedReveals(u) == u.secret

\* redact_sensitive takes the tracked secrets out of the url reported; a
\* ref-mode answer reports none.
FinalUrlReveals(u) ==
  request.target = "url" /\ u.secret /\ ~TracksSecrets(request)

Delivered(u, echoes, bytes) ==
  Answered("ok", FinalUrlReveals(u) \/ echoes, bytes)

Refuse ==
  /\ phase = "asked"
  /\ Gated(manifest, request) # "dispatch"
  /\ Failed(Gated(manifest, request))
  /\ UNCHANGED <<manifest, broker, request, clock, deadline, url, redirects,
                 sent, response, read>>

Dispatched(kind) ==
  /\ phase = "asked" /\ broker = kind
  /\ Gated(manifest, request) = "dispatch"
  /\ UNCHANGED <<manifest, broker, request, clock, redirects, url, sent,
                 response, read>>

Disabled ==
  /\ Dispatched("Disabled")
  /\ Failed("broker_disabled")
  /\ UNCHANGED deadline

\* The first fixture that matches answers, with a body of so many bytes.
MockResolves(bytes, echoes) ==
  /\ Dispatched("Mock")
  /\ echoes => TracksSecrets(request)
  /\ IF bytes > EffectiveBytes \/ echoes
       THEN Failed("fetch_failed")
       ELSE Delivered(request.url, FALSE, bytes)
  /\ UNCHANGED deadline

NoMockMatch ==
  /\ Dispatched("Mock")
  /\ Failed("no_mock_match")
  /\ UNCHANGED deadline

-----------------------------------------------------------------------------
(* The live broker.                                                        *)

\* A ref-mode request has no url; one with an empty url is refused on its
\* first hop instead.
LiveFetch ==
  /\ Dispatched("Live")
  /\ IF request.target = "refs"
       THEN Failed("ref_mode_not_supported_in_live_runner") /\ UNCHANGED deadline
     ELSE IF request.target = "refs_with_empty_url"
       THEN Failed(DenyCode(request)) /\ UNCHANGED deadline
     ELSE /\ phase' = "hop"
          /\ deadline' = clock + EffectiveTimeout
          /\ UNCHANGED answer

\* Fault: every hop gets the whole timeout.
WholeTimeout == EffectiveTimeout

RemainingTime == deadline - clock

\* Fault: the request is sent without a timeout of its own.
SendUntimed ==
  /\ sent' = Append(sent, [url |-> url, at |-> clock, timeout |-> MaxClock + 1])
  /\ phase' = "waiting"
  /\ UNCHANGED answer

Send ==
  /\ sent' = Append(sent, [url |-> url, at |-> clock, timeout |-> RemainingTime])
  /\ phase' = "waiting"
  /\ UNCHANGED answer

\* One turn of the loop: the egress gate, the deadline, and the request, which
\* the resolver stops when the host has an address that is not public.
Hop(public) ==
  /\ phase = "hop"
  /\ IF HopRefused(request, url) \/ clock >= deadline \/ ~public
       THEN Failed(DenyCode(request)) /\ UNCHANGED sent
       ELSE Send
  /\ UNCHANGED <<manifest, broker, request, clock, deadline, url, redirects,
                 response, read>>

\* Fault: the redirects are compared with the limit after one more.
RedirectRefusedLate(location) ==
  \/ WantsExtended(request) \/ location = NoUrl
  \/ redirects > RedirectLimit

RedirectRefused(location) ==
  \/ WantsExtended(request) \/ location = NoUrl
  \/ redirects >= RedirectLimit

\* classify_response on a redirect status.
ServerRedirects(location) ==
  /\ phase = "waiting"
  /\ IF RedirectRefused(location)
       THEN Failed(DenyCode(request)) /\ UNCHANGED <<url, redirects>>
       ELSE /\ phase' = "hop"
            /\ url' = location /\ redirects' = redirects + 1
            /\ UNCHANGED answer
  /\ UNCHANGED <<manifest, broker, request, clock, deadline, sent, response, read>>

\* Any other status is delivered, once its body has been read.
ServerResponds(opaque, echoes) ==
  /\ phase = "waiting"
  /\ echoes => TracksSecrets(request)
  /\ phase' = "reading"
  /\ response' = [opaque |-> opaque, echoes |-> echoes]
  /\ UNCHANGED <<manifest, broker, request, clock, deadline, url, redirects,
                 sent, read, answer>>

\* Fault: the cap is compared before the chunk is counted.
OversizedLate(bytes) == read > EffectiveBytes

Oversized(bytes) == read + bytes > EffectiveBytes

ReadChunk(bytes) ==
  /\ phase = "reading"
  /\ IF Oversized(bytes)
       THEN Failed(DenyCode(request)) /\ UNCHANGED read
       ELSE read' = read + bytes /\ UNCHANGED <<phase, answer>>
  /\ UNCHANGED <<manifest, broker, request, clock, deadline, url, redirects,
                 sent, response>>

ReadEnds ==
  /\ phase = "reading"
  /\ IF (read > 0 /\ response.opaque) \/ response.echoes
       THEN Failed(DenyCode(request))
       ELSE Delivered(url, response.echoes, read)
  /\ UNCHANGED <<manifest, broker, request, clock, deadline, url, redirects,
                 sent, response, read>>

\* When the transport gives the request in flight up (ureq's overall timeout).
Expiry == sent[Len(sent)].at + sent[Len(sent)].timeout

TransportFails ==
  /\ phase \in {"waiting", "reading"}
  /\ Failed(DenyCode(request))
  /\ UNCHANGED <<manifest, broker, request, clock, deadline, url, redirects,
                 sent, response, read>>

TransportTimesOut ==
  /\ phase \in {"waiting", "reading"} /\ clock >= Expiry
  /\ TransportFails

Tick ==
  /\ phase \in {"hop", "waiting", "reading"}
  /\ clock < MaxClock
  /\ phase # "hop" => clock < Expiry
  /\ clock' = clock + 1
  /\ UNCHANGED <<manifest, broker, request, phase, deadline, url, redirects,
                 sent, response, read, answer>>

-----------------------------------------------------------------------------

Handles ==
  \/ Refuse \/ Disabled \/ NoMockMatch
  \/ \E bytes \in {0} \cup Chunks, echoes \in BOOLEAN : MockResolves(bytes, echoes)
  \/ LiveFetch
  \/ \E public \in BOOLEAN : Hop(public)

Servers ==
  \/ \E location \in Urls \cup {NoUrl} : ServerRedirects(location)
  \/ \E opaque, echoes \in BOOLEAN : ServerResponds(opaque, echoes)
  \/ \E bytes \in Chunks : ReadChunk(bytes)
  \/ ReadEnds \/ TransportFails

Next == Handles \/ Servers \/ TransportTimesOut \/ Tick

(***************************************************************************)
(* Fairness: the host runs its own steps, time passes, and the transport   *)
(* gives up when its timeout is over.  Nothing is assumed of the servers.  *)
(***************************************************************************)
Spec ==
  /\ Init /\ [][Next]_vars
  /\ WF_vars(Handles) /\ WF_vars(Tick) /\ WF_vars(TransportTimesOut)

-----------------------------------------------------------------------------
(* Properties.                                                             *)

Codes ==
  {"none", "ok", "invalid_request", "policy_denied", "fetch_failed",
   "authenticated_fetch_failed", "broker_disabled", "no_mock_match",
   "ref_mode_not_supported_in_live_runner"}

\* Every variable holds a value of the type its Rust counterpart has.
TypeOK ==
  /\ manifest \in Manifests /\ broker \in {"Mock", "Live", "Disabled"}
  /\ request \in Requests
  /\ phase \in {"asked", "hop", "waiting", "reading", "answered"}
  /\ clock \in 0 .. MaxClock /\ deadline \in Nat
  /\ url \in Urls /\ redirects \in 0 .. RedirectLimit
  /\ sent \in Seq([url: Urls, at: Nat, timeout: Nat])
  /\ phase \in {"waiting", "reading"} => sent # << >>
  /\ response \in [opaque: BOOLEAN, echoes: BOOLEAN]
  /\ read \in Nat
  /\ answer \in [code: Codes, reveals: BOOLEAN, bytes: Nat]

\* Wherever the redirects lead, a request only ever leaves for a target of
\* the manifest's policy; one that carries a secret, the pack's or a
\* profile's, only leaves over https and under the capability for it, and no
\* request carries both.
SecretsTravelSafely ==
  \A i \in DOMAIN sent :
    /\ sent[i].url.permitted /\ manifest.http_fetch
    /\ HasProfile(request) =>
         sent[i].url.https /\ manifest.auth_profile /\ ~WantsExtended(request)
    /\ WantsExtended(request) => sent[i].url.https /\ manifest.extended

\* All hops together live within one timeout, however many redirects there
\* are: no request is sent, waited for or read after it.
WithinOneTimeout ==
  /\ \A i \in DOMAIN sent : sent[i].at + sent[i].timeout <= EffectiveTimeout
  /\ phase \in {"waiting", "reading"} => clock <= EffectiveTimeout

\* What is delivered fits the limits of the manifest and of the request both.
\* A response that echoes a secret of the request, or whose encoding hides
\* whether it does, is never delivered, not even redacted, and the url the
\* server redirected to shows none.
DeliveredIsClean ==
  answer.code = "ok" =>
    /\ answer.bytes <= manifest.max_response_bytes
    /\ request.max_response_bytes > 0 => answer.bytes <= request.max_response_bytes
    /\ ~response.echoes /\ (answer.bytes > 0 => ~response.opaque)
    /\ TracksSecrets(request) => ~answer.reveals

\* What the manifest grants a request, read off the two and not off the gates.
TermsOf(m, r) ==
  [understood |-> /\ ~r.negative_limit /\ ~ShapeRefused(r)
                  /\ ModeAnswer(m, r) # "invalid_request",
   granted |-> /\ ModeAnswer(m, r) # "policy_denied" /\ m.http_fetch
               /\ WantsExtended(r) => m.extended,
   armed |-> HasProfile(r) => m.auth_profile /\ r.profile = "usable",
   profile |-> HasProfile(r),
   once |-> WantsExtended(r),
   urls |-> {u \in Urls : u.permitted /\ (WantsExtended(r) \/ HasProfile(r) => u.https)},
   bytes |-> Tightened(m.max_response_bytes, r.max_response_bytes)]

Visited == [i \in DOMAIN sent |-> sent[i].url]

Contract == INSTANCE FetchContract WITH
  Most    <- RedirectLimit + 1,
  terms   <- TermsOf(manifest, request),
  visited <- Visited,
  code    <- answer.code,
  size    <- answer.bytes

\* A fetch keeps the contract: the code of its answer places the blame as the
\* error categories of the ABI do, whichever gate, hop or broker ended it;
\* nothing leaves the machine but under the terms, nor after the answer.
KeepsContract == Contract!Spec

\* A fetch is answered even when a server never answers, or never stops.
FetchAnswered == phase = "asked" ~> phase = "answered"

=============================================================================
