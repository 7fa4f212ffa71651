----------------------------- MODULE FetchProofs -----------------------------
(***************************************************************************)
(* Proofs about FetchBroker, for every manifest, request, server and limit.*)
(*                                                                         *)
(* TypeOK is inductive.  The other invariants are conjuncts of, or follow  *)
(* from, inductive ones that say what each phase has behind it: how the    *)
(* requests and redirects count each other (Counted), the one deadline     *)
(* (Timed), the gates passed (Permitted, GatesBehind), the bytes kept      *)
(* (Capped) and the responses delivered (Unechoed).                        *)
(***************************************************************************)
EXTENDS AuthStatus, TLAPS

InFlight == phase \in {"hop", "waiting", "reading"}

\* Where the fetch stands: behind the gates, and how many requests are out.
Counted ==
  /\ phase = "asked" => sent = << >> /\ redirects = 0 /\ clock = 0
  /\ phase = "hop" => Len(sent) = redirects
  /\ phase \in {"waiting", "reading"} => Len(sent) = redirects + 1
  /\ Len(sent) <= redirects + 1
  /\ WantsExtended(request) => redirects = 0

Timed ==
  /\ InFlight => deadline = EffectiveTimeout
  /\ phase \in {"waiting", "reading"} => Expiry = deadline
  /\ WithinOneTimeout

Permitted ==
  /\ InFlight => Gated(manifest, request) = "dispatch"
  /\ SecretsTravelSafely

GatesBehind ==
  InFlight \/ sent # << >> \/ answer.code = "ok"
    => Gated(manifest, request) = "dispatch"

Capped ==
  /\ phase # "answered" => answer.code # "ok"
  /\ read <= EffectiveBytes
  /\ answer.code = "ok" =>
       /\ answer.bytes <= EffectiveBytes
       /\ TracksSecrets(request) => ~answer.reveals

Unechoed ==
  /\ phase \in {"asked", "hop", "waiting"} => response = NoResponse
  /\ answer.code = "ok" =>
       ~response.echoes /\ (answer.bytes > 0 => ~response.opaque)

-----------------------------------------------------------------------------

\* A limit tightened by another is a positive limit no greater than either.
LEMMA TightenedBounds ==
  ASSUME NEW limit \in Nat \ {0}, NEW by \in Nat
  PROVE  /\ Tightened(limit, by) \in Nat \ {0}
         /\ Tightened(limit, by) <= limit
         /\ by > 0 => Tightened(limit, by) <= by
  BY DEF Tightened

\* The effective limits of a fetch obey the manifest and the request.
LEMMA EffectiveLimits ==
  ASSUME manifest \in Manifests, request \in Requests
  PROVE  /\ EffectiveTimeout \in Nat \ {0}
         /\ EffectiveBytes \in Nat \ {0}
         /\ EffectiveBytes <= manifest.max_response_bytes
         /\ request.max_response_bytes > 0
              => EffectiveBytes <= request.max_response_bytes
<1>types. /\ manifest \in ManifestType /\ request \in RequestType
          /\ PolicyTimeout \in Nat \ {0} /\ PolicyBytes \in Nat \ {0}
  BY FetchAssumption
<1>1. /\ manifest.timeout_millis \in Nat \ {0}
      /\ manifest.max_response_bytes \in Nat \ {0}
      /\ request.timeout_millis \in Nat /\ request.max_response_bytes \in Nat
  BY <1>types DEF ManifestType, RequestType
<1>2. /\ Tightened(PolicyTimeout, manifest.timeout_millis) \in Nat \ {0}
      /\ Tightened(PolicyBytes, manifest.max_response_bytes) \in Nat \ {0}
      /\ Tightened(PolicyBytes, manifest.max_response_bytes)
           <= manifest.max_response_bytes
  BY <1>types, <1>1, TightenedBounds
<1>3. EffectiveTimeout \in Nat \ {0}
  BY <1>1, <1>2, TightenedBounds DEF EffectiveTimeout
<1>4. /\ EffectiveBytes \in Nat \ {0}
      /\ EffectiveBytes <= Tightened(PolicyBytes, manifest.max_response_bytes)
      /\ request.max_response_bytes > 0
           => EffectiveBytes <= request.max_response_bytes
  BY <1>1, <1>2, TightenedBounds DEF EffectiveBytes
<1> QED BY <1>1, <1>2, <1>3, <1>4

\* The gates answer one of the codes of the wire, or let the request pass.
LEMMA GatedCodes ==
  ASSUME NEW m, NEW r
  PROVE  Gated(m, r) \in Codes \cup {"dispatch"}
<1>1. ModeAnswer(m, r) \in {"ok", "policy_denied", "invalid_request"}
  BY DEF ModeAnswer
<1> QED BY <1>1 DEF Gated, DenyCode, Codes

\* Appending to the requests sent keeps the earlier ones.
LEMMA SentAppends ==
  ASSUME NEW T, NEW s \in Seq(T), NEW e \in T
  PROVE  /\ Append(s, e) \in Seq(T)
         /\ Append(s, e) # << >>
         /\ Len(Append(s, e)) = Len(s) + 1
         /\ Append(s, e)[Len(s) + 1] = e
         /\ \A i \in DOMAIN Append(s, e) :
              (i \in DOMAIN s /\ Append(s, e)[i] = s[i]) \/ Append(s, e)[i] = e
  OBVIOUS

-----------------------------------------------------------------------------
(* Type correctness.                                                       *)

\* A fetch begins with values of the right types.
LEMMA TypeInit == Init => TypeOK
<1> SUFFICES ASSUME Init PROVE TypeOK
  OBVIOUS
<1>1. request \in RequestType /\ url = request.url
  BY FetchAssumption DEF Init
<1>2. url \in Urls
  BY <1>1 DEF RequestType
<1> QED BY <1>2, FetchAssumption DEF Init, TypeOK, NoResponse, NoAnswer, Codes

AnswerTypes ==
  /\ phase' = "answered"
  /\ answer' \in [code: Codes, reveals: BOOLEAN, bytes: Nat]

\* However a fetch is answered, the answer is one.
LEMMA AnsweredTypes ==
  ASSUME NEW code \in Codes, NEW reveals \in BOOLEAN, NEW bytes \in Nat,
         Answered(code, reveals, bytes)
  PROVE  AnswerTypes
  BY DEF Answered, AnswerTypes

\* A failure of the broker is an answer.
LEMMA FailedTypes ==
  ASSUME Failed(DenyCode(request))
  PROVE  AnswerTypes
<1>1. DenyCode(request) \in Codes
  BY DEF DenyCode, Codes
<1> QED BY <1>1, AnsweredTypes DEF Failed

\* Every step keeps the types.
LEMMA TypeStep == TypeOK /\ [Next]_vars => TypeOK'
<1> SUFFICES ASSUME TypeOK, [Next]_vars PROVE TypeOK'
  OBVIOUS
<1> USE FetchAssumption
<1>codes. DenyCode(request) \in Codes
  BY DEF DenyCode, Codes
<1>1. CASE Refuse
  <2>1. Gated(manifest, request) \in Codes
    BY <1>1, GatedCodes DEF Refuse
  <2> QED BY <1>1, <2>1 DEF Refuse, Failed, Answered, TypeOK
<1>2. CASE Disabled
  BY <1>2 DEF Disabled, Dispatched, Failed, Answered, TypeOK, Codes
<1>3. CASE NoMockMatch
  BY <1>3 DEF NoMockMatch, Dispatched, Failed, Answered, TypeOK, Codes
<1>4. ASSUME NEW bytes \in {0} \cup Chunks, NEW echoes \in BOOLEAN,
             MockResolves(bytes, echoes)
      PROVE  TypeOK'
  <2>1. FinalUrlReveals(request.url) \in BOOLEAN
    BY DEF FinalUrlReveals
  <2>2. bytes \in Nat
    OBVIOUS
  <2>3. ASSUME Failed("fetch_failed") PROVE AnswerTypes
    BY <2>3, AnsweredTypes DEF Failed, Codes
  <2>4. ASSUME Delivered(request.url, FALSE, bytes) PROVE AnswerTypes
    BY <2>1, <2>2, <2>4, AnsweredTypes DEF Delivered, Codes
  <2>5. AnswerTypes
    BY <1>4, <2>3, <2>4 DEF MockResolves
  <2>6. Dispatched("Mock") /\ UNCHANGED deadline
    BY <1>4 DEF MockResolves
  <2> QED BY <2>5, <2>6 DEF Dispatched, AnswerTypes, TypeOK
<1>5. CASE LiveFetch
  <2>1. EffectiveTimeout \in Nat
    BY EffectiveLimits DEF TypeOK
  <2>2. clock + EffectiveTimeout \in Nat
    BY <2>1 DEF TypeOK
  <2>dispatched. Dispatched("Live")
    BY <1>5 DEF LiveFetch
  <2>3. CASE Failed("ref_mode_not_supported_in_live_runner") /\ UNCHANGED deadline
    <3>1. AnswerTypes
      BY <2>3, AnsweredTypes DEF Failed, Codes
    <3> QED BY <2>dispatched, <2>3, <3>1 DEF Dispatched, AnswerTypes, TypeOK
  <2>4. CASE Failed(DenyCode(request)) /\ UNCHANGED deadline
    <3>1. AnswerTypes
      BY <2>4, FailedTypes
    <3> QED BY <2>dispatched, <2>4, <3>1 DEF Dispatched, AnswerTypes, TypeOK
  <2>5. CASE phase' = "hop" /\ deadline' = clock + EffectiveTimeout /\ UNCHANGED answer
    BY <2>dispatched, <2>2, <2>5 DEF Dispatched, TypeOK
  <2> QED BY <1>5, <2>3, <2>4, <2>5 DEF LiveFetch
<1>6. ASSUME NEW public \in BOOLEAN, Hop(public) PROVE TypeOK'
  <2>1. CASE Failed(DenyCode(request)) /\ UNCHANGED sent
    <3>1. AnswerTypes
      BY <2>1, FailedTypes
    <3>2. UNCHANGED <<manifest, broker, request, clock, deadline, url, redirects,
                      response, read>>
      BY <1>6 DEF Hop
    <3> QED BY <2>1, <3>1, <3>2 DEF AnswerTypes, TypeOK
  <2>2. CASE Send /\ clock < deadline
    <3>1. RemainingTime \in Nat
      BY <2>2 DEF RemainingTime, TypeOK
    <3>2. [url |-> url, at |-> clock, timeout |-> RemainingTime]
            \in [url: Urls, at: Nat, timeout: Nat]
      BY <3>1 DEF TypeOK
    <3>3. sent' \in Seq([url: Urls, at: Nat, timeout: Nat]) /\ sent' # << >>
      BY <2>2, <3>2, SentAppends DEF Send, TypeOK
    <3> QED BY <1>6, <2>2, <3>3 DEF Hop, Send, TypeOK
  <2>3. clock \in Nat /\ deadline \in Nat
    BY DEF TypeOK
  <2> QED BY <1>6, <2>1, <2>2, <2>3 DEF Hop
<1>7. ASSUME NEW location \in Urls \cup {NoUrl}, ServerRedirects(location)
      PROVE  TypeOK'
  <2>1. CASE RedirectRefused(location)
    <3>1. AnswerTypes
      BY <1>7, <2>1, FailedTypes DEF ServerRedirects
    <3> QED BY <1>7, <2>1, <3>1 DEF ServerRedirects, AnswerTypes, TypeOK
  <2>2. CASE ~RedirectRefused(location)
    <3>1. url' \in Urls /\ redirects' \in 0 .. RedirectLimit
      BY <1>7, <2>2 DEF ServerRedirects, RedirectRefused, TypeOK
    <3> QED BY <1>7, <2>2, <3>1 DEF ServerRedirects, TypeOK
  <2> QED BY <2>1, <2>2
<1>8. ASSUME NEW opaque \in BOOLEAN, NEW echoes \in BOOLEAN,
             ServerResponds(opaque, echoes)
      PROVE  TypeOK'
  BY <1>8 DEF ServerResponds, TypeOK
<1>9. ASSUME NEW bytes \in Chunks, ReadChunk(bytes) PROVE TypeOK'
  <2>1. CASE Oversized(bytes)
    <3>1. AnswerTypes
      BY <1>9, <2>1, FailedTypes DEF ReadChunk
    <3> QED BY <1>9, <2>1, <3>1 DEF ReadChunk, AnswerTypes, TypeOK
  <2>2. CASE ~Oversized(bytes)
    <3>1. read' \in Nat
      BY <1>9, <2>2 DEF ReadChunk, TypeOK
    <3> QED BY <1>9, <2>2, <3>1 DEF ReadChunk, TypeOK
  <2> QED BY <2>1, <2>2
<1>10. CASE ReadEnds
  <2>1. (FinalUrlReveals(url) \/ response.echoes) \in BOOLEAN
    BY DEF FinalUrlReveals
  <2>2. ASSUME Delivered(url, response.echoes, read) PROVE AnswerTypes
    BY <2>1, <2>2, AnsweredTypes DEF Delivered, Codes, TypeOK
  <2>3. AnswerTypes
    BY <1>10, <2>2, FailedTypes DEF ReadEnds
  <2>4. UNCHANGED <<manifest, broker, request, clock, deadline, url, redirects,
                    sent, response, read>>
    BY <1>10 DEF ReadEnds
  <2> QED BY <2>3, <2>4 DEF AnswerTypes, TypeOK
<1>11. CASE TransportFails
  BY <1>11, <1>codes DEF TransportFails, Failed, Answered, TypeOK
<1>12. CASE TransportTimesOut
  BY <1>11, <1>12 DEF TransportTimesOut
<1>13. CASE Tick
  BY <1>13 DEF Tick, TypeOK
<1>14. CASE UNCHANGED vars
  BY <1>14 DEF vars, TypeOK
<1> QED BY <1>1, <1>2, <1>3, <1>4, <1>5, <1>6, <1>7, <1>8, <1>9, <1>10, <1>11,
           <1>12, <1>13, <1>14 DEF Next, Handles, Servers

\* The variables of a fetch always hold values of their types.
THEOREM FetchTypeCorrect == Spec => []TypeOK
  BY TypeInit, TypeStep, PTL DEF Spec

-----------------------------------------------------------------------------
(* The kinds of steps a fetch takes.                                       *)

Fixed == UNCHANGED <<manifest, request>>

Ends ==
  /\ Fixed /\ phase' = "answered"
  /\ UNCHANGED <<clock, redirects, sent, read>>
  /\ answer'.code = "ok" =>
       /\ InFlight \/ Gated(manifest, request) = "dispatch"
       /\ answer'.bytes <= EffectiveBytes \/ answer'.bytes = read
       /\ TracksSecrets(request) => ~answer'.reveals

Begins ==
  /\ Fixed /\ phase = "asked" /\ phase' = "hop"
  /\ Gated(manifest, request) = "dispatch"
  /\ deadline' = clock + EffectiveTimeout
  /\ UNCHANGED <<clock, redirects, sent, read, answer>>

Sends ==
  /\ Fixed /\ phase = "hop" /\ phase' = "waiting"
  /\ ~HopRefused(request, url) /\ clock < deadline
  /\ sent' = Append(sent, [url |-> url, at |-> clock, timeout |-> RemainingTime])
  /\ UNCHANGED <<clock, deadline, redirects, read, answer>>

Follows ==
  /\ Fixed /\ phase = "waiting" /\ phase' = "hop"
  /\ ~WantsExtended(request) /\ redirects' = redirects + 1
  /\ UNCHANGED <<clock, deadline, sent, read, answer>>

Reads ==
  /\ Fixed /\ phase \in {"waiting", "reading"} /\ phase' = "reading"
  /\ read' = read \/ (read' \in Nat /\ read' <= EffectiveBytes)
  /\ UNCHANGED <<clock, deadline, redirects, sent, answer>>

Waits ==
  /\ Fixed /\ InFlight /\ phase' = phase
  /\ clock' = clock + 1
  /\ phase # "hop" => clock < Expiry
  /\ UNCHANGED <<deadline, redirects, sent, read, answer>>

\* Every step of a fetch is of one of these kinds.
LEMMA StepKinds ==
  ASSUME TypeOK, [Next]_vars
  PROVE  Ends \/ Begins \/ Sends \/ Follows \/ Reads \/ Waits \/ UNCHANGED vars
<1>failed. ASSUME NEW code \in Codes \ {"ok"}, Failed(code),
                  UNCHANGED <<manifest, request, clock, redirects, sent, read>>
           PROVE  Ends
  BY <1>failed DEF Failed, Answered, Ends, Fixed
<1>denied. ASSUME Failed(DenyCode(request)),
                  UNCHANGED <<manifest, request, clock, redirects, sent, read>>
           PROVE  Ends
  <2>1. DenyCode(request) \in Codes \ {"ok"}
    BY DEF DenyCode, Codes
  <2> QED BY <1>denied, <1>failed, <2>1
<1>delivered. ASSUME NEW u, NEW bytes, Delivered(u, FALSE, bytes),
                     bytes <= EffectiveBytes \/ bytes = read,
                     InFlight \/ Gated(manifest, request) = "dispatch",
                     UNCHANGED <<manifest, request, clock, redirects, sent, read>>
              PROVE  Ends
  BY <1>delivered DEF Delivered, Answered, FinalUrlReveals, Ends, Fixed
<1>1. CASE Refuse
  <2>1. Gated(manifest, request) \in Codes \ {"ok"}
    <3>1. ModeAnswer(manifest, request) \in {"ok", "policy_denied", "invalid_request"}
      BY DEF ModeAnswer
    <3> QED BY <1>1, <3>1 DEF Refuse, Gated, DenyCode, Codes
  <2> QED BY <1>1, <1>failed, <2>1 DEF Refuse
<1>2. CASE Disabled
  <2>1. "broker_disabled" \in Codes \ {"ok"}
    BY DEF Codes
  <2> QED BY <1>2, <1>failed, <2>1 DEF Disabled, Dispatched
<1>3. CASE NoMockMatch
  <2>1. "no_mock_match" \in Codes \ {"ok"}
    BY DEF Codes
  <2> QED BY <1>3, <1>failed, <2>1 DEF NoMockMatch, Dispatched
<1>4. ASSUME NEW bytes \in {0} \cup Chunks, NEW echoes \in BOOLEAN,
             MockResolves(bytes, echoes)
      PROVE  Ends
  <2>1. "fetch_failed" \in Codes \ {"ok"}
    BY DEF Codes
  <2>2. UNCHANGED <<manifest, request, clock, redirects, sent, read>>
    BY <1>4 DEF MockResolves, Dispatched
  <2>3. CASE bytes > EffectiveBytes \/ echoes
    BY <1>4, <1>failed, <2>1, <2>2, <2>3 DEF MockResolves
  <2>4. CASE ~(bytes > EffectiveBytes \/ echoes)
    <3>1. bytes <= EffectiveBytes
      BY <2>4, EffectiveLimits, FetchAssumption DEF TypeOK
    <3>2. Gated(manifest, request) = "dispatch"
      BY <1>4 DEF MockResolves, Dispatched
    <3> QED BY <1>4, <1>delivered, <2>2, <2>4, <3>1, <3>2 DEF MockResolves
  <2> QED BY <2>3, <2>4
<1>5. CASE LiveFetch
  <2>1. "ref_mode_not_supported_in_live_runner" \in Codes \ {"ok"}
    BY DEF Codes
  <2>2. Dispatched("Live")
    BY <1>5 DEF LiveFetch
  <2>3. UNCHANGED <<manifest, request, clock, redirects, sent, read>>
    BY <2>2 DEF Dispatched
  <2>4. CASE Failed("ref_mode_not_supported_in_live_runner")
    BY <1>failed, <2>1, <2>3, <2>4
  <2>5. CASE Failed(DenyCode(request))
    BY <1>denied, <2>3, <2>5
  <2>6. CASE phase' = "hop" /\ deadline' = clock + EffectiveTimeout /\ UNCHANGED answer
    BY <2>2, <2>6 DEF Dispatched, Begins, Fixed
  <2> QED BY <1>5, <2>4, <2>5, <2>6 DEF LiveFetch
<1>6. ASSUME NEW public \in BOOLEAN, Hop(public) PROVE Ends \/ Sends
  <2>1. UNCHANGED <<manifest, request, clock, deadline, redirects, read>>
    BY <1>6 DEF Hop
  <2>2. CASE HopRefused(request, url) \/ clock >= deadline \/ ~public
    BY <1>6, <1>denied, <2>1, <2>2 DEF Hop
  <2>3. CASE ~(HopRefused(request, url) \/ clock >= deadline \/ ~public)
    <3>1. clock < deadline /\ ~HopRefused(request, url)
      BY <2>3 DEF TypeOK
    <3> QED BY <1>6, <2>1, <2>3, <3>1 DEF Hop, Send, Sends, Fixed
  <2> QED BY <2>2, <2>3
<1>7. ASSUME NEW location \in Urls \cup {NoUrl}, ServerRedirects(location)
      PROVE  Ends \/ Follows
  <2>1. UNCHANGED <<manifest, request, clock, deadline, sent, read>> /\ phase = "waiting"
    BY <1>7 DEF ServerRedirects
  <2>2. CASE RedirectRefused(location)
    BY <1>7, <1>denied, <2>1, <2>2 DEF ServerRedirects
  <2>3. CASE ~RedirectRefused(location)
    BY <1>7, <2>1, <2>3 DEF ServerRedirects, RedirectRefused, Follows, Fixed
  <2> QED BY <2>2, <2>3
<1>8. ASSUME NEW opaque \in BOOLEAN, NEW echoes \in BOOLEAN,
             ServerResponds(opaque, echoes)
      PROVE  Reads
  BY <1>8 DEF ServerResponds, Reads, Fixed
<1>9. ASSUME NEW bytes \in Chunks, ReadChunk(bytes) PROVE Ends \/ Reads
  <2>1. UNCHANGED <<manifest, request, clock, deadline, redirects, sent>> /\ phase = "reading"
    BY <1>9 DEF ReadChunk
  <2>2. CASE Oversized(bytes)
    BY <1>9, <1>denied, <2>1, <2>2 DEF ReadChunk
  <2>3. CASE ~Oversized(bytes)
    <3>1. bytes \in Nat /\ read \in Nat /\ EffectiveBytes \in Nat
      BY EffectiveLimits, FetchAssumption DEF TypeOK
    <3>2. read' = read + bytes /\ UNCHANGED <<phase, answer>>
      BY <1>9, <2>3 DEF ReadChunk
    <3>3. read' \in Nat /\ read' <= EffectiveBytes
      BY <2>3, <3>1, <3>2 DEF Oversized
    <3> QED BY <2>1, <3>2, <3>3 DEF Reads, Fixed
  <2> QED BY <2>2, <2>3
<1>10. CASE ReadEnds
  <2>1. UNCHANGED <<manifest, request, clock, redirects, sent, read>>
    BY <1>10 DEF ReadEnds
  <2>2. CASE Failed(DenyCode(request))
    BY <1>denied, <2>1, <2>2
  <2>3. CASE Delivered(url, response.echoes, read) /\ ~response.echoes
    BY <1>10, <2>1, <2>3
       DEF ReadEnds, Delivered, Answered, FinalUrlReveals, Ends, Fixed, InFlight
  <2> QED BY <1>10, <2>2, <2>3 DEF ReadEnds
<1>11. CASE TransportFails
  BY <1>11, <1>denied DEF TransportFails
<1>12. CASE TransportTimesOut
  BY <1>11, <1>12 DEF TransportTimesOut
<1>13. CASE Tick
  BY <1>13 DEF Tick, Waits, Fixed, InFlight
<1> QED BY <1>1, <1>2, <1>3, <1>4, <1>5, <1>6, <1>7, <1>8, <1>9, <1>10, <1>11,
           <1>12, <1>13 DEF Next, Handles, Servers

-----------------------------------------------------------------------------
(* Requests and redirects count each other.                                *)

\* A fetch begins with nothing sent.
LEMMA CountedInit == Init => Counted
  BY DEF Init, Counted

\* Every step keeps the count: a request sent or a redirect followed is one
\* more, and an extended fetch follows none.
LEMMA CountedStep == TypeOK /\ Counted /\ [Next]_vars => Counted'
<1> SUFFICES ASSUME TypeOK, Counted, [Next]_vars PROVE Counted'
  OBVIOUS
<1>types. /\ redirects \in Nat /\ Len(sent) \in Nat
          /\ sent \in Seq([url: Urls, at: Nat, timeout: Nat])
          /\ clock \in Nat /\ deadline \in Nat
  BY FetchAssumption DEF TypeOK
<1>fixed. ASSUME Fixed PROVE WantsExtended(request)' = WantsExtended(request)
  BY <1>fixed DEF Fixed, WantsExtended
<1>1. CASE Ends
  BY <1>1, <1>types, <1>fixed DEF Ends, Counted
<1>2. CASE Begins
  BY <1>2, <1>types, <1>fixed DEF Begins, Counted
<1>3. CASE Sends
  <2>1. Len(sent') = Len(sent) + 1
    BY <1>3, <1>types DEF Sends
  <2> QED BY <1>3, <1>types, <1>fixed, <2>1 DEF Sends, Counted
<1>4. CASE Follows
  BY <1>4, <1>types, <1>fixed DEF Follows, Counted
<1>5. CASE Reads
  BY <1>5, <1>types, <1>fixed DEF Reads, Counted
<1>6. CASE Waits
  BY <1>6, <1>types, <1>fixed DEF Waits, InFlight, Counted
<1>7. CASE UNCHANGED vars
  BY <1>7 DEF vars, Counted, WantsExtended
<1> QED BY <1>1, <1>2, <1>3, <1>4, <1>5, <1>6, <1>7, StepKinds

\* A fetch is at most one request and RedirectLimit redirects; an extended
\* one is never repeated to a second host.
HopsBounded ==
  /\ Len(sent) <= RedirectLimit + 1
  /\ WantsExtended(request) => Len(sent) <= 1

\* However a server redirects, a fetch is at most RedirectLimit + 1 requests,
\* and an extended fetch is at most one.
THEOREM FetchIsBounded == Spec => []HopsBounded
<1>1. TypeOK /\ Counted => HopsBounded
  BY FetchAssumption DEF TypeOK, Counted, HopsBounded
<1> QED BY <1>1, TypeInit, TypeStep, CountedInit, CountedStep, PTL DEF Spec

-----------------------------------------------------------------------------
(* What leaves, leaves under the policy.                                   *)

\* A request that passed the gates has the capabilities it needs, and does
\* not carry the pack's secrets and a profile's both.
LEMMA GatesPassed ==
  ASSUME Gated(manifest, request) = "dispatch"
  PROVE  /\ manifest.http_fetch
         /\ WantsExtended(request) => manifest.extended
         /\ HasProfile(request) => manifest.auth_profile /\ ~WantsExtended(request)
<1>1. ModeAnswer(manifest, request) \in {"ok", "policy_denied", "invalid_request"}
  BY DEF ModeAnswer
<1>2. DenyCode(request) # "dispatch"
  BY DEF DenyCode
<1> QED BY <1>1, <1>2 DEF Gated, ShapeRefused

\* A fetch begins with nothing sent.
LEMMA PermittedInit == Init => Permitted
  BY DEF Init, Permitted, InFlight, SecretsTravelSafely

\* Every step keeps the policy: only Hop sends, after its own egress gate.
LEMMA PermittedStep == TypeOK /\ Permitted /\ [Next]_vars => Permitted'
<1> SUFFICES ASSUME TypeOK, Permitted, [Next]_vars PROVE Permitted'
  OBVIOUS
<1>fixed. ASSUME Fixed
          PROVE  /\ WantsExtended(request)' = WantsExtended(request)
                 /\ HasProfile(request)' = HasProfile(request)
                 /\ manifest' = manifest
                 /\ Gated(manifest, request)' = "dispatch"
                      <=> Gated(manifest, request) = "dispatch"
  BY <1>fixed DEF Fixed, WantsExtended, HasProfile, Gated, ShapeRefused, ModeAnswer,
                  HeadersRefused, HopRefused, Unresolved, DenyCode
<1>safe. ASSUME Fixed, UNCHANGED sent PROVE SecretsTravelSafely'
  BY <1>fixed, <1>safe DEF Permitted, SecretsTravelSafely
<1>1. CASE Ends
  BY <1>1, <1>safe DEF Ends, InFlight, Permitted
<1>2. CASE Begins
  BY <1>2, <1>safe, <1>fixed DEF Begins, InFlight, Permitted
<1>3. CASE Sends
  <2>1. Gated(manifest, request) = "dispatch"
    BY <1>3 DEF Sends, InFlight, Permitted
  <2> DEFINE new == [url |-> url, at |-> clock, timeout |-> RemainingTime]
  <2>2. /\ new.url.permitted
        /\ WantsExtended(request) \/ HasProfile(request) => new.url.https
    BY <1>3 DEF Sends, HopRefused
  <2>3. new \in [url: Urls, at: Nat, timeout: Nat]
    BY <1>3 DEF Sends, RemainingTime, TypeOK
  <2>4. \A i \in DOMAIN sent' :
          (i \in DOMAIN sent /\ sent'[i] = sent[i]) \/ sent'[i] = new
    BY <1>3, <2>3, SentAppends DEF Sends, TypeOK
  <2>5. SecretsTravelSafely'
    BY <1>3, <1>fixed, <2>1, <2>2, <2>4, GatesPassed
       DEF Sends, Permitted, SecretsTravelSafely
  <2> QED BY <1>3, <1>fixed, <2>1, <2>5 DEF Sends, Permitted
<1>4. CASE Follows
  BY <1>4, <1>safe, <1>fixed DEF Follows, InFlight, Permitted
<1>5. CASE Reads
  BY <1>5, <1>safe, <1>fixed DEF Reads, InFlight, Permitted
<1>6. CASE Waits
  BY <1>6, <1>safe, <1>fixed DEF Waits, InFlight, Permitted
<1>7. CASE UNCHANGED vars
  BY <1>7, <1>safe, <1>fixed DEF vars, Fixed, InFlight, Permitted
<1> QED BY <1>1, <1>2, <1>3, <1>4, <1>5, <1>6, <1>7, StepKinds

\* Wherever the redirects lead, every request sent is one the manifest's
\* policy allows, and a secret only travels over https.
THEOREM FetchTravelsSafely == Spec => []SecretsTravelSafely
<1>1. Permitted => SecretsTravelSafely
  BY DEF Permitted
<1> QED BY <1>1, TypeInit, TypeStep, PermittedInit, PermittedStep, PTL DEF Spec

-----------------------------------------------------------------------------
(* No gate of a status refuses a profile that was fetched with.            *)

\* A fetch begins in front of the gates.
LEMMA GatesBehindInit == Init => GatesBehind
  BY DEF Init, NoAnswer, InFlight, GatesBehind

\* Nothing is sent or delivered by a request the gates have not let through.
LEMMA GatesBehindStep == TypeOK /\ GatesBehind /\ [Next]_vars => GatesBehind'
<1> SUFFICES ASSUME TypeOK, GatesBehind, [Next]_vars PROVE GatesBehind'
  OBVIOUS
<1>fixed. ASSUME Fixed, Gated(manifest, request) = "dispatch" PROVE GatesBehind'
  <2>1. Gated(manifest, request)' = "dispatch"
    BY <1>fixed DEF Fixed, WantsExtended, HasProfile, Gated, ShapeRefused, ModeAnswer,
                    HeadersRefused, HopRefused, Unresolved, DenyCode
  <2> QED BY <2>1 DEF GatesBehind
<1>1. CASE Ends
  <2>1. CASE InFlight \/ Gated(manifest, request) = "dispatch"
    BY <1>1, <2>1, <1>fixed DEF Ends, GatesBehind
  <2>2. CASE ~(InFlight \/ Gated(manifest, request) = "dispatch")
    BY <1>1, <2>2 DEF Ends, GatesBehind, InFlight
  <2> QED BY <2>1, <2>2
<1>2. CASE Begins
  BY <1>2, <1>fixed DEF Begins
<1>3. CASE Sends
  BY <1>3, <1>fixed DEF Sends, InFlight, GatesBehind
<1>4. CASE Follows
  BY <1>4, <1>fixed DEF Follows, InFlight, GatesBehind
<1>5. CASE Reads
  BY <1>5, <1>fixed DEF Reads, InFlight, GatesBehind
<1>6. CASE Waits
  BY <1>6, <1>fixed DEF Waits, InFlight, GatesBehind
<1>7. CASE UNCHANGED vars
  <2>1. CASE Gated(manifest, request) = "dispatch"
    BY <1>7, <2>1, <1>fixed DEF vars, Fixed
  <2>2. CASE Gated(manifest, request) # "dispatch"
    BY <1>7, <2>2 DEF vars, InFlight, GatesBehind
  <2> QED BY <2>1, <2>2
<1> QED BY <1>1, <1>2, <1>3, <1>4, <1>5, <1>6, <1>7, StepKinds

\* The gates of a fetch with a profile leave nothing the gates of its status
\* could refuse.
LEMMA StatusGatesWeaker ==
  ASSUME request \in RequestType, manifest \in ManifestType,
         Gated(manifest, request) = "dispatch", HasProfile(request)
  PROVE  StatusAnswers(manifest, request) = {"available", "not_available"}
<1>1. ModeAnswer(manifest, request) \in {"ok", "policy_denied", "invalid_request"}
  BY DEF ModeAnswer
<1>2. DenyCode(request) # "dispatch"
  BY DEF DenyCode
<1>3. /\ ~ShapeRefused(request) /\ ModeAnswer(manifest, request) = "ok"
      /\ manifest.auth_profile /\ ~Unresolved(request)
      /\ request.target = "url" => ~HopRefused(request, request.url)
  BY <1>1, <1>2 DEF Gated
<1>4. request.profile = "usable"
  BY <1>3 DEF ShapeRefused, Unresolved, HasProfile, RequestType
<1>5. \/ request.target = "url" /\ ~manifest.alias
      \/ /\ request.target \in {"refs", "refs_with_empty_url"} /\ manifest.alias
         /\ request.refs = "declared"
  BY <1>3 DEF ModeAnswer
<1>6. ~StatusModeRefused(manifest, request) /\ ~StatusDenied(manifest, request)
  BY <1>3, <1>5 DEF StatusModeRefused, StatusDenied, HopRefused
<1> QED BY <1>4, <1>5, <1>6 DEF StatusAnswers

\* Whatever a fetch with a profile was sent for or answered with, the status
\* of that profile for that target is ok, available or not.
THEOREM StatusAlwaysCoversFetch == Spec => []StatusCoversFetch
<1>1. TypeOK /\ GatesBehind => StatusCoversFetch
  <2>1. TypeOK => request \in RequestType /\ manifest \in ManifestType
    BY FetchAssumption DEF TypeOK
  <2> QED BY <2>1, StatusGatesWeaker DEF GatesBehind, StatusCoversFetch
<1> QED BY <1>1, TypeInit, TypeStep, GatesBehindInit, GatesBehindStep, PTL DEF Spec

-----------------------------------------------------------------------------
(* One timeout for all hops.                                               *)

\* A fetch begins with nothing sent.
LEMMA TimedInit == Init => Timed
  BY DEF Init, Timed, InFlight, WithinOneTimeout

\* Every step keeps the time: the deadline is fixed when the first hop begins,
\* and a request is only given what is left until then.
LEMMA TimedStep == TypeOK /\ Counted /\ Timed /\ [Next]_vars => Timed'
<1> SUFFICES ASSUME TypeOK, Counted, Timed, [Next]_vars PROVE Timed'
  OBVIOUS
<1>types. /\ clock \in Nat /\ deadline \in Nat /\ EffectiveTimeout \in Nat
          /\ sent \in Seq([url: Urls, at: Nat, timeout: Nat])
  BY EffectiveLimits, FetchAssumption DEF TypeOK
<1>fixed. ASSUME Fixed PROVE EffectiveTimeout' = EffectiveTimeout
  BY <1>fixed DEF Fixed, EffectiveTimeout
<1>expiry. ASSUME UNCHANGED sent PROVE Expiry' = Expiry
  BY <1>expiry DEF Expiry
<1>early. ASSUME Fixed, UNCHANGED sent
          PROVE  (\A i \in DOMAIN sent : sent[i].at + sent[i].timeout <= EffectiveTimeout)'
  BY <1>early, <1>fixed DEF Timed, WithinOneTimeout
<1>1. CASE Ends
  BY <1>1, <1>early DEF Ends, InFlight, Timed, WithinOneTimeout
<1>2. CASE Begins
  <2>1. deadline' = EffectiveTimeout
    BY <1>2, <1>types DEF Begins, Counted
  <2> QED BY <1>2, <1>early, <1>fixed, <2>1 DEF Begins, InFlight, Timed, WithinOneTimeout
<1>3. CASE Sends
  <2> DEFINE new == [url |-> url, at |-> clock, timeout |-> RemainingTime]
  <2>1. /\ deadline = EffectiveTimeout /\ clock < deadline
        /\ sent' = Append(sent, new) /\ UNCHANGED <<clock, deadline>>
    BY <1>3 DEF Sends, InFlight, Timed
  <2>2. /\ new \in [url: Urls, at: Nat, timeout: Nat]
        /\ new.at + new.timeout = deadline
    BY <1>types, <2>1 DEF RemainingTime, TypeOK
  <2>3. \A i \in DOMAIN sent' :
          (i \in DOMAIN sent /\ sent'[i] = sent[i]) \/ sent'[i] = new
    BY <1>types, <2>1, <2>2, SentAppends
  <2>4. \A i \in DOMAIN sent' : sent'[i].at + sent'[i].timeout <= EffectiveTimeout
    BY <1>types, <2>1, <2>2, <2>3 DEF Timed, WithinOneTimeout
  <2>5. Expiry' = deadline
    BY <1>types, <2>1, <2>2, SentAppends DEF Expiry
  <2> QED BY <1>3, <1>types, <1>fixed, <2>1, <2>4, <2>5
          DEF Sends, InFlight, Timed, WithinOneTimeout
<1>4. CASE Follows
  BY <1>4, <1>early, <1>fixed DEF Follows, InFlight, Timed, WithinOneTimeout
<1>5. CASE Reads
  BY <1>5, <1>early, <1>fixed, <1>expiry DEF Reads, InFlight, Timed, WithinOneTimeout
<1>6. CASE Waits
  <2>1. phase # "hop" => clock + 1 <= EffectiveTimeout
    BY <1>6, <1>types DEF Waits, InFlight, Timed
  <2> QED BY <1>6, <1>early, <1>fixed, <1>expiry, <2>1
          DEF Waits, InFlight, Timed, WithinOneTimeout
<1>7. CASE UNCHANGED vars
  BY <1>7, <1>early, <1>fixed, <1>expiry DEF vars, Fixed, InFlight, Timed, WithinOneTimeout
<1> QED BY <1>1, <1>2, <1>3, <1>4, <1>5, <1>6, <1>7, StepKinds

\* All the hops of a fetch live within one effective timeout.
THEOREM FetchIsTimed == Spec => []WithinOneTimeout
<1>1. Timed => WithinOneTimeout
  BY DEF Timed
<1> QED BY <1>1, TypeInit, TypeStep, CountedInit, CountedStep, TimedInit, TimedStep,
           PTL DEF Spec

-----------------------------------------------------------------------------
(* What is delivered.                                                      *)

\* A fetch begins with nothing read and no answer.
LEMMA CappedInit == Init => TypeOK /\ Capped
<1> SUFFICES ASSUME Init PROVE Capped
  BY TypeInit
<1>1. EffectiveBytes \in Nat
  BY TypeInit, EffectiveLimits DEF TypeOK
<1> QED BY <1>1 DEF Init, NoAnswer, Capped

\* Every step keeps the cap: a chunk is counted before it is kept.
LEMMA CappedStep == TypeOK /\ Capped /\ [Next]_vars => Capped'
<1> SUFFICES ASSUME TypeOK, Capped, [Next]_vars PROVE Capped'
  OBVIOUS
<1>fixed. ASSUME Fixed
          PROVE  /\ EffectiveBytes' = EffectiveBytes
                 /\ TracksSecrets(request)' = TracksSecrets(request)
  BY <1>fixed DEF Fixed, EffectiveBytes, TracksSecrets, HasProfile
<1>1. CASE Ends
  BY <1>1, <1>fixed DEF Ends, Capped
<1>2. CASE Begins
  BY <1>2, <1>fixed DEF Begins, Capped
<1>3. CASE Sends
  BY <1>3, <1>fixed DEF Sends, Capped
<1>4. CASE Follows
  BY <1>4, <1>fixed DEF Follows, Capped
<1>5. CASE Reads
  BY <1>5, <1>fixed DEF Reads, Capped
<1>6. CASE Waits
  BY <1>6, <1>fixed DEF Waits, InFlight, Capped
<1>7. CASE UNCHANGED vars
  BY <1>7, <1>fixed DEF vars, Fixed, Capped
<1> QED BY <1>1, <1>2, <1>3, <1>4, <1>5, <1>6, <1>7, StepKinds

\* A fetch begins with no response.
LEMMA UnechoedInit == Init => Unechoed
  BY DEF Init, NoAnswer, Unechoed

\* Every step keeps the responses clean: a body is delivered after the whole
\* response has been looked at, and not before.
LEMMA UnechoedStep == TypeOK /\ Capped /\ Unechoed /\ [Next]_vars => Unechoed'
<1> SUFFICES ASSUME TypeOK, Capped, Unechoed, [Next]_vars PROVE Unechoed'
  OBVIOUS
<1>failed. ASSUME NEW code \in Codes \ {"ok"}, Failed(code), UNCHANGED response
           PROVE  Unechoed'
  BY <1>failed DEF Failed, Answered, Unechoed
<1>denied. ASSUME Failed(DenyCode(request)), UNCHANGED response PROVE Unechoed'
  <2>1. DenyCode(request) \in Codes \ {"ok"}
    BY DEF DenyCode, Codes
  <2> QED BY <1>denied, <1>failed, <2>1
<1>1. CASE Refuse
  <2>1. Gated(manifest, request) \in Codes \ {"ok"}
    <3>1. ModeAnswer(manifest, request) \in {"ok", "policy_denied", "invalid_request"}
      BY DEF ModeAnswer
    <3> QED BY <1>1, <3>1 DEF Refuse, Gated, DenyCode, Codes
  <2> QED BY <1>1, <1>failed, <2>1 DEF Refuse
<1>2. CASE Disabled \/ NoMockMatch
  BY <1>2, <1>failed DEF Disabled, NoMockMatch, Dispatched, Codes
<1>3. ASSUME NEW bytes, NEW echoes, MockResolves(bytes, echoes) PROVE Unechoed'
  <2>1. phase = "asked" /\ UNCHANGED response
    BY <1>3 DEF MockResolves, Dispatched
  <2>2. response' = NoResponse
    BY <2>1 DEF Unechoed
  <2> QED BY <1>3, <2>2
          DEF MockResolves, Failed, Delivered, Answered, NoResponse, Unechoed
<1>4. CASE LiveFetch
  <2>1. Dispatched("Live")
    BY <1>4 DEF LiveFetch
  <2>2. CASE Failed("ref_mode_not_supported_in_live_runner")
    BY <1>failed, <2>1, <2>2 DEF Dispatched, Codes
  <2>3. CASE Failed(DenyCode(request))
    BY <1>denied, <2>1, <2>3 DEF Dispatched
  <2>4. CASE phase' = "hop" /\ UNCHANGED answer
    BY <2>1, <2>4 DEF Dispatched, Unechoed
  <2> QED BY <1>4, <2>2, <2>3, <2>4 DEF LiveFetch
<1>5. ASSUME NEW public, Hop(public) PROVE Unechoed'
  <2>1. phase = "hop" /\ UNCHANGED response
    BY <1>5 DEF Hop
  <2>2. CASE Failed(DenyCode(request))
    BY <1>denied, <2>1, <2>2
  <2>3. CASE Send
    BY <2>1, <2>3 DEF Send, Unechoed
  <2> QED BY <1>5, <2>2, <2>3 DEF Hop
<1>6. ASSUME NEW location, ServerRedirects(location) PROVE Unechoed'
  <2>1. phase = "waiting" /\ UNCHANGED response
    BY <1>6 DEF ServerRedirects
  <2>2. CASE RedirectRefused(location)
    BY <1>6, <1>denied, <2>1, <2>2 DEF ServerRedirects
  <2>3. CASE ~RedirectRefused(location)
    BY <1>6, <2>1, <2>3 DEF ServerRedirects, Unechoed
  <2> QED BY <2>2, <2>3
<1>7. ASSUME NEW opaque, NEW echoes, ServerResponds(opaque, echoes) PROVE Unechoed'
  BY <1>7 DEF ServerResponds, Capped, Unechoed
<1>8. ASSUME NEW bytes, ReadChunk(bytes) PROVE Unechoed'
  <2>1. phase = "reading" /\ UNCHANGED response
    BY <1>8 DEF ReadChunk
  <2>2. CASE Oversized(bytes)
    BY <1>8, <1>denied, <2>1, <2>2 DEF ReadChunk
  <2>3. CASE ~Oversized(bytes)
    BY <1>8, <2>1, <2>3 DEF ReadChunk, Unechoed
  <2> QED BY <2>2, <2>3
<1>9. CASE ReadEnds
  <2>1. phase = "reading" /\ UNCHANGED response
    BY <1>9 DEF ReadEnds
  <2>2. CASE (read > 0 /\ response.opaque) \/ response.echoes
    BY <1>9, <1>denied, <2>1, <2>2 DEF ReadEnds
  <2>3. CASE ~((read > 0 /\ response.opaque) \/ response.echoes)
    <3>1. phase' = "answered" /\ answer'.bytes = read
      BY <1>9, <2>3 DEF ReadEnds, Delivered, Answered
    <3> QED BY <2>1, <2>3, <3>1 DEF Unechoed
  <2> QED BY <2>2, <2>3
<1>10. CASE TransportFails \/ TransportTimesOut
  BY <1>10, <1>denied DEF TransportFails, TransportTimesOut
<1>11. CASE Tick
  BY <1>11 DEF Tick, Unechoed
<1>12. CASE UNCHANGED vars
  BY <1>12 DEF vars, Unechoed
<1> QED BY <1>1, <1>2, <1>3, <1>4, <1>5, <1>6, <1>7, <1>8, <1>9, <1>10, <1>11,
           <1>12 DEF Next, Handles, Servers

\* A delivered answer obeys the limits of the manifest and of the request,
\* shows the guest none of the secrets tracked, and is of no response that
\* echoes one or could hide it.
THEOREM FetchDeliversClean == Spec => []DeliveredIsClean
<1>1. TypeOK /\ Capped /\ Unechoed => DeliveredIsClean
  <2> SUFFICES ASSUME TypeOK, Capped, Unechoed PROVE DeliveredIsClean
    OBVIOUS
  <2>1. /\ manifest \in ManifestType /\ request \in RequestType
        /\ answer.bytes \in Nat
    BY FetchAssumption DEF TypeOK
  <2>2. /\ EffectiveBytes \in Nat
        /\ EffectiveBytes <= manifest.max_response_bytes
        /\ request.max_response_bytes > 0
             => EffectiveBytes <= request.max_response_bytes
    BY EffectiveLimits DEF TypeOK
  <2>3. manifest.max_response_bytes \in Nat /\ request.max_response_bytes \in Nat
    BY <2>1 DEF ManifestType, RequestType
  <2> QED BY <2>1, <2>2, <2>3 DEF Capped, Unechoed, DeliveredIsClean
<1> QED BY <1>1, TypeInit, TypeStep, CappedInit, CappedStep, UnechoedInit,
           UnechoedStep, PTL DEF Spec

-----------------------------------------------------------------------------
(* A fetch keeps its contract.                                             *)

\* Nothing is answered before the fetch ends, and nothing happens after it.
Unanswered == phase # "answered" => answer.code = "none"

\* A fetch begins unanswered.
LEMMA UnansweredInit == Init => Unanswered
  BY DEF Init, NoAnswer, Unanswered

\* A step that leaves the fetch open leaves the answer alone.
LEMMA UnansweredStep == TypeOK /\ Unanswered /\ [Next]_vars => Unanswered'
<1> SUFFICES ASSUME TypeOK, Unanswered, [Next]_vars PROVE Unanswered'
  OBVIOUS
<1>1. Ends => Unanswered'
  BY DEF Ends, Unanswered
<1>2. Begins \/ Sends \/ Follows \/ Reads \/ Waits => Unanswered'
  BY DEF Begins, Sends, Follows, Reads, Waits, InFlight, Unanswered
<1>3. UNCHANGED vars => Unanswered'
  BY DEF vars, Unanswered
<1> QED BY <1>1, <1>2, <1>3, StepKinds

Terms == TermsOf(manifest, request)

\* The terms are those of the contract.
LEMMA TermsTyped ==
  ASSUME TypeOK
  PROVE  Terms \in Contract!TermsType
<1>1. manifest \in ManifestType /\ request \in RequestType
  BY FetchAssumption DEF TypeOK
<1>2. Tightened(manifest.max_response_bytes, request.max_response_bytes) \in Nat
  BY <1>1, TightenedBounds DEF ManifestType, RequestType
<1>3. manifest.extended \in BOOLEAN /\ manifest.auth_profile \in BOOLEAN
  BY <1>1 DEF ManifestType
<1> QED BY <1>2, <1>3
        DEF Terms, TermsOf, Contract!TermsType, HasProfile, WantsExtended

\* The terms of a fetch do not change.
LEMMA TermsFixed ==
  ASSUME UNCHANGED <<manifest, request>>
  PROVE  Terms' = Terms
  BY DEF Terms, TermsOf, ShapeRefused, ModeAnswer, WantsExtended, HasProfile, Tightened

\* The urls visited stand beside the requests sent, one for one.
LEMMA VisitedAppends ==
  ASSUME TypeOK, NEW e \in [url: Urls, at: Nat, timeout: Nat],
         sent' = Append(sent, e)
  PROVE  /\ Visited' = Append(Visited, e.url)
         /\ Len(Visited) = Len(sent)
<1> DEFINE T == [url: Urls, at: Nat, timeout: Nat]
<1>1. sent \in Seq(T) /\ DOMAIN sent = 1 .. Len(sent) /\ Len(sent) \in Nat
  BY DEF TypeOK
<1>2. /\ DOMAIN sent' = 1 .. (Len(sent) + 1)
      /\ sent'[Len(sent) + 1] = e
      /\ \A i \in 1 .. Len(sent) : sent'[i] = sent[i]
  BY <1>1
<1>3. Visited \in Seq(Urls) /\ Len(Visited) = Len(sent)
  <2>1. \A i \in 1 .. Len(sent) : sent[i].url \in Urls
    <3> HIDE DEF T
    <3>1. \A i \in 1 .. Len(sent) : sent[i] \in T
      BY <1>1
    <3> QED BY <3>1 DEF T
  <2>2. Visited = [i \in 1 .. Len(sent) |-> sent[i].url]
    BY <1>1 DEF Visited
  <2>3. Visited \in [1 .. Len(sent) -> Urls]
    BY <2>1, <2>2
  <2> DEFINE v == Visited
             n == Len(sent)
  <2>4. n \in Nat /\ v \in [1 .. n -> Urls]
    BY <1>1, <2>3
  <2> HIDE DEF v, n
  <2>5. v \in Seq(Urls) /\ Len(v) = n
    BY <2>4
  <2> QED BY <2>5 DEF v, n
<1>4. Append(Visited, e.url) =
        [i \in 1 .. (Len(sent) + 1) |->
           IF i = Len(sent) + 1 THEN e.url ELSE Visited[i]]
  BY <1>1, <1>3
<1>5. Visited' = [i \in 1 .. (Len(sent) + 1) |-> sent'[i].url]
  BY <1>2 DEF Visited
<1>6. \A i \in 1 .. (Len(sent) + 1) :
        sent'[i].url = IF i = Len(sent) + 1 THEN e.url ELSE Visited[i]
  <2> SUFFICES ASSUME NEW i \in 1 .. (Len(sent) + 1)
               PROVE  sent'[i].url = IF i = Len(sent) + 1 THEN e.url ELSE Visited[i]
    OBVIOUS
  <2>1. CASE i = Len(sent) + 1
    BY <1>2, <2>1
  <2>2. CASE i # Len(sent) + 1
    <3>1. i \in 1 .. Len(sent)
      BY <1>1, <2>2
    <3>2. sent'[i] = sent[i] /\ Visited[i] = sent[i].url
      BY <1>1, <1>2, <3>1 DEF Visited
    <3> QED BY <2>2, <3>2
  <2> QED BY <2>1, <2>2
<1> QED BY <1>3, <1>4, <1>5, <1>6

\* What passed the gates is accepted by the terms, profile included.
LEMMA DispatchedAccepted ==
  ASSUME TypeOK, Gated(manifest, request) = "dispatch"
  PROVE  Contract!Accepted /\ Terms.armed
<1>1. request \in RequestType
  BY FetchAssumption DEF TypeOK
<1>2. ModeAnswer(manifest, request) \in {"ok", "policy_denied", "invalid_request"}
  BY DEF ModeAnswer
<1>3. DenyCode(request) # "dispatch"
  BY DEF DenyCode
<1>4. /\ ~request.negative_limit /\ ~ShapeRefused(request)
      /\ ModeAnswer(manifest, request) = "ok"
      /\ manifest.http_fetch /\ (WantsExtended(request) => manifest.extended)
      /\ HasProfile(request) => manifest.auth_profile
      /\ ~Unresolved(request)
  BY <1>2, <1>3 DEF Gated
<1>5. HasProfile(request) => request.profile = "usable"
  BY <1>1, <1>4 DEF ShapeRefused, Unresolved, HasProfile, RequestType
<1> QED BY <1>4, <1>5 DEF Contract!Accepted, Terms, TermsOf

Unsent == UNCHANGED <<manifest, request, sent>>

\* An answer of the fetch is an answer of the contract.
LEMMA AnswersMap ==
  ASSUME Unanswered, phase # "answered", Unsent,
         NEW c, NEW reveals, NEW n, Answered(c, reveals, n)
  PROVE  Contract!Answer(c, n)
<1>1. Terms' = Terms /\ Visited' = Visited
  BY TermsFixed DEF Unsent, Visited
<1>2. answer.code = "none" /\ answer'.code = c /\ answer'.bytes = n
  BY DEF Unanswered, Answered
<1> QED BY <1>1, <1>2 DEF Contract!Answer, Terms

\* A failure of the broker blames nobody, and tells only of the profile.
LEMMA FailsMap ==
  ASSUME Unanswered, phase # "answered", Unsent, Contract!Accepted,
         Failed(DenyCode(request))
  PROVE  Contract!Fail
<1>1. DenyCode(request) = IF Terms.profile THEN "authenticated_fetch_failed"
                          ELSE "fetch_failed"
  BY DEF DenyCode, Terms, TermsOf
<1>2. Contract!Answer(DenyCode(request), 0)
  BY AnswersMap DEF Failed
<1> QED BY <1>1, <1>2 DEF Contract!Fail, Terms

\* The gates place the blame as the terms do, in whatever order they run.
LEMMA RefusalMaps ==
  ASSUME TypeOK, Unanswered, Refuse
  PROVE  Contract!BlamePack \/ Contract!BlameManifest \/ Contract!Fail
<1> DEFINE g == Gated(manifest, request)
<1>open. phase # "answered" /\ Unsent
  BY DEF Refuse, Unsent
<1>mode. ModeAnswer(manifest, request) \in {"ok", "policy_denied", "invalid_request"}
  BY DEF ModeAnswer
<1>answer. Contract!Answer(g, 0)
  BY <1>open, AnswersMap DEF Refuse, Failed
<1>1. CASE g = "invalid_request"
  <2>1. ~Terms.understood
    BY <1>1, <1>mode DEF Gated, DenyCode, Terms, TermsOf
  <2> QED BY <1>1, <1>answer, <2>1 DEF Contract!BlamePack, Terms
<1>2. CASE g = "policy_denied"
  <2>1. Terms.understood /\ ~Terms.granted
    BY <1>2, <1>mode DEF Gated, DenyCode, Terms, TermsOf
  <2> QED BY <1>2, <1>answer, <2>1 DEF Contract!BlameManifest, Terms
<1>3. CASE g \notin {"invalid_request", "policy_denied"}
  <2>1. /\ ~request.negative_limit /\ ~ShapeRefused(request)
        /\ ModeAnswer(manifest, request) = "ok"
        /\ manifest.http_fetch /\ (WantsExtended(request) => manifest.extended)
    BY <1>3, <1>mode DEF Gated
  <2>2. g = DenyCode(request)
    BY <1>mode, <2>1 DEF Refuse, Gated, DenyCode
  <2>3. Contract!Accepted
    BY <2>1 DEF Contract!Accepted, TermsOf
  <2> QED BY <1>open, <2>2, <2>3, FailsMap DEF Refuse
<1> QED BY <1>1, <1>2, <1>3

\* A broker that asks no server answers with a code of its own.
LEMMA LocalMaps ==
  ASSUME TypeOK, Unanswered, Counted, NEW kind, Dispatched(kind),
         NEW c \in Contract!LocalCodes, Failed(c)
  PROVE  Contract!Local(c)
<1>1. phase = "asked" /\ Unsent /\ Gated(manifest, request) = "dispatch"
  BY DEF Dispatched, Unsent
<1>2. Contract!Answer(c, 0)
  BY <1>1, AnswersMap DEF Failed
<1>3. Visited = << >>
  BY <1>1 DEF Counted, Visited
<1> QED BY <1>1, <1>2, <1>3, DispatchedAccepted DEF Contract!Local, Terms

\* What is delivered fits the terms.
LEMMA DeliveryMaps ==
  ASSUME TypeOK, Unanswered, phase # "answered", Unsent,
         Gated(manifest, request) = "dispatch",
         NEW u, NEW echoes, NEW n \in Nat, n <= EffectiveBytes,
         Delivered(u, echoes, n)
  PROVE  \E k \in 0 .. Terms.bytes : Contract!Deliver(k)
<1>1. manifest \in ManifestType /\ request \in RequestType
  BY FetchAssumption DEF TypeOK
<1>2. /\ manifest.max_response_bytes \in Nat \ {0}
      /\ request.max_response_bytes \in Nat
  BY <1>1 DEF ManifestType, RequestType
<1>3. /\ EffectiveBytes \in Nat
      /\ EffectiveBytes <= manifest.max_response_bytes
      /\ request.max_response_bytes > 0 => EffectiveBytes <= request.max_response_bytes
  BY EffectiveLimits DEF TypeOK
<1>4. Terms.bytes = Tightened(manifest.max_response_bytes, request.max_response_bytes)
  BY DEF Terms, TermsOf
<1>5. Terms.bytes \in Nat /\ n <= Terms.bytes
  BY <1>2, <1>3, <1>4 DEF Tightened
<1>6. Contract!Answer("ok", n)
  BY AnswersMap DEF Delivered
<1>7. Contract!Deliver(n)
  BY <1>5, <1>6, DispatchedAccepted DEF Contract!Deliver, Terms
<1> QED BY <1>5, <1>7

\* A request leaves for a url of the terms, and one remains for it.
LEMMA SendMaps ==
  ASSUME TypeOK, Unanswered, Counted, Permitted, Sends
  PROVE  \E u \in Urls : Contract!Visit(u)
<1> DEFINE new == [url |-> url, at |-> clock, timeout |-> RemainingTime]
<1>1. /\ phase = "hop" /\ ~HopRefused(request, url) /\ clock < deadline
      /\ sent' = Append(sent, new) /\ UNCHANGED <<manifest, request, answer>>
  BY DEF Sends, Fixed
<1>2. Gated(manifest, request) = "dispatch" /\ answer.code = "none"
  BY <1>1 DEF InFlight, Permitted, Unanswered
<1>3. new \in [url: Urls, at: Nat, timeout: Nat]
  BY <1>1 DEF RemainingTime, TypeOK
<1>4. Visited' = Append(Visited, url) /\ Len(Visited) = Len(sent)
  BY <1>1, <1>3, VisitedAppends
<1>5. Len(Visited) < IF Terms.once THEN 1 ELSE RedirectLimit + 1
  <2>1. /\ Len(sent) = redirects /\ redirects <= RedirectLimit /\ redirects \in Nat
        /\ WantsExtended(request) => redirects = 0
    BY <1>1, FetchAssumption DEF Counted, TypeOK
  <2>2. Terms.once = WantsExtended(request)
    BY DEF Terms, TermsOf
  <2> QED BY <1>4, <2>1, <2>2, FetchAssumption
<1>6. url \in Terms.urls
  BY <1>1 DEF HopRefused, Terms, TermsOf, TypeOK
<1>7. Terms' = Terms
  BY <1>1, TermsFixed
<1>8. Contract!Visit(url)
  BY <1>1, <1>2, <1>4, <1>5, <1>6, <1>7, DispatchedAccepted
     DEF Contract!Visit, Terms
<1> QED BY <1>8 DEF TypeOK

\* A fetch begins as its contract does.
LEMMA ContractInit == Init => Contract!Init
<1> SUFFICES ASSUME Init PROVE Contract!Init
  OBVIOUS
<1>1. Terms \in Contract!TermsType
  BY TypeInit, TermsTyped
<1>2. Visited = << >>
  BY DEF Init, Visited
<1> QED BY <1>1, <1>2 DEF Init, NoAnswer, Terms, Contract!Init

\* Every step of a fetch is one of its contract, or none.
LEMMA ContractStep ==
  ASSUME TypeOK, Unanswered, Counted, Permitted, Capped, [Next]_vars
  PROVE  [Contract!Next]_Contract!vars
<1>still. ASSUME Unsent, UNCHANGED answer PROVE UNCHANGED Contract!vars
  BY <1>still, TermsFixed DEF Unsent, Visited, Terms, Contract!vars
<1>fails. ASSUME phase # "answered", Unsent, Gated(manifest, request) = "dispatch",
                 Failed(DenyCode(request))
          PROVE  Contract!Next
  BY <1>fails, DispatchedAccepted, FailsMap DEF Contract!Next
<1>local. ASSUME NEW kind, Dispatched(kind), NEW c \in Contract!LocalCodes, Failed(c)
          PROVE  Contract!Next
  BY <1>local, LocalMaps DEF Contract!Next
<1>gated. InFlight => Gated(manifest, request) = "dispatch"
  BY DEF Permitted
<1>1. CASE Refuse
  BY <1>1, RefusalMaps DEF Contract!Next
<1>2. CASE Disabled
  <2>1. "broker_disabled" \in Contract!LocalCodes
    BY DEF Contract!LocalCodes
  <2> QED BY <1>2, <1>local, <2>1 DEF Disabled
<1>3. CASE NoMockMatch
  <2>1. "no_mock_match" \in Contract!LocalCodes
    BY DEF Contract!LocalCodes
  <2> QED BY <1>3, <1>local, <2>1 DEF NoMockMatch
<1>4. ASSUME NEW bytes \in {0} \cup Chunks, NEW echoes \in BOOLEAN,
             MockResolves(bytes, echoes)
      PROVE  Contract!Next
  <2>1. Dispatched("Mock")
    BY <1>4 DEF MockResolves
  <2>2. "fetch_failed" \in Contract!LocalCodes
    BY DEF Contract!LocalCodes
  <2>3. CASE bytes > EffectiveBytes \/ echoes
    BY <1>4, <1>local, <2>1, <2>2, <2>3 DEF MockResolves
  <2>4. CASE ~(bytes > EffectiveBytes \/ echoes)
    <3>1. bytes \in Nat /\ bytes <= EffectiveBytes
      BY <2>4, EffectiveLimits, FetchAssumption DEF TypeOK
    <3>2. /\ phase # "answered" /\ Unsent /\ Gated(manifest, request) = "dispatch"
      BY <2>1 DEF Dispatched, Unsent
    <3>3. \E k \in 0 .. Terms.bytes : Contract!Deliver(k)
      BY <1>4, <2>4, <3>1, <3>2, DeliveryMaps DEF MockResolves
    <3> QED BY <3>3 DEF Contract!Next, Terms
  <2> QED BY <2>3, <2>4
<1>5. CASE LiveFetch
  <2>1. Dispatched("Live") /\ Unsent
    BY <1>5 DEF LiveFetch, Dispatched, Unsent
  <2>2. "ref_mode_not_supported_in_live_runner" \in Contract!LocalCodes
    BY DEF Contract!LocalCodes
  <2>3. CASE Failed("ref_mode_not_supported_in_live_runner")
    BY <1>local, <2>1, <2>2, <2>3
  <2>4. CASE Failed(DenyCode(request))
    BY <1>fails, <2>1, <2>4 DEF Dispatched
  <2>5. CASE UNCHANGED answer
    BY <1>still, <2>1, <2>5
  <2> QED BY <1>5, <2>3, <2>4, <2>5 DEF LiveFetch
<1>6. ASSUME NEW public \in BOOLEAN, Hop(public) PROVE Contract!Next
  <2>1. phase = "hop" /\ UNCHANGED <<manifest, request, clock, deadline, redirects, read>>
    BY <1>6 DEF Hop
  <2>2. CASE HopRefused(request, url) \/ clock >= deadline \/ ~public
    BY <1>6, <1>fails, <1>gated, <2>1, <2>2 DEF Hop, Unsent, InFlight
  <2>3. CASE ~(HopRefused(request, url) \/ clock >= deadline \/ ~public)
    <3>1. clock < deadline /\ ~HopRefused(request, url)
      BY <2>3 DEF TypeOK
    <3>2. Sends
      BY <1>6, <2>1, <2>3, <3>1 DEF Hop, Send, Sends, Fixed
    <3> QED BY <3>2, SendMaps DEF Contract!Next
  <2> QED BY <2>2, <2>3
<1>7. ASSUME NEW location \in Urls \cup {NoUrl}, ServerRedirects(location)
      PROVE  [Contract!Next]_Contract!vars
  <2>1. phase = "waiting" /\ Unsent
    BY <1>7 DEF ServerRedirects, Unsent
  <2>2. CASE RedirectRefused(location)
    BY <1>7, <1>fails, <1>gated, <2>1, <2>2 DEF ServerRedirects, InFlight
  <2>3. CASE ~RedirectRefused(location)
    BY <1>7, <1>still, <2>1, <2>3 DEF ServerRedirects
  <2> QED BY <2>2, <2>3
<1>8. ASSUME NEW opaque \in BOOLEAN, NEW echoes \in BOOLEAN,
             ServerResponds(opaque, echoes)
      PROVE  UNCHANGED Contract!vars
  BY <1>8, <1>still DEF ServerResponds, Unsent
<1>9. ASSUME NEW bytes \in Chunks, ReadChunk(bytes)
      PROVE  [Contract!Next]_Contract!vars
  <2>1. phase = "reading" /\ Unsent
    BY <1>9 DEF ReadChunk, Unsent
  <2>2. CASE Oversized(bytes)
    BY <1>9, <1>fails, <1>gated, <2>1, <2>2 DEF ReadChunk, InFlight
  <2>3. CASE ~Oversized(bytes)
    BY <1>9, <1>still, <2>1, <2>3 DEF ReadChunk
  <2> QED BY <2>2, <2>3
<1>10. CASE ReadEnds
  <2>1. phase = "reading" /\ Unsent /\ Gated(manifest, request) = "dispatch"
    BY <1>10, <1>gated DEF ReadEnds, Unsent, InFlight
  <2>2. CASE Failed(DenyCode(request))
    BY <1>fails, <2>1, <2>2
  <2>3. CASE Delivered(url, response.echoes, read)
    <3>1. read \in Nat /\ read <= EffectiveBytes
      BY DEF TypeOK, Capped
    <3>2. \E k \in 0 .. Terms.bytes : Contract!Deliver(k)
      BY <2>1, <2>3, <3>1, DeliveryMaps
    <3> QED BY <3>2 DEF Contract!Next, Terms
  <2> QED BY <1>10, <2>2, <2>3 DEF ReadEnds
<1>11. CASE TransportFails
  <2>1. phase \in {"waiting", "reading"} /\ Unsent /\ Failed(DenyCode(request))
    BY <1>11 DEF TransportFails, Unsent
  <2> QED BY <1>fails, <1>gated, <2>1 DEF InFlight
<1>12. CASE TransportTimesOut
  BY <1>11, <1>12 DEF TransportTimesOut
<1>13. CASE Tick
  BY <1>13, <1>still DEF Tick, Unsent
<1>14. CASE UNCHANGED vars
  BY <1>14, <1>still DEF vars, Unsent
<1> QED BY <1>1, <1>2, <1>3, <1>4, <1>5, <1>6, <1>7, <1>8, <1>9, <1>10, <1>11,
           <1>12, <1>13, <1>14 DEF Next, Handles, Servers

\* Every fetch keeps the contract, for every manifest, request and server: one
\* answer and nothing after it, requests only under the terms, and a code that
\* blames the pack, the manifest or neither, as the terms have it.
THEOREM FetchKeepsContract == Spec => KeepsContract
  BY ContractInit, ContractStep, UnansweredInit, UnansweredStep, CountedInit,
     CountedStep, PermittedInit, PermittedStep, CappedInit, CappedStep, TypeInit,
     TypeStep, PTL
  DEF Spec, KeepsContract, Contract!Spec

-----------------------------------------------------------------------------
(* No server keeps a fetch going.                                          *)

Stages ==
  CASE phase = "asked" -> 4 [] phase = "hop" -> 3 [] phase = "waiting" -> 2
    [] phase = "reading" -> 1 [] OTHER -> 0

\* Four stages for each redirect left, the bytes a body may still have, and the
\* ticks of the clock.
Supply == 4 * (RedirectLimit - redirects) + (EffectiveBytes - read) + (MaxClock - clock)

\* What can still happen to a fetch.
Outlook == Stages + Supply

\* The outlook of a fetch is a number.
LEMMA OutlookNat ==
  ASSUME TypeOK, Capped
  PROVE  /\ Outlook \in Nat
         /\ redirects \in 0 .. RedirectLimit /\ RedirectLimit \in Nat
         /\ read \in Nat /\ EffectiveBytes \in Nat /\ read <= EffectiveBytes
         /\ clock \in Nat /\ MaxClock \in Nat /\ clock <= MaxClock
         /\ Stages \in 0 .. 4
<1>1. /\ redirects \in 0 .. RedirectLimit /\ RedirectLimit \in Nat
      /\ read \in Nat /\ EffectiveBytes \in Nat /\ read <= EffectiveBytes
      /\ clock \in Nat /\ MaxClock \in Nat /\ clock <= MaxClock
  BY EffectiveLimits, FetchAssumption DEF TypeOK, Capped
<1>2. Stages \in 0 .. 4
  BY DEF Stages
<1>3. RedirectLimit - redirects \in Nat
  BY <1>1
<1> QED BY <1>1, <1>2, <1>3 DEF Outlook, Supply

\* Every step leaves less to come.
LEMMA OutlookStep ==
  ASSUME TypeOK, Capped, Next
  PROVE  Outlook \in Nat /\ Outlook' < Outlook
<1>types. /\ Outlook \in Nat
          /\ redirects \in 0 .. RedirectLimit /\ RedirectLimit \in Nat
          /\ read \in Nat /\ EffectiveBytes \in Nat /\ read <= EffectiveBytes
          /\ clock \in Nat /\ MaxClock \in Nat /\ clock <= MaxClock
          /\ Stages \in 0 .. 4
  BY OutlookNat
<1> SUFFICES Outlook' < Outlook
  BY <1>types
<1>fixed. ASSUME UNCHANGED <<manifest, request>> PROVE EffectiveBytes' = EffectiveBytes
  BY <1>fixed DEF EffectiveBytes
<1>later. ASSUME UNCHANGED <<manifest, request, redirects, clock, read>>,
                 Stages' \in Nat, Stages' < Stages
          PROVE  Outlook' < Outlook
  <2>1. Supply \in Nat /\ Supply' = Supply
    BY <1>types, <1>fixed, <1>later DEF Supply
  <2>2. Stages \in Nat /\ Stages' \in Nat /\ Stages' < Stages
    BY <1>types, <1>later
  <2>3. Outlook = Stages + Supply /\ Outlook' = Stages' + Supply'
    BY DEF Outlook
  <2>4. \A a, b, c \in Nat : a < b => a + c < b + c
    OBVIOUS
  <2>5. Stages' + Supply < Stages + Supply
    BY <2>1, <2>2, <2>4
  <2>6. Stages' + Supply = Outlook'
    BY <2>1, <2>3
  <2> QED BY <2>3, <2>5, <2>6
<1>ends. ASSUME phase # "answered", phase \in {"asked", "hop", "waiting", "reading"},
                phase' = "answered",
                UNCHANGED <<manifest, request, redirects, clock, read>>
         PROVE  Outlook' < Outlook
  <2>1. Stages > 0 /\ Stages' = 0
    BY <1>ends DEF Stages
  <2> QED BY <1>types, <1>ends, <1>later, <2>1
<1>1. CASE Refuse \/ Disabled \/ NoMockMatch
  BY <1>1, <1>ends DEF Refuse, Disabled, NoMockMatch, Dispatched, Failed, Answered
<1>2. ASSUME NEW bytes, NEW echoes, MockResolves(bytes, echoes) PROVE Outlook' < Outlook
  BY <1>2, <1>ends DEF MockResolves, Dispatched, Delivered, Failed, Answered
<1>3. CASE LiveFetch
  <2>1. phase = "asked" /\ UNCHANGED <<manifest, request, redirects, clock, read>>
    BY <1>3 DEF LiveFetch, Dispatched
  <2>2. phase' \in {"answered", "hop"}
    BY <1>3 DEF LiveFetch, Failed, Answered
  <2>3. Stages = 4 /\ Stages' \in {0, 3}
    BY <2>1, <2>2 DEF Stages
  <2> QED BY <1>later, <2>1, <2>3
<1>4. ASSUME NEW public \in BOOLEAN, Hop(public) PROVE Outlook' < Outlook
  <2>1. phase = "hop" /\ UNCHANGED <<manifest, request, redirects, clock, read>>
    BY <1>4 DEF Hop
  <2>2. phase' \in {"answered", "waiting"}
    BY <1>4 DEF Hop, Send, Failed, Answered
  <2>3. Stages = 3 /\ Stages' \in {0, 2}
    BY <2>1, <2>2 DEF Stages
  <2> QED BY <1>later, <2>1, <2>3
<1>5. ASSUME NEW location, ServerRedirects(location) PROVE Outlook' < Outlook
  <2>1. phase = "waiting" /\ UNCHANGED <<manifest, request, clock, read>>
    BY <1>5 DEF ServerRedirects
  <2>2. CASE RedirectRefused(location)
    BY <1>5, <1>ends, <2>1, <2>2 DEF ServerRedirects, Failed, Answered
  <2>3. CASE ~RedirectRefused(location)
    <3>1. phase' = "hop" /\ redirects' = redirects + 1
      BY <1>5, <2>3 DEF ServerRedirects
    <3>2. Stages = 2 /\ Stages' = 3
      BY <2>1, <3>1 DEF Stages
    <3> QED BY <1>types, <1>fixed, <2>1, <3>1, <3>2 DEF Outlook, Supply
  <2> QED BY <2>2, <2>3
<1>6. ASSUME NEW opaque, NEW echoes, ServerResponds(opaque, echoes)
      PROVE  Outlook' < Outlook
  <2>1. /\ phase = "waiting" /\ phase' = "reading"
        /\ UNCHANGED <<manifest, request, redirects, clock, read>>
    BY <1>6 DEF ServerResponds
  <2>2. Stages = 2 /\ Stages' = 1
    BY <2>1 DEF Stages
  <2> QED BY <1>later, <2>1, <2>2
<1>7. ASSUME NEW bytes \in Chunks, ReadChunk(bytes) PROVE Outlook' < Outlook
  <2>1. phase = "reading" /\ UNCHANGED <<manifest, request, redirects, clock>>
    BY <1>7 DEF ReadChunk
  <2>2. CASE Oversized(bytes)
    BY <1>7, <1>ends, <2>1, <2>2 DEF ReadChunk, Failed, Answered
  <2>3. CASE ~Oversized(bytes)
    <3>1. phase' = phase /\ read' = read + bytes /\ bytes \in Nat /\ bytes > 0
      BY <1>7, <2>3, FetchAssumption DEF ReadChunk
    <3>2. Stages' = Stages
      BY <3>1 DEF Stages
    <3> QED BY <1>types, <1>fixed, <2>1, <3>1, <3>2 DEF Outlook, Supply
  <2> QED BY <2>2, <2>3
<1>8. CASE ReadEnds
  BY <1>8, <1>ends DEF ReadEnds, Delivered, Failed, Answered
<1>9. CASE TransportFails \/ TransportTimesOut
  BY <1>9, <1>ends DEF TransportTimesOut, TransportFails, Failed, Answered
<1>10. CASE Tick
  <2>1. phase' = phase /\ clock' = clock + 1
        /\ UNCHANGED <<manifest, request, redirects, read>>
    BY <1>10 DEF Tick
  <2>2. Stages' = Stages
    BY <2>1 DEF Stages
  <2> QED BY <1>types, <1>fixed, <2>1, <2>2 DEF Outlook, Supply
<1> QED BY <1>types, <1>1, <1>2, <1>3, <1>4, <1>5, <1>6, <1>7, <1>8, <1>9, <1>10
        DEF Next, Handles, Servers

\* Every step of a fetch leaves less of it to come.
WindsDown == [][Outlook' < Outlook /\ Outlook \in Nat]_vars

\* However the servers redirect, stall or send, a fetch is a bounded number of
\* steps: each redirect is one of RedirectLimit, each chunk takes from the
\* effective byte limit.
THEOREM FetchWindsDown == Spec => WindsDown
<1>1. TypeOK /\ Capped /\ [Next]_vars => [Outlook' < Outlook /\ Outlook \in Nat]_vars
  BY OutlookStep
<1> QED BY <1>1, TypeStep, CappedInit, CappedStep, PTL DEF Spec, WindsDown

=============================================================================
