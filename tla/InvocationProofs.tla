--------------------------- MODULE InvocationProofs ---------------------------
(***************************************************************************)
(* Proofs about Invocation, for every budget, registry limit, memory size, *)
(* guest and number of nested imports.                                     *)
(***************************************************************************)
EXTENDS Invocation, FiniteSetTheorems, TLAPS

-----------------------------------------------------------------------------
(* The registry: what minting one more ref does.                           *)

\* The counter of the registry is the number of its entries.
RegistryCounted(reg) ==
  /\ DOMAIN reg = {"counter", "entries"}
  /\ reg.entries \in Seq(Tokens)
  /\ reg.counter = Len(reg.entries)

\* A new registry is empty and counts so.
LEMMA NewRegistryCounted == RegistryCounted(NewRegistry)
  BY DEF RegistryCounted, NewRegistry

\* Registering a token appends it: the refs minted before are left alone.
LEMMA RegisteredAppends ==
  ASSUME NEW reg, RegistryCounted(reg), NEW token \in Tokens
  PROVE  /\ RegistryCounted(Registered(reg, token))
         /\ Registered(reg, token).entries = Append(reg.entries, token)
<1> DEFINE c == reg.counter + 1
           grown == [r \in DOMAIN reg.entries \cup {c} |->
                       IF r = c THEN token ELSE reg.entries[r]]
<1>1. reg.entries \in Seq(Tokens) /\ reg.counter = Len(reg.entries)
  BY DEF RegistryCounted
<1>2. DOMAIN reg.entries \cup {c} = 1 .. c /\ c \in Nat
  BY <1>1
<1>3. grown = Append(reg.entries, token)
  <2>1. DOMAIN grown = DOMAIN Append(reg.entries, token)
    BY <1>1, <1>2
  <2>2. \A r \in 1 .. c : grown[r] = Append(reg.entries, token)[r]
    BY <1>1, <1>2
  <2>3. grown = [r \in 1 .. c |-> grown[r]]
    BY <1>2
  <2>4. Append(reg.entries, token) = [r \in 1 .. c |-> Append(reg.entries, token)[r]]
    BY <1>1
  <2> QED
    BY <2>2, <2>3, <2>4
<1>4. Registered(reg, token) = [counter |-> c, entries |-> grown]
  BY DEF Registered
<1>5. grown \in Seq(Tokens) /\ Len(grown) = c
  <2>1. Append(reg.entries, token) \in Seq(Tokens)
    BY <1>1
  <2>2. Len(Append(reg.entries, token)) = c
    BY <1>1
  <2> HIDE DEF grown, c
  <2> QED
    BY <2>1, <2>2, <1>3
<1> QED
  BY <1>3, <1>4, <1>5 DEF RegistryCounted

\* A registry that is not full has room for one more entry of an invocation.
LEMMA RoomInRegistry ==
  ASSUME NEW reg, RegistryCounted(reg), ~RegistryFull(reg)
  PROVE  Len(reg.entries) < MaxPerInvocation
<1>1. reg.entries \in Seq(Tokens) /\ DOMAIN reg.entries = 1 .. Len(reg.entries)
  BY DEF RegistryCounted
<1>2. Len(reg.entries) \in Nat
  BY <1>1
<1>3. Cardinality(1 .. Len(reg.entries)) = Len(reg.entries)
  BY <1>2, FS_Interval
<1> QED
  BY <1>1, <1>2, <1>3, HostStateAssumption DEF RegistryFull, EntryCount

-----------------------------------------------------------------------------
(* The tracker and the stack of imports keep their types.                  *)

Trackers == [allocations: SUBSET Buffers, allocated: Nat, freed: Nat]

\* Recording an allocation or a free leaves a tracker.
LEMMA TrackerTypes ==
  ASSUME NEW t \in Trackers, NEW p \in Nat, NEW n \in Nat
  PROVE  RecordAlloc(t, p, n) \in Trackers /\ RecordFree(t, p, n) \in Trackers
<1>1. [ptr |-> p, len |-> n] \in Buffers
  BY DEF Buffers
<1> QED
  BY <1>1 DEF Trackers, RecordAlloc, RecordFree

\* Popping the stack leaves the frames below as they were.
LEMMA PoppedIsPrefix ==
  ASSUME NEW S, NEW s \in Seq(S), s # << >>
  PROVE  /\ Popped(s) \in Seq(S)
         /\ Len(Popped(s)) = Len(s) - 1
         /\ \A i \in 1 .. Len(s) - 1 : Popped(s)[i] = s[i]
<1> DEFINE n == Len(s) - 1
<1>1. n \in Nat /\ n < Len(s)
  OBVIOUS
<1> HIDE DEF n
<1>2. /\ SubSeq(s, 1, n) \in Seq(S)
      /\ Len(SubSeq(s, 1, n)) = n
      /\ \A i \in 1 .. n : SubSeq(s, 1, n)[i] = s[i]
  BY <1>1
<1> QED
  BY <1>2 DEF Popped, n

\* An operation that ends without an output has a result of the right type.
Results == [verdict: Verdicts, matched: BOOLEAN, refs: SUBSET RefShapes]

\* A verdict without an output is a result of the right type.
LEMMA EndedIsResult == \A verdict \in Verdicts : Ended(verdict) \in Results
  BY DEF Ended, Results

-----------------------------------------------------------------------------
(* What decoding and validation return.                                    *)

\* The result of a match, and of an extraction, has its type, and the refs
\* of an accepted extraction have the shape of refs.
LEMMA ResultTypes ==
  ASSUME bytes \in Outputs \cup {Undecodable}
  PROVE  /\ MatchResult \in Results
         /\ ExtractResult \in Results
<1> USE DEF Results
<1>1. \A verdict \in Verdicts : Ended(verdict) \in Results
  BY EndedIsResult
<1>2. \/ bytes \in {Undecodable, EmptyJson}
      \/ \E matched, safe_reason \in BOOLEAN : bytes = MatchJson(matched, safe_reason)
      \/ bytes = ExtractJson(bytes.items) /\ bytes.items \in Seq(Items)
  BY InvocationAssumption
<1>3. DecodesAsMatch(bytes) => bytes.matched \in BOOLEAN
  <2>1. CASE bytes \in {Undecodable, EmptyJson}
    <3>1. CASE bytes = Undecodable
      BY <3>1 DEF DecodesAsMatch, Undecodable
    <3>2. CASE bytes = EmptyJson
      BY <3>2 DEF EmptyJson
    <3> QED
      BY <2>1, <3>1, <3>2
  <2>2. CASE \E matched, safe_reason \in BOOLEAN : bytes = MatchJson(matched, safe_reason)
    BY <2>2 DEF MatchJson
  <2>3. CASE bytes = ExtractJson(bytes.items)
    <3>1. bytes.kind = "extract"
      BY <2>3 DEF ExtractJson
    <3> QED
      BY <3>1 DEF DecodesAsMatch
  <2> QED
    BY <1>2, <2>1, <2>2, <2>3
<1>4. MatchResult \in Results
  BY <1>1, <1>3 DEF MatchResult, MatchVerdict, Verdicts
<1>5. ASSUME ExtractVerdict(bytes, registry) = "ok"
      PROVE  RefsOf(bytes) \subseteq RefShapes
  <2>1. \A i \in DOMAIN bytes.items : ItemAccepted(bytes.items[i], registry)
    BY <1>5 DEF ExtractVerdict
  <2> QED
    BY <2>1 DEF RefsOf, ItemAccepted, RefAccepted
<1>6. ExtractResult \in Results
  BY <1>1, <1>5 DEF ExtractResult, ExtractVerdict, Verdicts
<1> QED
  BY <1>4, <1>6

-----------------------------------------------------------------------------
(* Type correctness.                                                       *)

\* Types, with the two sums they depend on: what is left of the budget and
\* what was spent add up to the limit, and refs are numbered without a gap.
BudgetBalanced == budget.remaining + budget.calls_made = MaxHostCalls

Typed == TypeOK /\ RegistryCounted(registry) /\ BudgetBalanced

\* Before the first operation every variable has its type.
LEMMA TypeInit == Init => Typed
<1> SUFFICES ASSUME Init PROVE Typed
  OBVIOUS
<1> QED
  BY HostStateAssumption, InvocationAssumption, NewRegistryCounted
  DEF Init, Typed, BudgetBalanced, TypeOK, Ops, NewBudget, NewTracker, NewRegistry,
      NoBuffer, Buffers,
      NoResult, Verdicts, RegistryCounted

\* Every step keeps the types, the count of refs minted and the budget's sum.
LEMMA TypeStep ==
  ASSUME Typed, [Next]_vars
  PROVE  Typed'
<1> USE HostStateAssumption, InvocationAssumption
<1> USE DEF Typed, TypeOK, BudgetBalanced
<1>types.
  /\ tracker \in Trackers /\ result \in Results
  /\ input.ptr \in Nat /\ input.len \in Nat /\ output.ptr \in Nat /\ output.len \in Nat
  BY DEF Trackers, Results, Buffers
<1>trackers.
  /\ RecordFree(tracker, output.ptr, output.len) \in Trackers
  /\ RecordFree(tracker, input.ptr, input.len) \in Trackers
  /\ RecordAlloc(RecordFree(tracker, input.ptr, input.len), output.ptr, output.len)
       \in Trackers
  <2>1. RecordFree(tracker, input.ptr, input.len) \in Trackers
    BY <1>types, TrackerTypes
  <2> QED
    BY <1>types, <2>1, TrackerTypes
<1>1. ASSUME NEW o \in Ops, FreshState(o),
             phase' \in {"start", "done"},
             result' \in Results
      PROVE  Typed'
  BY <1>1, NewRegistryCounted
  DEF FreshState, GuestPhases, Results, Buffers, NewBudget, NewTracker, NewRegistry,
      NoBuffer, RegistryCounted
<1>2. CASE CheckAbi
  BY <1>1, <1>2 DEF CheckAbi, Begin, Ops, NoResult, Results, Verdicts
<1>3. CASE MatchUrl
  BY <1>1, <1>3 DEF MatchUrl, Begin, Ops, NoResult, Results, Verdicts
<1>4. CASE Extract
  BY <1>1, <1>4 DEF Extract, Begin, Ops, NoResult, Results, Verdicts
<1>5. CASE \E verdict \in {"abi_validation", "limits"} : MatchRefused(verdict)
  BY <1>1, <1>5 DEF MatchRefused, RefuseInput, Ops, Ended, Results, Verdicts
\* A served or refused call.
<1>6. ASSUME NEW code \in AnswerCodes \cup {"oversized"}, Answer(code), GuestStep,
             \/ UNCHANGED budget
             \/ ~Exhausted(budget) /\ budget' = Consumed(budget),
             \/ UNCHANGED registry
             \/ \E token \in Tokens : registry' = Registered(registry, token)
      PROVE  Typed'
  <2>1. frames' \in Seq(AnswerCodes) /\ answered' \in Nat /\ fuel' \in 0 .. Fuel
    BY <1>6 DEF Answer, AnswerCodes, GuestStep
  <2>2. /\ budget' \in [max_calls: {MaxHostCalls}, remaining: 0 .. MaxHostCalls,
                        calls_made: 0 .. MaxHostCalls]
        /\ BudgetBalanced'
    BY <1>6 DEF Exhausted, Consumed
  <2>3. registry' \in [counter: Nat, entries: Seq(Tokens)] /\ RegistryCounted(registry')
    <3>1. CASE UNCHANGED registry
      BY <3>1
    <3>2. ASSUME NEW token \in Tokens, registry' = Registered(registry, token)
          PROVE  registry' \in [counter: Nat, entries: Seq(Tokens)] /\ RegistryCounted(registry')
      <4>1. RegistryCounted(registry')
        BY <3>2, RegisteredAppends
      <4>2. registry' = [counter |-> registry'.counter, entries |-> registry'.entries]
        BY <3>2 DEF Registered
      <4> QED
        BY <4>1, <4>2 DEF RegistryCounted
    <3> QED
      BY <1>6, <3>1, <3>2
  <2> QED
    BY <1>6, <2>1, <2>2, <2>3 DEF Answer, GuestStep, RegistryCounted
<1>7. ASSUME NEW codes \in SUBSET (AnswerCodes \cup {"oversized"}), GuestStep,
             RefuseExhausted \/ Serve(codes)
      PROVE  Typed'
  <2>1. CASE RefuseExhausted
    <3>1. "budget_exhausted" \in AnswerCodes
      BY DEF AnswerCodes
    <3> QED
      BY <1>6, <1>7, <2>1, <3>1 DEF RefuseExhausted
  <2>2. CASE Serve(codes)
    <3>1. PICK code \in codes : Answer(code)
      BY <2>2 DEF Serve
    <3> QED
      BY <1>6, <1>7, <2>2, <3>1 DEF Serve
  <2> QED
    BY <1>7, <2>1, <2>2
<1>8. CASE GuestComputes
  BY <1>8 DEF GuestComputes, GuestStep
<1>9. CASE MalformedRequest
  BY <1>7, <1>9 DEF MalformedRequest, AnswerCodes
<1>10. CASE HttpFetch
  BY <1>7, <1>10 DEF HttpFetch, AnswerCodes
<1>11. CASE AuthProfileStatus
  BY <1>7, <1>11 DEF AuthProfileStatus, AnswerCodes
<1>12. CASE HostTime
  BY <1>7, <1>12 DEF HostTime, AnswerCodes
<1>13. ASSUME NEW bearer \in BOOLEAN, NEW token \in Tokens, RegisterDownloadAuth(bearer, token)
       PROVE  Typed'
  <2>1. CASE RefuseExhausted
    BY <1>7, <1>13, <2>1 DEF RegisterDownloadAuth
  <2>2. CASE RefuseRegistration(bearer, token)
    <3>1. {RegistrationAnswer(bearer, token)} \in SUBSET AnswerCodes
      BY DEF RegistrationAnswer, AnswerCodes
    <3> QED
      BY <1>7, <1>13, <2>2, <3>1 DEF RegisterDownloadAuth, RefuseRegistration
  <2>3. CASE MintRef(bearer, token)
    BY <1>6, <1>13, <2>3 DEF RegisterDownloadAuth, MintRef, AnswerCodes
  <2> QED
    BY <1>13, <2>1, <2>2, <2>3 DEF RegisterDownloadAuth
<1>14. ASSUME NEW token \in Tokens, RegistrationPanics(token)
       PROVE  Typed'
  <2>1. Ended("host_panic") \in Results
    BY EndedIsResult DEF Verdicts
  <2> QED
    BY <1>14, <2>1 DEF RegistrationPanics, GuestStep, Results
<1>15. CASE AllocResponseReturns
  <2>1. frames' \in Seq(AnswerCodes)
    BY <1>15, PoppedIsPrefix DEF AllocResponseReturns
  <2> QED
    BY <1>15, <2>1 DEF AllocResponseReturns, GuestStep
<1>16. CASE GuestTraps
  <2>1. frames' \in Seq(AnswerCodes)
    BY <1>16, PoppedIsPrefix DEF GuestTraps
  <2>2. result' \in Results /\ phase' \in GuestPhases \cup {"idle", "done", "crashed"}
    BY <1>types, <1>16, EndedIsResult DEF GuestTraps, Finish, Verdicts
  <2> QED
    BY <1>16, <2>1, <2>2 DEF GuestTraps, Results
\* An export returns: what every such step leaves alone, and what it sets.
<1>17. ASSUME NEW export, Returns(export),
              phase' \in GuestPhases \cup {"done"},
              tracker' \in Trackers, result' \in Results,
              input' \in Buffers, output' \in Buffers,
              bytes' \in Outputs \cup {Undecodable}
       PROVE  Typed'
  BY <1>17 DEF Returns, GuestStep, Trackers, Results
<1>18. CASE StartReturns
  BY <1>types, <1>17, <1>18 DEF StartReturns, GuestPhases
<1>19. ASSUME NEW version_matches \in BOOLEAN, AbiVersionReturns(version_matches)
       PROVE  Typed'
  BY <1>types, <1>17, <1>19, EndedIsResult DEF AbiVersionReturns, Finish, Verdicts
<1>20. ASSUME NEW p \in Ptrs, AllocInputReturns(p)
       PROVE  Typed'
  <2>1. tracker' \in Trackers
    <3>1. RecordAlloc(tracker, p, InputLen) \in Trackers
      BY <1>types, TrackerTypes
    <3> QED
      BY <1>types, <1>20, <3>1 DEF AllocInputReturns
  <2>2. input' \in Buffers
    BY <1>20 DEF AllocInputReturns, Buffers
  <2>3. result' \in Results /\ phase' \in GuestPhases \cup {"done"}
    BY <1>types, <1>20, EndedIsResult DEF AllocInputReturns, Finish, Verdicts, GuestPhases
  <2> QED
    BY <1>17, <1>20, <2>1, <2>2, <2>3 DEF AllocInputReturns
<1>21. ASSUME NEW p \in Ptrs, NEW n \in Lens, OperationReturns(p, n)
       PROVE  Typed'
  <2>1. output' \in Buffers
    BY <1>21 DEF OperationReturns, Buffers
  <2> QED
    BY <1>types, <1>17, <1>21, <2>1 DEF OperationReturns, GuestPhases
<1>22. ASSUME NEW read \in Outputs, FreeInputReturns(read)
       PROVE  Typed'
  <2>1. tracker' \in Trackers
    BY <1>types, <1>trackers, <1>22 DEF FreeInputReturns, TakeOutput
  <2>2. result' \in Results /\ phase' \in GuestPhases \cup {"done"}
    BY <1>types, <1>22, EndedIsResult
    DEF FreeInputReturns, TakeOutput, Finish, Verdicts, GuestPhases
  <2>3. bytes' \in Outputs \cup {Undecodable}
    BY <1>22 DEF FreeInputReturns, TakeOutput
  <2> QED
    BY <1>17, <1>22, <2>1, <2>2, <2>3 DEF FreeInputReturns
<1>23. ASSUME NEW export, NEW r \in Results, Returns(export), ReleaseOutput(r)
       PROVE  Typed'
  <2>1. tracker' \in Trackers /\ result' \in Results /\ phase' = "done"
    BY <1>types, <1>trackers, <1>23, EndedIsResult DEF ReleaseOutput, Finish, Verdicts
  <2> QED
    BY <1>17, <1>23, <2>1 DEF ReleaseOutput
<1>24. CASE FreeOversizedReturns
  BY <1>23, <1>24, EndedIsResult DEF FreeOversizedReturns, Verdicts
<1>26. CASE FreeUnreadableReturns
  <2>1. tracker' \in Trackers /\ result' \in Results /\ phase' = "done"
    BY <1>types, <1>trackers, <1>26, EndedIsResult DEF FreeUnreadableReturns, Finish,
       Verdicts
  <2> QED
    BY <1>17, <1>26, <2>1 DEF FreeUnreadableReturns
<1>27. CASE FreeOutputReturns
  <2>1. OperationResult \in Results
    BY ResultTypes, EndedIsResult DEF OperationResult, Verdicts
  <2> QED
    BY <1>23, <1>27, <2>1 DEF FreeOutputReturns
<1>25. CASE UNCHANGED vars
  BY <1>25 DEF vars
<1> QED
  BY <1>2, <1>3, <1>4, <1>5, <1>8, <1>9, <1>10, <1>11, <1>12, <1>13, <1>14, <1>15, <1>16,
     <1>17, <1>18, <1>19, <1>20, <1>21, <1>22, <1>23, <1>24, <1>25, <1>26, <1>27
  DEF Next, Executing, Imports, Exports

\* Every variable keeps its type, in every invocation of every pack.
THEOREM TypeCorrect == Spec => []TypeOK
<1>1. Init => Typed
  BY TypeInit
<1>2. Typed /\ [Next]_vars => Typed'
  BY TypeStep
<1>3. Typed => TypeOK
  BY DEF Typed
<1> QED
  BY <1>1, <1>2, <1>3, PTL DEF Spec

-----------------------------------------------------------------------------
(* What a step can be, as far as the host's side is concerned.             *)

\* A new invocation, or an operation refused before there is one.
Fresh ==
  \E o \in Ops :
    /\ FreshState(o)
    /\ \/ phase' = "start" /\ result' = NoResult
       \/ phase' = "done" /\ \E verdict \in {"abi_validation", "limits"} : result' = Ended(verdict)

ExhaustedCall == GuestStep /\ RefuseExhausted

Minted == \E token \in Tokens : ~RegistryFull(registry) /\ registry' = Registered(registry, token)

ServedCall ==
  /\ GuestStep
  /\ ~Exhausted(budget) /\ budget' = Consumed(budget)
  /\ \E code \in (AnswerCodes \ {"budget_exhausted"}) \cup {"oversized"} : Answer(code)
  /\ UNCHANGED registry \/ Minted

\* No call: the guest runs on, or the operation is over.
Over ==
  /\ phase' \in {"done", "crashed"}
  /\ result'.refs = {} \/ result' = ExtractResult

Quiet ==
  /\ Running
  /\ UNCHANGED <<budget, registry, answered, invocations>>
  /\ UNCHANGED frames \/ (frames # << >> /\ frames' = Popped(frames))
  /\ (phase' \in GuestPhases /\ UNCHANGED result) \/ Over

\* Every step begins an operation, makes a call that is refused or served, or
\* leaves budget, registry and answers alone.
LEMMA StepKinds ==
  ASSUME Next
  PROVE  Fresh \/ ExhaustedCall \/ ServedCall \/ Quiet
<1>1. CASE CheckAbi \/ MatchUrl \/ Extract
  BY <1>1 DEF CheckAbi, MatchUrl, Extract, Begin, Fresh, Ops
<1>2. CASE \E verdict \in {"abi_validation", "limits"} : MatchRefused(verdict)
  BY <1>2 DEF MatchRefused, RefuseInput, Fresh, Ops
\* The imports.
<1>3. ASSUME GuestStep, NEW codes \in SUBSET ((AnswerCodes \ {"budget_exhausted"}) \cup {"oversized"}),
             RefuseExhausted \/ Serve(codes)
      PROVE  ExhaustedCall \/ ServedCall
  BY <1>3 DEF ExhaustedCall, ServedCall, Serve
<1>4. CASE MalformedRequest \/ HttpFetch \/ AuthProfileStatus \/ HostTime
  BY <1>3, <1>4 DEF MalformedRequest, HttpFetch, AuthProfileStatus, HostTime, AnswerCodes
<1>5. ASSUME NEW bearer \in BOOLEAN, NEW token \in Tokens, RegisterDownloadAuth(bearer, token)
      PROVE  ExhaustedCall \/ ServedCall
  <2>1. {RegistrationAnswer(bearer,
  token)} \in SUBSET (AnswerCodes \ {"budget_exhausted"})
    BY DEF RegistrationAnswer, AnswerCodes
  <2>2. CASE RefuseExhausted \/ RefuseRegistration(bearer, token)
    BY <1>3, <1>5, <2>1, <2>2 DEF RegisterDownloadAuth, RefuseRegistration
  <2>3. CASE MintRef(bearer, token)
    <3>1. ~RegistryFull(registry)
      BY <2>3 DEF MintRef, RegistrationAnswer
    <3> QED
      BY <1>5, <2>3, <3>1 DEF RegisterDownloadAuth, MintRef, ServedCall, Minted,
         AnswerCodes
  <2> QED
    BY <1>5, <2>2, <2>3 DEF RegisterDownloadAuth
<1>6. ASSUME NEW token \in Tokens, RegistrationPanics(token)
      PROVE  Quiet
  BY <1>6 DEF RegistrationPanics, GuestStep, Quiet, Over, Ended
<1>7. CASE GuestComputes \/ AllocResponseReturns
  BY <1>7 DEF GuestComputes, AllocResponseReturns, GuestStep, Quiet, Running
<1>8. CASE GuestTraps
  BY <1>8 DEF GuestTraps, Finish, Ended, Quiet, Over, Running
\* The exports.
<1>9. ASSUME NEW export, Returns(export),
             (phase' \in GuestPhases /\ UNCHANGED result) \/ Over
      PROVE  Quiet
  BY <1>9 DEF Returns, GuestStep, Quiet
<1>10. CASE StartReturns
  BY <1>9, <1>10 DEF StartReturns, GuestPhases
<1>11. CASE \E version_matches \in BOOLEAN : AbiVersionReturns(version_matches)
  BY <1>9, <1>11 DEF AbiVersionReturns, Finish, Ended, Over
<1>12. CASE \E p \in Ptrs : AllocInputReturns(p)
  BY <1>9, <1>12 DEF AllocInputReturns, Finish, Ended, Over, GuestPhases
<1>13. CASE \E p \in Ptrs, n \in Lens : OperationReturns(p, n)
  BY <1>9, <1>13 DEF OperationReturns, GuestPhases
<1>14. CASE \E read \in Outputs : FreeInputReturns(read)
  BY <1>9, <1>14 DEF FreeInputReturns, TakeOutput, Finish, Ended, Over, GuestPhases
<1>15. CASE FreeOversizedReturns \/ FreeUnreadableReturns
  BY <1>9, <1>15 DEF FreeOversizedReturns, FreeUnreadableReturns, ReleaseOutput,
     Finish, Ended, Over
<1>16. CASE FreeOutputReturns
  <2>1. MatchResult.refs = {}
    BY DEF MatchResult, Ended
  <2>2. OperationResult.refs = {} \/ OperationResult = ExtractResult
    BY <2>1 DEF OperationResult, Ended
  <2>3. result' = OperationResult \/ result'.refs = {}
    BY <1>16 DEF FreeOutputReturns, ReleaseOutput, Finish, Ended
  <2> QED
    BY <1>9, <1>16, <2>2, <2>3 DEF FreeOutputReturns, ReleaseOutput, Finish, Over
<1> QED
  BY <1>1, <1>2, <1>4, <1>5, <1>6, <1>7, <1>8, <1>10, <1>11, <1>12, <1>13, <1>14,
     <1>15, <1>16
  DEF Next, Executing, Imports, Exports

-----------------------------------------------------------------------------
(* The budget.                                                             *)

\* Nothing is answered before the first invocation.
LEMMA PaidInit == Init => AnswersPaid
  BY HostStateAssumption DEF Init, AnswersPaid, NewBudget

\* A step leaves budget and answers alone, moves both, or starts afresh.
LEMMA PaidStep == Typed /\ AnswersPaid /\ [Next]_vars => AnswersPaid'
<1> SUFFICES ASSUME Typed, AnswersPaid, [Next]_vars PROVE AnswersPaid'
  OBVIOUS
<1>0. /\ budget.remaining \in Nat /\ budget.calls_made \in Nat /\ answered \in Nat
      /\ MaxHostCalls \in Nat
  BY HostStateAssumption DEF Typed, TypeOK
<1>1. CASE Fresh
  BY <1>1, HostStateAssumption DEF Fresh, FreshState, AnswersPaid, NewBudget
<1>2. CASE ExhaustedCall
  BY <1>2 DEF ExhaustedCall, RefuseExhausted, Answer, AnswersPaid
<1>3. CASE ServedCall
  BY <1>0, <1>3 DEF ServedCall, Answer, AnswersPaid, Consumed
<1>4. CASE Quiet \/ UNCHANGED vars
  BY <1>4 DEF Quiet, vars, AnswersPaid
<1> QED
  BY <1>1, <1>2, <1>3, <1>4, StepKinds

\* Whatever the guest nests, every answer other than budget_exhausted was
\* paid for with one call of the budget.
THEOREM BudgetPaid == Spec => []AnswersPaid
  BY PaidInit, PaidStep, TypeInit, TypeStep, PTL DEF Spec

\* Once an import has been told budget_exhausted, so is every later one.
THEOREM ExhaustionFinal == Spec => []ExhaustionIsFinal
<1>1. Init => ExhaustionIsFinal
  BY DEF Init, ExhaustionIsFinal
<1>2. Typed /\ ExhaustionIsFinal /\ [Next]_vars => ExhaustionIsFinal'
  <2> SUFFICES ASSUME Typed, ExhaustionIsFinal, [Next]_vars PROVE ExhaustionIsFinal'
    OBVIOUS
  <2>0. frames \in Seq(AnswerCodes)
    BY DEF Typed, TypeOK
  <2>1. CASE Fresh
    BY <2>1 DEF Fresh, FreshState, ExhaustionIsFinal
  <2>2. CASE ExhaustedCall
    <3>1. frames' = Append(frames, "budget_exhausted") /\ budget'.remaining = 0
      BY <2>2 DEF ExhaustedCall, RefuseExhausted, Answer, Exhausted
    <3> QED
      BY <2>0, <3>1 DEF ExhaustionIsFinal
  \* Something remained, so no frame below is an exhausted one.
  <2>3. CASE ServedCall
    <3>1. PICK code : frames' = Append(frames, code) /\ code # "budget_exhausted"
      BY <2>3 DEF ServedCall, Answer
    <3>2. \A i \in DOMAIN frames : frames[i] # "budget_exhausted"
      BY <2>3 DEF ServedCall, Exhausted, ExhaustionIsFinal
    <3>3. \A i \in DOMAIN frames' : frames'[i] # "budget_exhausted"
      BY <2>0, <3>1, <3>2
    <3> QED
      BY <3>3 DEF ExhaustionIsFinal
  <2>4. CASE Quiet \/ UNCHANGED vars
    <3>1. CASE UNCHANGED frames
      BY <2>4, <3>1 DEF Quiet, vars, ExhaustionIsFinal
    <3>2. CASE frames # << >> /\ frames' = Popped(frames)
      <4>1. DOMAIN frames' = 1 .. Len(frames) - 1 /\ DOMAIN frames = 1 .. Len(frames)
        BY <2>0, <3>2, PoppedIsPrefix
      <4>2. \A i \in DOMAIN frames' : i \in DOMAIN frames /\ frames'[i] = frames[i]
        BY <2>0, <3>2, <4>1, PoppedIsPrefix
      <4> QED
        BY <2>4, <4>2 DEF Quiet, vars, ExhaustionIsFinal
    <3> QED
      BY <2>4, <3>1, <3>2 DEF Quiet, vars
  <2> QED
    BY <2>1, <2>2, <2>3, <2>4, StepKinds
<1> QED
  BY <1>1, <1>2, TypeInit, TypeStep, PTL DEF Spec

-----------------------------------------------------------------------------
(* The ownership of buffers.                                               *)

(***************************************************************************)
(* OwnershipBalanced speaks of the end of an operation only.  What makes   *)
(* it inductive is the one buffer the tracker has on record in each phase: *)
(* none before goaria_alloc returns the input, the input until the host    *)
(* has freed it, and from then on the output, aliased to it or not.        *)
(***************************************************************************)
Balanced(t) == t.allocations = {} /\ t.allocated = t.freed

Owns(t, b) ==
  /\ b.ptr # 0 /\ b.len # 0
  /\ t.allocations = {b} /\ t.allocated = t.freed + b.len

OwnedByPhase ==
  /\ phase \in {"idle", "start", "abi_version", "alloc_input"} => Balanced(tracker)
  /\ phase \in {"operation", "free_input"} => Owns(tracker, input)
  /\ phase \in {"free_oversized", "free_unreadable", "free_output"} => Owns(tracker, output)
  /\ phase \notin {"done", "crashed"} => result = NoResult
  /\ OwnershipBalanced
  /\ EngineErrorsRelease

\* Recording one buffer in a balanced tracker, and freeing it again.
LEMMA AllocOwns ==
  ASSUME NEW t \in Trackers, Balanced(t), NEW b \in Buffers, b.ptr # 0, b.len # 0
  PROVE  Owns(RecordAlloc(t, b.ptr, b.len), b)
<1>1. b = [ptr |-> b.ptr, len |-> b.len] /\ b.len \in Nat
  BY DEF Buffers
<1> QED
  BY <1>1 DEF Trackers, Balanced, Owns, RecordAlloc

\* Freeing a buffer on record keeps the totals balanced and takes it off.
LEMMA FreeBalances ==
  ASSUME NEW t \in Trackers, NEW b \in Buffers, Owns(t, b)
  PROVE  ~FreeRefused(t, b.ptr, b.len) /\ Balanced(RecordFree(t, b.ptr, b.len))
<1>1. b = [ptr |-> b.ptr, len |-> b.len] /\ b.len \in Nat
  BY DEF Buffers
<1> QED
  BY <1>1 DEF Trackers, Balanced, Owns, RecordFree, FreeRefused

\* The verdicts a result can have that does not come from the tracker.
LEMMA VerdictsOfOutputs ==
  /\ MatchResult.verdict \notin {"memory", "trap", "engine"}
  /\ ExtractResult.verdict \notin {"memory", "trap", "engine"}
  BY DEF MatchResult, MatchVerdict, ExtractResult, ExtractVerdict, Ended

\* Before the first operation nothing is owned.
LEMMA OwnershipInit == Init => OwnedByPhase
  BY DEF Init, OwnedByPhase, Balanced, NewTracker, NoResult, OwnershipBalanced,
     EngineErrorsRelease

\* Every step keeps the buffers of its phase on record, and no others.
LEMMA OwnershipStep ==
  ASSUME Typed, OwnedByPhase, [Next]_vars
  PROVE  OwnedByPhase'
<1> USE InvocationAssumption
<1>types. tracker \in Trackers /\ input \in Buffers /\ output \in Buffers
  BY DEF Typed, TypeOK, Trackers
\* The operation ends in r, with the tracker balanced.
<1>over. ASSUME phase' = "done", Balanced(tracker'), result'.verdict # "memory"
         PROVE  OwnedByPhase'
  BY <1>over DEF OwnedByPhase, OwnershipBalanced, EngineErrorsRelease, Balanced, HasLeaks
<1>1. CASE CheckAbi \/ MatchUrl \/ Extract
  BY <1>1 DEF CheckAbi, MatchUrl, Extract, Begin, FreshState, NewTracker, Balanced,
     NoResult,
              OwnedByPhase, OwnershipBalanced, EngineErrorsRelease
<1>2. CASE \E verdict \in {"abi_validation", "limits"} : MatchRefused(verdict)
  BY <1>over, <1>2 DEF MatchRefused, RefuseInput, FreshState, NewTracker, Balanced, Ended
\* The imports leave the tracker and the phase as they are.
<1>3. ASSUME UNCHANGED <<phase, tracker, input, output, result>>
      PROVE  OwnedByPhase'
  BY <1>3 DEF OwnedByPhase, OwnershipBalanced, EngineErrorsRelease, Balanced, Owns,
     HasLeaks,
              InMemory, NoResult
<1>4. CASE GuestComputes \/ MalformedRequest \/ HttpFetch \/ AuthProfileStatus \/ HostTime
           \/ AllocResponseReturns
  BY <1>3, <1>4 DEF GuestComputes, MalformedRequest, HttpFetch, AuthProfileStatus,
     HostTime,
                    AllocResponseReturns, RefuseExhausted, Serve, Answer
<1>5. ASSUME NEW bearer \in BOOLEAN, NEW token \in Tokens, RegisterDownloadAuth(bearer, token)
      PROVE  OwnedByPhase'
  BY <1>3, <1>5 DEF RegisterDownloadAuth, RefuseExhausted, RefuseRegistration, MintRef,
     Serve, Answer
<1>6. ASSUME NEW token \in Tokens, RegistrationPanics(token)
      PROVE  OwnedByPhase'
  BY <1>6 DEF RegistrationPanics, Ended, OwnedByPhase, OwnershipBalanced,
     EngineErrorsRelease
<1>7. CASE GuestTraps
  <2>1. CASE frames = << >>
    BY <1>7, <2>1 DEF GuestTraps, Finish, Ended, OwnedByPhase, OwnershipBalanced,
       EngineErrorsRelease
  <2>2. CASE frames # << >>
    BY <1>3, <1>7, <2>2 DEF GuestTraps
  <2> QED
    BY <2>1, <2>2
\* The exports.
<1>8. CASE StartReturns
  BY <1>8 DEF StartReturns, Returns, OwnedByPhase, OwnershipBalanced,
     EngineErrorsRelease, Balanced,
              NoResult
<1>9. ASSUME NEW version_matches \in BOOLEAN, AbiVersionReturns(version_matches)
      PROVE  OwnedByPhase'
  BY <1>over, <1>9 DEF AbiVersionReturns, Returns, Finish, Ended, OwnedByPhase, Balanced
<1>10. ASSUME NEW p \in Ptrs, AllocInputReturns(p)
       PROVE  OwnedByPhase'
  <2>1. Balanced(tracker) /\ result = NoResult
    BY <1>10 DEF AllocInputReturns, Returns, OwnedByPhase
  <2>2. CASE ~Positive(p)
    BY <1>over, <1>10, <2>1, <2>2 DEF AllocInputReturns, Finish, Ended, Balanced
  <2>3. CASE Positive(p)
    <3>1. input' \in Buffers /\ input'.ptr = p /\ input'.len = InputLen /\ p # 0 /\ InputLen # 0
      BY <1>10, <2>3 DEF AllocInputReturns, Buffers, Positive
    <3>2. Owns(tracker', input')
      <4>1. tracker' = RecordAlloc(tracker, input'.ptr, input'.len)
        BY <1>10, <2>3, <3>1 DEF AllocInputReturns
      <4> QED
        BY <1>types, <2>1, <3>1, <4>1, AllocOwns
    <3>3. CASE InMemory(p, InputLen)
      BY <1>10, <2>1, <2>3, <3>2, <3>3
      DEF AllocInputReturns, OwnedByPhase, OwnershipBalanced, EngineErrorsRelease,
          NoResult
    \* The host could not write the input it has recorded.
    <3>4. CASE ~InMemory(p, InputLen)
      BY <1>10, <2>3, <3>1, <3>2, <3>4
      DEF AllocInputReturns, Finish, Ended, OwnedByPhase, OwnershipBalanced,
          EngineErrorsRelease,
          Owns, InMemory
    <3> QED
      BY <3>3, <3>4
  <2> QED
    BY <2>2, <2>3
<1>11. ASSUME NEW p \in Ptrs, NEW n \in Lens, OperationReturns(p, n)
       PROVE  OwnedByPhase'
  BY <1>11 DEF OperationReturns, Returns, OwnedByPhase, OwnershipBalanced,
     EngineErrorsRelease,
               Owns, NoResult
<1>12. ASSUME NEW read \in Outputs, FreeInputReturns(read)
       PROVE  OwnedByPhase'
  <2> DEFINE freed == RecordFree(tracker, input.ptr, input.len)
  <2>1. Owns(tracker, input) /\ result = NoResult
    BY <1>12 DEF FreeInputReturns, Returns, OwnedByPhase
  <2>2. TakeOutput(read) /\ Balanced(freed) /\ freed \in Trackers
    <3>1. ~FreeRefused(tracker, input.ptr, input.len) /\ Balanced(freed)
      BY <1>types, <2>1, FreeBalances
    <3>2. freed \in Trackers
      BY <1>types, TrackerTypes DEF Buffers
    <3> QED
      BY <1>12, <3>1, <3>2 DEF FreeInputReturns
  <2>3. tracker' = RecordAlloc(freed, output.ptr, output.len) /\ UNCHANGED output
    BY <1>12, <2>2 DEF FreeInputReturns, TakeOutput
  <2> HIDE DEF freed
  <2>4. CASE output.ptr = 0 \/ output.len = 0
    <3>1. tracker' = freed
      BY <2>3, <2>4 DEF RecordAlloc
    <3> QED
      BY <1>over, <2>2, <2>4, <3>1 DEF TakeOutput, Finish, Ended
  <2>5. CASE ~(output.ptr = 0 \/ output.len = 0)
    <3>1. Owns(tracker', output')
      BY <1>types, <2>2, <2>3, <2>5, AllocOwns
    <3>2. /\ phase' \in {"free_oversized", "free_unreadable", "free_output"}
          /\ UNCHANGED result
      BY <2>2, <2>5 DEF TakeOutput
    <3> QED
      BY <2>1, <3>1, <3>2 DEF OwnedByPhase, OwnershipBalanced, EngineErrorsRelease,
         NoResult
  <2> QED
    BY <2>4, <2>5
<1>13. ASSUME phase \in {"free_oversized", "free_output"}, NEW r, r.verdict # "memory", ReleaseOutput(r)
       PROVE  OwnedByPhase'
  <2>1. ~FreeRefused(tracker, output.ptr, output.len)
        /\ Balanced(RecordFree(tracker, output.ptr, output.len))
    BY <1>types, <1>13, FreeBalances DEF OwnedByPhase
  <2> QED
    BY <1>over, <1>13, <2>1 DEF ReleaseOutput, Finish
<1>14. CASE FreeOversizedReturns
  BY <1>13, <1>14 DEF FreeOversizedReturns, Returns, Ended
<1>15. CASE FreeUnreadableReturns
  <2>1. Balanced(RecordFree(tracker, output.ptr, output.len))
    BY <1>types, <1>15, FreeBalances DEF FreeUnreadableReturns, Returns, OwnedByPhase
  <2> QED
    BY <1>over, <1>15, <2>1 DEF FreeUnreadableReturns, Finish, Ended
<1>16. CASE FreeOutputReturns
  <2>1. Balanced(RecordFree(tracker, output.ptr, output.len))
    BY <1>types, <1>16, FreeBalances DEF FreeOutputReturns, Returns, OwnedByPhase
  <2>2. OperationResult.verdict # "memory"
    BY <2>1, VerdictsOfOutputs DEF OperationResult, HasLeaks, Balanced
  <2> QED
    BY <1>13, <1>16, <2>2 DEF FreeOutputReturns, Returns
<1>17. CASE UNCHANGED vars
  BY <1>3, <1>17 DEF vars
<1> QED
  BY <1>1, <1>2, <1>4, <1>5, <1>6, <1>7, <1>8, <1>9, <1>10, <1>11, <1>12, <1>14, <1>15,
     <1>16, <1>17
  DEF Next, Executing, Imports, Exports

\* No guest can make an operation end in an ownership violation, and what
\* ends without a breakdown has given back every buffer.
THEOREM OwnershipAlwaysBalanced == Spec => []OwnershipBalanced
<1>1. OwnedByPhase => OwnershipBalanced
  BY DEF OwnedByPhase
<1> QED
  BY <1>1, OwnershipInit, OwnershipStep, TypeInit, TypeStep, PTL DEF Spec

\* The only buffer an engine error leaves on record is an input that the
\* host could not write.
THEOREM EngineErrorsAlwaysRelease == Spec => []EngineErrorsRelease
<1>1. OwnedByPhase => EngineErrorsRelease
  BY DEF OwnedByPhase
<1> QED
  BY <1>1, OwnershipInit, OwnershipStep, TypeInit, TypeStep, PTL DEF Spec

-----------------------------------------------------------------------------
(* The bindings of download-auth refs.                                     *)

\* Within an invocation the bindings only grow, one at the end at a time.
LEMMA BindingsGrow ==
  ASSUME Typed, Next, invocations' = invocations
  PROVE  \/ UNCHANGED registry
         \/ \E token \in Tokens :
              /\ Len(registry.entries) < MaxPerInvocation
              /\ registry'.entries = Append(registry.entries, token)
<1>0. RegistryCounted(registry) /\ invocations \in Nat
  BY DEF Typed, TypeOK
<1>1. CASE Fresh
  BY <1>0, <1>1 DEF Fresh, FreshState
<1>2. CASE ExhaustedCall \/ Quiet
  BY <1>2 DEF ExhaustedCall, RefuseExhausted, Quiet
<1>3. CASE ServedCall
  BY <1>0, <1>3, RoomInRegistry, RegisteredAppends DEF ServedCall, Minted
<1> QED
  BY <1>1, <1>2, <1>3, StepKinds

\* A ref stands for the same token as long as its invocation lasts.
THEOREM RefsAlwaysStable == Spec => RefsStable
<1>1. Typed /\ [Next]_vars => [RefsKept]_vars
  <2> SUFFICES ASSUME Typed, Next, invocations' = invocations
               PROVE  RefsKept
    BY DEF RefsKept
  <2>1. registry.entries \in Seq(Tokens)
    BY DEF Typed, TypeOK
  <2>2. CASE UNCHANGED registry
    BY <2>2 DEF RefsKept
  <2>3. ASSUME NEW token \in Tokens, registry'.entries = Append(registry.entries, token)
        PROVE  RefsKept
    BY <2>1, <2>3 DEF RefsKept
  <2> QED
    BY <2>2, <2>3, BindingsGrow
<1> QED
  BY <1>1, TypeInit, TypeStep, PTL DEF Spec, RefsStable

-----------------------------------------------------------------------------
(* The host implements its contract.                                       *)

\* The refs of an accepted extraction are bindings of this invocation, and
\* none of them is a raw token.
LEMMA AcceptedRefsAreBindings ==
  /\ ExtractResult.refs \subseteq DOMAIN registry.entries
  /\ \A r \in ExtractResult.refs : \A s \in DOMAIN registry.entries : registry.entries[s] # r
<1>1. CASE ExtractVerdict(bytes, registry) # "ok"
  BY <1>1 DEF ExtractResult, Ended
<1>2. CASE ExtractVerdict(bytes, registry) = "ok"
  <2>1. \A i \in DOMAIN bytes.items : ItemAccepted(bytes.items[i], registry)
    BY <1>2 DEF ExtractVerdict
  <2>2. ExtractResult.refs = RefsOf(bytes)
    BY <1>2 DEF ExtractResult
  <2>3. \A r \in RefsOf(bytes) : ContainsRef(registry, r) /\ ~IsRegisteredToken(registry, r)
    BY <2>1 DEF RefsOf, ItemAccepted, RefAccepted
  <2> QED
    BY <2>2, <2>3 DEF ContainsRef, IsRegisteredToken
<1> QED
  BY <1>1, <1>2

\* Before the first operation the host's contract begins.
LEMMA ContractInit == Init => Contract!Init
  BY HostStateAssumption DEF Init, Contract!Init, Running, GuestPhases, NewRegistry,
     NoResult

\* Every step of the runner is a step of the contract, or a stutter.
LEMMA ContractStep ==
  ASSUME Typed, OwnedByPhase, AnswersPaid, [Next]_vars
  PROVE  [Contract!Next]_(Contract!vars)
<1> USE DEF Contract!Next, Contract!vars
<1>0. /\ registry.entries \in Seq(Tokens) /\ invocations \in Nat
      /\ budget.remaining \in Nat /\ budget.calls_made \in Nat /\ MaxHostCalls \in Nat
      /\ budget.remaining + budget.calls_made = MaxHostCalls /\ answered = budget.calls_made
  BY HostStateAssumption DEF Typed, TypeOK, AnswersPaid
<1>1. CASE Fresh
  <2>1. ~Running /\ answered' = 0 /\ registry'.entries = << >>
    BY <1>1 DEF Fresh, FreshState, Running, GuestPhases, NewRegistry
  <2>2. CASE phase' = "start" /\ result' = NoResult
    BY <2>1, <2>2 DEF Contract!Begin, Running, GuestPhases, NoResult
  <2>3. CASE phase' = "done" /\ \E verdict \in {"abi_validation", "limits"} : result' = Ended(verdict)
    BY <2>1, <2>3 DEF Contract!Refuse, Running, GuestPhases, Ended
  <2> QED
    BY <1>1, <2>2, <2>3 DEF Fresh
<1>2. CASE ExhaustedCall
  BY <1>2 DEF ExhaustedCall, RefuseExhausted, Answer, Running
<1>3. CASE ServedCall
  <2>1. /\ Running /\ Running' /\ answered < MaxHostCalls /\ answered' = answered + 1
        /\ UNCHANGED result
    BY <1>0, <1>3 DEF ServedCall, GuestStep, Exhausted, Answer, Running
  <2>2. CASE UNCHANGED registry
    BY <2>1, <2>2 DEF Contract!ServeCall
  <2>3. CASE Minted
    <3>1. PICK token \in Tokens : ~RegistryFull(registry) /\ registry' = Registered(registry, token)
      BY <2>3 DEF Minted
    <3>2. /\ Len(registry.entries) < MaxPerInvocation
          /\ registry'.entries = Append(registry.entries, token)
      BY <3>1, RoomInRegistry, RegisteredAppends DEF Typed
    <3> QED
      BY <2>1, <3>2 DEF Contract!Bind
  <2> QED
    BY <1>3, <2>2, <2>3 DEF ServedCall
<1>4. CASE Quiet
  <2>1. Running /\ UNCHANGED <<registry, answered>> /\ result.refs = {}
    BY <1>4 DEF Quiet, Running, GuestPhases, OwnedByPhase, NoResult
  <2>2. CASE phase' \in GuestPhases /\ UNCHANGED result
    BY <2>1, <2>2 DEF Running
  <2>3. CASE Over
    <3>1. ~Running'
      BY <2>3 DEF Over, Running, GuestPhases
    <3>2. /\ result'.refs \in SUBSET DOMAIN registry.entries
          /\ \A r \in result'.refs : \A s \in DOMAIN registry.entries : registry.entries[s] # r
      BY <2>3, AcceptedRefsAreBindings DEF Over
    <3>3. Contract!End(result'.refs)
      BY <2>1, <3>1, <3>2 DEF Contract!End
    <3> QED
      BY <3>2, <3>3
  <2> QED
    BY <1>4, <2>2, <2>3 DEF Quiet
<1>5. CASE UNCHANGED vars
  BY <1>5 DEF vars, Running
<1> QED
  BY <1>1, <1>2, <1>3, <1>4, <1>5, StepKinds

\* The runner without its fairness: a guest with steps of its own need not
\* be run to the end for the contract to hold.
HostSafety == Init /\ [][Next]_vars

\* Initial states map to initial states, steps to steps or stutters.
LEMMA SafetyImplementsContract == HostSafety => ImplementsContract
  BY PaidInit, PaidStep, ContractInit, ContractStep, OwnershipInit, OwnershipStep,
     TypeInit, TypeStep, PTL
  DEF HostSafety, ImplementsContract, Contract!Spec

\* The runner implements HostContract, for every guest and every limit.
THEOREM HostImplementsContract == Spec => ImplementsContract
  BY SafetyImplementsContract, PTL DEF Spec, HostSafety

-----------------------------------------------------------------------------
(* An operation cannot go on for ever.                                     *)

\* What an operation can still do: two for each unit of fuel (a step of the
\* guest may open a frame, which a trap closes for nothing), one for each
\* frame, and one for the end itself.
Effort == 2 * fuel + Len(frames) + (IF Running THEN 1 ELSE 0)

\* A step of the guest costs more than the frame it may open.
LEMMA GuestStepCosts ==
  ASSUME Typed, GuestStep, Len(frames') \in Nat, Len(frames') <= Len(frames) + 1
  PROVE  Effort' < Effort
<1>1. fuel \in Nat /\ Len(frames) \in Nat /\ Running /\ fuel > 0 /\ fuel' = fuel - 1
  BY InvocationAssumption DEF Typed, TypeOK, GuestStep
<1>2. Effort = 2 * fuel + Len(frames) + 1
  BY <1>1 DEF Effort
<1>3. Effort' = 2 * (fuel - 1) + Len(frames') + (IF Running' THEN 1 ELSE 0)
  BY <1>1 DEF Effort
<1> QED BY <1>1, <1>2, <1>3

\* An answer opens one frame.
LEMMA AnswerOpensFrame ==
  ASSUME Typed, NEW code, Answer(code)
  PROVE  Len(frames') \in Nat /\ Len(frames') = Len(frames) + 1
  BY DEF Typed, TypeOK, Answer

\* Every step that does not begin an operation takes from the effort left.
LEMMA EffortStep ==
  ASSUME Typed, Next, invocations' = invocations
  PROVE  Effort \in Nat /\ Effort' < Effort
<1>types. /\ fuel \in Nat /\ frames \in Seq(AnswerCodes) /\ Len(frames) \in Nat
          /\ invocations \in Nat
  BY InvocationAssumption DEF Typed, TypeOK
<1>effort. Effort \in Nat
  BY <1>types DEF Effort
<1> SUFFICES Effort' < Effort
  BY <1>effort
<1>same. ASSUME GuestStep, UNCHANGED frames PROVE Effort' < Effort
  BY <1>types, <1>same, GuestStepCosts
<1>exhausted. ASSUME GuestStep, RefuseExhausted PROVE Effort' < Effort
  BY <1>types, <1>exhausted, AnswerOpensFrame, GuestStepCosts DEF RefuseExhausted
<1>serve. ASSUME GuestStep, NEW codes, Serve(codes) PROVE Effort' < Effort
  BY <1>types, <1>serve, AnswerOpensFrame, GuestStepCosts DEF Serve
<1>1. ASSUME NEW o, FreshState(o) PROVE FALSE
  BY <1>1, <1>types DEF FreshState
<1>2. CASE CheckAbi \/ MatchUrl \/ Extract
  BY <1>1, <1>2 DEF CheckAbi, MatchUrl, Extract, Begin
<1>3. ASSUME NEW verdict, MatchRefused(verdict) PROVE FALSE
  BY <1>1, <1>3 DEF MatchRefused, RefuseInput
<1>4. CASE Imports
  <2>1. CASE GuestComputes
    BY <1>same, <2>1 DEF GuestComputes
  <2>2. CASE MalformedRequest \/ HttpFetch \/ AuthProfileStatus \/ HostTime
    BY <1>exhausted, <1>serve, <2>2
    DEF MalformedRequest, HttpFetch, AuthProfileStatus, HostTime
  <2>3. ASSUME NEW bearer \in BOOLEAN, NEW token \in Tokens,
               RegisterDownloadAuth(bearer, token)
        PROVE  Effort' < Effort
    <3>1. GuestStep
      BY <2>3 DEF RegisterDownloadAuth
    <3>2. CASE RefuseExhausted
      BY <1>exhausted, <3>1, <3>2
    <3>3. CASE RefuseRegistration(bearer, token)
      BY <1>serve, <3>1, <3>3 DEF RefuseRegistration
    <3>4. CASE MintRef(bearer, token)
      BY <1>types, <3>1, <3>4, AnswerOpensFrame, GuestStepCosts DEF MintRef
    <3> QED BY <2>3, <3>2, <3>3, <3>4 DEF RegisterDownloadAuth
  <2>4. ASSUME NEW token \in Tokens, RegistrationPanics(token) PROVE Effort' < Effort
    BY <1>same, <2>4 DEF RegistrationPanics
  <2>5. CASE AllocResponseReturns
    <3>1. Len(Popped(frames)) = Len(frames) - 1
      BY <1>types, <2>5, PoppedIsPrefix DEF AllocResponseReturns
    <3>2. frames' = Popped(frames) /\ Len(frames) > 0
      BY <1>types, <2>5 DEF AllocResponseReturns
    <3> QED BY <1>types, <2>5, <3>1, <3>2, GuestStepCosts DEF AllocResponseReturns
  <2> QED BY <1>4, <2>1, <2>2, <2>3, <2>4, <2>5 DEF Imports
<1>5. CASE Exports
  <2>1. ASSUME NEW export, Returns(export) PROVE Effort' < Effort
    BY <1>same, <2>1 DEF Returns
  <2> QED
    BY <1>5, <2>1
    DEF Exports, StartReturns, AbiVersionReturns, AllocInputReturns, OperationReturns,
        FreeInputReturns, FreeOversizedReturns, FreeUnreadableReturns, FreeOutputReturns
<1>6. CASE GuestTraps
  <2>1. Running /\ fuel' = fuel
    BY <1>6 DEF GuestTraps
  <2>2. CASE frames = << >>
    <3>1. ~Running' /\ frames' = frames
      BY <1>6, <2>2 DEF GuestTraps, Finish, Running, GuestPhases
    <3> QED BY <1>types, <2>1, <3>1 DEF Effort
  <2>3. CASE frames # << >>
    <3>1. Len(frames') = Len(frames) - 1
      BY <1>types, <1>6, <2>3, PoppedIsPrefix DEF GuestTraps
    <3>2. Running' <=> Running
      BY <1>6, <2>3 DEF GuestTraps, Running
    <3> QED BY <1>types, <2>1, <3>1, <3>2 DEF Effort
  <2> QED BY <2>2, <2>3
<1> QED BY <1>effort, <1>2, <1>3, <1>4, <1>5, <1>6 DEF Next, Executing

\* Every step of an operation leaves less of it to come.
WindsDown == [][invocations' = invocations => Effort \in Nat /\ Effort' < Effort]_vars

\* Whatever the guest does and however the imports nest, an operation is at
\* most 2 * Fuel + 1 steps: with each of them what is left gets less.
THEOREM OperationWindsDown == Spec => WindsDown
<1>1. Typed /\ [Next]_vars => [invocations' = invocations => Effort \in Nat /\ Effort' < Effort]_vars
  BY EffortStep
<1> QED BY <1>1, TypeInit, TypeStep, PTL DEF Spec, WindsDown

=============================================================================
