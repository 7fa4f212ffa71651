------------------------------ MODULE Invocation ------------------------------
(***************************************************************************)
(* The runner of cargo-goaria-pack executing one operation of a pack after *)
(* another: ExtractorRunner::run_operation (runner/mod.rs) on the host     *)
(* side, the four host imports (runner/engine.rs), and an arbitrary guest. *)
(*                                                                         *)
(* Host and guest are one thread, but control goes back and forth: the     *)
(* host calls an export, the guest calls an import, and to answer it the   *)
(* host calls the guest's goaria_alloc, in which the guest may call an     *)
(* import again.  phase says which export run_operation is waiting for,    *)
(* frames is the stack of imports waiting for goaria_alloc, and the guest  *)
(* always runs on top of them.                                             *)
(*                                                                         *)
(* The guest is any wasm module with the right exports: it may call any    *)
(* import with any request, return any pointer, and trap anywhere.  It is  *)
(* only bounded by its fuel, of which every guest step uses some.          *)
(*                                                                         *)
(* A pack is run by the run command (match, then extract when the url      *)
(* matched) and by the test command (check_abi, then the same for each     *)
(* domain); each operation gets an instance and a HostState of its own.    *)
(*                                                                         *)
(* An operator commented "Fault:" is the definition after it with a bug    *)
(* this code could have; no definition uses it.                            *)
(***************************************************************************)
EXTENDS OutputValidation

CONSTANTS
  MaxOutputBytes,   \* manifest resource_limits.max_output_bytes
  InputLen,         \* bytes of the serialized MatchInput / ExtractInput
  MemoryBytes,      \* size of the guest's linear memory
  NegativePtr,      \* pointers from here on are negative as an i32
  Ptrs, Lens,       \* the pointers and lengths a guest returns
  Fuel,             \* timeout_millis * FUEL_UNITS_PER_TIMEOUT_MILLI
  InvalidTokens,    \* tokens validate_download_auth_token refuses
  SplitTokens,      \* tokens with a character across their 7th byte
  RunnerConfigs,    \* the options a runner may be built with
  Outputs,          \* what an output buffer may decode to
  MaxDepth,         \* bound: nested imports considered
  MaxInvocations    \* bound: operations run one after another

ASSUME InvocationAssumption ==
  /\ MaxOutputBytes \in Nat \ {0}
  /\ InputLen \in Nat \ {0}
  /\ MemoryBytes \in Nat
  /\ NegativePtr \in Nat /\ MemoryBytes <= NegativePtr
  /\ Ptrs \subseteq Nat /\ Lens \subseteq Nat
  /\ Fuel \in Nat
  /\ InvalidTokens \subseteq Tokens /\ SplitTokens \subseteq Tokens
  /\ RunnerConfigs \subseteq [broker: {"Mock", "Live", "Disabled"}, download_auth: BOOLEAN,
                         verify_buffer_ownership: BOOLEAN]
  /\ \A b \in Outputs :
       \/ b \in {Undecodable, EmptyJson}
       \/ \E matched, safe_reason \in BOOLEAN : b = MatchJson(matched, safe_reason)
       \/ b = ExtractJson(b.items) /\ b.items \in Seq(Items)
  /\ MaxDepth \in Nat /\ MaxInvocations \in Nat

VARIABLES
  config,      \* broker kind, cap.download.auth, verify_buffer_ownership
  op,          \* the operation being run, or run last
  phase,       \* which export the host waits for; "idle", "done", "crashed"
  budget, tracker, registry,    \* the HostState of this invocation
  frames,      \* answers of the imports waiting for goaria_alloc, innermost last
  fuel,        \* fuel left in the Store
  input,       \* the [ptr, len] of the input buffer
  output,      \* the [ptr, len] unpacked from the packed result
  bytes,       \* the host's copy of the output buffer
  result,      \* how the last operation ended
  invocations, \* operations begun so far
  answered     \* history: answers of this invocation, budget_exhausted aside

vars == <<config, op, phase, budget, tracker, registry, frames, fuel, input,
          output, bytes, result, invocations, answered>>

Ops == {"abi_version", "match", "extract"}

GuestPhases ==
  {"start", "abi_version", "alloc_input", "operation", "free_input",
   "free_oversized", "free_unreadable", "free_output"}

AnswerCodes ==
  {"ok", "refused", "response_too_large", "invalid_request", "policy_denied",
   "not_configured", "registry_full", "budget_exhausted"}

Verdicts ==
  {"none", "ok", "trap", "engine", "json_error", "abi_validation", "limits", "memory",
   "abi_mismatch", "host_panic"}

NoBuffer == [ptr |-> 0, len |-> 0]
NoResult == [verdict |-> "none", matched |-> FALSE, refs |-> {}]
Ended(verdict) == [verdict |-> verdict, matched |-> FALSE, refs |-> {}]

Popped(stack) == SubSeq(stack, 1, Len(stack) - 1)

Positive(p) == p > 0 /\ p < NegativePtr
InMemory(p, n) == p + n <= MemoryBytes

Init ==
  /\ config \in RunnerConfigs
  /\ op = "abi_version" /\ phase = "idle"
  /\ budget = NewBudget /\ tracker = NewTracker /\ registry = NewRegistry
  /\ frames = << >> /\ fuel = 0
  /\ input = NoBuffer /\ output = NoBuffer /\ bytes = Undecodable
  /\ result = NoResult
  /\ invocations = 0 /\ answered = 0

-----------------------------------------------------------------------------
(* Beginning an operation: build_host_state, a new Store with its fuel,    *)
(* and the module's start function.                                        *)

FreshState(o) ==
  /\ phase \in {"idle", "done"}
  /\ invocations < MaxInvocations
  /\ op' = o
  /\ budget' = NewBudget /\ tracker' = NewTracker /\ registry' = NewRegistry
  /\ frames' = << >> /\ fuel' = Fuel
  /\ input' = NoBuffer /\ output' = NoBuffer /\ bytes' = Undecodable
  /\ invocations' = invocations + 1
  /\ answered' = 0
  /\ UNCHANGED config

Begin(o) == FreshState(o) /\ phase' = "start" /\ result' = NoResult

\* match_url and extract refuse a url validate_abi_url does not accept, or an
\* input above the ABI limit, before there is an instance.
RefuseInput(o, verdict) ==
  FreshState(o) /\ phase' = "done" /\ result' = Ended(verdict)

CheckAbi == Begin("abi_version")
MatchUrl == Begin("match")

MatchRefused(verdict) == RefuseInput("match", verdict)

\* handle_run and handle_test extract only from a url that has just matched.
Extract ==
  /\ op = "match" /\ result.verdict = "ok" /\ result.matched
  /\ Begin("extract")

-----------------------------------------------------------------------------
(* Guest steps.                                                            *)

Running == phase \in GuestPhases

\* Fault: fuel metering is not enabled in the engine's configuration.
UnmeteredGuestStep ==
  /\ Running /\ fuel > 0
  /\ UNCHANGED <<config, op, fuel, invocations>>

GuestStep ==
  /\ Running /\ fuel > 0
  /\ fuel' = fuel - 1
  /\ UNCHANGED <<config, op, invocations>>

\* The operation ends: its instance, and the guest memory with it, is dropped.
Finish(r) ==
  /\ phase' = "done"
  /\ result' = r

(***************************************************************************)
(* write_guest_response, up to the call of goaria_alloc.  A response above *)
(* the wire cap is replaced by the compact response_too_large payload.     *)
(***************************************************************************)
Answer(code) ==
  /\ Len(frames) < MaxDepth
  /\ frames' = Append(frames, IF code = "oversized" THEN "response_too_large" ELSE code)
  /\ answered' = IF code = "budget_exhausted" THEN answered ELSE answered + 1
  /\ UNCHANGED <<phase, tracker, input, output, bytes, result>>

\* consume() fails: the import answers budget_exhausted and does nothing else.
RefuseExhausted ==
  /\ Exhausted(budget)
  /\ Answer("budget_exhausted")
  /\ UNCHANGED <<budget, registry>>

\* consume() succeeds; the handler answers one of codes.
Serve(codes) ==
  /\ ~Exhausted(budget)
  /\ budget' = Consumed(budget)
  /\ \E code \in codes : Answer(code)
  /\ UNCHANGED registry

\* The guest computes.  A call of an import whose request is null, empty,
\* above 64 KiB or outside the memory is no more than that to the host: it
\* returns 0 at once, uses no budget and answers nothing.
GuestComputes ==
  /\ GuestStep
  /\ UNCHANGED <<phase, budget, tracker, registry, frames, input, output,
                 bytes, result, answered>>

\* Fault: a request that does not decode is answered before the budget.
MalformedRequestForFree ==
  /\ GuestStep
  /\ Answer("invalid_request")
  /\ UNCHANGED <<budget, registry>>

\* Malformed JSON still burns one host call, in every import.
MalformedRequest ==
  /\ GuestStep
  /\ RefuseExhausted \/ Serve({"invalid_request"})

\* http_fetch and auth_profile_status: the broker's answer is ok, one of its
\* refusals, or a response too long for the wire.
HttpFetch ==
  /\ GuestStep
  /\ RefuseExhausted \/ Serve({"ok", "refused", "oversized"})

AuthProfileStatus ==
  /\ GuestStep
  /\ RefuseExhausted \/ Serve({"ok", "refused", "oversized"})

HostTime ==
  /\ GuestStep
  /\ RefuseExhausted \/ Serve({"ok"})

(***************************************************************************)
(* register_download_auth: budget, kind and token, capability, broker, and *)
(* only then the registry.                                                 *)
(***************************************************************************)
RegistrationAnswer(bearer, token) ==
  IF ~bearer \/ token \in InvalidTokens THEN "invalid_request"
  ELSE IF ~config.download_auth THEN "policy_denied"
  ELSE IF config.broker = "Disabled" THEN "not_configured"
  ELSE IF RegistryFull(registry) THEN "registry_full"
  ELSE "ok"

RefuseRegistration(bearer, token) ==
  /\ RegistrationAnswer(bearer, token) # "ok"
  /\ Serve({RegistrationAnswer(bearer, token)})

MintRef(bearer, token) ==
  /\ ~Exhausted(budget)
  /\ RegistrationAnswer(bearer, token) = "ok"
  /\ budget' = Consumed(budget)
  /\ registry' = Registered(registry, token)
  /\ Answer("ok")

RegisterDownloadAuth(bearer, token) ==
  /\ GuestStep
  /\ \/ RefuseExhausted
     \/ /\ ~bearer \/ token \notin SplitTokens
        /\ RefuseRegistration(bearer, token) \/ MintRef(bearer, token)

\* validate_download_auth_token slices the token at byte 7: when that is not
\* the first byte of a character the host panics, and the command with it.
RegistrationPanics(token) ==
  /\ GuestStep
  /\ ~Exhausted(budget)
  /\ token \in SplitTokens
  /\ phase' = "crashed"
  /\ result' = Ended("host_panic")
  /\ UNCHANGED <<budget, tracker, registry, frames, input, output, bytes, answered>>

(***************************************************************************)
(* The rest of write_guest_response: goaria_alloc returns, the response is *)
(* copied in, and the import returns its handle to the guest below.  When  *)
(* the pointer is null or negative, or the write fails, the import returns *)
(* 0 instead: the answer is lost, what the import did is not.              *)
(***************************************************************************)
AllocResponseReturns ==
  /\ GuestStep
  /\ frames # << >>
  /\ frames' = Popped(frames)
  /\ UNCHANGED <<phase, budget, tracker, registry, input, output, bytes, result, answered>>

\* A trap (a panic, an illegal access, no fuel left) ends the operation; the
\* host swallows one that happens in a goaria_alloc called for an import.
GuestTraps ==
  /\ Running
  /\ IF frames = << >>
       THEN Finish(Ended("trap")) /\ UNCHANGED frames
       ELSE frames' = Popped(frames) /\ UNCHANGED <<phase, result>>
  /\ UNCHANGED <<config, op, budget, tracker, registry, fuel, input, output,
                 bytes, invocations, answered>>

-----------------------------------------------------------------------------
(* An export of the pack returns to the host, in the order of              *)
(* run_operation (check_abi only calls goaria_abi_version).                *)

Returns(export) ==
  /\ GuestStep
  /\ phase = export /\ frames = << >>
  /\ UNCHANGED <<budget, registry, frames, answered>>

StartReturns ==
  /\ Returns("start")
  /\ phase' = IF op = "abi_version" THEN "abi_version" ELSE "alloc_input"
  /\ UNCHANGED <<tracker, input, output, bytes, result>>

AbiVersionReturns(version_matches) ==
  /\ Returns("abi_version")
  /\ Finish(Ended(IF version_matches THEN "ok" ELSE "abi_mismatch"))
  /\ UNCHANGED <<tracker, input, output, bytes>>

\* The tracker records the input before the host writes it, so a failed
\* write leaves the record behind.
AllocInputReturns(p) ==
  /\ Returns("alloc_input")
  /\ IF Positive(p)
       THEN /\ input' = [ptr |-> p, len |-> InputLen]
            /\ tracker' = RecordAlloc(tracker, p, InputLen)
            /\ IF InMemory(p, InputLen)
                 THEN phase' = "operation" /\ UNCHANGED result
                 ELSE Finish(Ended("engine"))
       ELSE Finish(Ended("engine")) /\ UNCHANGED <<input, tracker>>
  /\ UNCHANGED <<output, bytes>>

OperationReturns(p, n) ==
  /\ Returns("operation")
  /\ output' = [ptr |-> p, len |-> n]
  /\ phase' = "free_input"
  /\ UNCHANGED <<tracker, input, bytes, result>>

\* The input is free: take the output, if there is one, and copy its bytes
\* (read) unless it is too long or not in the guest's memory.
TakeOutput(read) ==
  /\ tracker' = RecordAlloc(RecordFree(tracker, input.ptr, input.len),
                            output.ptr, output.len)
  /\ IF output.ptr = 0 \/ output.len = 0
       THEN Finish(Ended("engine")) /\ UNCHANGED bytes
     ELSE /\ UNCHANGED result
          /\ IF output.len > MaxOutputBytes
               THEN phase' = "free_oversized" /\ UNCHANGED bytes
             ELSE IF ~InMemory(output.ptr, output.len)
               THEN phase' = "free_unreadable" /\ UNCHANGED bytes
             ELSE phase' = "free_output" /\ bytes' = read

FreeInputReturns(read) ==
  /\ Returns("free_input")
  /\ IF FreeRefused(tracker, input.ptr, input.len)
       THEN Finish(Ended("memory")) /\ UNCHANGED <<tracker, bytes>>
       ELSE TakeOutput(read)
  /\ UNCHANGED <<input, output>>

\* The output is free: the tracker gives it up, and the operation ends in r
\* unless the tracker refuses.
ReleaseOutput(r) ==
  /\ IF FreeRefused(tracker, output.ptr, output.len)
       THEN Finish(Ended("memory")) /\ UNCHANGED tracker
       ELSE /\ tracker' = RecordFree(tracker, output.ptr, output.len)
            /\ Finish(r)
  /\ UNCHANGED <<input, output, bytes>>

FreeOversizedReturns ==
  /\ Returns("free_oversized")
  /\ ReleaseOutput(Ended("limits"))

\* Fault: the buffer is freed in the guest and kept on the host's record.
FreeUnreadableForgotten ==
  /\ Returns("free_unreadable")
  /\ Finish(Ended("engine"))
  /\ UNCHANGED <<tracker, input, output, bytes>>

\* On this path the tracker's verdict is ignored.
FreeUnreadableReturns ==
  /\ Returns("free_unreadable")
  /\ tracker' = RecordFree(tracker, output.ptr, output.len)
  /\ Finish(Ended("engine"))
  /\ UNCHANGED <<input, output, bytes>>

MatchResult ==
  LET verdict == MatchVerdict(bytes)
  IN  IF verdict = "ok"
        THEN [verdict |-> "ok", matched |-> bytes.matched, refs |-> {}]
        ELSE Ended(verdict)

ExtractResult ==
  LET verdict == ExtractVerdict(bytes, registry)
  IN  IF verdict = "ok"
        THEN [verdict |-> "ok", matched |-> FALSE, refs |-> RefsOf(bytes)]
        ELSE Ended(verdict)

OperationResult ==
  IF config.verify_buffer_ownership /\ HasLeaks(RecordFree(tracker, output.ptr, output.len))
    THEN Ended("memory")
  ELSE IF op = "match" THEN MatchResult
  ELSE ExtractResult

FreeOutputReturns ==
  /\ Returns("free_output")
  /\ ReleaseOutput(OperationResult)

-----------------------------------------------------------------------------
(* The runner and the guest.                                               *)

Imports ==
  \/ GuestComputes \/ MalformedRequest
  \/ HttpFetch \/ AuthProfileStatus \/ HostTime
  \/ \E bearer \in BOOLEAN, token \in Tokens : RegisterDownloadAuth(bearer, token)
  \/ \E token \in Tokens : RegistrationPanics(token)
  \/ AllocResponseReturns

Exports ==
  \/ StartReturns
  \/ \E version_matches \in BOOLEAN : AbiVersionReturns(version_matches)
  \/ \E p \in Ptrs : AllocInputReturns(p)
  \/ \E p \in Ptrs, n \in Lens : OperationReturns(p, n)
  \/ \E read \in Outputs : FreeInputReturns(read)
  \/ FreeOversizedReturns \/ FreeUnreadableReturns \/ FreeOutputReturns

Executing == Imports \/ Exports \/ GuestTraps

Next ==
  \/ CheckAbi \/ MatchUrl \/ Extract \/ Executing
  \/ \E verdict \in {"abi_validation", "limits"} : MatchRefused(verdict)

(***************************************************************************)
(* Fairness: the host is one thread that waits for nothing but the guest,  *)
(* and the interpreter keeps executing the guest until it returns, traps   *)
(* or is out of fuel.  Nothing makes a command start another operation.    *)
(***************************************************************************)
Spec == Init /\ [][Next]_vars /\ WF_vars(Executing)

-----------------------------------------------------------------------------
(* Properties.                                                             *)

Buffers == [ptr: Nat, len: Nat]

\* Every variable holds a value of the type its Rust counterpart has.
TypeOK ==
  /\ config \in RunnerConfigs /\ op \in Ops
  /\ phase \in GuestPhases \cup {"idle", "done", "crashed"}
  /\ budget \in [max_calls: {MaxHostCalls}, remaining: 0 .. MaxHostCalls,
                 calls_made: 0 .. MaxHostCalls]
  /\ tracker \in [allocations: SUBSET Buffers, allocated: Nat, freed: Nat]
  /\ registry \in [counter: Nat, entries: Seq(Tokens)]
  /\ frames \in Seq(AnswerCodes)
  /\ fuel \in 0 .. Fuel
  /\ input \in Buffers /\ output \in Buffers
  /\ bytes \in Outputs \cup {Undecodable}
  /\ result \in [verdict: Verdicts, matched: BOOLEAN, refs: SUBSET RefShapes]
  /\ invocations \in 0 .. MaxInvocations
  /\ answered \in Nat

\* The budget is cloned, spent and written back around the handlers, by
\* closures that call back into the guest.  However the imports nest, every
\* answer other than budget_exhausted was paid for with exactly one call,
\* and calls made and calls left add up to the manifest's limit.
AnswersPaid ==
  /\ answered = budget.calls_made
  /\ budget.remaining + budget.calls_made = MaxHostCalls

\* Once an import of this invocation has been told budget_exhausted, every
\* import answered after it, nested or not, is told the same: while such an
\* answer is being delivered nothing remains, and no outer frame was opened
\* by a call answered later than an inner one.
ExhaustionIsFinal ==
  \A i, j \in DOMAIN frames :
    /\ frames[i] = "budget_exhausted" => budget.remaining = 0
    /\ i < j /\ frames[i] = "budget_exhausted" => frames[j] = "budget_exhausted"

\* Whatever pointers the guest returns, aliased or not, the records of the
\* tracker balance: run_operation never ends in an ownership violation, and
\* once the frees it owes have run nothing host-visible is left.
OwnershipBalanced ==
  /\ result.verdict # "memory"
  /\ phase = "done" /\ result.verdict \notin {"trap", "engine"}
       => ~HasLeaks(tracker) /\ tracker.allocated = tracker.freed

\* Every failure that does not come from the instance breaking down leaves
\* no buffer behind, except the input the host could not write to.
EngineErrorsRelease ==
  phase = "done" /\ result.verdict = "engine" /\ HasLeaks(tracker)
    => /\ tracker.allocations = {input}
       /\ ~InMemory(input.ptr, input.len)

\* A ref handed to the pack keeps standing for the token it was minted for
\* as long as the invocation lasts, whatever is registered after it.
RefsKept ==
  invocations' = invocations =>
    \A r \in DOMAIN registry.entries :
      r \in DOMAIN registry'.entries /\ registry'.entries[r] = registry.entries[r]

RefsStable == [][RefsKept]_vars

\* The host implements its contract with the pack.
Contract == INSTANCE HostContract WITH
  running  <- Running,
  served   <- answered,
  bindings <- registry.entries,
  accepted <- result.refs

ImplementsContract == Contract!Spec

(***************************************************************************)
(* What the documents say of the runner, and the code does not do.         *)
(***************************************************************************)

\* A token of 1 to 8170 bytes of UTF-8 without CR or LF is a legal request:
\* the host answers it, whatever characters it is made of.
DocumentedTokensAnswered == result.verdict # "host_panic"

-----------------------------------------------------------------------------

\* Every operation ends: fuel bounds the guest, and no answer the host gives
\* lets it wait for anything else.
EveryOperationEnds == Running ~> ~Running

=============================================================================
