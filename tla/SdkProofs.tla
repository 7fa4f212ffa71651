------------------------------- MODULE SdkProofs -------------------------------
(***************************************************************************)
(* Proofs about SdkInvocation and ZigInvocation: a pack built with either  *)
(* SDK and the runner never free or read a dead buffer, and never both     *)
(* own, nor both forget, a live one, for any memory, any lengths, any      *)
(* extractor and any number of operations.                                 *)
(*                                                                         *)
(* Every step of the two is one of Invocation, so that what is proved of   *)
(* an arbitrary guest holds of them; HeapByPhase and ZigHeapByPhase add    *)
(* what the guest's heap consists of in each phase of the host.            *)
(***************************************************************************)
EXTENDS SdkInvocation, ZigInvocation, InvocationProofs

\* Live buffers are regions, and no two overlap.
Solid(live) ==
  /\ live \subseteq Buffers
  /\ \A b \in live : b.ptr # 0 /\ b.len > 0
  /\ \A b, c \in live : b = c \/ Disjoint(b, c)

Returned == IF output.ptr = 0 THEN {} ELSE {output}

\* The Rust SDK: the host's buffers and the handles, phase by phase.
HeapByPhase ==
  /\ phase \in {"idle", "start", "abi_version", "alloc_input"} => heap = {} /\ held = {}
  /\ phase = "operation" => heap \ held = {input}
  /\ phase = "free_input" => held = {} /\ heap = {input} \cup Returned /\ input \notin Returned
  /\ phase \in {"free_oversized", "free_unreadable", "free_output"}
       => held = {} /\ heap = {output}
  /\ frames # << >> => phase = "operation"
  /\ EverythingFreed

SdkInv ==
  /\ Typed /\ OwnedByPhase
  /\ Solid(heap) /\ held \subseteq heap /\ misuse = FALSE
  /\ HeapByPhase

-----------------------------------------------------------------------------
(* The allocator.                                                          *)

\* A fresh region is none of the live ones, and stays apart from them.
LEMMA AllocSolid ==
  ASSUME NEW live, Solid(live), NEW p \in Nat, NEW n \in Nat, n > 0,
         Allocatable(live, p, n)
  PROVE  /\ [ptr |-> p, len |-> n] \notin live
         /\ Solid(live \cup {[ptr |-> p, len |-> n]})
<1> DEFINE new == [ptr |-> p, len |-> n]
<1>1. new \in Buffers /\ new.ptr = p /\ new.len = n /\ p # 0
  BY DEF Buffers, Allocatable, Positive
<1>2. \A b \in live : Disjoint(new, b)
  BY DEF Allocatable
<1> HIDE DEF new
<1>3. \A b \in live : Disjoint(b, new)
  BY <1>2 DEF Disjoint
<1>4. new \notin live
  BY <1>1, <1>2 DEF Disjoint
<1>5. Solid(live \cup {new})
  BY <1>1, <1>2, <1>3 DEF Solid
<1> QED BY <1>4, <1>5 DEF new

\* Freeing leaves the other buffers as they were.
LEMMA FreeSolid ==
  ASSUME NEW live, Solid(live), NEW rest \in SUBSET live
  PROVE  Solid(rest)
BY DEF Solid

-----------------------------------------------------------------------------
(* The steps.                                                              *)

\* The guest is one of those Invocation considers.
LEMMA SdkRefines == SdkNext => Next
BY DEF SdkNext, SdkBegin, SdkStart, SdkAllocInput, SdkAllocResponse, SdkCallsHost,
   SdkDrop, SdkOperationReturns, SdkFreeInput, SdkFreeOutput, SdkTraps, Next,
   Executing, Imports, Exports

LEMMA SdkInitOK == SdkInit => SdkInv
<1> SUFFICES ASSUME SdkInit PROVE SdkInv
  OBVIOUS
<1>1. Typed /\ OwnedByPhase
  BY TypeInit, OwnershipInit DEF SdkInit
<1>2. phase = "idle" /\ frames = << >> /\ heap = {} /\ held = {} /\ misuse = FALSE
  BY DEF SdkInit, Init
<1> QED BY <1>1, <1>2 DEF SdkInv, Solid, HeapByPhase, EverythingFreed

\* goaria_alloc for the input.
LEMMA SdkAllocInputOK ==
  ASSUME SdkInv, NEW p \in Ptrs, SdkAllocInput(p)
  PROVE  Solid(heap') /\ held' \subseteq heap' /\ misuse' = FALSE /\ HeapByPhase'
<1>1. /\ phase = "alloc_input" /\ frames' = << >> /\ heap = {} /\ held' = {}
      /\ misuse' = FALSE
  BY DEF SdkAllocInput, AllocInputReturns, Returns, SdkInv, HeapByPhase
<1>2. CASE p = 0
  <2>1. phase' = "done" /\ heap' = {}
    BY <1>1, <1>2 DEF SdkAllocInput, AllocInputReturns, Positive, Finish, NewBuffer
  <2> QED BY <1>1, <2>1 DEF Solid, HeapByPhase, EverythingFreed
<1>3. CASE p # 0
  <2>1. /\ Allocatable(heap, p, InputLen)
        /\ heap' = heap \cup {[ptr |-> p, len |-> InputLen]}
    BY <1>3 DEF SdkAllocInput, NewBuffer
  <2>2. phase' = "operation" /\ input' = [ptr |-> p, len |-> InputLen]
    BY <2>1 DEF SdkAllocInput, AllocInputReturns, Allocatable
  <2>3. Solid(heap')
    <3>1. p \in Nat /\ InputLen \in Nat /\ InputLen > 0 /\ Solid(heap)
      BY InvocationAssumption DEF SdkInv
    <3> QED BY <2>1, <3>1, AllocSolid
  <2> QED BY <1>1, <2>1, <2>2, <2>3 DEF HeapByPhase, EverythingFreed
<1> QED BY <1>2, <1>3

\* The extractor calls an import.
LEMMA SdkCallsHostOK ==
  ASSUME SdkInv, SdkCallsHost
  PROVE  HeapByPhase'
<1>1. phase = "operation" /\ frames = << >> /\ UNCHANGED <<heap, held>>
  BY DEF SdkCallsHost, InExtractor
<1>2. CASE \E token \in Tokens : RegistrationPanics(token)
  <2>1. phase' = "crashed" /\ frames' = << >>
    BY <1>1, <1>2 DEF RegistrationPanics
  <2> QED BY <2>1 DEF HeapByPhase, EverythingFreed
<1>3. CASE ~ \E token \in Tokens : RegistrationPanics(token)
  <2>1. UNCHANGED <<phase, input>>
    <3>1. CASE GuestComputes \/ MalformedRequest \/ HttpFetch \/ AuthProfileStatus \/ HostTime
      BY <3>1 DEF GuestComputes, MalformedRequest, HttpFetch, AuthProfileStatus, HostTime,
         RefuseExhausted, Serve, Answer
    <3>2. ASSUME NEW token \in Tokens, RegisterDownloadAuth(TRUE, token)
          PROVE  UNCHANGED <<phase, input>>
      BY <3>2 DEF RegisterDownloadAuth, RefuseExhausted, Serve, Answer,
         RefuseRegistration, MintRef
    <3> QED BY <1>3, <3>1, <3>2 DEF SdkCallsHost
  <2> QED BY <1>1, <2>1 DEF SdkInv, HeapByPhase, EverythingFreed
<1> QED BY <1>2, <1>3

\* goaria_alloc for a response.
LEMMA SdkAllocResponseOK ==
  ASSUME SdkInv, NEW p \in Ptrs, SdkAllocResponse(p)
  PROVE  Solid(heap') /\ held' \subseteq heap' /\ misuse' = FALSE /\ HeapByPhase'
<1>1. /\ phase = "operation" /\ phase' = "operation" /\ input' = input
      /\ misuse' = FALSE /\ heap \ held = {input} /\ Solid(heap) /\ held \subseteq heap
  BY DEF SdkAllocResponse, AllocResponseReturns, SdkInv, HeapByPhase
<1>2. CASE p = 0
  BY <1>1, <1>2 DEF SdkAllocResponse, HeapByPhase, EverythingFreed, NewBuffer
<1>3. CASE p # 0
  <2> DEFINE new == [ptr |-> p, len |-> ResponseLen]
  <2>1. /\ Allocatable(heap, p, ResponseLen)
        /\ heap' = heap \cup {new} /\ held' = held \cup {new}
    BY <1>3 DEF SdkAllocResponse, NewBuffer
  <2>2. new \notin heap /\ Solid(heap')
    <3>1. p \in Nat /\ ResponseLen \in Nat /\ ResponseLen > 0
      BY InvocationAssumption, GuestHeapAssumption
    <3> QED BY <1>1, <2>1, <3>1, AllocSolid
  <2> HIDE DEF new
  <2>3. heap' \ held' = {input} /\ held' \subseteq heap'
    BY <1>1, <2>1, <2>2
  <2> QED BY <1>1, <2>2, <2>3 DEF HeapByPhase, EverythingFreed
<1> QED BY <1>2, <1>3

\* The extractor drops a response.
LEMMA SdkDropOK ==
  ASSUME SdkInv, NEW b \in held, SdkDrop(b)
  PROVE  Solid(heap') /\ held' \subseteq heap' /\ misuse' = FALSE /\ HeapByPhase'
<1>1. /\ phase = "operation" /\ phase' = "operation" /\ input' = input
      /\ heap \ held = {input} /\ Solid(heap) /\ held \subseteq heap
      /\ heap' = heap \ {b} /\ held' = held \ {b} /\ misuse' = FALSE
  BY DEF SdkDrop, InExtractor, GuestComputes, Dealloc, BadFree, SdkInv, HeapByPhase
<1>2. heap' \ held' = {input} /\ held' \subseteq heap'
  BY <1>1
<1>3. Solid(heap')
  BY <1>1, FreeSolid
<1> QED BY <1>1, <1>2, <1>3 DEF HeapByPhase, EverythingFreed

\* The extractor returns, and the dispatcher allocates the output.
LEMMA SdkOperationReturnsOK ==
  ASSUME SdkInv, NEW p \in Ptrs, NEW n \in Lens, SdkOperationReturns(p, n)
  PROVE  Solid(heap') /\ held' \subseteq heap' /\ misuse' = FALSE /\ HeapByPhase'
<1>1. /\ phase = "operation" /\ phase' = "free_input" /\ input' = input
      /\ output' = [ptr |-> p, len |-> n] /\ frames' = << >> /\ held' = {}
      /\ misuse' = FALSE /\ heap \ held = {input}
  BY DEF SdkOperationReturns, OperationReturns, Returns, SdkInv, HeapByPhase
<1>2. Solid({input})
  BY <1>1, FreeSolid DEF SdkInv
<1>3. CASE p = 0
  <2>1. heap' = {input} /\ Returned' = {}
    BY <1>1, <1>3 DEF SdkOperationReturns, Returned, NewBuffer
  <2> QED BY <1>1, <1>2, <2>1 DEF HeapByPhase, EverythingFreed
<1>4. CASE p # 0
  <2> DEFINE new == [ptr |-> p, len |-> n]
  <2>1. n > 0 /\ Allocatable({input}, p, n) /\ heap' = {input} \cup {new}
    BY <1>1, <1>4 DEF SdkOperationReturns, NewBuffer
  <2>2. new \notin {input} /\ Solid(heap')
    <3>1. p \in Nat /\ n \in Nat
      BY InvocationAssumption
    <3> QED BY <1>2, <2>1, <3>1, AllocSolid
  <2>3. Returned' = {new}
    BY <1>1, <1>4 DEF Returned
  <2> HIDE DEF new
  <2> QED BY <1>1, <2>1, <2>2, <2>3 DEF HeapByPhase, EverythingFreed
<1> QED BY <1>3, <1>4

\* The host frees the input and reads the output.
LEMMA SdkFreeInputOK ==
  ASSUME SdkInv, NEW read \in Outputs, SdkFreeInput(read)
  PROVE  Solid(heap') /\ held' \subseteq heap' /\ misuse' = FALSE /\ HeapByPhase'
<1>1. /\ phase = "free_input" /\ UNCHANGED <<input, output>> /\ frames' = << >>
      /\ held = {} /\ heap = {input} \cup Returned /\ input \notin Returned
      /\ held' = {} /\ heap' = heap \ {input}
  BY DEF SdkFreeInput, FreeInputReturns, Returns, Dealloc, SdkInv, HeapByPhase
<1>2. heap' = Returned /\ Returned' = Returned
  BY <1>1 DEF Returned
<1>3. Solid(heap')
  BY <1>1, FreeSolid DEF SdkInv
<1>4. /\ phase' \in {"done", "free_oversized", "free_unreadable", "free_output"}
      /\ phase' # "done" => output.ptr # 0
      /\ phase' = "done" => result'.verdict = "memory" \/ output.ptr = 0 \/ output.len = 0
  BY DEF SdkFreeInput, FreeInputReturns, TakeOutput, Finish, Ended
<1>5. result'.verdict # "memory"
  <2>1. Next
    BY <1>1, SdkRefines DEF SdkNext
  <2> QED BY <2>1, OwnershipStep DEF SdkInv, OwnedByPhase, OwnershipBalanced
<1>6. output.ptr # 0 => heap' = {output} /\ output.len > 0
  BY <1>2, <1>3 DEF Returned, Solid
<1>7. misuse' = FALSE
  BY <1>1, <1>4, <1>6 DEF SdkFreeInput, BadFree, SdkInv
<1>8. phase' = "done" => heap' = {}
  <2>1. output.ptr = 0 => heap' = {}
    BY <1>2 DEF Returned
  <2>2. output \in Buffers
    BY DEF SdkInv, Typed, TypeOK
  <2>3. output.len = 0 => output.ptr = 0
    BY <1>6, <2>2 DEF Buffers
  <2> QED BY <1>4, <1>5, <2>1, <2>3
<1> QED BY <1>1, <1>3, <1>4, <1>6, <1>7, <1>8 DEF HeapByPhase, EverythingFreed

\* The host frees the output.
LEMMA SdkFreeOutputOK ==
  ASSUME SdkInv, SdkFreeOutput
  PROVE  Solid(heap') /\ held' \subseteq heap' /\ misuse' = FALSE /\ HeapByPhase'
<1>1. /\ phase \in {"free_oversized", "free_unreadable", "free_output"}
      /\ phase' = "done" /\ frames' = << >>
      /\ heap = {output} /\ held' = {} /\ heap' = heap \ {output}
  BY DEF SdkFreeOutput, FreeOversizedReturns, FreeUnreadableReturns, FreeOutputReturns,
     ReleaseOutput, Returns, Finish, Dealloc, SdkInv, HeapByPhase
<1>2. heap' = {} /\ misuse' = FALSE
  BY <1>1 DEF SdkFreeOutput, BadFree, SdkInv
<1> QED BY <1>1, <1>2 DEF Solid, HeapByPhase, EverythingFreed

\* The guest traps, with or without an import under way.
LEMMA SdkTrapsOK ==
  ASSUME SdkInv, SdkTraps
  PROVE  HeapByPhase'
<1>1. UNCHANGED <<heap, held, input, output>>
  BY DEF SdkTraps, GuestTraps
<1>2. CASE frames = << >>
  <2>1. phase' = "done" /\ result'.verdict = "trap" /\ frames' = << >>
    BY <1>2 DEF SdkTraps, GuestTraps, Finish, Ended
  <2> QED BY <2>1 DEF HeapByPhase, EverythingFreed
<1>3. CASE frames # << >>
  <2>1. phase = "operation" /\ phase' = "operation"
    BY <1>3 DEF SdkTraps, GuestTraps, SdkInv, HeapByPhase
  <2> QED BY <1>1, <2>1 DEF SdkInv, HeapByPhase, EverythingFreed
<1> QED BY <1>2, <1>3

LEMMA SdkStepOK == SdkInv /\ [SdkNext]_sdkVars => SdkInv'
<1> SUFFICES ASSUME SdkInv, [SdkNext]_sdkVars PROVE SdkInv'
  OBVIOUS
<1>1. Typed' /\ OwnedByPhase'
  <2>1. [Next]_vars
    BY SdkRefines DEF sdkVars
  <2> QED BY <2>1, TypeStep, OwnershipStep DEF SdkInv
<1>2. CASE SdkBegin
  <2>1. /\ phase' \in {"start", "done"} /\ frames' = << >>
        /\ heap' = {} /\ held' = {} /\ misuse' = FALSE
    BY <1>2 DEF SdkBegin, CheckAbi, MatchUrl, Extract, MatchRefused, RefuseInput, Begin,
       FreshState, SdkInv
  <2> QED BY <1>1, <2>1 DEF SdkInv, Solid, HeapByPhase, EverythingFreed
<1>3. CASE SdkStart
  <2>1. /\ phase \in {"start", "abi_version"} /\ phase' \in {"abi_version", "alloc_input", "done"}
        /\ frames' = << >> /\ UNCHANGED <<heap, held, misuse>>
    BY <1>3 DEF SdkStart, StartReturns, AbiVersionReturns, Returns, Finish
  <2> QED BY <1>1, <2>1 DEF SdkInv, HeapByPhase, EverythingFreed
<1>4. ASSUME NEW p \in Ptrs, SdkAllocInput(p) PROVE SdkInv'
  BY <1>1, <1>4, SdkAllocInputOK DEF SdkInv
<1>5. ASSUME NEW p \in Ptrs, SdkAllocResponse(p) PROVE SdkInv'
  BY <1>1, <1>5, SdkAllocResponseOK DEF SdkInv
<1>6. CASE SdkCallsHost
  BY <1>1, <1>6, SdkCallsHostOK DEF SdkInv, SdkCallsHost
<1>7. ASSUME NEW b \in held, SdkDrop(b) PROVE SdkInv'
  BY <1>1, <1>7, SdkDropOK DEF SdkInv
<1>8. ASSUME NEW p \in Ptrs, NEW n \in Lens, SdkOperationReturns(p, n) PROVE SdkInv'
  BY <1>1, <1>8, SdkOperationReturnsOK DEF SdkInv
<1>9. ASSUME NEW read \in Outputs, SdkFreeInput(read) PROVE SdkInv'
  BY <1>1, <1>9, SdkFreeInputOK DEF SdkInv
<1>10. CASE SdkFreeOutput
  BY <1>1, <1>10, SdkFreeOutputOK DEF SdkInv
<1>11. CASE SdkTraps
  BY <1>1, <1>11, SdkTrapsOK DEF SdkInv, SdkTraps
<1>12. CASE UNCHANGED sdkVars
  BY <1>1, <1>12 DEF sdkVars, vars, SdkInv, HeapByPhase, EverythingFreed, Returned
<1> QED BY <1>2, <1>3, <1>4, <1>5, <1>6, <1>7, <1>8, <1>9, <1>10, <1>11, <1>12 DEF SdkNext

LEMMA SdkInvAlways == SdkSpec => []SdkInv
BY SdkInitOK, SdkStepOK, PTL DEF SdkSpec

-----------------------------------------------------------------------------
(* The theorems about the Rust SDK.                                        *)

\* The variables of the runner and of the SDK keep their types.
THEOREM SdkTypeCorrect == SdkSpec => []SdkTypeOK
<1>1. SdkInv => SdkTypeOK
  BY DEF SdkInv, Typed, Solid, SdkTypeOK
<1> QED BY <1>1, SdkInvAlways, PTL

\* No dead buffer is ever freed or accessed, by either side.
THEOREM SdkNeverMisuses == SdkSpec => []NoMisuse
<1>1. SdkInv => NoMisuse
  BY DEF SdkInv, NoMisuse
<1> QED BY <1>1, SdkInvAlways, PTL

\* Every live buffer has exactly one owner, and no two overlap.
THEOREM SdkOneOwner == SdkSpec => []OneOwner
<1>1. SdkInv => OneOwner
  <2> SUFFICES ASSUME SdkInv PROVE OneOwner
    OBVIOUS
  <2>1. \A b, c \in heap : b = c \/ Disjoint(b, c)
    BY DEF SdkInv, Solid
  <2>2. ASSUME Running, phase # "free_input" PROVE tracker.allocations = heap \ held
    BY <2>2 DEF SdkInv, OwnedByPhase, HeapByPhase, Balanced, Owns, Running, GuestPhases
  <2>3. ASSUME phase = "free_input" PROVE heap = tracker.allocations \cup Returned
    BY <2>3 DEF SdkInv, OwnedByPhase, HeapByPhase, Owns
  <2> QED BY <2>1, <2>2, <2>3 DEF OneOwner, Returned
<1> QED BY <1>1, SdkInvAlways, PTL

\* An operation that neither traps nor panics gives back every buffer.
THEOREM SdkFreesEverything == SdkSpec => []EverythingFreed
<1>1. SdkInv => EverythingFreed
  BY DEF SdkInv, HeapByPhase
<1> QED BY <1>1, SdkInvAlways, PTL

\* A guest of the Rust SDK is one of the guests the runner was verified
\* against, so the host's contract holds of its calls: the steps the SDK adds
\* are steps of Invocation or leave the runner alone.
THEOREM SdkKeepsContract == SdkSpec => ImplementsContract
<1>1. [SdkNext]_sdkVars => [Next]_vars
  BY SdkRefines DEF sdkVars
<1>2. SdkSpec => HostSafety
  BY <1>1, PTL DEF SdkSpec, SdkInit, HostSafety
<1> QED BY <1>2, SafetyImplementsContract, PTL

-----------------------------------------------------------------------------
(* The Zig SDK.  Its client functions are a third owner: the buffer of the *)
(* response they work on is theirs until they return it or free it.        *)

\* The response a client function works on.
InHand == IF "response" \in scratch THEN {response} ELSE {}

Ours == held \cup InHand

ScratchNames == {"body", "headers", "request", "response", "parsed"}

\* What a client function owns at each of its stages.
CallByStage ==
  /\ call \in [fn: Functions \cup {"none"}, stage: {"none", "request", "called", "fetched"}]
  /\ scratch \subseteq ScratchNames /\ response \in Buffers
  /\ call.stage = "none" => call = NoCall /\ scratch = {}
  /\ call.stage # "none" => call.fn \in Functions
  /\ call.stage = "request" => "response" \notin scratch
  /\ call.stage = "fetched" => scratch = {"parsed"}
  /\ "response" \in scratch => response \in heap \ held
  /\ phase \in {"operation", "done", "crashed"} \/ call = NoCall
  /\ phase = "done" /\ result.verdict # "trap" => call = NoCall

\* A frame waits for the response of the call, the only one it makes.
FrameByStage ==
  frames # << >> =>
    phase = "operation" /\ call.stage = "called" /\ "response" \notin scratch /\ Len(frames) = 1

ZigHeapByPhase ==
  /\ phase \in {"idle", "start", "abi_version", "alloc_input"} => heap = {}
  /\ phase = "operation" => heap \ Ours = {input}
  /\ phase = "free_input" =>
       /\ heap = {input} \cup held \cup Returned
       /\ input \notin held \cup Returned /\ held \cap Returned = {}
  /\ phase \in {"free_oversized", "free_unreadable", "free_output"} =>
       heap = {output} \cup held /\ output \notin held
  /\ phase = "done" /\ result.verdict # "trap" => heap = held

Zig ==
  /\ Solid(heap) /\ held \subseteq heap /\ misuse = FALSE /\ responses \subseteq Buffers
  /\ CallByStage /\ FrameByStage /\ ZigHeapByPhase

ZigInv == Typed /\ OwnedByPhase /\ Zig

\* The import of a client function is one of the host's: it answers at most
\* once and touches no buffer.
LEMMA ImportEffect ==
  ASSUME NEW fn \in Functions, Import(fn) \/ GuestComputes, frames = << >>
  PROVE  /\ Next /\ UNCHANGED <<phase, input, output, result>>
         /\ frames' = << >> \/ Len(frames') = 1
<1>1. ASSUME GuestComputes \/ MalformedRequest \/ HttpFetch \/ AuthProfileStatus \/ HostTime
      PROVE  /\ Next /\ UNCHANGED <<phase, input, output, result>>
             /\ frames' = frames \/ \E code : frames' = Append(frames, code)
  BY <1>1 DEF GuestComputes, MalformedRequest, HttpFetch, AuthProfileStatus, HostTime,
     RefuseExhausted, Serve, Answer, Next, Executing, Imports
<1>2. ASSUME NEW token \in Tokens, RegisterDownloadAuth(TRUE, token)
      PROVE  /\ Next /\ UNCHANGED <<phase, input, output, result>>
             /\ \E code : frames' = Append(frames, code)
  BY <1>2 DEF RegisterDownloadAuth, RefuseExhausted, Serve, Answer, RefuseRegistration,
     MintRef, Next, Executing, Imports
<1>3. \A code : Len(Append(<< >>, code)) = 1
  OBVIOUS
<1>4. CASE fn = "register" /\ ~GuestComputes
  <2>1. \E token \in Tokens : RegisterDownloadAuth(TRUE, token)
    BY <1>4 DEF Import
  <2> QED
    BY <1>2, <1>3, <2>1
<1>5. CASE fn # "register" \/ GuestComputes
  <2>1. GuestComputes \/ MalformedRequest \/ HttpFetch \/ AuthProfileStatus \/ HostTime
    BY <1>5 DEF Import, Functions
  <2> QED
    BY <1>1, <1>3, <2>1
<1> QED
  BY <1>4, <1>5

\* A client function names what it allocates.
LEMMA AllocationNamed ==
  ASSUME NEW fn \in Functions, scratch \subseteq ScratchNames,
         Cardinality(scratch) < Len(Allocations(fn))
  PROVE  Allocations(fn)[Cardinality(scratch) + 1] \in {"body", "headers", "request"}
<1>1. IsFiniteSet(scratch)
  <2>1. IsFiniteSet({"body"})
    BY FS_Singleton
  <2>2. IsFiniteSet({"body"} \cup {"headers"})
    BY <2>1, FS_AddElement
  <2>3. IsFiniteSet(({"body"} \cup {"headers"}) \cup {"request"})
    BY <2>2, FS_AddElement
  <2>4. IsFiniteSet((({"body"} \cup {"headers"}) \cup {"request"}) \cup {"response"})
    BY <2>3, FS_AddElement
  <2>5. IsFiniteSet(((({"body"} \cup {"headers"}) \cup {"request"}) \cup {"response"}) \cup {"parsed"})
    BY <2>4, FS_AddElement
  <2>6. scratch \subseteq ((({"body"} \cup {"headers"}) \cup {"request"}) \cup {"response"}) \cup {"parsed"}
    BY DEF ScratchNames
  <2> QED
    BY <2>5, <2>6, FS_Subset
<1>2. Cardinality(scratch) \in Nat
  BY <1>1, FS_CardinalityType
<1> HIDE DEF Functions
<1>3. CASE fn \in {"raw", "time"}
  BY <1>2, <1>3 DEF Allocations
<1>4. CASE fn = "post"
  <2>1. Allocations(fn) = <<"body", "headers", "request">>
    BY <1>4 DEF Allocations
  <2>2. Cardinality(scratch) + 1 \in 1 .. 3
    BY <1>2, <2>1
  <2> QED
    BY <2>1, <2>2
<1>5. CASE fn \notin {"raw", "time", "post"}
  <2>1. Allocations(fn) = <<"request">>
    BY <1>5 DEF Allocations
  <2>2. Cardinality(scratch) + 1 = 1
    BY <1>2, <2>1
  <2> QED
    BY <2>1, <2>2
<1> QED
  BY <1>3, <1>4, <1>5

\* In the extractor: the heap is the input and what is the guest's.
LEMMA InTheExtractor ==
  ASSUME ZigInv, InExtractor
  PROVE  /\ phase = "operation" /\ frames = << >> /\ heap \ Ours = {input}
         /\ Ours \subseteq heap /\ held \subseteq heap /\ held \cap InHand = {}
         /\ Solid(heap) /\ CallByStage /\ misuse = FALSE /\ responses \subseteq Buffers
  BY DEF ZigInv, Zig, ZigHeapByPhase, InExtractor, Ours, InHand, CallByStage

\* When a client function returns, the response is freed if it has it.
LEMMA UnwindFrees ==
  ASSUME ZigInv, InExtractor, Unwind
  PROVE  /\ call' = NoCall /\ scratch' = {} /\ response' \in Buffers
         /\ heap' = heap \ InHand /\ misuse' = FALSE /\ Solid(heap')
<1>1. heap' = heap \ InHand /\ misuse' = FALSE
  <2>1. CASE "response" \in scratch
    <3>1. InHand = {response} /\ response \in heap
      BY <2>1, InTheExtractor DEF InHand, Ours
    <3> QED
      BY <2>1, <3>1, InTheExtractor DEF Unwind, Free
  <2>2. CASE "response" \notin scratch
    <3>1. InHand = {} /\ NoBuffer \notin heap
      BY <2>2, InTheExtractor DEF InHand, Solid, NoBuffer
    <3> QED
      BY <2>2, <3>1, InTheExtractor DEF Unwind, Free
  <2> QED
    BY <2>1, <2>2
<1>2. Solid(heap')
  BY <1>1, InTheExtractor, FreeSolid
<1> QED
  BY <1>1, <1>2 DEF Unwind, NoBuffer, Buffers

\* A step of the extractor that keeps this up.
LEMMA ExtractorGoesOn ==
  ASSUME phase' = "operation", Solid(heap'), held' \subseteq heap', misuse' = FALSE,
         responses' \subseteq Buffers, CallByStage', FrameByStage', heap' \ Ours' = {input'}
  PROVE  Zig'
  BY DEF Zig, ZigHeapByPhase

-----------------------------------------------------------------------------

LEMMA ZigInitOK == ZigInit => ZigInv
<1> SUFFICES ASSUME ZigInit PROVE ZigInv
  OBVIOUS
<1>1. Typed /\ OwnedByPhase
  BY TypeInit, OwnershipInit DEF ZigInit
<1>2. /\ phase = "idle" /\ frames = << >> /\ heap = {} /\ held = {} /\ misuse = FALSE
      /\ call = NoCall /\ scratch = {} /\ response = NoBuffer /\ responses = {}
  BY DEF ZigInit, Init
<1>3. CallByStage
  BY <1>2 DEF CallByStage, NoCall, NoBuffer, Buffers
<1> QED
  BY <1>1, <1>2, <1>3 DEF ZigInv, Zig, Solid, ZigHeapByPhase, FrameByStage

LEMMA ZigBeginOK ==
  ASSUME ZigInv, ZigBegin
  PROVE  Next /\ Zig'
<1>1. /\ Next /\ phase' \in {"start", "done"} /\ frames' = << >>
      /\ heap' = {} /\ held' = {} /\ misuse' = FALSE
      /\ call' = NoCall /\ scratch' = {} /\ response' = NoBuffer /\ responses' = {}
  BY DEF ZigBegin, CheckAbi, MatchUrl, Extract, MatchRefused, RefuseInput, Begin,
     FreshState, ZigInv, Zig, Next
<1>2. CallByStage'
  BY <1>1 DEF CallByStage, NoCall, NoBuffer, Buffers
<1> QED
  BY <1>1, <1>2 DEF Zig, Solid, ZigHeapByPhase, FrameByStage

LEMMA ZigStartOK ==
  ASSUME ZigInv, ZigStart
  PROVE  Next /\ Zig'
<1>1. /\ Next /\ phase \in {"start", "abi_version"}
      /\ phase' \in {"abi_version", "alloc_input", "done"} /\ frames' = << >>
      /\ UNCHANGED <<heap, held, misuse, call, scratch, response, responses>>
  BY DEF ZigStart, Client, StartReturns, AbiVersionReturns, Returns, Finish, Next,
     Executing, Exports
<1>2. heap = {} /\ CallByStage /\ call = NoCall
  BY <1>1 DEF ZigInv, Zig, ZigHeapByPhase, CallByStage
<1>3. CallByStage'
  BY <1>1, <1>2 DEF CallByStage, NoCall
<1> QED
  BY <1>1, <1>2, <1>3 DEF ZigInv, Zig, ZigHeapByPhase, FrameByStage

LEMMA ZigAllocInputOK ==
  ASSUME ZigInv, NEW p \in Ptrs, ZigAllocInput(p)
  PROVE  Next /\ Zig'
<1>1. /\ Next /\ phase = "alloc_input" /\ frames' = << >> /\ heap = {} /\ held = {}
      /\ call = NoCall /\ scratch = {} /\ CallByStage
      /\ UNCHANGED <<held, misuse, call, scratch, response, responses>>
  BY DEF ZigAllocInput, AllocInputReturns, Returns, Client, ZigInv, Zig, ZigHeapByPhase,
     CallByStage, NoCall, Next, Executing, Exports
<1>2. CallByStage'
  BY <1>1 DEF CallByStage, NoCall
<1>3. CASE p = 0
  <2>1. phase' = "done" /\ heap' = {}
    BY <1>1, <1>3 DEF ZigAllocInput, AllocInputReturns, Positive, Finish, NewBuffer
  <2> QED
    BY <1>1, <1>2, <2>1 DEF ZigInv, Zig, Solid, ZigHeapByPhase, FrameByStage
<1>4. CASE p # 0
  <2>1. Allocatable(heap, p, InputLen) /\ heap' = heap \cup {[ptr |-> p, len |-> InputLen]}
    BY <1>4 DEF ZigAllocInput, NewBuffer
  <2>2. phase' = "operation" /\ input' = [ptr |-> p, len |-> InputLen]
    BY <2>1 DEF ZigAllocInput, AllocInputReturns, Allocatable
  <2>3. Solid(heap')
    <3>1. p \in Nat /\ InputLen \in Nat /\ InputLen > 0 /\ Solid(heap)
      BY InvocationAssumption DEF ZigInv, Zig
    <3> QED
      BY <2>1, <3>1, AllocSolid
  <2>4. Ours' = {}
    BY <1>1 DEF Ours, InHand
  <2> QED
    BY <1>1, <1>2, <2>1, <2>2, <2>3, <2>4
    DEF ZigInv, Zig, ZigHeapByPhase, FrameByStage
<1> QED
  BY <1>3, <1>4

-----------------------------------------------------------------------------
(* The client functions.                                                   *)

LEMMA EnterOK ==
  ASSUME ZigInv, NEW fn \in Functions, Enter(fn)
  PROVE  Next /\ Zig'
<1>1. /\ InExtractor /\ Next /\ call.stage = "none" /\ call'.fn = fn /\ call'.stage = "request"
      /\ call' = [fn |-> fn, stage |-> "request"]
      /\ UNCHANGED <<phase, frames, input, heap, held, scratch, response, responses, misuse>>
  BY DEF Enter, In, GuestComputes, Next, Executing, Imports
<1>2. CallByStage'
  BY <1>1, InTheExtractor DEF CallByStage, NoCall
<1>3. Ours' = Ours
  BY <1>1 DEF Ours, InHand
<1> QED
  BY <1>1, <1>2, <1>3, InTheExtractor, ExtractorGoesOn DEF FrameByStage

\* A function that fails frees what it has, and nothing else.
LEMMA FailsOK ==
  ASSUME ZigInv, InExtractor, Fails
  PROVE  Next /\ Zig'
<1>1. /\ Next /\ UNCHANGED <<phase, frames, input, held, responses>>
  BY DEF Fails, GuestComputes, Next, Executing, Imports
<1>2. /\ call' = NoCall /\ scratch' = {} /\ response' \in Buffers
      /\ heap' = heap \ InHand /\ misuse' = FALSE /\ Solid(heap')
  BY UnwindFrees DEF Fails
<1>3. Ours' = held /\ held \subseteq heap' /\ heap' \ held = {input}
  BY <1>1, <1>2, InTheExtractor DEF Ours, InHand
<1>4. CallByStage'
  BY <1>2 DEF CallByStage, NoCall, ScratchNames
<1> QED
  BY <1>1, <1>2, <1>3, <1>4, InTheExtractor, ExtractorGoesOn DEF FrameByStage

LEMMA AllocateOK ==
  ASSUME ZigInv, Allocate
  PROVE  Next /\ Zig'
<1>1. InExtractor /\ call.stage = "request" /\ call.fn \in Functions /\ CallByStage
      /\ Cardinality(scratch) < Len(Allocations(call.fn))
  BY InTheExtractor DEF Allocate, In, CallByStage
<1>2. CASE Fails
  BY <1>1, <1>2, FailsOK
<1>3. CASE ~Fails
  <2> DEFINE new == Allocations(call.fn)[Cardinality(scratch) + 1]
  <2>1. new \in {"body", "headers", "request"}
    BY <1>1, AllocationNamed DEF CallByStage
  <2>2. /\ Next /\ scratch' = scratch \cup {new}
        /\ UNCHANGED <<phase, frames, input, heap, held, call, response, responses, misuse>>
    BY <1>3 DEF Allocate, GuestComputes, Next, Executing, Imports
  <2> HIDE DEF new
  <2>3. CallByStage'
    BY <1>1, <2>1, <2>2, InTheExtractor DEF CallByStage, ScratchNames, NoCall
  <2>4. Ours' = Ours
    BY <2>1, <2>2 DEF Ours, InHand
  <2> QED
    BY <1>1, <2>2, <2>3, <2>4, InTheExtractor, ExtractorGoesOn DEF FrameByStage
<1> QED
  BY <1>2, <1>3

LEMMA CallsHostOK ==
  ASSUME ZigInv, CallsHost
  PROVE  Next /\ Zig'
<1>1. InExtractor /\ call.stage = "request" /\ call.fn \in Functions /\ CallByStage
  BY InTheExtractor DEF CallsHost, In, CallByStage
<1>2. /\ Next /\ UNCHANGED <<phase, input, output, result>>
      /\ frames' = << >> \/ Len(frames') = 1
  BY <1>1, ImportEffect DEF CallsHost, InExtractor
<1>3. /\ call' = [call EXCEPT !.stage = "called"]
      /\ UNCHANGED <<heap, held, scratch, response, responses, misuse>>
  BY DEF CallsHost
<1>4. call'.fn = call.fn /\ call'.stage = "called" /\ call' = [fn |-> call.fn, stage |-> "called"]
  BY <1>1, <1>3 DEF CallByStage
<1>5. CallByStage'
  BY <1>1, <1>2, <1>3, <1>4 DEF CallByStage, NoCall, InExtractor
<1>6. Ours' = Ours
  BY <1>3 DEF Ours, InHand
<1>7. "response" \notin scratch
  BY <1>1 DEF CallByStage
<1> QED
  BY <1>1, <1>2, <1>3, <1>4, <1>5, <1>6, <1>7, InTheExtractor, ExtractorGoesOn
  DEF FrameByStage

\* The host panics: everything stays as it is, and nothing runs again.
LEMMA HostPanicsOK ==
  ASSUME ZigInv, HostPanics
  PROVE  Next /\ Zig'
<1>1. /\ InExtractor /\ Next /\ phase' = "crashed" /\ frames' = << >>
      /\ UNCHANGED <<heap, held, misuse, call, scratch, response, responses>>
  BY DEF HostPanics, In, InExtractor, RegistrationPanics, Client, Next, Executing, Imports
<1>2. CallByStage'
  BY <1>1, InTheExtractor DEF CallByStage
<1> QED
  BY <1>1, <1>2, InTheExtractor DEF Zig, ZigHeapByPhase, FrameByStage

LEMMA ZigAllocResponseOK ==
  ASSUME ZigInv, NEW p \in Ptrs, ZigAllocResponse(p)
  PROVE  Next /\ Zig'
<1>1. /\ Next /\ frames # << >> /\ frames' = Popped(frames) /\ frames \in Seq(AnswerCodes)
      /\ UNCHANGED <<phase, input, held, call, responses, misuse>>
  BY DEF ZigAllocResponse, AllocResponseReturns, Next, Executing, Imports, ZigInv, Typed,
     TypeOK
<1>2. phase = "operation" /\ call.stage = "called" /\ "response" \notin scratch
      /\ Len(frames) = 1 /\ CallByStage /\ heap \ Ours = {input} /\ held \subseteq heap
      /\ Solid(heap) /\ misuse = FALSE /\ responses \subseteq Buffers
  BY <1>1 DEF ZigInv, Zig, FrameByStage, ZigHeapByPhase
<1>3. frames' = << >>
  <2>1. frames' \in Seq(AnswerCodes) /\ Len(frames') = 0
    BY <1>1, <1>2, PoppedIsPrefix
  <2> QED
    BY <2>1
<1>4. Ours = held
  BY <1>2 DEF Ours, InHand
<1>5. CASE p = 0
  <2>1. heap' = heap /\ UNCHANGED <<scratch, response>>
    BY <1>5 DEF ZigAllocResponse, NewBuffer
  <2>2. CallByStage' /\ Ours' = Ours
    BY <1>1, <1>2, <2>1 DEF CallByStage, Ours, InHand
  <2> QED
    BY <1>1, <1>2, <1>3, <2>1, <2>2, ExtractorGoesOn DEF FrameByStage
<1>6. CASE p # 0
  <2> DEFINE new == [ptr |-> p, len |-> ResponseLen]
  <2>1. /\ Allocatable(heap, p, ResponseLen) /\ heap' = heap \cup {new}
        /\ scratch' = scratch \cup {"response"} /\ response' = new
    BY <1>6 DEF ZigAllocResponse, NewBuffer
  <2>2. new \notin heap /\ Solid(heap')
    <3>1. p \in Nat /\ ResponseLen \in Nat /\ ResponseLen > 0
      BY InvocationAssumption, GuestHeapAssumption
    <3> QED
      BY <1>2, <2>1, <3>1, AllocSolid
  <2> HIDE DEF new
  <2>3. response' \in Buffers
    BY <2>1, <2>2 DEF Solid
  <2>4. CallByStage'
    BY <1>1, <1>2, <2>1, <2>2, <2>3 DEF CallByStage, ScratchNames, NoCall
  <2>5. Ours' = held \cup {new}
    BY <1>1, <2>1 DEF Ours, InHand
  <2>6. heap' \ Ours' = {input'} /\ held' \subseteq heap'
    BY <1>1, <1>2, <1>4, <2>1, <2>2, <2>5
  <2> QED
    BY <1>1, <1>2, <1>3, <2>2, <2>4, <2>6, ExtractorGoesOn DEF FrameByStage
<1> QED
  BY <1>5, <1>6

\* What a function that has its response may do with it.
LEMMA ArrivedIs ==
  ASSUME ZigInv, Arrived
  PROVE  /\ Next /\ InExtractor /\ call.stage = "called" /\ "response" \in scratch
         /\ InHand = {response} /\ response \in heap \ held /\ response \in Buffers
         /\ call.fn \in Functions /\ call \in [fn: Functions \cup {"none"}, stage: {"called"}]
         /\ UNCHANGED <<phase, frames, input>>
<1>1. /\ Next /\ InExtractor /\ call.stage = "called" /\ "response" \in scratch
      /\ UNCHANGED <<phase, frames, input>>
  BY DEF Arrived, In, GuestComputes, Next, Executing, Imports
<1> QED
  BY <1>1, InTheExtractor DEF InHand, CallByStage

LEMMA RawReturnsOK ==
  ASSUME ZigInv, RawReturns
  PROVE  Next /\ Zig'
<1>1. /\ Arrived /\ held' = held \cup {response}
      /\ call' = NoCall /\ scratch' = {} /\ response' = NoBuffer
      /\ UNCHANGED <<heap, responses, misuse>>
  BY DEF RawReturns
<1>2. CallByStage'
  BY <1>1 DEF CallByStage, NoCall, NoBuffer, Buffers, ScratchNames
<1>3. Ours' = Ours /\ held' \subseteq heap'
  BY <1>1, ArrivedIs, InTheExtractor DEF Ours, InHand
<1> QED
  BY <1>1, <1>2, <1>3, ArrivedIs, InTheExtractor, ExtractorGoesOn DEF FrameByStage

LEMMA ScalarOrParsedReturnsOK ==
  ASSUME ZigInv, ScalarReturns \/ ParsedReturns
  PROVE  Next /\ Zig'
<1>1. Arrived /\ Unwind /\ held' = held /\ responses' \subseteq responses \cup {response}
  BY DEF ScalarReturns, ParsedReturns
<1>2. /\ call' = NoCall /\ scratch' = {} /\ response' \in Buffers
      /\ heap' = heap \ InHand /\ misuse' = FALSE /\ Solid(heap')
  BY <1>1, ArrivedIs, UnwindFrees
<1>3. Ours' = held /\ held \subseteq heap' /\ heap' \ held = {input}
  BY <1>1, <1>2, ArrivedIs, InTheExtractor DEF Ours, InHand
<1>4. CallByStage'
  BY <1>2 DEF CallByStage, NoCall, ScratchNames
<1>5. responses' \subseteq Buffers
  BY <1>1, ArrivedIs, InTheExtractor
<1> QED
  BY <1>1, <1>2, <1>3, <1>4, <1>5, ArrivedIs, InTheExtractor, ExtractorGoesOn
  DEF FrameByStage

LEMMA BytesFetchedOK ==
  ASSUME ZigInv, BytesFetched
  PROVE  Next /\ Zig'
<1>1. /\ Arrived /\ call' = [call EXCEPT !.stage = "fetched"] /\ scratch' = {"parsed"}
      /\ heap' = heap \ {response} /\ misuse' = (misuse \/ (response # NoBuffer /\ response \notin heap))
      /\ UNCHANGED <<held, response, responses>>
  BY DEF BytesFetched, Free
<1>2. misuse' = FALSE /\ Solid(heap')
  <2>1. response \in heap
    BY <1>1, ArrivedIs
  <2> QED
    BY <1>1, <2>1, ArrivedIs, InTheExtractor, FreeSolid
<1>3. call' = [fn |-> call.fn, stage |-> "fetched"]
  BY <1>1, ArrivedIs
<1>4. call'.fn = call.fn /\ call'.stage = "fetched"
  BY <1>3
<1>5. CallByStage'
  <2>1. phase' = "operation"
    BY <1>1, ArrivedIs, InTheExtractor
  <2> QED
    BY <1>1, <1>3, <1>4, <2>1, ArrivedIs DEF CallByStage, NoCall, ScratchNames
<1>6. Ours' = held /\ held \subseteq heap' /\ heap' \ held = {input}
  BY <1>1, ArrivedIs, InTheExtractor DEF Ours, InHand
<1> QED
  BY <1>1, <1>2, <1>5, <1>6, ArrivedIs, InTheExtractor, ExtractorGoesOn DEF FrameByStage

\* The extractor releases a buffer, or a response: no function is at work.
LEMMA ReleaseBufferOK ==
  ASSUME ZigInv, NEW b \in held, ReleaseBuffer(b)
  PROVE  Next /\ Zig'
<1>1. /\ InExtractor /\ Next /\ call.stage = "none" /\ UNCHANGED <<phase, frames, input>>
      /\ heap' = heap \ {b} /\ held' = held \ {b}
      /\ misuse' = (misuse \/ (b # NoBuffer /\ b \notin heap))
      /\ UNCHANGED <<call, scratch, response, responses>>
  BY DEF ReleaseBuffer, In, Free, Client, GuestComputes, Next, Executing, Imports
<1>2. misuse' = FALSE /\ Solid(heap')
  <2>1. b \in heap
    BY <1>1, InTheExtractor
  <2> QED
    BY <1>1, <2>1, InTheExtractor, FreeSolid
<1>3. scratch = {}
  BY <1>1, InTheExtractor DEF CallByStage
<1>4. CallByStage'
  BY <1>1, <1>3, InTheExtractor DEF CallByStage
<1>5. Ours' = held' /\ held' \subseteq heap' /\ heap' \ held' = {input}
  BY <1>1, <1>3, InTheExtractor DEF Ours, InHand
<1> QED
  BY <1>1, <1>2, <1>4, <1>5, InTheExtractor, ExtractorGoesOn DEF FrameByStage

LEMMA ReleaseResponseOK ==
  ASSUME ZigInv, NEW b \in responses, ReleaseResponse(b)
  PROVE  Next /\ Zig'
<1>1. /\ InExtractor /\ Next /\ UNCHANGED <<phase, frames, input>>
      /\ responses' \subseteq responses
      /\ UNCHANGED <<heap, held, call, scratch, response, misuse>>
  BY DEF ReleaseResponse, In, GuestComputes, Next, Executing, Imports
<1>2. CallByStage' /\ Ours' = Ours
  BY <1>1, InTheExtractor DEF CallByStage, Ours, InHand
<1> QED
  BY <1>1, <1>2, InTheExtractor, ExtractorGoesOn DEF FrameByStage

LEMMA ZigExtractorOK ==
  ASSUME ZigInv, ZigExtractor
  PROVE  Next /\ Zig'
<1>1. ASSUME CallFails \/ BytesReturns PROVE Next /\ Zig'
  BY <1>1, FailsOK DEF CallFails, BytesReturns, In
<1> QED
  BY <1>1, EnterOK, AllocateOK, CallsHostOK, HostPanicsOK, RawReturnsOK,
     ScalarOrParsedReturnsOK, BytesFetchedOK, ReleaseBufferOK, ReleaseResponseOK
  DEF ZigExtractor

-----------------------------------------------------------------------------
(* Returning to the host.                                                  *)

LEMMA ZigOperationReturnsOK ==
  ASSUME ZigInv, NEW p \in Ptrs, NEW n \in Lens, ZigOperationReturns(p, n)
  PROVE  Next /\ Zig'
<1>1. /\ Next /\ InExtractor /\ call.stage = "none" /\ phase' = "free_input"
      /\ frames' = << >> /\ input' = input /\ output' = [ptr |-> p, len |-> n]
      /\ UNCHANGED <<held, misuse, call, scratch, response, responses>>
  BY DEF ZigOperationReturns, In, InExtractor, OperationReturns, Returns, Client, Next,
     Executing, Exports
<1>2. call = NoCall /\ scratch = {} /\ Ours = held
  BY <1>1, InTheExtractor DEF CallByStage, Ours, InHand
<1>3. CallByStage'
  BY <1>1, <1>2, InTheExtractor DEF CallByStage
<1>4. heap = {input} \cup held /\ input \notin held
  BY <1>1, <1>2, InTheExtractor
<1>5. CASE p = 0
  <2>1. heap' = heap /\ Returned' = {}
    BY <1>1, <1>5 DEF ZigOperationReturns, NewBuffer, Returned
  <2> QED
    BY <1>1, <1>3, <1>4, <2>1, InTheExtractor DEF Zig, ZigHeapByPhase, FrameByStage
<1>6. CASE p # 0
  <2> DEFINE new == [ptr |-> p, len |-> n]
  <2>1. n > 0 /\ Allocatable(heap, p, n) /\ heap' = heap \cup {new} /\ Returned' = {new}
    BY <1>1, <1>6 DEF ZigOperationReturns, NewBuffer, Returned
  <2>2. new \notin heap /\ Solid(heap')
    <3>1. p \in Nat /\ n \in Nat
      BY InvocationAssumption
    <3> QED
      BY <1>1, <2>1, <3>1, InTheExtractor, AllocSolid
  <2> HIDE DEF new
  <2> QED
    BY <1>1, <1>3, <1>4, <2>1, <2>2, InTheExtractor DEF Zig, ZigHeapByPhase, FrameByStage
<1> QED
  BY <1>5, <1>6

LEMMA ZigFreeInputOK ==
  ASSUME ZigInv, NEW read \in Outputs, ZigFreeInput(read)
  PROVE  Next /\ Zig'
<1>1. /\ Next /\ phase = "free_input" /\ UNCHANGED <<input, output>> /\ frames' = << >>
      /\ heap' = heap \ {input}
      /\ UNCHANGED <<held, call, scratch, response, responses>>
  BY DEF ZigFreeInput, FreeInputReturns, Returns, Client, Next, Executing, Exports
<1>2. /\ heap = {input} \cup held \cup Returned /\ input \notin held \cup Returned
      /\ held \cap Returned = {} /\ call = NoCall /\ CallByStage /\ Solid(heap)
      /\ misuse = FALSE /\ responses \subseteq Buffers
  BY <1>1 DEF ZigInv, Zig, ZigHeapByPhase, CallByStage
<1>3. heap' = held \cup Returned /\ Solid(heap')
  BY <1>1, <1>2, FreeSolid
<1>4. CallByStage'
  <2>1. scratch = {} /\ call'.stage = "none"
    BY <1>1, <1>2 DEF CallByStage, NoCall
  <2> QED
    BY <1>1, <1>2, <2>1 DEF CallByStage
<1>5. /\ phase' \in {"done", "free_oversized", "free_unreadable", "free_output"}
      /\ phase' # "done" => output.ptr # 0
      /\ phase' = "done" => result'.verdict = "memory" \/ output.ptr = 0 \/ output.len = 0
  BY DEF ZigFreeInput, FreeInputReturns, TakeOutput, Finish, Ended
<1>6. result'.verdict # "memory"
  BY <1>1, OwnershipStep DEF ZigInv, OwnedByPhase, OwnershipBalanced
<1>7. output.ptr # 0 => Returned = {output} /\ output \in heap' /\ output.len > 0
  BY <1>3 DEF Returned, Solid
<1>8. misuse' = FALSE
  BY <1>1, <1>2, <1>5, <1>7 DEF ZigFreeInput
<1>9. phase' = "done" => heap' = held
  <2>1. output.ptr = 0 => heap' = held
    BY <1>3 DEF Returned
  <2>2. output \in Buffers
    BY DEF ZigInv, Typed, TypeOK
  <2>3. output.len = 0 => output.ptr = 0
    BY <1>7, <2>2 DEF Buffers
  <2> QED
    BY <1>5, <1>6, <2>1, <2>3
<1>10. phase' # "done" => heap' = {output} \cup held /\ output \notin held
  BY <1>2, <1>3, <1>5, <1>7
<1> QED
  BY <1>1, <1>2, <1>3, <1>4, <1>5, <1>8, <1>9, <1>10
  DEF Zig, ZigHeapByPhase, FrameByStage

LEMMA ZigFreeOutputOK ==
  ASSUME ZigInv, ZigFreeOutput
  PROVE  Next /\ Zig'
<1>1. /\ Next /\ phase \in {"free_oversized", "free_unreadable", "free_output"}
      /\ phase' = "done" /\ frames' = << >> /\ heap' = heap \ {output}
      /\ misuse' = (misuse \/ (output # NoBuffer /\ output \notin heap))
      /\ UNCHANGED <<held, call, scratch, response, responses>>
  BY DEF ZigFreeOutput, FreeOversizedReturns, FreeUnreadableReturns, FreeOutputReturns,
     ReleaseOutput, Returns, Finish, Client, Free, Next, Executing, Exports
<1>2. /\ heap = {output} \cup held /\ output \notin held /\ call = NoCall /\ CallByStage
      /\ Solid(heap) /\ misuse = FALSE /\ responses \subseteq Buffers
  BY <1>1 DEF ZigInv, Zig, ZigHeapByPhase, CallByStage
<1>3. heap' = held /\ Solid(heap') /\ misuse' = FALSE
  BY <1>1, <1>2, FreeSolid
<1>4. CallByStage'
  <2>1. scratch = {} /\ call'.stage = "none"
    BY <1>1, <1>2 DEF CallByStage, NoCall
  <2> QED
    BY <1>1, <1>2, <2>1 DEF CallByStage
<1> QED
  BY <1>1, <1>2, <1>3, <1>4 DEF Zig, ZigHeapByPhase, FrameByStage

\* A trap runs no defer: what the function had stays where it was, and the
\* instance goes.  One in goaria_alloc only loses the answer.
LEMMA ZigTrapsOK ==
  ASSUME ZigInv, ZigTraps
  PROVE  Next /\ Zig'
<1>1. /\ Next /\ UNCHANGED <<heap, held, misuse, input, output, call, scratch, response, responses>>
  BY DEF ZigTraps, GuestTraps, Client, Next, Executing
<1>2. /\ CallByStage /\ Solid(heap) /\ held \subseteq heap /\ misuse = FALSE
      /\ responses \subseteq Buffers /\ frames \in Seq(AnswerCodes)
  BY DEF ZigInv, Zig, Typed, TypeOK
<1>3. CASE frames = << >>
  <2>1. phase' = "done" /\ result'.verdict = "trap" /\ frames' = << >>
    BY <1>3 DEF ZigTraps, GuestTraps, Finish, Ended
  <2>2. CallByStage'
    BY <1>1, <1>2, <2>1 DEF CallByStage
  <2> QED
    BY <1>1, <1>2, <2>1, <2>2 DEF Zig, ZigHeapByPhase, FrameByStage
<1>4. CASE frames # << >>
  <2>1. phase = "operation" /\ phase' = "operation" /\ Len(frames) = 1 /\ frames' = Popped(frames)
        /\ heap \ Ours = {input}
    BY <1>4 DEF ZigTraps, GuestTraps, ZigInv, Zig, FrameByStage, ZigHeapByPhase
  <2>2. frames' = << >>
    <3>1. frames' \in Seq(AnswerCodes) /\ Len(frames') = 0
      BY <1>2, <1>4, <2>1, PoppedIsPrefix
    <3> QED
      BY <3>1
  <2>3. CallByStage' /\ Ours' = Ours
    BY <1>1, <1>2, <2>1 DEF CallByStage, Ours, InHand
  <2> QED
    BY <1>1, <1>2, <2>1, <2>2, <2>3, ExtractorGoesOn DEF FrameByStage
<1> QED
  BY <1>3, <1>4

\* The guest is one of those Invocation considers, and keeps its own books.
LEMMA ZigRefines == ZigInv /\ ZigNext => Next /\ Zig'
  BY ZigBeginOK, ZigStartOK, ZigExtractorOK, ZigAllocInputOK, ZigAllocResponseOK,
     ZigOperationReturnsOK, ZigFreeInputOK, ZigFreeOutputOK, ZigTrapsOK
  DEF ZigNext

LEMMA ZigStepOK == ZigInv /\ [ZigNext]_zigVars => ZigInv'
<1> SUFFICES ASSUME ZigInv, [ZigNext]_zigVars PROVE ZigInv'
  OBVIOUS
<1>1. ASSUME ZigNext PROVE Next /\ Zig'
  BY <1>1, ZigRefines
<1>2. CASE UNCHANGED zigVars
  <2>1. Zig'
    BY <1>2 DEF ZigInv, Zig, zigVars, vars, CallByStage, FrameByStage, ZigHeapByPhase, Ours,
       InHand, Returned
  <2>2. UNCHANGED vars
    BY <1>2 DEF zigVars
  <2> QED
    BY <2>1, <2>2, TypeStep, OwnershipStep DEF ZigInv
<1> QED
  BY <1>1, <1>2, TypeStep, OwnershipStep DEF ZigInv

LEMMA ZigInvAlways == ZigSpec => []ZigInv
BY ZigInitOK, ZigStepOK, PTL DEF ZigSpec

-----------------------------------------------------------------------------
(* The theorems about the Zig SDK.                                         *)

\* The variables of the runner and of the SDK keep their types, and the
\* response a client function works on is live and nobody else's.
THEOREM ZigTypeCorrect == ZigSpec => []ZigTypeOK
<1>1. ZigInv => ZigTypeOK
  BY DEF ZigInv, Zig, Typed, Solid, CallByStage, ScratchNames, ZigTypeOK
<1> QED BY <1>1, ZigInvAlways, PTL

\* No dead buffer is ever freed, or read by the host.
THEOREM ZigNeverMisuses == ZigSpec => []ZigNoMisuse
<1>1. ZigInv => ZigNoMisuse
  BY DEF ZigInv, Zig, ZigNoMisuse
<1> QED BY <1>1, ZigInvAlways, PTL

\* Every live buffer is the host's, the extractor's or the client function's,
\* and no two overlap.
THEOREM ZigAlwaysOneOwner == ZigSpec => []ZigOneOwner
<1>1. ZigInv => ZigOneOwner
  <2> SUFFICES ASSUME ZigInv PROVE ZigOneOwner
    OBVIOUS
  <2>1. \A b, c \in heap : b = c \/ Disjoint(b, c)
    BY DEF ZigInv, Zig, Solid
  <2>2. phase \notin {"operation", "done", "crashed"} => Ours = held
    BY DEF ZigInv, Zig, CallByStage, NoCall, Ours, InHand
  <2>3. held \subseteq heap
    BY DEF ZigInv, Zig
  <2>4. ASSUME Running, phase # "free_input" PROVE tracker.allocations = heap \ Ours
    BY <2>2, <2>3, <2>4
    DEF ZigInv, Zig, OwnedByPhase, ZigHeapByPhase, Balanced, Owns, Running, GuestPhases
  <2>5. ASSUME phase = "free_input" PROVE heap = tracker.allocations \cup Ours \cup Returned
    BY <2>2, <2>5 DEF ZigInv, Zig, OwnedByPhase, ZigHeapByPhase, Owns
  <2> QED
    BY <2>1, <2>4, <2>5 DEF ZigOneOwner, Ours, InHand, Returned
<1> QED BY <1>1, ZigInvAlways, PTL

\* Whatever fails, a client function leaves nothing allocated, and an operation
\* that did not trap only what the extractor was given and did not release.
THEOREM ZigCallsLeaveNothing == ZigSpec => []CallsLeaveNothing
<1>1. ZigInv => CallsLeaveNothing
  BY DEF ZigInv, Zig, CallByStage, ZigHeapByPhase, CallsLeaveNothing, NoCall
<1> QED BY <1>1, ZigInvAlways, PTL

\* A guest of the Zig SDK, too, is one of the guests of Invocation, whichever
\* of its client functions is at work (ZigInv says that it is one of them).
THEOREM ZigKeepsContract == ZigSpec => ImplementsContract
<1>1. ZigInv /\ [ZigNext]_zigVars => [Next]_vars
  <2>1. ZigInv /\ ZigNext => Next
    BY ZigRefines
  <2>2. UNCHANGED zigVars => UNCHANGED vars
    BY DEF zigVars
  <2> QED BY <2>1, <2>2
<1>2. ZigSpec => HostSafety
  BY <1>1, ZigInvAlways, PTL DEF ZigSpec, ZigInit, HostSafety
<1> QED BY <1>2, SafetyImplementsContract, PTL

=============================================================================
