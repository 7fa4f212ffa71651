----------------------------- MODULE SdkInvocation -----------------------------
(***************************************************************************)
(* The runner executing a pack built with the Rust SDK: Invocation, with   *)
(* the guest's side of the ABI in place of an arbitrary guest.             *)
(*                                                                         *)
(* The SDK exports its allocator (alloc.rs), wraps every response buffer   *)
(* the host allocated in it in a GuestBuffer that frees it when dropped    *)
(* (host.rs), and hands its output over in a fresh buffer (abi.rs).  It    *)
(* never calls an import while it allocates or frees.  The extractor       *)
(* between them is the pack author's: it calls the imports in any order,   *)
(* drops response buffers in any order, and may panic anywhere.            *)
(***************************************************************************)
EXTENDS GuestHeap

sdkVars == <<vars, heap, held, misuse>>

SdkInit == Init /\ heap = {} /\ held = {} /\ misuse = FALSE

-----------------------------------------------------------------------------
(* alloc.rs                                                                *)

\* free: a no-op on a null or empty buffer; otherwise the buffer must be live
\* and have exactly this length.
Dealloc(live, b) == live \ {b}
BadFree(live, b) == b.ptr # 0 /\ b.len > 0 /\ b \notin live

-----------------------------------------------------------------------------
(* Beginning: a new instance with an empty heap.                           *)

SdkBegin ==
  /\ \/ CheckAbi \/ MatchUrl \/ Extract
     \/ \E verdict \in {"abi_validation", "limits"} : MatchRefused(verdict)
  /\ heap' = {} /\ held' = {}
  /\ UNCHANGED misuse

SdkStart ==
  /\ StartReturns \/ AbiVersionReturns(TRUE)
  /\ UNCHANGED <<heap, held, misuse>>

\* goaria_alloc for the input; the host then writes the input.
SdkAllocInput(p) ==
  /\ AllocInputReturns(p)
  /\ p = 0 \/ Allocatable(heap, p, InputLen)
  /\ heap' = heap \cup NewBuffer(p, InputLen)
  /\ UNCHANGED <<held, misuse>>

-----------------------------------------------------------------------------
(* The extractor, inside dispatch_match or dispatch_extract.               *)

\* The raw_* functions of host.rs, up to the host's call of goaria_alloc.
SdkCallsHost ==
  /\ InExtractor
  /\ \/ GuestComputes \/ MalformedRequest
     \/ HttpFetch \/ AuthProfileStatus \/ HostTime
     \/ \E token \in Tokens :
          RegisterDownloadAuth(TRUE, token) \/ RegistrationPanics(token)
  /\ UNCHANGED <<heap, held, misuse>>

\* The response is copied in and its handle returned: from_host_raw takes it
\* over.  A null pointer is the host's 0, which raw_* reports as
\* host_call_failed without owning anything.
SdkAllocResponse(p) ==
  /\ AllocResponseReturns
  /\ p = 0 \/ Allocatable(heap, p, ResponseLen)
  /\ heap' = heap \cup NewBuffer(p, ResponseLen)
  /\ held' = held \cup NewBuffer(p, ResponseLen)
  /\ UNCHANGED misuse

\* Fault: the handle survives the free of its buffer.
SdkDropKeepsHandle(b) ==
  /\ InExtractor /\ b \in held
  /\ GuestComputes
  /\ misuse' = (misuse \/ BadFree(heap, b))
  /\ heap' = Dealloc(heap, b) /\ UNCHANGED held

\* Drop for GuestBuffer
SdkDrop(b) ==
  /\ InExtractor /\ b \in held
  /\ GuestComputes
  /\ misuse' = (misuse \/ BadFree(heap, b))
  /\ heap' = Dealloc(heap, b) /\ held' = held \ {b}

\* Fault: the response buffers still held are forgotten, not dropped.
SdkOperationForgets(p, n) ==
  /\ OperationReturns(p, n)
  /\ \/ p = 0 /\ n = 0
     \/ n > 0 /\ Allocatable(heap, p, n)
  /\ heap' = heap \cup NewBuffer(p, n)
  /\ held' = {}
  /\ UNCHANGED misuse

\* The extractor returns, which drops what it still holds; the dispatcher
\* serializes the output and copies it to a fresh buffer (pack_json_response).
\* When that cannot be allocated the packed result is 0.
SdkOperationReturns(p, n) ==
  /\ OperationReturns(p, n)
  /\ \/ p = 0 /\ n = 0
     \/ n > 0 /\ Allocatable(heap \ held, p, n)
  /\ heap' = (heap \ held) \cup NewBuffer(p, n)
  /\ held' = {}
  /\ UNCHANGED misuse

-----------------------------------------------------------------------------
(* goaria_free, called by the host.                                        *)

\* The host frees the input and then reads the output.
SdkFreeInput(read) ==
  /\ FreeInputReturns(read)
  /\ heap' = Dealloc(heap, input)
  /\ misuse' = \/ misuse \/ BadFree(heap, input)
               \/ phase' = "free_output" /\ output \notin heap'
  /\ UNCHANGED held

SdkFreeOutput ==
  /\ FreeOversizedReturns \/ FreeUnreadableReturns \/ FreeOutputReturns
  /\ heap' = Dealloc(heap, output)
  /\ misuse' = (misuse \/ BadFree(heap, output))
  /\ UNCHANGED held

\* panic=abort: the destructors of the extractor do not run.
SdkTraps ==
  /\ GuestTraps
  /\ UNCHANGED <<heap, held, misuse>>

SdkNext ==
  \/ SdkBegin \/ SdkStart
  \/ \E p \in Ptrs : SdkAllocInput(p) \/ SdkAllocResponse(p)
  \/ SdkCallsHost
  \/ \E b \in held : SdkDrop(b)
  \/ \E p \in Ptrs, n \in Lens : SdkOperationReturns(p, n)
  \/ \E read \in Outputs : SdkFreeInput(read)
  \/ SdkFreeOutput
  \/ SdkTraps

SdkSpec == SdkInit /\ [][SdkNext]_sdkVars

-----------------------------------------------------------------------------
(* Properties.                                                             *)

SdkTypeOK ==
  /\ TypeOK
  /\ heap \subseteq Buffers /\ held \subseteq heap
  /\ misuse \in BOOLEAN

\* Every buffer that crosses the ABI is freed at most once, by its owner and
\* with its own length, and is live whenever the host reads it: the order in
\* which run_operation frees the input, reads the output and frees it, the
\* responses interleaved with them and the drops of the SDK never meet.
NoMisuse == ~misuse

\* The live buffers are pairwise disjoint, and those the host has on record
\* are exactly the live ones the guest does not hold: neither side forgets a
\* buffer, and none has two owners.
OneOwner ==
  /\ \A b, c \in heap : b = c \/ Disjoint(b, c)
  /\ Running /\ phase \notin {"free_input"}
       => tracker.allocations = heap \ held
  /\ phase = "free_input"
       => heap = tracker.allocations \cup (IF output.ptr = 0 THEN {} ELSE {output})

\* Unless the guest traps or the host panics, an operation gives back every
\* buffer it allocated, whether it ends in an output or in an error.
EverythingFreed ==
  phase = "done" /\ result.verdict # "trap" => heap = {}

=============================================================================
