----------------------------- MODULE ZigInvocation -----------------------------
(***************************************************************************)
(* The runner executing a pack built with the Zig SDK: Invocation, with    *)
(* sdk/zig/src (abi.zig, host.zig) as the guest's side of the ABI.         *)
(*                                                                         *)
(* Zig drops nothing by itself: a function frees what it allocated where   *)
(* it says defer (on return) or errdefer (on an error).  The extractor is  *)
(* the pack author's: it calls the client functions of HostBroker and the  *)
(* raw ones in any order, and releases what they return in any order, or   *)
(* never.  Every allocation may fail.                                      *)
(*                                                                         *)
(* Buffers that cross the ABI have an address; what a client function      *)
(* allocates for itself has a name.                                        *)
(***************************************************************************)
EXTENDS GuestHeap, FiniteSets

VARIABLES
  call,      \* the client function it is in, and how far that is
  scratch,   \* what that function owns and has to free
  response,  \* the response buffer that function works on
  responses  \* the buffers that strings of the responses it returned lie in

zigVars == <<vars, heap, held, call, scratch, response, responses, misuse>>

NoCall == [fn |-> "none", stage |-> "none"]

ZigInit ==
  /\ Init
  /\ heap = {} /\ held = {}
  /\ call = NoCall /\ scratch = {} /\ response = NoBuffer /\ responses = {}
  /\ misuse = FALSE

Client == UNCHANGED <<call, scratch, response, responses>>

-----------------------------------------------------------------------------
(* abi.zig                                                                 *)

\* free: a no-op on non-positive values; otherwise one live allocation.
Free(b) ==
  /\ heap' = heap \ {b}
  /\ misuse' = (misuse \/ (b # NoBuffer /\ b \notin heap))

ZigBegin ==
  /\ \/ CheckAbi \/ MatchUrl \/ Extract
     \/ \E verdict \in {"abi_validation", "limits"} : MatchRefused(verdict)
  /\ heap' = {} /\ held' = {}
  /\ call' = NoCall /\ scratch' = {} /\ response' = NoBuffer /\ responses' = {}
  /\ UNCHANGED misuse

ZigStart ==
  /\ StartReturns \/ AbiVersionReturns(TRUE)
  /\ Client /\ UNCHANGED <<heap, held, misuse>>

ZigAllocInput(p) ==
  /\ AllocInputReturns(p)
  /\ p = 0 \/ Allocatable(heap, p, InputLen)
  /\ heap' = heap \cup NewBuffer(p, InputLen)
  /\ Client /\ UNCHANGED <<held, misuse>>

-----------------------------------------------------------------------------
(* host.zig: the client functions, called by the extractor.                *)

Functions ==
  {"raw", "fetch", "post", "bytes", "status", "available", "register", "time"}

\* What is allocated before the import is called, in this order.
Allocations(fn) ==
  CASE fn \in {"raw", "time"} -> << >>
    [] fn = "post" -> <<"body", "headers", "request">>
    [] OTHER -> <<"request">>

In(stage) == InExtractor /\ call.stage = stage

Enter(fn) ==
  /\ In("none") /\ GuestComputes
  /\ call' = [fn |-> fn, stage |-> "request"]
  /\ UNCHANGED <<heap, held, scratch, response, responses, misuse>>

\* Fault: buildPostBodyRequest has no errdefer for the body.
UnwindForgets ==
  /\ call' = NoCall /\ scratch' = scratch \cap {"body"}
  /\ Free(IF "response" \in scratch THEN response ELSE NoBuffer)
  /\ response' = NoBuffer

\* The function returns, and what it says in defer is done.
Unwind ==
  /\ call' = NoCall /\ scratch' = {}
  /\ Free(IF "response" \in scratch THEN response ELSE NoBuffer)
  /\ response' = NoBuffer

\* It returns an error: its errdefers run, too.
Fails == GuestComputes /\ Unwind /\ UNCHANGED <<held, responses>>

Allocate ==
  /\ In("request") /\ Cardinality(scratch) < Len(Allocations(call.fn))
  /\ \/ /\ GuestComputes
        /\ scratch' = scratch \cup {Allocations(call.fn)[Cardinality(scratch) + 1]}
        /\ UNCHANGED <<heap, held, call, response, responses, misuse>>
     \/ Fails

\* The author of a raw request may get it wrong.
Import(fn) ==
  CASE fn \in {"fetch", "post", "bytes"} -> HttpFetch
    [] fn \in {"status", "available"} -> AuthProfileStatus
    [] fn = "register" -> \E token \in Tokens : RegisterDownloadAuth(TRUE, token)
    [] fn = "time" -> HostTime
    [] fn = "raw" -> MalformedRequest \/ HttpFetch

\* raw.*: a request above 64 KiB is answered 0 at once.
CallsHost ==
  /\ In("request") /\ Cardinality(scratch) = Len(Allocations(call.fn))
  /\ Import(call.fn) \/ GuestComputes
  /\ call' = [call EXCEPT !.stage = "called"]
  /\ UNCHANGED <<heap, held, scratch, response, responses, misuse>>

HostPanics ==
  /\ In("request") /\ call.fn = "register" /\ scratch = {"request"}
  /\ \E token \in Tokens : RegistrationPanics(token)
  /\ Client /\ UNCHANGED <<heap, held, misuse>>

\* The host calls goaria_alloc and copies the response in; a null pointer
\* becomes the 0 of the import.
ZigAllocResponse(p) ==
  /\ AllocResponseReturns
  /\ p = 0 \/ Allocatable(heap, p, ResponseLen)
  /\ heap' = heap \cup NewBuffer(p, ResponseLen)
  /\ IF p = 0
       THEN UNCHANGED <<scratch, response>>
       ELSE /\ scratch' = scratch \cup {"response"}
            /\ response' = [ptr |-> p, len |-> ResponseLen]
  /\ UNCHANGED <<held, call, responses, misuse>>

\* HostCallFailed; or the response does not decode, or has ok: false in
\* hostTime.
CallFails == In("called") /\ Fails

Arrived == In("called") /\ "response" \in scratch /\ GuestComputes

\* Fault: rawHttpFetch frees the buffer it returns, too.
RawReturnsFreed ==
  /\ Arrived /\ call.fn = "raw"
  /\ held' = held \cup {response}
  /\ Unwind /\ UNCHANGED responses

\* A raw function hands the buffer itself over.
RawReturns ==
  /\ Arrived /\ call.fn = "raw"
  /\ held' = held \cup {response}
  /\ call' = NoCall /\ scratch' = {} /\ response' = NoBuffer
  /\ UNCHANGED <<heap, responses, misuse>>

\* Fault: hostTime does not free the response.
ScalarLeaks ==
  /\ Arrived /\ call.fn \in {"available", "time"}
  /\ call' = NoCall /\ scratch' = {} /\ response' = NoBuffer
  /\ UNCHANGED <<heap, held, responses, misuse>>

\* isAuthAvailable and hostTime return a scalar of the response.
ScalarReturns ==
  /\ Arrived /\ call.fn \in {"available", "time"}
  /\ Unwind /\ UNCHANGED <<held, responses>>

\* parseFromSlice: the strings of the result are slices of the buffer, which
\* is freed as the function returns; the result is the extractor's.
ParsedReturns ==
  /\ Arrived /\ call.fn \in {"fetch", "post", "status", "register"}
  /\ responses' = responses \cup {response}
  /\ Unwind /\ UNCHANGED held

\* fetchBytes: fetch returns to it.
BytesFetched ==
  /\ Arrived /\ call.fn = "bytes"
  /\ call' = [call EXCEPT !.stage = "fetched"]
  /\ scratch' = {"parsed"} /\ Free(response)
  /\ UNCHANGED <<held, response, responses>>

\* It allocates what it returns and decodes the body into it; ok: false, no
\* memory and a body that is not base64 are errors.
BytesReturns == In("fetched") /\ Fails

\* Fault: deinit does not reset the pointer.
ReleaseBufferKept(b) ==
  /\ In("none") /\ b \in held /\ GuestComputes
  /\ Free(b) /\ UNCHANGED held
  /\ Client

\* The extractor releases what it was given; deinit resets the pointer.
ReleaseBuffer(b) ==
  /\ In("none") /\ b \in held /\ GuestComputes
  /\ Free(b) /\ held' = held \ {b}
  /\ Client

ReleaseResponse(b) ==
  /\ In("none") /\ b \in responses /\ GuestComputes
  /\ responses' = responses \ {b}
  /\ UNCHANGED <<heap, held, call, scratch, response, misuse>>

-----------------------------------------------------------------------------
(* Returning to the host.                                                  *)

\* packJsonResponse: the output, in a buffer of its own.
ZigOperationReturns(p, n) ==
  /\ In("none") /\ OperationReturns(p, n)
  /\ \/ p = 0 /\ n = 0
     \/ n > 0 /\ Allocatable(heap, p, n)
  /\ heap' = heap \cup NewBuffer(p, n)
  /\ Client /\ UNCHANGED <<held, misuse>>

\* goaria_free of the input; the host then reads the output.
ZigFreeInput(read) ==
  /\ FreeInputReturns(read)
  /\ heap' = heap \ {input}
  /\ misuse' = \/ misuse \/ input \notin heap
               \/ phase' = "free_output" /\ output \notin heap'
  /\ Client /\ UNCHANGED held

ZigFreeOutput ==
  /\ FreeOversizedReturns \/ FreeUnreadableReturns \/ FreeOutputReturns
  /\ Free(output)
  /\ Client /\ UNCHANGED held

ZigTraps ==
  /\ GuestTraps
  /\ Client /\ UNCHANGED <<heap, held, misuse>>

ZigExtractor ==
  \/ \E fn \in Functions : Enter(fn)
  \/ Allocate \/ CallsHost \/ HostPanics \/ CallFails
  \/ RawReturns \/ ScalarReturns \/ ParsedReturns \/ BytesFetched \/ BytesReturns
  \/ \E b \in held : ReleaseBuffer(b)
  \/ \E b \in responses : ReleaseResponse(b)

ZigNext ==
  \/ ZigBegin \/ ZigStart \/ ZigExtractor
  \/ \E p \in Ptrs : ZigAllocInput(p) \/ ZigAllocResponse(p)
  \/ \E p \in Ptrs, n \in Lens : ZigOperationReturns(p, n)
  \/ \E read \in Outputs : ZigFreeInput(read)
  \/ ZigFreeOutput \/ ZigTraps

ZigSpec == ZigInit /\ [][ZigNext]_zigVars

-----------------------------------------------------------------------------
(* Properties.                                                             *)

\* Every variable has its type, and what a function owns is live.
ZigTypeOK ==
  /\ TypeOK
  /\ heap \subseteq Buffers /\ held \subseteq heap /\ responses \subseteq Buffers
  /\ call \in [fn: Functions \cup {"none"},
               stage: {"none", "request", "called", "fetched"}]
  /\ scratch \subseteq {"body", "headers", "request", "response", "parsed"}
  /\ response \in Buffers
  /\ "response" \in scratch => response \in heap \ held
  /\ misuse \in BOOLEAN

\* Every buffer that crosses the ABI is freed at most once, by its owner, and
\* is live whenever the host reads it.
ZigNoMisuse == ~misuse

\* The live buffers are pairwise disjoint, and those the host has on record
\* are exactly the live ones that neither the extractor nor the client
\* function at work owns.
ZigOneOwner ==
  /\ \A b, c \in heap : b = c \/ Disjoint(b, c)
  /\ LET ours == held \cup (IF "response" \in scratch THEN {response} ELSE {})
     IN  /\ Running /\ phase # "free_input" => tracker.allocations = heap \ ours
         /\ phase = "free_input" =>
              heap = tracker.allocations \cup ours
                     \cup (IF output.ptr = 0 THEN {} ELSE {output})

\* A client function leaves nothing behind, at whatever allocation, answer or
\* decoding it gives up: between calls nothing of it is allocated, and when an
\* operation has ended the only live buffers are those the extractor was given
\* and did not release.
CallsLeaveNothing ==
  /\ call = NoCall => scratch = {}
  /\ phase = "done" /\ result.verdict # "trap" => heap = held

\* What the documents say and the code does not do: the caller owns a response
\* it was returned, and fetchBytes the one it decodes, until it is released.
ResponsesReadable ==
  /\ responses \subseteq heap
  /\ call.stage = "fetched" => response \in heap

=============================================================================
