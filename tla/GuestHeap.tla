------------------------------- MODULE GuestHeap -------------------------------
(***************************************************************************)
(* What the guests of the two SDKs have in common: Invocation, with the    *)
(* heap that goaria_alloc and goaria_free work on: the input, the output   *)
(* and the responses, at their addresses.  Buffers that never cross the    *)
(* ABI have none here.                                                     *)
(***************************************************************************)
EXTENDS Invocation

CONSTANT ResponseLen  \* bytes of a serialized import response

ASSUME GuestHeapAssumption == ResponseLen \in Nat \ {0}

VARIABLES
  heap,   \* the live buffers of goaria_alloc that cross the ABI
  held,   \* those the extractor owns as GuestBuffers
  misuse  \* history: a dead buffer was freed, or accessed by the host

Disjoint(b, c) == b.ptr + b.len <= c.ptr \/ c.ptr + c.len <= b.ptr

\* Fault: a live region is handed out again.
AllocatableAnywhere(live, p, n) == Positive(p) /\ InMemory(p, n)

\* alloc: a region of the memory that no live buffer overlaps.
Allocatable(live, p, n) ==
  /\ Positive(p) /\ InMemory(p, n)
  /\ \A b \in live : Disjoint([ptr |-> p, len |-> n], b)

\* What there is more of after it: nothing when it failed.
NewBuffer(p, n) == IF p = 0 THEN {} ELSE {[ptr |-> p, len |-> n]}

\* The guest runs, between two calls of the host.
InExtractor == phase = "operation" /\ frames = << >>

=============================================================================
