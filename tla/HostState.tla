------------------------------ MODULE HostState ------------------------------
(***************************************************************************)
(* The mutable state the runner puts in a wasmi Store for one invocation   *)
(* of a pack (runner/engine.rs, HostState), as operators on values:        *)
(*                                                                         *)
(*   - HostCallBudget (runner/limits.rs): how many imports may be served;  *)
(*   - MemoryTracker (runner/memory_tracker.rs): the buffers that cross    *)
(*     the ABI and that the host still has to give back;                   *)
(*   - DownloadAuthRegistry (runner/host_broker.rs): the bearer tokens the *)
(*     pack registered, keyed by the opaque refs handed back to it.        *)
(*                                                                         *)
(* A download-auth ref is the text "dar-" followed by a counter in 32 hex  *)
(* digits; the model keeps the counter.                                    *)
(*                                                                         *)
(* An operator commented "Fault:" is the definition after it with a bug    *)
(* this code could have; no definition uses it.                            *)
(***************************************************************************)
EXTENDS Naturals, FiniteSets

CONSTANTS
  MaxHostCalls,     \* manifest resource_limits.max_host_calls
  MaxPerInvocation, \* DOWNLOAD_AUTH_MAX_PER_INVOCATION, 8 in the code
  RegistryCapacity  \* DOWNLOAD_AUTH_REGISTRY_CAPACITY, 256 in the code

ASSUME HostStateAssumption ==
  /\ MaxHostCalls \in Nat \ {0}
  /\ MaxPerInvocation \in Nat \ {0}
  /\ RegistryCapacity \in Nat
  /\ MaxPerInvocation <= RegistryCapacity

-----------------------------------------------------------------------------
(* HostCallBudget                                                          *)

NewBudget ==
  [max_calls |-> MaxHostCalls, remaining |-> MaxHostCalls, calls_made |-> 0]

\* Fault: the limit is compared after the call instead of before it.
ExhaustedLate(b) == b.calls_made > b.max_calls

\* Fault: the last call of the budget is never granted.
ExhaustedEarly(b) == b.remaining <= 1

\* consume() returns Err and changes nothing when nothing remains.
Exhausted(b) == b.remaining = 0

Consumed(b) ==
  [max_calls |-> b.max_calls, remaining |-> b.remaining - 1,
   calls_made |-> b.calls_made + 1]

-----------------------------------------------------------------------------
(* MemoryTracker: the live records, and the two byte totals.               *)

NewTracker == [allocations |-> {}, allocated |-> 0, freed |-> 0]

\* record_alloc: the BTreeMap is keyed by ptr, so an insert at a ptr already
\* present replaces its record; the byte total grows all the same.
RecordAlloc(t, p, n) ==
  IF p = 0 \/ n = 0
    THEN t
    ELSE [allocations |-> {r \in t.allocations : r.ptr # p} \cup {[ptr |-> p, len |-> n]},
          allocated |-> t.allocated + n,
          freed |-> t.freed]

\* record_free fails with UnregisteredFree or LengthMismatch.
FreeRefused(t, p, n) ==
  /\ p # 0 /\ n # 0
  /\ [ptr |-> p, len |-> n] \notin t.allocations

\* Fault: the byte total is credited and the record kept.
RecordFreeKeepsRecord(t, p, n) ==
  IF p = 0 \/ n = 0 \/ FreeRefused(t, p, n) THEN t ELSE [t EXCEPT !.freed = @ + n]

RecordFree(t, p, n) ==
  IF p = 0 \/ n = 0 \/ FreeRefused(t, p, n)
    THEN t
    ELSE [allocations |-> t.allocations \ {[ptr |-> p, len |-> n]},
          allocated |-> t.allocated,
          freed |-> t.freed + n]

\* check_leaks
HasLeaks(t) == t.allocations # {}

-----------------------------------------------------------------------------
(* DownloadAuthRegistry: entries[c] is the token behind ref number c.      *)

NewRegistry == [counter |-> 0, entries |-> << >>]

EntryCount(reg) == Cardinality(DOMAIN reg.entries)

\* The registry lives for one invocation, so one count is held against both
\* of the host's limits.
RegistryFull(reg) ==
  \/ EntryCount(reg) >= MaxPerInvocation
  \/ EntryCount(reg) >= RegistryCapacity

\* Fault: the counter that names the refs is not advanced.
RegisteredOverFirst(reg, token) ==
  [counter |-> 1, entries |-> [r \in DOMAIN reg.entries \cup {1} |->
                                 IF r = 1 THEN token ELSE reg.entries[r]]]

Registered(reg, token) ==
  LET c == reg.counter + 1
  IN  [counter |-> c,
       entries |-> [r \in DOMAIN reg.entries \cup {c} |->
                      IF r = c THEN token ELSE reg.entries[r]]]

ContainsRef(reg, ref) == ref \in DOMAIN reg.entries

IsRegisteredToken(reg, value) ==
  \E r \in DOMAIN reg.entries : reg.entries[r] = value

=============================================================================
