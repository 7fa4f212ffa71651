------------------------------ MODULE MCAdmission ------------------------------
(***************************************************************************)
(* Small manifests and modules for model-checking Admission: one that      *)
(* passes everything, and what differs from it in what the rules read.     *)
(* Limits go up to 3; a word has 8 values, so that -6 is 2 as a usize.     *)
(***************************************************************************)
EXTENDS Admission

MCHostMaximum == [f \in LimitFields |-> 3]

GoodManifest ==
  [identity |-> TRUE, abi_version |-> 1, capabilities |-> Capabilities,
   repeated |-> FALSE, domains |-> "wellformed", domain_policy_refs |-> "none",
   broker_policy_refs |-> "none", resource_limits |-> [f \in LimitFields |-> 2]]

\* Every way to declare where requests may go, for every set of capabilities
\* that asks for it.
MCDomainManifests ==
  {[GoodManifest EXCEPT !.domains = d, !.domain_policy_refs = r,
                        !.broker_policy_refs = b, !.capabilities = {"cap.parse.wasm"} \cup c] :
     d \in {"absent", "empty", "wellformed", "malformed"},
     r \in {"none", "wellformed", "malformed"}, b \in {"none", "wellformed", "malformed"},
     c \in {{}, {"cap.http.fetch"}, {"cap.auth.profile"}}}

MCOtherManifests ==
  {[GoodManifest EXCEPT !.capabilities = c] : c \in SUBSET Capabilities}
  \cup {[GoodManifest EXCEPT !.capabilities = {"cap.parse.wasm", "unknown"}],
        [GoodManifest EXCEPT !.identity = FALSE], [GoodManifest EXCEPT !.abi_version = 2],
        [GoodManifest EXCEPT !.repeated = TRUE]}
  \cup {[GoodManifest EXCEPT !.resource_limits[f] = n] :
          f \in {"max_memory_pages", "max_output_bytes"}, n \in {0, 1, 3, 4}}
  \cup {[GoodManifest EXCEPT !.resource_limits["max_output_bytes"] = -6]}

MCManifests == MCDomainManifests \cup MCOtherManifests

Memory(initial, maximum) ==
  [imported |-> FALSE, initial |-> initial, maximum |-> maximum,
   is_64 |-> FALSE, shared |-> FALSE]

HostImport(name) == [module |-> "goaria_host", name |-> name, typed |-> TRUE]

GoodModule ==
  [readable |-> TRUE, loadable |-> TRUE, exports |-> [e \in RequiredExports |-> "typed"],
   memory_exported |-> TRUE, memories |-> <<Memory(1, NoMaximum)>>,
   imports |-> {HostImport("host_time")}, other_imports |-> FALSE]

MCModules ==
  {[GoodModule EXCEPT !.imports = {HostImport(n) : n \in names}] :
     names \in SUBSET HostFunctions}
  \cup {[GoodModule EXCEPT !.imports = {i}] : i \in ImportType}
  \cup {[GoodModule EXCEPT !.exports[e] = x] :
          e \in RequiredExports, x \in {"absent", "not_a_function", "mistyped"}}
  \cup {[GoodModule EXCEPT !.memories = <<Memory(i, m)>>] :
          i \in {1, 2, 3}, m \in {3, NoMaximum}}
  \cup {[GoodModule EXCEPT !.memories = << >>, !.memory_exported = FALSE],
        [GoodModule EXCEPT !.memories = <<Memory(1, 2), Memory(3, 3)>>],
        [GoodModule EXCEPT !.memories[1].imported = TRUE],
        [GoodModule EXCEPT !.memories[1].is_64 = TRUE],
        [GoodModule EXCEPT !.memory_exported = FALSE],
        [GoodModule EXCEPT !.other_imports = TRUE],
        [GoodModule EXCEPT !.readable = FALSE, !.loadable = FALSE],
        [GoodModule EXCEPT !.loadable = FALSE]}

=============================================================================
