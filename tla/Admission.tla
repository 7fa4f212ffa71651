------------------------------- MODULE Admission -------------------------------
(***************************************************************************)
(* What a pack has to be before it runs: the manifest's own validation     *)
(* (manifest/schema.rs), check's analysis of the wasm binary against it    *)
(* (check/wasm.rs), and what the runner itself asks for when it loads,     *)
(* links and runs the two (runner/mod.rs, runner/engine.rs).               *)
(*                                                                         *)
(* check and run are commands of their own: nothing passes from one to the *)
(* other but the files, which the author edits in between, and run never   *)
(* repeats the analysis.  Two validators written apart have to agree.      *)
(*                                                                         *)
(* A manifest and a module are what the rules tell apart, not their text.  *)
(* An operator commented "Fault:" is the definition after it with a bug    *)
(* this code could have; no definition uses it.                            *)
(***************************************************************************)
EXTENDS Integers, Sequences

CONSTANTS
  Manifests, Modules, \* the ones the author may write, of the types below
  HostAbi,            \* CURRENT_ABI_VERSION
  HostMaximum,        \* MAX_TIMEOUT_MILLIS ... MAX_OUTPUT_BYTES, by field
  NoMaximum,          \* a memory that declares none
  Word                \* 2 to the width of usize

LimitFields ==
  {"timeout_millis", "max_memory_pages", "max_host_calls", "max_response_bytes",
   "max_output_items", "max_output_bytes"}

Capabilities ==
  {"cap.parse.wasm", "cap.http.fetch", "cap.http.fetch.extended",
   "cap.auth.profile", "cap.download.auth"}

\* identity: pack_id, pack_version and payload_sha256 are well-formed;
\* repeated: some capability is declared twice.
ManifestType ==
  [identity: BOOLEAN, abi_version: Nat,
   capabilities: SUBSET (Capabilities \cup {"unknown"}), repeated: BOOLEAN,
   domains: {"absent", "empty", "wellformed", "malformed"},
   domain_policy_refs: {"none", "wellformed", "malformed"},
   broker_policy_refs: {"none", "wellformed", "malformed"},
   resource_limits: [LimitFields -> Int]]

RequiredExports ==
  {"goaria_abi_version", "goaria_alloc", "goaria_free", "goaria_match", "goaria_extract"}

HostFunctions == {"http_fetch", "auth_profile_status", "register_download_auth", "host_time"}

\* typed: the signature is the one the ABI gives the name.
ImportType == [module: {"goaria_host", "other"}, name: HostFunctions \cup {"other"},
               typed: BOOLEAN]

MemoryType ==
  [imported: BOOLEAN, initial: Nat, maximum: Nat \cup {NoMaximum},
   is_64: BOOLEAN, shared: BOOLEAN]

\* readable: wasmparser gets through it; loadable: Module::new accepts it.
ModuleType ==
  [readable: BOOLEAN, loadable: BOOLEAN,
   exports: [RequiredExports -> {"absent", "not_a_function", "mistyped", "typed"}],
   memory_exported: BOOLEAN, memories: Seq(MemoryType),
   imports: SUBSET ImportType, other_imports: BOOLEAN]

\* Two of the limits are i64, the others unsigned; every host maximum fits a
\* usize; Module::new sees to it that what is exported exists.
ASSUME AdmissionAssumption ==
  /\ Manifests \subseteq ManifestType /\ Modules \subseteq ModuleType
  /\ \A m \in Manifests, f \in LimitFields \ {"max_response_bytes", "max_output_bytes"} :
       m.resource_limits[f] >= 0
  /\ \A w \in Modules : w.loadable /\ w.memory_exported => w.memories # << >>
  /\ HostAbi \in Nat
  /\ Word \in Nat
  /\ HostMaximum \in [LimitFields -> Nat]
  /\ \A f \in LimitFields : HostMaximum[f] < Word
  /\ NoMaximum \notin Nat

VARIABLES
  manifest, module, \* the files
  checked,  \* history: check accepted these files
  stage,    \* "files", "loaded", "instance", "refused"
  refusal,  \* why the runner gave up
  limits,   \* what the runner enforces on the instance
  pages,    \* of its memory
  calls     \* history: the imports called, for what, and whether permitted

vars == <<manifest, module, checked, stage, refusal, limits, pages, calls>>

NoLimits == [f \in LimitFields |-> 0]

Init ==
  /\ manifest \in Manifests /\ module \in Modules
  /\ checked = FALSE /\ stage = "files" /\ refusal = "none"
  /\ limits = NoLimits /\ pages = 0 /\ calls = {}

-----------------------------------------------------------------------------
(* manifest/schema.rs                                                      *)

Declares(m, capability) == capability \in m.capabilities

CapabilitiesRefused(m) ==
  \/ m.repeated \/ "unknown" \in m.capabilities
  \/ ~Declares(m, "cap.parse.wasm")
  \/ Declares(m, "cap.http.fetch.extended") /\ ~Declares(m, "cap.http.fetch")

HasDomains(m) == m.domains \in {"wellformed", "malformed"}

RequiresBrokerRefs(m) ==
  \E c \in {"cap.http.fetch", "cap.http.fetch.extended", "cap.auth.profile"} : Declares(m, c)

\* Fault: only http_fetch asks for broker refs.
AliasRefusedForFetchOnly(m) ==
  \/ m.domains = "absent"
  \/ m.domain_policy_refs # "wellformed" \/ m.broker_policy_refs = "malformed"
  \/ Declares(m, "cap.http.fetch") /\ m.broker_policy_refs = "none"

AliasRefused(m) ==
  \/ m.domains = "absent"
  \/ m.domain_policy_refs # "wellformed" \/ m.broker_policy_refs = "malformed"
  \/ RequiresBrokerRefs(m) # (m.broker_policy_refs = "wellformed")

\* validate_domain_policy_mode: concrete domains, or refs.
DomainModeRefused(m) ==
  IF HasDomains(m)
    THEN \/ m.domains = "malformed"
         \/ m.domain_policy_refs # "none" \/ m.broker_policy_refs # "none"
    ELSE AliasRefused(m)

\* Fault: a limit that is negative passes.
LimitsRefusedZeroOnly(m) ==
  \E f \in LimitFields : m.resource_limits[f] = 0 \/ m.resource_limits[f] > HostMaximum[f]

LimitsRefused(m) ==
  \E f \in LimitFields : m.resource_limits[f] <= 0 \/ m.resource_limits[f] > HostMaximum[f]

\* Manifest::validate_runnable
Valid(m) ==
  /\ m.identity /\ m.abi_version = HostAbi
  /\ ~CapabilitiesRefused(m) /\ ~DomainModeRefused(m) /\ ~LimitsRefused(m)

-----------------------------------------------------------------------------
(* check/wasm.rs                                                           *)

\* analyze_wasm_bytecode counts the memories, and keeps the last one.
Last(memories) == memories[Len(memories)]

MemoryRefused(m, w) ==
  \/ ~w.memory_exported \/ Len(w.memories) # 1
  \/ Last(w.memories).is_64 \/ Last(w.memories).shared
  \/ Last(w.memories).initial > m.resource_limits["max_memory_pages"]
  \/ /\ Last(w.memories).maximum # NoMaximum
     /\ Last(w.memories).maximum > m.resource_limits["max_memory_pages"]

\* The capability an import takes; host_time takes none.
CapabilityFor(name) ==
  CASE name = "http_fetch" -> {"cap.http.fetch"}
    [] name = "auth_profile_status" -> {"cap.auth.profile"}
    [] name = "register_download_auth" -> {"cap.download.auth"}
    [] OTHER -> {}

\* Fault: only the module of an import is looked at.
ImportRefusedByModule(m, i) ==
  i.module # "goaria_host" \/ ~(CapabilityFor(i.name) \subseteq m.capabilities)

ImportRefused(m, i) ==
  \/ i.module # "goaria_host" \/ ~i.typed \/ i.name \notin HostFunctions
  \/ ~(CapabilityFor(i.name) \subseteq m.capabilities)

\* verify_wasm_and_manifest
Verified(m, w) ==
  /\ w.readable /\ Valid(m)
  /\ \A e \in RequiredExports : w.exports[e] = "typed"
  /\ ~MemoryRefused(m, w)
  /\ ~w.other_imports /\ \A k \in 1 .. Len(w.memories) : ~w.memories[k].imported
  /\ \A i \in w.imports : ~ImportRefused(m, i)

-----------------------------------------------------------------------------
(* The author, and the commands.                                           *)

EditManifest(m) ==
  /\ stage = "files"
  /\ manifest' = m /\ checked' = FALSE
  /\ UNCHANGED <<module, stage, refusal, limits, pages, calls>>

Rebuild(w) ==
  /\ stage = "files"
  /\ module' = w /\ checked' = FALSE
  /\ UNCHANGED <<manifest, stage, refusal, limits, pages, calls>>

\* handle_check, and pack before it writes anything.
Check ==
  /\ stage = "files"
  /\ checked' = Verified(manifest, module)
  /\ UNCHANGED <<manifest, module, stage, refusal, limits, pages, calls>>

Refuse(reason) ==
  /\ stage' = "refused" /\ refusal' = reason
  /\ UNCHANGED <<limits, pages>>

\* ExtractorRunner::new
NewRunner ==
  /\ stage = "files"
  /\ IF ~Valid(manifest) THEN Refuse("manifest")
     ELSE IF ~module.loadable THEN Refuse("module")
     ELSE stage' = "loaded" /\ UNCHANGED <<refusal, limits, pages>>
  /\ UNCHANGED <<manifest, module, checked, calls>>

-----------------------------------------------------------------------------
(* The runner, on the manifest and the module it holds.                    *)

\* `as usize` of an i64, and of the unsigned fields.
AsUsize(n) == n % Word

\* What build_host_state, run_operation and extract enforce, cast where they do.
HostLimits(m) == [f \in LimitFields |-> AsUsize(m.resource_limits[f])]

Linked(w) ==
  /\ ~w.other_imports /\ \A k \in 1 .. Len(w.memories) : ~w.memories[k].imported
  /\ \A i \in w.imports : i.module = "goaria_host" /\ i.typed /\ i.name \in HostFunctions

\* StoreLimits: one memory, of so many pages.
Fits(m, w) ==
  /\ Len(w.memories) <= 1
  /\ \A k \in 1 .. Len(w.memories) :
       w.memories[k].initial <= HostLimits(m)["max_memory_pages"]

\* The functions an operation looks up, by their types.
LookedUp(op) ==
  IF op = "goaria_abi_version" THEN {op} ELSE {"goaria_alloc", "goaria_free", op}

\* instantiate_and_run, up to the first call of an export; the start function
\* belongs to the operation.
Instantiate(op) ==
  /\ stage = "loaded"
  /\ IF ~Linked(module) THEN Refuse("import")
     ELSE IF ~Fits(manifest, module) THEN Refuse("limiter")
     ELSE IF ~module.memory_exported THEN Refuse("memory")
     ELSE IF \E e \in LookedUp(op) : module.exports[e] # "typed" THEN Refuse("export")
     ELSE /\ stage' = "instance"
          /\ limits' = HostLimits(manifest)
          /\ pages' = Last(module.memories).initial
          /\ UNCHANGED refusal
  /\ UNCHANGED <<manifest, module, checked, calls>>

InstanceDropped == stage' = "loaded" /\ limits' = NoLimits /\ pages' = 0

\* The limiter; a growth it refuses is a trap (trap_on_grow_failure).
Grows(n) ==
  /\ n <= limits["max_memory_pages"]
  /\ Last(module.memories).maximum = NoMaximum \/ n <= Last(module.memories).maximum

MemoryGrow(n) ==
  /\ stage = "instance" /\ n > pages
  /\ IF Grows(n) THEN pages' = n /\ UNCHANGED <<stage, limits>> ELSE InstanceDropped
  /\ UNCHANGED <<manifest, module, checked, refusal, calls>>

\* What a fetch uses beside the plain GET of a url: POST or a body, a privileged
\* header, an auth profile.  The shape checks let only one of them through.
FetchUses == {"plain", "post", "header", "profile"}
WantsExtended(uses) == uses \in {"post", "header"}

\* The capability gates of handle_fetch; validate_pack_headers has the last one.
FetchPermitted(m, uses) ==
  /\ Declares(m, "cap.http.fetch")
  /\ WantsExtended(uses) => Declares(m, "cap.http.fetch.extended")
  /\ uses = "profile" => Declares(m, "cap.auth.profile")
  /\ uses = "header" => Declares(m, "cap.http.fetch.extended")

\* Fault: the status of a profile asks for what a fetch asks for.
StatusPermittedAsFetch(m) == Declares(m, "cap.http.fetch")

\* The one of handle_status.
StatusPermitted(m) == Declares(m, "cap.auth.profile")

\* The one of handle_register_download_auth.
RegisterPermitted(m) == Declares(m, "cap.download.auth")

\* What the linked functions hand their calls to; handle_host_time has no gate.
Permitted(m, name, uses) ==
  CASE name = "http_fetch" -> FetchPermitted(m, uses)
    [] name = "auth_profile_status" -> StatusPermitted(m)
    [] name = "register_download_auth" -> RegisterPermitted(m)
    [] OTHER -> TRUE

\* A call that reaches its gates.
HostCall(i, uses) ==
  /\ stage = "instance" /\ i \in module.imports
  /\ uses # "plain" => i.name = "http_fetch"
  /\ calls' = calls \cup {[name |-> i.name, uses |-> uses,
                          permitted |-> Permitted(manifest, i.name, uses)]}
  /\ UNCHANGED <<manifest, module, checked, stage, refusal, limits, pages>>

\* The operation returns, or traps.
Ends ==
  /\ stage = "instance" /\ InstanceDropped
  /\ UNCHANGED <<manifest, module, checked, refusal, calls>>

\* The command that made the runner ends.
Exits ==
  /\ stage \in {"loaded", "refused"}
  /\ stage' = "files" /\ refusal' = "none" /\ calls' = {}
  /\ UNCHANGED <<manifest, module, checked, limits, pages>>

Next ==
  \/ \E m \in Manifests : EditManifest(m)
  \/ \E w \in Modules : Rebuild(w)
  \/ Check \/ NewRunner
  \/ \E op \in {"goaria_abi_version", "goaria_match", "goaria_extract"} : Instantiate(op)
  \/ \E n \in 1 .. HostMaximum["max_memory_pages"] + 1 : MemoryGrow(n)
  \/ \E i \in ImportType, uses \in FetchUses : HostCall(i, uses)
  \/ Ends \/ Exits

Spec == Init /\ [][Next]_vars

-----------------------------------------------------------------------------
(* Properties.                                                             *)

\* Every variable has its type.
TypeOK ==
  /\ manifest \in Manifests /\ module \in Modules
  /\ checked \in BOOLEAN
  /\ stage \in {"files", "loaded", "instance", "refused"}
  /\ refusal \in {"none", "manifest", "module", "import", "limiter", "memory", "export"}
  /\ limits \in [LimitFields -> Nat] /\ pages \in Nat
  /\ calls \subseteq [name: HostFunctions, uses: FetchUses, permitted: BOOLEAN]

\* What check accepted the runner runs: of every rule the loader, the linker,
\* the limiter and the operations apply, check has applied one that is no
\* weaker.  Only the wasm validation of Module::new is the engine's alone.
CheckedPacksRun == checked => refusal \in {"none", "module"}

\* The capability of what a call uses beside its import, which check cannot see.
UsedCapability(uses) ==
  CASE WantsExtended(uses) -> {"cap.http.fetch.extended"}
    [] uses = "profile" -> {"cap.auth.profile"}
    [] OTHER -> {}

\* The imports of a pack that check accepted are good for all its manifest
\* declares: a gate refuses a call of it exactly when the call uses what the
\* manifest does not, and never for the import itself, though check and each
\* of the handlers ask for the capabilities on their own.
CheckedCallsPermitted ==
  checked => \A c \in calls : c.permitted = (UsedCapability(c.uses) \subseteq manifest.capabilities)

\* What the runner enforces after its casts is what the manifest says, and is
\* within the host's trust policy; the memory never outgrows it.
LimitsWithinPolicy ==
  stage = "instance" =>
    /\ \A f \in LimitFields :
         limits[f] = manifest.resource_limits[f] /\ limits[f] \in 1 .. HostMaximum[f]
    /\ pages <= manifest.resource_limits["max_memory_pages"]

\* is_alias_manifest
IsAlias(m) == m.domains = "empty" /\ m.domain_policy_refs # "none"

\* The broker takes a manifest for an alias manifest exactly when it names no
\* domain, and whichever it is, a capability that sends requests has a target
\* the gates of the broker let through.
OneDomainMode ==
  stage \in {"loaded", "instance"} =>
    /\ IsAlias(manifest) = ~HasDomains(manifest)
    /\ RequiresBrokerRefs(manifest) =>
         IF IsAlias(manifest) THEN manifest.broker_policy_refs = "wellformed"
                              ELSE manifest.domains = "wellformed"

=============================================================================
