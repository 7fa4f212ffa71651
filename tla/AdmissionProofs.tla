---------------------------- MODULE AdmissionProofs ----------------------------
(***************************************************************************)
(* Proofs about Admission, for any manifests and modules an author may     *)
(* write, any host maximums and any width of usize.                        *)
(*                                                                         *)
(* The inductive invariant says what is behind each stage: what check was  *)
(* asked (CheckedIsVerified), what the runner was made of (LoadedIsValid), *)
(* what an instance was given (InstanceFits) and where calls come from     *)
(* (CallsAreTheModules).                                                   *)
(***************************************************************************)
EXTENDS Admission, TLAPS

CheckedIsVerified == checked => Verified(manifest, module)

LoadedIsValid ==
  /\ stage \in {"loaded", "instance"} => Valid(manifest) /\ module.loadable
  /\ stage = "files" => refusal = "none" /\ calls = {}

InstanceFits ==
  stage = "instance" =>
    /\ Linked(module) /\ module.memory_exported
    /\ limits = HostLimits(manifest)
    /\ pages <= limits["max_memory_pages"]

CallsAreTheModules ==
  \A c \in calls :
    /\ c.permitted = Permitted(manifest, c.name, c.uses)
    /\ c.name # "http_fetch" => c.uses = "plain"
    /\ \E i \in module.imports : i.name = c.name

IInv ==
  /\ TypeOK /\ CheckedIsVerified /\ LoadedIsValid /\ InstanceFits
  /\ CallsAreTheModules /\ CheckedPacksRun

-----------------------------------------------------------------------------
(* Lemmas about the operators.                                             *)

\* A cast of a number that fits changes nothing.
LEMMA FittingCast ==
  ASSUME NEW n \in Nat, n < Word
  PROVE  AsUsize(n) = n
  BY AdmissionAssumption, SMT DEF AsUsize

\* The limits a valid manifest gives the runner are the manifest's own.
LEMMA ValidLimits ==
  ASSUME NEW m \in Manifests, Valid(m)
  PROVE  /\ HostLimits(m) = m.resource_limits
         /\ \A f \in LimitFields : m.resource_limits[f] \in 1 .. HostMaximum[f]
<1>1. /\ m.resource_limits \in [LimitFields -> Int]
      /\ Word \in Nat /\ HostMaximum \in [LimitFields -> Nat]
      /\ \A f \in LimitFields : HostMaximum[f] < Word
  BY AdmissionAssumption DEF ManifestType
<1>2. ASSUME NEW f \in LimitFields
      PROVE  /\ m.resource_limits[f] \in 1 .. HostMaximum[f]
             /\ AsUsize(m.resource_limits[f]) = m.resource_limits[f]
  <2>1. m.resource_limits[f] \in Int /\ HostMaximum[f] \in Nat /\ HostMaximum[f] < Word
    BY <1>1
  <2>2. 0 < m.resource_limits[f] /\ m.resource_limits[f] <= HostMaximum[f]
    BY <2>1 DEF Valid, LimitsRefused
  <2>3. m.resource_limits[f] \in Nat /\ m.resource_limits[f] < Word
    BY <1>1, <2>1, <2>2
  <2> QED BY <2>1, <2>2, <2>3, FittingCast
<1>3. HostLimits(m) = m.resource_limits
  BY <1>1, <1>2 DEF HostLimits
<1> QED BY <1>2, <1>3

\* What check verified passes every rule of the loader, but for the validation
\* that is the engine's own, and every rule of the instantiation.
LEMMA VerifiedInstantiates ==
  ASSUME NEW m \in Manifests, NEW w \in Modules, Verified(m, w)
  PROVE  /\ Valid(m) /\ Linked(w) /\ Fits(m, w) /\ w.memory_exported
         /\ \A e \in RequiredExports : w.exports[e] = "typed"
<1>1. Valid(m) /\ w.memory_exported /\ \A e \in RequiredExports : w.exports[e] = "typed"
  BY DEF Verified, MemoryRefused
<1>2. Linked(w)
  BY DEF Verified, ImportRefused, Linked
<1>3. Fits(m, w)
  <2>1. Len(w.memories) = 1
    BY DEF Verified, MemoryRefused
  <2>2. w.memories \in Seq(MemoryType)
    BY AdmissionAssumption DEF ModuleType
  <2>3. w.memories[1].initial \in Nat /\ m.resource_limits["max_memory_pages"] \in Int
    <3>1. w.memories[1] \in MemoryType
      BY <2>1, <2>2
    <3>2. m.resource_limits \in [LimitFields -> Int]
      BY AdmissionAssumption DEF ManifestType
    <3> QED BY <3>1, <3>2 DEF MemoryType, LimitFields
  <2>4. ~(w.memories[1].initial > m.resource_limits["max_memory_pages"])
    BY <2>1 DEF Verified, MemoryRefused, Last
  <2>5. w.memories[1].initial <= HostLimits(m)["max_memory_pages"]
    BY <1>1, <2>3, <2>4, ValidLimits
  <2> QED BY <2>1, <2>5 DEF Fits
<1> QED BY <1>1, <1>2, <1>3

\* The last memory of a module that loads and exports one.
LEMMA LastMemory ==
  ASSUME NEW w \in Modules, w.loadable, w.memory_exported
  PROVE  Len(w.memories) \in 1 .. Len(w.memories) /\ Last(w.memories).initial \in Nat
<1>1. w.memories \in Seq(MemoryType) /\ w.memories # << >>
  BY AdmissionAssumption DEF ModuleType
<1>2. Len(w.memories) \in 1 .. Len(w.memories)
  BY <1>1
<1>3. Last(w.memories) \in MemoryType
  BY <1>1, <1>2 DEF Last
<1> QED BY <1>2, <1>3 DEF MemoryType

\* A valid manifest says in one way where requests may go.
LEMMA ValidDomains ==
  ASSUME NEW m \in Manifests, Valid(m)
  PROVE  /\ IsAlias(m) = ~HasDomains(m)
         /\ RequiresBrokerRefs(m) =>
              IF IsAlias(m) THEN m.broker_policy_refs = "wellformed"
                            ELSE m.domains = "wellformed"
<1>1. /\ m.domains \in {"absent", "empty", "wellformed", "malformed"}
      /\ m.domain_policy_refs \in {"none", "wellformed", "malformed"}
  BY AdmissionAssumption DEF ManifestType
<1>2. ~DomainModeRefused(m)
  BY DEF Valid
<1>3. CASE HasDomains(m)
  BY <1>1, <1>2, <1>3 DEF DomainModeRefused, HasDomains, IsAlias
<1>4. CASE ~HasDomains(m)
  <2>1. ~AliasRefused(m)
    BY <1>2, <1>4 DEF DomainModeRefused
  <2>2. /\ m.domains = "empty" /\ m.domain_policy_refs = "wellformed"
        /\ RequiresBrokerRefs(m) => m.broker_policy_refs = "wellformed"
    BY <1>1, <1>4, <2>1 DEF AliasRefused, HasDomains
  <2> QED BY <1>4, <2>2 DEF IsAlias
<1> QED BY <1>3, <1>4

-----------------------------------------------------------------------------
(* The invariant.                                                          *)

LEMMA InitOK == Init => IInv
<1> SUFFICES ASSUME Init PROVE IInv
  OBVIOUS
<1>1. TypeOK
  BY DEF Init, TypeOK, NoLimits
<1>2. CheckedIsVerified /\ LoadedIsValid /\ InstanceFits /\ CheckedPacksRun
  BY DEF Init, CheckedIsVerified, LoadedIsValid, InstanceFits, CheckedPacksRun
<1>3. CallsAreTheModules
  BY DEF Init, CallsAreTheModules
<1> QED BY <1>1, <1>2, <1>3 DEF IInv

\* The author edits only between commands.
LEMMA FilesOK ==
  ASSUME IInv, \/ \E m \in Manifests : EditManifest(m)
               \/ \E w \in Modules : Rebuild(w)
               \/ Check
  PROVE  IInv'
<1>1. stage = "files" /\ refusal = "none" /\ calls = {}
  BY DEF IInv, LoadedIsValid, EditManifest, Rebuild, Check
<1>2. /\ manifest' \in Manifests /\ module' \in Modules /\ checked' \in BOOLEAN
      /\ UNCHANGED <<stage, refusal, limits, pages, calls>>
  BY DEF IInv, TypeOK, EditManifest, Rebuild, Check, Verified
<1>3. TypeOK'
  BY <1>2 DEF IInv, TypeOK
<1>4. CheckedIsVerified'
  BY DEF CheckedIsVerified, EditManifest, Rebuild, Check
<1> QED BY <1>1, <1>2, <1>3, <1>4
        DEF IInv, LoadedIsValid, InstanceFits, CallsAreTheModules, CheckedPacksRun

LEMMA NewRunnerOK == IInv /\ NewRunner => IInv'
<1> SUFFICES ASSUME IInv, NewRunner PROVE IInv'
  OBVIOUS
<1>1. /\ stage = "files" /\ refusal = "none" /\ calls = {}
      /\ UNCHANGED <<manifest, module, checked, limits, pages, calls>>
  BY DEF IInv, LoadedIsValid, NewRunner, Refuse
<1>2. \/ stage' = "refused" /\ refusal' = "manifest" /\ ~Valid(manifest)
      \/ stage' = "refused" /\ refusal' = "module"
      \/ stage' = "loaded" /\ refusal' = "none" /\ Valid(manifest) /\ module.loadable
  BY <1>1 DEF NewRunner, Refuse
<1>3. TypeOK' /\ CheckedIsVerified'
  BY <1>1, <1>2 DEF IInv, TypeOK, CheckedIsVerified
<1>4. LoadedIsValid' /\ InstanceFits' /\ CallsAreTheModules'
  BY <1>1, <1>2 DEF LoadedIsValid, InstanceFits, CallsAreTheModules
<1>5. CheckedPacksRun'
  BY <1>1, <1>2 DEF IInv, CheckedIsVerified, Verified, CheckedPacksRun
<1> QED BY <1>3, <1>4, <1>5 DEF IInv

LEMMA InstantiateOK ==
  ASSUME IInv, NEW op \in {"goaria_abi_version", "goaria_match", "goaria_extract"},
         Instantiate(op)
  PROVE  IInv'
<1>1. /\ stage = "loaded" /\ UNCHANGED <<manifest, module, checked, calls>>
      /\ manifest \in Manifests /\ module \in Modules
      /\ Valid(manifest) /\ module.loadable
  BY DEF IInv, TypeOK, LoadedIsValid, Instantiate
<1>2. /\ HostLimits(manifest) \in [LimitFields -> Nat]
      /\ HostLimits(manifest)["max_memory_pages"] \in Nat
  <2>1. /\ HostLimits(manifest) = manifest.resource_limits
        /\ \A f \in LimitFields : manifest.resource_limits[f] \in 1 .. HostMaximum[f]
    BY <1>1, ValidLimits
  <2>2. manifest.resource_limits \in [LimitFields -> Int]
    BY <1>1, AdmissionAssumption DEF ManifestType
  <2>3. \A f \in LimitFields : manifest.resource_limits[f] \in Nat
    BY <2>1, AdmissionAssumption
  <2> QED BY <2>1, <2>2, <2>3 DEF LimitFields
<1>3. CASE /\ stage' = "instance" /\ limits' = HostLimits(manifest)
           /\ pages' = Last(module.memories).initial /\ UNCHANGED refusal
           /\ Linked(module) /\ Fits(manifest, module) /\ module.memory_exported
  <2>1. /\ Len(module.memories) \in 1 .. Len(module.memories)
        /\ Last(module.memories).initial \in Nat
    BY <1>1, <1>3, LastMemory
  <2>2. pages' <= limits'["max_memory_pages"]
    BY <1>3, <2>1 DEF Fits, Last
  <2>3. TypeOK'
    BY <1>1, <1>2, <1>3, <2>1 DEF IInv, TypeOK
  <2>4. LoadedIsValid' /\ CallsAreTheModules'
    BY <1>1, <1>3 DEF IInv, LoadedIsValid, CallsAreTheModules
  <2>5. InstanceFits'
    BY <1>1, <1>3, <2>2 DEF InstanceFits
  <2>6. CheckedIsVerified' /\ CheckedPacksRun'
    BY <1>1, <1>3 DEF IInv, CheckedIsVerified, CheckedPacksRun
  <2> QED BY <2>3, <2>4, <2>5, <2>6 DEF IInv
<1>4. CASE /\ stage' = "refused" /\ UNCHANGED <<limits, pages>>
           /\ refusal' \in {"import", "limiter", "memory", "export"}
           /\ \/ ~Linked(module) \/ ~Fits(manifest, module) \/ ~module.memory_exported
              \/ \E e \in LookedUp(op) : module.exports[e] # "typed"
  <2>1. LookedUp(op) \subseteq RequiredExports
    BY DEF LookedUp, RequiredExports
  <2>2. ~checked
    BY <1>1, <1>4, <2>1, VerifiedInstantiates DEF IInv, CheckedIsVerified
  <2>3. TypeOK'
    BY <1>1, <1>4 DEF IInv, TypeOK
  <2>4. LoadedIsValid' /\ InstanceFits' /\ CallsAreTheModules'
    BY <1>1, <1>4 DEF IInv, LoadedIsValid, InstanceFits, CallsAreTheModules
  <2> QED BY <1>1, <2>2, <2>3, <2>4 DEF IInv, CheckedIsVerified, CheckedPacksRun
<1> QED BY <1>3, <1>4 DEF Instantiate, Refuse

LEMMA InstanceEndsOK ==
  ASSUME IInv, stage = "instance", InstanceDropped,
         UNCHANGED <<manifest, module, checked, refusal, calls>>
  PROVE  IInv'
<1>1. TypeOK'
  BY DEF IInv, TypeOK, InstanceDropped, NoLimits
<1> QED BY <1>1 DEF IInv, InstanceDropped, CheckedIsVerified, LoadedIsValid, InstanceFits,
           CallsAreTheModules, CheckedPacksRun

LEMMA MemoryGrowOK ==
  ASSUME IInv, NEW n \in 1 .. HostMaximum["max_memory_pages"] + 1, MemoryGrow(n)
  PROVE  IInv'
<1>1. stage = "instance" /\ UNCHANGED <<manifest, module, checked, refusal, calls>>
  BY DEF MemoryGrow
<1>2. CASE ~Grows(n)
  BY <1>1, <1>2, InstanceEndsOK DEF MemoryGrow
<1>3. CASE Grows(n)
  <2>1. /\ pages' = n /\ n \in Nat /\ UNCHANGED <<stage, limits>>
        /\ n <= limits["max_memory_pages"]
    <3>1. HostMaximum["max_memory_pages"] \in Nat
      BY AdmissionAssumption DEF LimitFields
    <3> QED BY <1>3, <3>1 DEF MemoryGrow, Grows
  <2>2. TypeOK'
    BY <1>1, <2>1 DEF IInv, TypeOK
  <2> QED BY <1>1, <2>1, <2>2 DEF IInv, CheckedIsVerified, LoadedIsValid, InstanceFits,
             CallsAreTheModules, CheckedPacksRun
<1> QED BY <1>2, <1>3

LEMMA HostCallOK ==
  ASSUME IInv, NEW i \in ImportType, NEW uses \in FetchUses, HostCall(i, uses)
  PROVE  IInv'
<1> DEFINE call == [name |-> i.name, uses |-> uses,
                    permitted |-> Permitted(manifest, i.name, uses)]
<1>1. /\ stage = "instance" /\ i \in module.imports /\ calls' = calls \cup {call}
      /\ uses # "plain" => i.name = "http_fetch"
      /\ UNCHANGED <<manifest, module, checked, stage, refusal, limits, pages>>
  BY DEF HostCall
<1>2. i.name \in HostFunctions
  BY <1>1 DEF IInv, InstanceFits, Linked
<1>3. Permitted(manifest, i.name, uses) \in BOOLEAN
  <2>1. /\ FetchPermitted(manifest, uses) \in BOOLEAN
        /\ StatusPermitted(manifest) \in BOOLEAN
        /\ RegisterPermitted(manifest) \in BOOLEAN
    BY DEF FetchPermitted, StatusPermitted, RegisterPermitted, Declares
  <2> QED BY <2>1 DEF Permitted
<1>4. call \in [name: HostFunctions, uses: FetchUses, permitted: BOOLEAN]
  BY <1>2, <1>3
<1>5. TypeOK'
  BY <1>1, <1>4 DEF IInv, TypeOK
<1>6. CallsAreTheModules'
  <2> SUFFICES ASSUME NEW c \in calls'
               PROVE  /\ c.permitted = Permitted(manifest, c.name, c.uses)
                      /\ c.name # "http_fetch" => c.uses = "plain"
                      /\ \E j \in module.imports : j.name = c.name
    BY <1>1 DEF CallsAreTheModules, Permitted, FetchPermitted, StatusPermitted,
       RegisterPermitted, Declares
  <2>1. CASE c \in calls
    BY <2>1 DEF IInv, CallsAreTheModules
  <2>2. CASE c = call
    BY <1>1, <2>2
  <2> QED BY <1>1, <2>1, <2>2
<1>7. LoadedIsValid' /\ InstanceFits'
  BY <1>1 DEF IInv, LoadedIsValid, InstanceFits
<1> QED BY <1>1, <1>5, <1>6, <1>7 DEF IInv, CheckedIsVerified, CheckedPacksRun

LEMMA ExitsOK == IInv /\ Exits => IInv'
<1> SUFFICES ASSUME IInv, Exits PROVE IInv'
  OBVIOUS
<1>1. TypeOK'
  BY DEF IInv, TypeOK, Exits
<1> QED BY <1>1 DEF IInv, Exits, CheckedIsVerified, LoadedIsValid, InstanceFits,
           CallsAreTheModules, CheckedPacksRun

LEMMA StepOK == IInv /\ [Next]_vars => IInv'
<1> SUFFICES ASSUME IInv, [Next]_vars PROVE IInv'
  OBVIOUS
<1>1. CASE UNCHANGED vars
  BY <1>1 DEF vars, IInv, TypeOK, CheckedIsVerified, LoadedIsValid, InstanceFits,
     CallsAreTheModules, CheckedPacksRun
<1>2. CASE Ends
  BY <1>2, InstanceEndsOK DEF Ends
<1> QED BY <1>1, <1>2, FilesOK, NewRunnerOK, InstantiateOK, MemoryGrowOK, HostCallOK,
           ExitsOK DEF Next

LEMMA IInvAlways == Spec => []IInv
BY InitOK, StepOK, PTL DEF Spec

-----------------------------------------------------------------------------
(* The theorems.                                                           *)

\* Every variable of the files, the loader and the instance has its type.
THEOREM TypeCorrect == Spec => []TypeOK
<1>1. IInv => TypeOK
  BY DEF IInv
<1> QED BY <1>1, IInvAlways, PTL

\* What check accepted, the runner loads, links, limits and runs.
THEOREM CheckedPacksAlwaysRun == Spec => []CheckedPacksRun
<1>1. IInv => CheckedPacksRun
  BY DEF IInv
<1> QED BY <1>1, IInvAlways, PTL

\* A call of a pack that check accepted is refused for a capability exactly
\* when it uses one the manifest does not declare, and never for its import.
THEOREM CheckedCallsAlwaysPermitted == Spec => []CheckedCallsPermitted
<1>1. IInv => CheckedCallsPermitted
  <2> SUFFICES ASSUME IInv, checked, NEW c \in calls
               PROVE  c.permitted = (UsedCapability(c.uses) \subseteq manifest.capabilities)
    BY DEF CheckedCallsPermitted
  <2>1. PICK i \in module.imports : i.name = c.name
    BY DEF IInv, CallsAreTheModules
  <2>2. CapabilityFor(c.name) \subseteq manifest.capabilities
    BY <2>1 DEF IInv, CheckedIsVerified, Verified, ImportRefused
  <2>3. c.permitted = Permitted(manifest, c.name, c.uses)
    BY DEF IInv, CallsAreTheModules
  <2>4. c.uses \in FetchUses /\ (c.name # "http_fetch" => c.uses = "plain")
    BY DEF IInv, TypeOK, CallsAreTheModules
  <2>5. CASE c.name = "http_fetch"
    <3>1. Declares(manifest, "cap.http.fetch")
      BY <2>2, <2>5 DEF CapabilityFor, Declares
    <3> QED BY <2>3, <2>4, <2>5, <3>1
            DEF Permitted, FetchPermitted, WantsExtended, FetchUses, UsedCapability, Declares
  <2>6. CASE c.name # "http_fetch"
    <3>1. UsedCapability(c.uses) = {}
      BY <2>4, <2>6 DEF UsedCapability, WantsExtended
    <3>2. Permitted(manifest, c.name, c.uses)
      BY <2>2, <2>6
         DEF Permitted, StatusPermitted, RegisterPermitted, CapabilityFor, Declares
    <3> QED BY <2>3, <3>1, <3>2
  <2> QED BY <2>5, <2>6
<1> QED BY <1>1, IInvAlways, PTL

\* The casts of the limits lose nothing, and the memory stays within its own.
THEOREM LimitsAlwaysWithinPolicy == Spec => []LimitsWithinPolicy
<1>1. IInv => LimitsWithinPolicy
  <2> SUFFICES ASSUME IInv, stage = "instance"
               PROVE  /\ \A f \in LimitFields :
                           /\ limits[f] = manifest.resource_limits[f]
                           /\ limits[f] \in 1 .. HostMaximum[f]
                      /\ pages <= manifest.resource_limits["max_memory_pages"]
    BY DEF LimitsWithinPolicy
  <2>1. /\ limits = HostLimits(manifest) /\ pages <= limits["max_memory_pages"]
        /\ manifest \in Manifests /\ Valid(manifest)
    BY DEF IInv, TypeOK, LoadedIsValid, InstanceFits
  <2> QED BY <2>1, ValidLimits
<1> QED BY <1>1, IInvAlways, PTL

\* The broker reads the domain mode of a loaded manifest the way validation did.
THEOREM OneDomainModeAlways == Spec => []OneDomainMode
<1>1. IInv => OneDomainMode
  BY ValidDomains DEF IInv, TypeOK, LoadedIsValid, OneDomainMode
<1> QED BY <1>1, IInvAlways, PTL

=============================================================================
