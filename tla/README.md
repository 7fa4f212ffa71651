# goaria-extractor-sdk: TLA+ models, checks and proofs

The repository holds an SDK for writing *extractor packs* (wasm modules that turn a page url into
download items) and `cargo goaria-pack`, the tool that scaffolds, builds, runs, tests, signs and
packages them. This directory models the part with state and control: the **runner**, which
executes a pack and serves its host imports, the **fetch broker** behind the most important of
those imports, the **ABI glue** of the Rust and the Zig SDK, which is the other end of the runner's
memory protocol, the **manifest and the check command**, which decide what the runner is given, the
**test command**, which judges a pack against fixtures, and the commands that **scaffold, build, release
and generate keys**, which share files with other processes and with their own earlier runs.

Contents: [inventory](#1-inventory), [modules](#2-modules-and-how-they-correspond-to-the-code),
[runs](#3-runs), [fairness](#4-fairness), [disagreements](#5-disagreements-between-code-and-documents),
[proofs](#6-what-is-proved), [not modelled](#7-what-is-not-modelled), [plan](#8-plan).

Run from this directory:

    tlc -config MCInvocation.cfg MCInvocation.tla      # likewise for the other cfgs
    tlapm InvocationProofs.tla                         # likewise the other *Proofs.tla

## 1. Inventory

`P/` is `src/crates/cargo-goaria-pack/src/`, `S/` is `src/crates/goaria-extractor-sdk/src/`.

### The runner (`P/runner/`)

| component | state | operations |
|---|---|---|
| operations of a pack, `mod.rs` | per operation: a wasmi Store, the input and output buffers, the copied output bytes | `check_abi`, `match_url`, `extract`, all through `run_operation`; options of the builder |
| wasm engine, `engine.rs` | `HostState` in the Store, fuel, memory and table limits | `instantiate_and_run`; the imports `http_fetch`, `auth_profile_status`, `register_download_auth`, `host_time`; `write_guest_response` |
| host call budget, `limits.rs` | calls remaining, calls made | `consume` |
| memory tracker, `memory_tracker.rs` | live records by pointer, byte totals | `record_alloc`, `record_free`, `check_leaks` |
| download-auth registry, `host_broker.rs` | ref to token, counter | `register`, `contains_ref`, `is_registered_token` |
| output validation, `mod.rs` | none | `decode_match_output`, `validate_extract_output` |
| fetch broker, `host_broker.rs` | per fetch: hop url, redirects, deadline, bytes read | `handle_fetch`: gates, then `MockBroker::resolve` or `LiveBroker::fetch` |
| auth provider, `auth_provider.rs` | profiles, at most the one `run` is given | `get_auth_header`, `handle_status` |
| redaction, `host_broker.rs` | none | `redact_sensitive`, `contains_secret_reflection` |

How they interact. One operation is one `run_operation`: a fresh `HostState` and a fresh instance,
then the guest's start function, `goaria_alloc` for the input, the operation's export,
`goaria_free` of the input, reading the output, `goaria_free` of the output. While an export runs,
the guest calls imports; to return an answer the host calls the guest's `goaria_alloc` *from inside
the import*, where the guest may call imports again. Everything is one thread, but the control flow
is that of mutual recursion between two programs that do not trust each other. `HostState` is
cloned out of the Store, changed by a handler and written back; the handler of `http_fetch` may
block on servers. Nothing is shared between operations except the options of the runner.

What makes each part correct:
- *operations*: every path frees what it took, once, with the length it was given; the tracker never
  accuses a pack that did nothing wrong; each operation ends.
- *budget*: exactly one unit per served call, whichever import, however nested; exhaustion is final.
- *registry*: a ref is minted once, keeps its token, dies with the invocation; only refs minted in
  this invocation are accepted in its output.
- *fetch broker*: every hop is inside the manifest's policy and carries secrets over https only;
  bounded hops; one deadline; limits obeyed; no secret shown to the guest; always answered.

### The SDK

| component | state | operations |
|---|---|---|
| ABI glue and allocator, `S/abi.rs`, `S/alloc.rs`, `S/host.rs` | live buffers, `GuestBuffer` handles | `goaria_alloc`, `goaria_free`, `dispatch_match`, `dispatch_extract`, `raw_*`, drop |
| broker client and types, `S/broker.rs`, `S/types.rs`, `S/error.rs`, `S/traits.rs` | none | request builders, serialization |
| macro, `src/crates/goaria-extractor-macro` | none | generates the exports |
| Zig SDK, `src/sdk/zig/src/abi.zig`, `host.zig` | live buffers, `GuestBuffer`s, what each client function has allocated | the same exports; `raw.*`, `fetch`, `postUrl`, `fetchBytes`, `authProfileStatus`, `isAuthAvailable`, `registerDownloadAuth`, `hostTime` |

Correct when every buffer that crosses the ABI has exactly one owner at any moment, is freed once
with its own length, and none is left when the operation ends. In Rust the compiler places the frees,
in Zig they are `defer` and `errdefer` of functions that may fail at each of several allocations, the
call and the decoding.

### The tool around them

| component | state | operations, and what makes it correct |
|---|---|---|
| manifest, `P/manifest/schema.rs` | none | validation of capabilities, domain mode and limits; everything the runner does later relies on it |
| `check`, `P/commands/check.rs`, `P/check/wasm.rs` | none; the files, which change under it | analysis of the binary against the manifest; what it accepts, the runner runs |
| `run`, `P/commands/run.rs` | none | match, and extract only what matched |
| `test`, `P/commands/test.rs` | the mock broker's rules, the asserted count, passes and failures | the same per domain; says ok only of a pack that did everything asked, against all fixtures, whatever their order |
| release, `P/commands/pack.rs`, `sign.rs`, `P/pack/` | files of the output directory | archive, manifest, payload, signature and lock describe one release |
| `keygen`, `P/commands/keygen.rs` | two key files | never replaces a key |
| `build`, `P/commands/build.rs` | target directories | the binary that is packed is the one that was built |
| `new`, `P/commands/new.rs`, `P/scaffold/` | the target directory, what of it was written | writes a whole project into a directory that is absent or empty; when it fails it takes away a directory it made, not one that was there; never harms what is there |
| command line, `P/cli.rs`, `P/main.rs` | none | parsing and dispatch |

### Where it is hard

The hazards are listed, each at its line, in `PROJECT.json`. In short: re-entrancy (an import
answered through a guest call that calls imports), state cloned before and written back around
those calls, a guest that returns any pointer (its input as its output, overlapping buffers, null,
memory it does not have) to a tracker keyed by pointer, traps at any point, two programs freeing
each other's buffers, files that several commands write in place and that a stopped command leaves
half done, fixtures in the order a file system lists them, binaries of earlier builds beside the new one, credentials on redirected requests, one deadline over several requests with
timeouts of their own, bytes capped while they stream, the boundary of each limit, rules that two or
three parts apply each in its own words (`check`, the linker, the limiter, the gates; the status of a
profile and a fetch with it), and a directory that is looked at, created, written and removed in
separate calls while others do the same.

## 2. Modules and how they correspond to the code

    HostState        budget, tracker and registry as values          (operators)
      OutputValidation   what an output decodes to, which is accepted  (operators)
        Invocation         the runner and an arbitrary guest             (specification)
          InvocationProofs   theorems about Invocation
          GuestHeap          heap and allocator that both SDKs' guests have (state and operators)
            SdkInvocation      the runner and a guest of the Rust SDK        (specification)
            ZigInvocation      the runner and a guest of the Zig SDK         (specification)
              SdkProofs          theorems about both
    HostContract     what the host promises a pack                   (abstract specification)
    Admission        manifest, binary, check and the runner's rules  (specification)
      AdmissionProofs  theorems about Admission
    FetchContract    what the host promises a pack about one fetch   (abstract specification)
    FetchBroker      one fetch, gates to answer                      (specification)
      AuthStatus       auth_profile_status beside it                   (operators)
        FetchProofs      theorems about both
    Fixtures         the test command and its fixtures               (specification)
      FixturesProofs   theorems about Fixtures
    Scaffold         new over one target directory                   (specification)
      ScaffoldProofs   theorems about Scaffold
    Build            projects, binaries, and where they are looked for (actions and operators)
      Release          pack and sign over one output directory         (specification)
        ReleaseProofs    theorems about Release
    Keygen           keygen over shared paths                        (specification)
      KeygenProofs     theorems about Keygen
    MC<module>       a small instance of each specification for TLC

**HostState** translates `HostCallBudget`, `MemoryTracker` and `DownloadAuthRegistry`. A ref
`dar-<32 hex digits>` is its counter. The tracker keeps its keying by pointer: recording at a
pointer already on record replaces that record.

**OutputValidation** abstracts the bytes of an output to what decoding and validation tell apart.
Each rule about text is a flag of the item; the url, the download-auth ref and the file name keep
more, because rules relate them. A token may be spelled like a ref: the model has one.

**Invocation** is the whole of `run_operation` and of the import closures.

| variable | code |
|---|---|
| `phase` | which export `run_operation` is waiting for; `done`, `idle`, or `crashed` when the host panicked |
| `frames` | the imports whose `write_guest_response` waits for `goaria_alloc`, innermost last |
| `budget`, `tracker`, `registry` | the fields of `HostState` |
| `fuel` | fuel of the Store |
| `input`, `output`, `bytes` | `input_ptr`/`input_len`, the unpacked result, the copied output |
| `config` | broker kind, the download-auth capability, `verify_buffer_ownership` |
| `result` | what the operation returned |
| `answered`, `invocations` | history, and a bound |

The guest is arbitrary: at every point it may compute, call any import with any request, return any
pointer from any export, or trap; each of its steps costs fuel. A call of an import up to the call
of `goaria_alloc` is one action (`MalformedRequest`, `HttpFetch`, `AuthProfileStatus`, `HostTime`,
`RegisterDownloadAuth`): nothing else runs in between. `AllocResponseReturns` is the rest of the
import. A trap inside that `goaria_alloc` is swallowed, as in the code: the import returns 0 and the
guest goes on. The clone and write-back of `HostState` fields is one update, because between the
clone and the write-back no guest code runs; that the write-back comes before the guest is called
is exactly what the order of these actions states.

**HostContract** is what a pack author may rely on, without budgets, pointers, frames or JSON: at
most `max_host_calls` served calls, at most 8 bindings of refs to tokens, never changed, none
surviving its invocation, and an accepted output binds only refs of its own invocation. `Invocation`
implements it under the mapping stated at the end of its module.

**FetchContract** is what a pack author may rely on in one fetch, without gates, hops, brokers or
time: one answer and nothing after it, requests only to urls the terms allow, one if the request is
extended, and a code that blames the pack, the manifest or nobody. The terms (`TermsOf`) are read off
manifest and request, not off the order of the gates; `FetchBroker` implements the contract under the
mapping at the end of its module. That the mock broker fails with `fetch_failed` even when a profile
is used is part of it, since that is what the code does (section 5).

**GuestHeap** has the live buffers of a guest, the handles its author holds, the sticky `misuse`, and
what an allocator may return: a buffer in memory that overlaps no live one.

**SdkInvocation** replaces the arbitrary guest by the SDK's: every action is one of `Invocation`
together with what the Rust side does to its heap and handles. Only the extractor (the author's
code) remains arbitrary: it calls imports and drops response buffers in any order and may panic.
An allocation may fail at any time.

**ZigInvocation** does the same for the Zig SDK, with the client functions of `host.zig` as steps:
`Enter`, `Allocate` (each allocation it makes, in order, or its failure), `CallsHost`, the host's
`ZigAllocResponse`, and one action per way to return. `scratch` is what the function at work owns and
its `defer`s and `errdefer`s will free; `held` are the `GuestBuffer`s of the raw functions; `responses`
the buffers that decoded responses may have slices in. Only buffers that cross the ABI have addresses.

**Admission** is everything a pack is asked before and while it runs. `Valid` is
`validate_runnable`, `Verified` is `verify_wasm_and_manifest`; `NewRunner`, `Instantiate` and
`HostCall` apply what `ExtractorRunner::new`, the linker, the limiter, the lookups of an operation and
the capability gates ask for, which is written down elsewhere and in other terms. A call is an import
and what it uses beside it (`FetchUses`: extended features by method, body or header, or a profile), which the gates of
`handle_fetch` look at and `check` cannot see; each handler has an operator for its own gates
(`FetchPermitted`, `StatusPermitted`, `RegisterPermitted`). The author edits the
files at any time no command reads them; `checked` remembers whether `check` accepted the files as they
are. A binary is what the rules read of it: exports and their types, memories, imports.

**FetchBroker** is one `http_fetch` from the paid call to the answer. `Gated` is `handle_fetch` in
its order of checks; `MockResolves` is the mock broker; `LiveFetch`, `Hop`, `ServerRedirects`,
`ServerResponds`, `ReadChunk` and `ReadEnds` are `LiveBroker::fetch` and `process_response`. Servers
are adversaries: they redirect anywhere, answer, echo secrets, stall in the middle of a body, send
too much, or never answer. `clock` is `Instant::now()`; `TransportTimesOut` is the overall timeout
of the HTTP client. Urls, methods, headers and refs are reduced to how the gates classify them.

**AuthStatus** is `handle_status` for the profile and the target that a fetch names. It is one step
without state, so it is an operator, `StatusAnswers`, over the same requests as the gates of a fetch. A
profile is not registered (`unknown`), registered with a secret that `get_auth_header` resolves to
nothing (`unusable`), or `usable`; the status of either registered one is ok, and `available` is whatever it was
registered with. An endpoint ref that is malformed is refused by the fetch and not looked at by the status.

**Fixtures** is `commands/test.rs`, with the rules of the mock broker. `OpenFile` takes any file
`read_dir` has not returned yet, `AddEntry` is `add_single_fixture_rule` on the next entry: an entry is
the set of its field names, whether their values parse, and the rule or the count it stands for. A
rule is the set of urls its pattern covers and the set of requests that meet its `expect`. Then the
operations run; during each, the guest may `Fetch` anything, and each ends with any result. What an
operation does inside is `Invocation`, what becomes of a matching fixture is `MockResolves` of
`FetchBroker`, which lets any fixture match: `FirstMatch` here says which.

**Scaffold** is `new`. `Look` is `exists()` and `is_dir()`, `Create` `create_dir_all`, `List`
`read_dir`, `WriteStep` one step of `generate` in its order, `RemoveEntry` and `RemoveDirectory` the
cleanup, entry by entry. Each may fail, the process may be killed before, in and after each, and other
commands for the same directory, its user, and the owner of the SDK directory act in between. An entry
is its name, who wrote it and whether it is whole. A target is `bare` when no part of its path exists
without it, as for the relative path `new` takes by default: once the directory is gone, `canonical_loose`
makes no absolute path of it and `copy_dir_recursive` does not recognise a copy of the SDK into itself
(`Recognised`). `before`, `overlapped` and `littered` are history.

**Build** is `commands/build.rs`. A project's *layout* is everything its search rules read; its code
is a number that grows with each edit and stands for the binary compiled from it. The compilers are
external: they put a binary under the name and in the directory their own rules say. Nothing ever
removes one, so `targets` keeps the binaries of every earlier name and directory.

**Release** is `pack` and `sign`. `files` is the output directory, `cmd` what each process holds in
memory, by the point it has come to:

| step | code |
|---|---|
| `Build`, `CompilerFails` | `build_wasm`, or the search alone with `--skip-build` |
| `ReadWasm` | `std::fs::read(&wasm_path)` |
| `ReadProject` | reading `manifest.json`, and everything `handle_pack` then does in memory |
| `ReadManifest` | `handle_sign`, which reads the loose `manifest.json` whatever is in it |
| `OpenFile`, `WriteFile` | one `std::fs::write` of `Outputs`, in the code's order |
| `Stops` | a kill or an I/O error anywhere |
| `Author` | an edit of the project at any time |

A digest is the thing it is a digest of and a signature is its key with what was signed, so that
"the digest matches" is an equation. A file that a write was cut short in, or that two processes
were writing, is `Torn`. `alone` remembers which commands nobody overlapped (only their writes
surely stand), `settled` and `published` are history.

**Keygen** is `commands/keygen.rs`. Several spellings of a path may lead to one file (`Resolved`);
creating a file and filling it are two steps, and the run may stop between them.

In every module, an operator whose comment begins with *Fault:* is a variant of the definition after
it with a bug that code could plausibly have. No definition uses it; it is there so that one can
check that the property it is meant for notices (`PROJECT.json`, `mutants`).

## 3. Runs

| run | cfg | states | what it shows |
|---|---|---|---|
| `invocation` | `MCInvocation.cfg` | 235 thousand | type, budget, exhaustion, ownership, release on errors, stability of refs, that `Invocation` implements `HostContract`, and that every operation ends, for two operations in a row |
| `sdk_invocation` | `MCSdkInvocation.cfg` | 27 thousand | SDK and runner agree on the owner of every buffer |
| `fetch` | `MCFetchBroker.cfg` | 564 thousand | gates, hops, deadline, limits and secrets; that `FetchBroker` implements `FetchContract`; a fetch is answered although servers need not answer |
| `fixtures` | `MCFixtures.cfg` | 790 thousand | the verdict of `test` is earned, on all fixtures, and the order of the listing decides nothing that is not ambiguous |
| `release` | `MCRelease.cfg` | 940 thousand | locks, archives and the directory as a whole, with two commands that overlap, follow each other or stop; the binary that is packed is not older than the one compiled |
| `keygen` | `MCKeygen.cfg` | 190 thousand | keys are paired, stay, and are never overwritten |
| `scaffold` | `MCScaffold.cfg` | 1.49 million | what `new` leaves after a success and after a failure, and that it harms nobody, with two commands and their surroundings |
| `zig_invocation` | `MCZigInvocation.cfg` | 270 thousand | Zig SDK and runner agree on the owner of every buffer, and each client function frees what it took however it ends |
| `admission` | `MCAdmission.cfg` | 58 thousand | what `check` accepts is loaded, linked and served; limits and domain mode mean the same everywhere |
| `documented_*` | three cfgs | | one disagreement each, section 5 |

The properties, and the hazard each is for:
- `AnswersPaid`: calls answered and calls paid for stay equal through nesting, malformed requests
  and exhaustion. Fails if any import forgets to write its budget back before calling the guest.
- `ExhaustionIsFinal`: the stack of answers being delivered never has a served call above an
  exhausted one.
- `OwnershipBalanced`: no guest, whatever pointers it returns, can make the host end in an ownership
  violation, and what an operation owes is freed on every regular exit. That the violation cannot
  occur is not evident from the code, which tests for it at four places: it rests on the input
  being freed before the output is recorded.
- `EngineErrorsRelease`: the only record an engine error leaves is an input that could not be
  written; a trap may leave anything, its memory is dropped with the instance.
- `RefsStable`, `ImplementsContract`: refs and bindings over the life of an invocation.
- `NoMisuse`, `OneOwner`, `EverythingFreed`: double free, use after free, wrong length and leaks,
  over both programs.
- `ZigNoMisuse`, `ZigOneOwner`, `CallsLeaveNothing`: the same for the Zig SDK, where the frees are
  written by hand; the third says that a client function that gives up anywhere has freed everything.
- `CheckedPacksRun`: of every rule that the loader, the linker, the limiter and the lookups apply,
  `check` has applied one that is no weaker; only wasm validation itself is the engine's alone.
  `CheckedCallsPermitted`: a gate refuses a call later exactly when it uses extended features or a
  profile that the manifest does not declare, never for the import itself, whose capability `check` and
  each of the handlers ask for on their own.
- `LimitsWithinPolicy`: the limits enforced after the casts are the ones declared, and below the host's;
  a negative `i64` would become another limit by `as usize`. `Word` 8 makes -6 a plausible 2.
- `OneDomainMode`: validator and broker tell alias manifests from plain ones by different tests.
- `StatusCoversFetch`: a pack that asks for the status first is not refused for a profile and a target that
  the fetch goes through with. The two sets of gates come in different orders. Whether the answer then says
  available is what the profile was registered with; that it need not agree with the fetch is
  in section 5.
- `SuccessIsWhole`, `FailureLeavesNothing`, `NoMixedProjects`, `OlderEntriesLast`: of `new`. Two
  commands that overlap do write into one directory (each finds it empty); the properties say that only
  these are affected, that nobody who comes later joins in, and that a cleanup only removes what came
  after its own look. A failure leaves what was written in a directory that the command did not make; a
  copy of the SDK into itself is refused before it writes, unless the target is bare and another command took it
  away. `SuccessIsWhole` exempts a copy of an SDK directory that its owner takes apart meanwhile: the code
  validates it before the copy and not after.
- `SecretsTravelSafely`: about every request that left, on every hop.
- `WithinOneTimeout`, `DeliveredIsClean`: limits at their boundary, with slow servers and chunks that
  cross the cap. What is delivered comes from a response that echoed no tracked secret (it is refused, not
  redacted) and hid nothing in an encoding.
- `KeepsContract`: `FetchBroker` implements `FetchContract`. Seven gates, three brokers and every hop
  may end a fetch, each with a code of its own choosing; together they blame whom the error categories
  of the ABI (`src/docs/abi_v1_specification.md:296`) say. It also bounds the requests of a fetch.
- `EveryOperationEnds`, `FetchAnswered`: liveness.
- `LockVouches`, `LockAfterArchive`: about any lock file on disk, while other commands overwrite,
  interleave or stop: it describes one signed archive, not parts of two, and that archive was written
  before it. Fails if any of the five outputs is made from something read twice, or out of order.
- `SettledIsConsistent`: a `pack` that ran alone leaves archive, loose files and lock of one release,
  whatever stopped commands had left there; a `sign` that ran alone signs the manifest that is there.
  While two packs overlap, or after one stopped, the directory may be a mixture: this is how the code
  works, and the property says what repairs it.
- `PayloadNotOlder`: between compiling, searching, and reading the binary, the target directory and
  the project change, and old binaries of other configurations lie around.
- `SuccessLasts`, `PublicHasSeed`, `NothingOverwritten`: over both files of every run.
- `NothingRunsOnBadFixtures`: a malformed entry in the last file listed still keeps every operation
  from running, although the rules before it are in the broker already.
- `SuccessIsEarned`: relates `ok` to what every operation on every domain returned, and the refs it
  registered to the count asserted in whichever file. When two files assert different counts the last
  one listed wins: the property only speaks of fixtures that agree.
- `AnswersNeedNoOrder`: compares each answer with what the file that alone answers such a request
  says, entry by entry in its order.

Bounds, and why they are enough:
- `MaxHostCalls` 3 and `MaxDepth` 2: a served call above an exhausted one needs a budget that runs
  out between two nested calls, which takes two calls and two frames. A third frame adds no relation
  that two neighbouring frames do not have.
- `MaxPerInvocation` 2 below `RegistryCapacity` 3: the registry fills, and one more is refused,
  within the three calls. In the code the limits are 8 and 256; the module only assumes their order.
- `Fuel` 10: an operation takes six guest steps (five in `MCSdkInvocation`'s shortest path), so four
  are left for imports and their answers, enough for two nested registrations.
- `Ptrs` 0, two positive ones and a negative one, `Lens` 0 to 2, `MemoryBytes` 2: null, in memory,
  partly outside, negative as an `i32`, equal to the input, overlapping it, above the output limit.
- `MaxInvocations` 2: what is left over from one operation could only show in the next.
- `RedirectLimit` 2, timeouts 2 to 4, caps 2 to 4, chunks of 1 and 2: every limit is reached from
  below, hit exactly and crossed, and manifest and request are each once the tighter. The policy's limit is above
  both here; that it bounds them too is in the theorems, which leave all three open.
- The five urls are the four combinations of scheme and policy, and one whose text holds a secret.
- `MCRelease`: two commands, which may overlap or follow each other, so that a pack finds what a
  stopped one left. One edit makes a second version of code and manifest; the second version of the
  manifest does not go with the first code, so that verification refuses. With one key and one project
  the two packs differ in code and version; they may be given an asset name. There are three layouts
  of one project (Rust, Rust with `CARGO_TARGET_DIR`, and a Zig project without a pack id whose binary
  is `payload.wasm`), between which one edit moves. What more commands could do to a lock is in the
  theorems, which are about any number of them.
- `MCFixtures`: every directory of up to three files out of five, in every order: two overlap on a url
  and on a request, one matches refs only, two assert different counts, one has an empty assertion;
  malformed files among valid ones; all five forms of arguments and missing directories. No, one
  and two domains. `MaxRefs` 2 leaves counts below, at and above the asserted 1.
- `MCKeygen`: three runs; two files, one under two spellings, and a path that does not resolve.
  A third run meets what two others left.
- The gate requests vary the fields that appear in one gate together; a product of all fields has
  the same gates in the same order.

- `MCZigInvocation`: as `MCSdkInvocation`; memory for four bytes of buffers, so that a response, a kept
  response, the input and the output crowd each other and allocation fails. `Fuel` 15 is enough for one
  `post` with its three allocations, its call and its decoding, and a release.
- `MCAdmission`: a manifest and a binary that pass, and every one that differs in what one rule reads
  (all 36 domain modes for three sets of capabilities; every set of capabilities; limits 0, 1, at, above
  and below; every import type; every export absent, not a function and mistyped; memories). Rules
  read few things together; those are varied together. `HostMaximum` 3.
- `MCScaffold`: two commands out of six ways to call `new` (both languages, the SDK vendored, taken
  from git or copied from a directory, one that contains the target, one that is refused); absent, empty,
  used, and a file in the way; the target bare or not.

`CHECK_DEADLOCK FALSE` is set where the systems really stop: a command ends after its last operation
(bounded by `MaxInvocations`), a fetch ends with its answer, `test` with its verdict, `new` with its
project, and no command starts after `MaxStarts` or when each run of keygen has been used. In
`MCAdmission` the author can always go on.

`TypeOK` is an invariant of the runs `invocation` and `fetch`, `ZigTypeOK` of `zig_invocation`; of the
other modules the type invariant is a theorem.

## 4. Fairness

- `Invocation`: weak fairness of `Executing`, the steps of the guest and the host together. The
  runner is one thread that waits for nothing but the guest, and the interpreter executes it until
  it returns, traps or has no fuel. Nothing is assumed about *which* step: the guest may loop. No
  fairness makes a command begin another operation. `Executing` counts a fetch as one step; that a
  fetch ends is the other liveness property.
- `FetchBroker`: weak fairness of the host's own steps, of time, and of the transport's timeout. No
  fairness of any server step: `FetchAnswered` holds for servers that never do anything and for
  servers that send forever. The clock stops at `MaxClock`, which an assumption puts at or above the
  largest timeout, so that the bound on time never cuts a fetch short.

The model lets a request in flight end exactly when its timeout is over. A transport that is late by
some margin delays the answer by that margin and changes nothing else, since the host decides
everything after it from the deadline.

## 5. Disagreements between code and documents

Three are runs in which TLC finds the documented statement violated.

| run | documented | the code |
|---|---|---|
| `documented_tokens` | a bearer token is 1 to 8170 bytes of UTF-8 without CR or LF (`src/docs/abi_v1_specification.md:337`) | `validate_download_auth_token` slices the token at byte 7, which panics when a character spans that byte: the command ends instead of answering |
| `documented_pack` | `pack` builds, checks, signs and packages (`P/cli.rs:67`) | the search tries the pack id before the package name and takes the first file that exists: after a package is renamed it compiles one binary and packs the older one of the former name |
| `documented_zig_response` | the caller owns the returned `std.json.Parsed` (`src/sdk/zig/src/host.zig:144`) | the functions return the result of `parseFromSlice` over a buffer they free as they return; strings without escapes are slices of it, so the caller reads freed memory, which the next allocation overwrites. `fetchBytes` does so itself |

The others have no run; the models show the code's side of each:

- a guest trap in extract surfaces as the empty output (`S/types.rs:92`); `run_operation` returns it as
  an engine error (`GuestTraps` of `Invocation`);
- broker failures classify as authenticated when a profile is set (`host_broker.rs:1641`); the mock
  broker answers `fetch_failed` for an oversized or echoing fixture, whatever the request
  (`MockResolves` of `FetchBroker`);
- a tracked secret counts as reflected from 8 bytes on (`host_broker.rs:987`); secrets of every length
  are looked for (`Delivered`);
- a mismatch of a fixture's `expect` fails the run as `no_mock_match`
  (`src/.agents/skills/goaria-pack-creator/SKILL.md:462`); the rule is skipped and the fetch answered
  `no_mock_match` at most, and a pack that turns that into an empty output passes (`FirstMatch`);
- `available` is true if valid user credentials exist (`src/.agents/skills/goaria-pack-creator/SKILL.md:277`,
  `src/docs/abi_v1_specification.md:321`); it is what the profile was registered with, always true for
  `run --auth-profile` (`P/commands/run.rs:30`), while a secret that is empty or has control bytes resolves
  to nothing and the fetch fails with `authenticated_fetch_failed` (`StatusAnswers` beside `Gated`);
- the SDK is copied first so that a rejected source leaves no residue (`P/scaffold/zig.rs:40`); a relative
  target that the cleanup of an overlapping command has just removed stays relative in `canonical_loose`
  (`P/scaffold/mod.rs:233`), so the copy of the SDK into itself is not recognised at line 256, makes the
  directory again and is refused one level deeper, or fails: what it copied stays, which is the exception
  in `FailureLeavesNothing`;
- fixtures are consumed by `test` and `run` (`src/docs/README.md:289`); `handle_run` leaves the mock
  broker without rules.

## 6. What is proved

The eight `*Proofs` modules are checked by TLAPS for all values of the constants, under the
assumptions that the modules name (`HostStateAssumption`, `OutputAssumption`, `InvocationAssumption`,
`GuestHeapAssumption`, `AdmissionAssumption`, `FetchAssumption`, `FixturesAssumption`, `ScaffoldAssumption`,
`BuildAssumption`, `ReleaseAssumption`, `TornAssumption`, `KeygenAssumption`). They assume what the code's types and constants give: positive limits, finite
natural sizes, 8 not above 256, a memory that ends before addresses become negative, that a
resolved auth profile is not empty, that unsigned limits are not negative, that the host's maxima fit
a `usize`, that a torn file is no lock file, and that the export of a memory `Module::new` accepted exists.

| theorem | property | argument |
|---|---|---|
| `TypeCorrect` | `TypeOK` | inductive with `Typed`, which adds that the registry's counter is the length of its entries: otherwise `Registered` need not yield a sequence |
| `BudgetPaid` | `AnswersPaid` | each action either leaves budget and answers alone or moves both by one (`StepKinds`) |
| `ExhaustionFinal` | `ExhaustionIsFinal` | with the budget sum; a frame is pushed as served only while something remains, and then no frame below can be an exhausted one |
| `OwnershipAlwaysBalanced`, `EngineErrorsAlwaysRelease` | `OwnershipBalanced`, `EngineErrorsRelease` | from `OwnedByPhase`: for every phase, exactly which buffers are on record and the balance of the totals. Neither property is inductive: both only speak of the end, and what is owed there was recorded phases earlier |
| `RefsAlwaysStable` | `RefsStable` | every step leaves the entries alone, appends one, or begins a new invocation |
| `HostImplementsContract` | `ImplementsContract` | initial states map to initial states; each action maps to a step of `HostContract` or a stutter. `End` needs that validation accepted only minted refs, none of them a token |
| `SdkKeepsContract`, `ZigKeepsContract` | `ImplementsContract` | every step of the runner with a guest of either SDK is a step of `Invocation` or leaves it alone (`SdkRefines`, `ZigRefines`), so both implement `HostContract` through it. Neither specification has fairness; the contract needs none (`SafetyImplementsContract`) |
| `SdkTypeCorrect`, `SdkNeverMisuses`, `SdkOneOwner`, `SdkFreesEverything` | `SdkTypeOK`, `NoMisuse`, `OneOwner`, `EverythingFreed` | every step of `SdkInvocation` is one of `Invocation`, so its invariants hold of this guest too; `HeapByPhase` adds what the guest's heap consists of in each phase (the input and the handles while the operation runs, then input and output, then the output), `Solid` that live buffers do not overlap. The properties compare two programs' books, so neither program's invariant alone is inductive |
| `ZigTypeCorrect`, `ZigNeverMisuses`, `ZigAlwaysOneOwner`, `ZigCallsLeaveNothing` | `ZigTypeOK`, `ZigNoMisuse`, `ZigOneOwner`, `CallsLeaveNothing` | as for the Rust SDK, with the client function at work as a third owner: `ZigInv` says what it owns at each of its stages (`CallByStage`), that an import can only be under way while a function waits for it (`FrameByStage`), and what the heap consists of in each phase (`ZigHeapByPhase`). What the extractor still holds when it returns stays live until the instance is dropped, so here the heap at the end is not empty |
| `CheckedPacksAlwaysRun`, `CheckedCallsAlwaysPermitted`, `LimitsAlwaysWithinPolicy`, `OneDomainModeAlways`, `TypeCorrect` | the four of `Admission`, and its `TypeOK` | `IInv`: what is checked is verified, what is loaded is valid, what runs fits, and every call recorded is an import of the module with the verdict of its gates on the manifest as loaded. `VerifiedInstantiates` is the comparison of the two validators, `FittingCast` that a cast changes nothing below `Word` |
| `FetchTypeCorrect` | `TypeOK` | directly inductive |
| `StatusAlwaysCoversFetch` | `StatusCoversFetch` | whatever was sent or answered ok had passed every gate (`Permitted`), and each gate of the status is implied by some gate of the fetch; that the profile is registered, by `get_auth_header` |
| `FetchIsBounded` | (in `KeepsContract`) | `Counted`: sent requests against redirects, phase by phase |
| `FetchKeepsContract` | `KeepsContract` | each action maps to a step of `FetchContract` or a stutter. `RefusalMaps` is the comparison of the gates' order with the terms; `DispatchedAccepted`, that what passed the gates is accepted by the terms; `SendMaps` needs `Counted` for the number of requests, `DeliveryMaps` needs `Capped` for their size |
| `FetchTravelsSafely` | `SecretsTravelSafely` | `Permitted`: what passed the gates keeps its capabilities, and a hop is only sent after its own gate |
| `FetchIsTimed` | `WithinOneTimeout` | `Timed`: the last request expires at the deadline, the deadline is one effective timeout from the start |
| `FetchDeliversClean` | `DeliveredIsClean` | `Capped`: bytes read stay within the effective limit, which is below those of manifest and request. `Unechoed`: no body is delivered before the whole response has been looked at |
| `LocksVouch`, `LocksComeLast` | `LockVouches`, `LockAfterArchive` | `IInv`: from its first write on a pack holds the bytes it digested (`CommandsOK`), it reaches its second write only with the archive written (`ArchivesOK`), and the lock is its fifth (`LocksOK`). No assumption about other commands or projects is used |
| `SettledAgrees` | `SettledIsConsistent` | `SInv`: nobody else runs while a command in `alone` does (`Separately`), so what it has written is still there when it writes the next file (`WrittenOK`); once it has ended nobody has a file open (`NothingOpen`), so the directory stays as it is. That the lock is a file and not `Torn` needs the types of what a pack read (`PInv`) |
| `NothingOlderPacked` | `PayloadNotOlder` | under the hypothesis `FoundFirst`, that no layout of a project looks at the output of another one before its own: then the search after a compilation returns its output (`CompiledIsFound`), and no binary is ever replaced by an older one (`NInv`). `documented_pack` shows a project without it; `MCLayoutAssumption` makes TLC check that the layouts of `release` have it and those of `documented_pack` do not |
| `NeverOverwrites`, `SuccessIsForGood`, `PublicsHaveSeeds` | `NothingOverwritten`, `SuccessLasts`, `PublicHasSeed` | `KInv`: a file being written is partial and its writer's alone (`OwnersOK`), because only the run that created it writes it; what a run has finished is there (`WrittenOK`) |
| `TypeCorrect` of `ReleaseProofs`, `KeygenProofs` | `TypeOK` | with the invariants above; what the commands hold comes from the project and the disk |
| `FixturesTypeCorrect` | `TypeOK` | directly inductive |
| `MistakesStopTheTests`, `SuccessEarned` | `NothingRunsOnBadFixtures`, `SuccessIsEarned` | `EInv`: of every file opened so far, the entries read were in order (`InOrder`) and its assertions left a count (`TakenIn`), so that when loading ends the count expected is one that is asserted; and as long as nothing failed, everything before the test under way passed (`TestInv`) |
| `OperationWindsDown` | (behind `EveryOperationEnds`) | `Effort`: two for each unit of fuel, one for each frame and one for the end. A step of the guest costs fuel and opens one frame at most; a trap costs no fuel but closes a frame, or ends the operation |
| `FetchWindsDown` | (behind `FetchAnswered`) | `Outlook`: the stages left of this request, four for each redirect left, the bytes left of the effective limit, the ticks left of the clock. The clock is bounded by `MaxClock` in the model; the other terms are bounds of the code |
| `OrderDoesNotMatter` | `AnswersNeedNoOrder` | `OrderInv`: the rules in the broker are of the files read (`RulesKnown`), and for a request that one file alone answers nothing matches until the first matching entry of that file is read, and that entry is the first match from then on (`AloneFirst`), whatever files come before, between or after |
| `TypeCorrect`, `SuccessIsWholeAlways`, `FailureLeavesNothingAlways`, `NoMixedProjectsAlways`, `OlderEntriesAlwaysLast` of `ScaffoldProofs` | the five of `Scaffold` | `IInv`: commands at work at the same time both know (`Overlap`); what is in the directory can never be written again (`AllSpent`), so nothing is overwritten; who may change the directory found nothing in it (`FoundNothing`), and what it meets later is of a command it overlaps with (`Strangers`); a project under way is present up to its step (`Present`), and who comes after a success does not get past the list (`Latecomers`); only another command at work takes the directory away (`Standing`), so a copy of the SDK into itself begins only for a bare target of a command that overlapped (`Selfless`) |

Every safety property that a run checks is a theorem. Only model-checked are the liveness properties
(`EveryOperationEnds`, `FetchAnswered`), which need fairness and `ENABLED`. Their safety half is proved:
no operation and no fetch has an infinite number of steps. What TLC adds is that none of them stops
before its end while the steps fairness is assumed of are taken.

## 7. What is not modelled

- Text: url, host and header syntax, JSON, hex, redaction patterns. Each appears as the class it puts
  a value in. What they compute is not verified here.
- The wasm interpreter and its memory limiter: the guest is arbitrary, fuel is a number. The table
  and memory limits of the Store only make a guest trap, which it may anyway.
- DNS: a resolved address is public or not (`Hop`); the client resolves through the code's resolver.
- `sign --out` to another place, an output directory inside the project, and a machine that loses
  power: only processes stop, so what was written stays.
- The compilers: a compilation and the search after it are one step.
- The parse of a binary and of a manifest: they are readable or not, and their parts are what the rules
  tell apart. `check` and `run` read the two files at one moment, since an edit between the two reads
  leaves files that nobody has checked.
- The templates `new` writes, and what files of two overlapping commands contain where both write.
- A fetch inside an operation: `HttpFetch` of `Invocation` is one step, as the call blocks the one
  thread there is and nothing of the operation's state is touched while it waits; `FetchBroker` is that
  step in detail, and shows that it ends. A product of the two would add no interleaving.
- The request builders and error types of the Rust SDK, the macro (it writes the exports that
  `SdkInvocation` models), the command line (parsing and dispatch) and the example packs (arbitrary
  guests, as in `MCInvocation`): no state that another step reads.
- Redaction for the debug output, and the display strings of profiles.

## 8. Plan

Done, in this order: `HostState`, `OutputValidation`, `Invocation` with `HostContract`, its proofs;
`SdkInvocation`; `FetchBroker`, its proofs; `Build` and `Release`, its proofs; `Keygen`, its proofs;
`Fixtures`, its proofs; `Scaffold`, its proofs; `ZigInvocation`; `AuthStatus`, its theorem; `Admission`,
its proofs; the proofs about `SdkInvocation`; the type theorems of `Release` and `Keygen`, and
the two theorems about what `pack` leaves behind; the proofs about `ZigInvocation`; the order of
fixtures; `FetchContract` and that `FetchBroker` implements it; `HostContract` for the guests of both SDKs.

Next:
1. Abstract specifications of `keygen` (a store of pairs) and of `new` (a directory that is a whole
   project or as it was), implemented by `Keygen` and `Scaffold`; the invariants they need are proved.
2. The budget and ref theorems of `Invocation` restated for the guests of both SDKs.
