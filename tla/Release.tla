-------------------------------- MODULE Release --------------------------------
(***************************************************************************)
(* The commands that write releases: pack (commands/pack.rs) and sign      *)
(* (commands/sign.rs), run by people and scripts on the same projects and  *)
(* into the same output directory, while the projects are being edited.    *)
(*                                                                         *)
(* pack compiles, reads the binary and the manifest, does everything else  *)
(* in memory, and then writes five files one after the other, in place.    *)
(* A compilation and the search after it are one step here.                *)
(* Each write empties the file before it fills it.  A command may be       *)
(* killed, or an I/O error end it, between any two of these steps.         *)
(*                                                                         *)
(* A digest is the thing it is a digest of, a signature its key and what   *)
(* was signed.  A file that does not hold what some command wrote to it,   *)
(* because a write was cut short or two writes overlapped, is Torn.        *)
(*                                                                         *)
(* An operator commented "Fault:" is the definition after it with a bug    *)
(* this code could have; no definition uses it.                            *)
(***************************************************************************)
EXTENDS Build

CONSTANTS
  Commands,     \* the processes that may run at the same time
  Keys,         \* signing keys; an ephemeral key is one of them
  BadKey,       \* a --sign-key that does not parse
  DefaultAsset, \* no --asset-name: "<pack_id>-<pack_version>.pack.zip"
  AssetNames,   \* names given as --asset-name
  BadAsset,     \* one validate_asset_name refuses
  Compatible,   \* the binaries verify_wasm_and_manifest passes with a version
  Torn,         \* neither what the last writer wrote nor what was there before
  MaxStarts     \* bound: commands started

ASSUME ReleaseAssumption ==
  /\ BadKey \notin Keys
  /\ DefaultAsset \notin AssetNames /\ BadAsset \notin AssetNames
  /\ DefaultAsset # BadAsset
  /\ Compatible \subseteq (0 .. MaxCode) \X (0 .. MaxCode)
  /\ MaxStarts \in Nat

DefaultNames == Names \X (0 .. MaxCode)

\* What a lock file describes.
ManifestType == [pack_id: Names, version: 0 .. MaxCode, payload: 0 .. MaxCode]
SignatureType == [key: Keys, signed: ManifestType]
ArchiveType == [manifest: ManifestType, wasm: 0 .. MaxCode, sig: SignatureType]
LockType ==
  [pack_id: Names, asset_path: AssetNames \cup DefaultNames, asset: ArchiveType,
   key: Keys, manifest: ManifestType, payload: 0 .. MaxCode, sig: SignatureType]

ASSUME TornAssumption == Torn \notin LockType

VARIABLES
  files,     \* the files of the output directory
  cmd,       \* what each command is doing and holds in memory
  starts,    \* commands started so far
  alone,     \* running commands that no other one overlapped
  settled,   \* history: the kind of the last writer, if it wrote alone to its end
  published  \* history: the archives written to their end, with their names

vars == <<project, targets, files, cmd, starts, alone, settled, published>>

\* The files of the directory.
ManifestFile == [kind |-> "manifest.json", name |-> NoName]
PayloadFile == [kind |-> "payload.wasm", name |-> NoName]
SignatureFile == [kind |-> "manifest.sig", name |-> NoName]
LockFile(pack_id) == [kind |-> "lock.json", name |-> pack_id]
Asset(name) == [kind |-> "pack.zip", name |-> name]

FileNames ==
  {ManifestFile, PayloadFile, SignatureFile}
  \cup {LockFile(n) : n \in Names}
  \cup {Asset(n) : n \in AssetNames \cup DefaultNames}

Idle ==
  [kind |-> "none", pc |-> "idle", project |-> CHOOSE p \in Projects : TRUE,
   compiles |-> FALSE, key |-> BadKey, asset |-> BadAsset, since |-> 0,
   place |-> CHOOSE place \in Places : TRUE, wasm |-> 0,
   manifest |-> Torn, next |-> 1, open |-> FALSE]

Init ==
  /\ BuildInit
  /\ files = << >>
  /\ cmd = [c \in Commands |-> Idle]
  /\ starts = 0 /\ alone = {} /\ settled = "no" /\ published = {}

At(c, step) == cmd[c].pc = step
Running == {c \in Commands : ~At(c, "idle")}

\* A command ends or goes on to another step; changed is its record then.
Becomes(c, changed) == cmd' = [cmd EXCEPT ![c] = changed]

\* It ends, in success or not.
Ended(c) == Becomes(c, Idle)

-----------------------------------------------------------------------------
(* Starting.                                                               *)

Start(c, fresh) ==
  /\ At(c, "idle") /\ starts < MaxStarts
  /\ Becomes(c, fresh)
  /\ starts' = starts + 1
  /\ alone' = IF Running = {} THEN {c} ELSE {}
  /\ UNCHANGED <<project, targets, files, settled, published>>

StartPack(c, p, compiles, key, asset) ==
  Start(c, [Idle EXCEPT !.kind = "pack", !.pc = "build", !.project = p,
                        !.compiles = compiles, !.key = key, !.asset = asset])

\* parse_signing_key, on a seed or a file that holds one.
KeyRefused(key) == key = BadKey

\* sign reads its key before anything else.
StartSign(c, key) ==
  Start(c, IF KeyRefused(key) THEN Idle
           ELSE [Idle EXCEPT !.kind = "sign", !.pc = "read_manifest", !.key = key])

-----------------------------------------------------------------------------
(* pack, up to its first write.                                            *)

Memory == UNCHANGED <<files, starts, alone, settled, published>>

\* build_wasm, or with --skip-build only its search.
Build(c) ==
  LET p == cmd[c].project
      binaries == IF cmd[c].compiles THEN Compiled(p) ELSE targets[p]
  IN  /\ At(c, "build")
      /\ targets' = [targets EXCEPT ![p] = binaries]
      /\ IF WasmNotFound(project[p].layout, binaries)
           THEN Ended(c)
           ELSE Becomes(c, [cmd[c] EXCEPT !.pc = "read_wasm",
                              !.place = Found(project[p].layout, binaries),
                              !.since = IF cmd[c].compiles THEN project[p].code ELSE 0])
      /\ UNCHANGED project /\ Memory

CompilerFails(c) ==
  /\ At(c, "build") /\ cmd[c].compiles
  /\ Ended(c)
  /\ UNCHANGED <<project, targets>> /\ Memory

ReadWasm(c) ==
  /\ At(c, "read_wasm")
  /\ Becomes(c, [cmd[c] EXCEPT !.pc = "read_project",
                               !.wasm = targets[cmd[c].project][cmd[c].place]])
  /\ UNCHANGED <<project, targets>> /\ Memory

\* The manifest of the project, with the digest of the binary that was read.
ManifestOf(c) ==
  [pack_id |-> project[cmd[c].project].layout.pack_id,
   version |-> project[cmd[c].project].version,
   payload |-> cmd[c].wasm]

\* verify_wasm_and_manifest: the exports, memory and imports of the binary
\* against the limits and capabilities of the manifest.
Verified(c) == <<cmd[c].wasm, ManifestOf(c).version>> \in Compatible

\* validate_asset_name.
AssetNameRefused(name) == name = BadAsset

\* A manifest without a pack_id does not parse; all four end in an error.
PackRefused(c) ==
  \/ ManifestOf(c).pack_id = NoName
  \/ ~Verified(c)
  \/ KeyRefused(cmd[c].key)
  \/ AssetNameRefused(cmd[c].asset)

ReadProject(c) ==
  /\ At(c, "read_project")
  /\ IF PackRefused(c)
       THEN Ended(c)
       ELSE Becomes(c, [cmd[c] EXCEPT !.pc = "write", !.manifest = ManifestOf(c)])
  /\ UNCHANGED <<project, targets>> /\ Memory

\* sign reads whatever is in the manifest file.
ReadManifest(c) ==
  /\ At(c, "read_manifest")
  /\ IF ManifestFile \notin DOMAIN files
       THEN Ended(c)
       ELSE Becomes(c, [cmd[c] EXCEPT !.pc = "write", !.manifest = files[ManifestFile]])
  /\ UNCHANGED <<project, targets>> /\ Memory

-----------------------------------------------------------------------------
(* Writing.                                                                *)

SignatureBy(c) == [key |-> cmd[c].key, signed |-> cmd[c].manifest]

\* Fault: the archive is filled from the target directory.
ArchiveRereadBy(c) ==
  [manifest |-> cmd[c].manifest, wasm |-> targets[cmd[c].project][cmd[c].place],
   sig |-> SignatureBy(c)]

ArchiveBy(c) ==
  [manifest |-> cmd[c].manifest, wasm |-> cmd[c].wasm, sig |-> SignatureBy(c)]

AssetNameBy(c) ==
  IF cmd[c].asset = DefaultAsset
    THEN <<cmd[c].manifest.pack_id, cmd[c].manifest.version>>
    ELSE cmd[c].asset

LockBy(c) ==
  [pack_id |-> cmd[c].manifest.pack_id, asset_path |-> AssetNameBy(c),
   asset |-> ArchiveBy(c), key |-> cmd[c].key, manifest |-> cmd[c].manifest,
   payload |-> cmd[c].wasm, sig |-> SignatureBy(c)]

Writes(file, content) == [file |-> file, content |-> content]

\* Fault: the lock is written before the archive it describes.
OutputsLockFirst(c) ==
  IF cmd[c].kind = "sign" THEN <<Writes(SignatureFile, SignatureBy(c))>>
  ELSE <<Writes(LockFile(cmd[c].manifest.pack_id), LockBy(c)),
         Writes(Asset(AssetNameBy(c)), ArchiveBy(c)),
         Writes(ManifestFile, cmd[c].manifest),
         Writes(PayloadFile, cmd[c].wasm),
         Writes(SignatureFile, SignatureBy(c))>>

\* Fault: the signature goes into the archive and not beside it.
OutputsUnsigned(c) ==
  IF cmd[c].kind = "sign" THEN <<Writes(SignatureFile, SignatureBy(c))>>
  ELSE <<Writes(Asset(AssetNameBy(c)), ArchiveBy(c)),
         Writes(ManifestFile, cmd[c].manifest),
         Writes(PayloadFile, cmd[c].wasm),
         Writes(LockFile(cmd[c].manifest.pack_id), LockBy(c))>>

\* What a command writes, in its order.
Outputs(c) ==
  IF cmd[c].kind = "sign" THEN <<Writes(SignatureFile, SignatureBy(c))>>
  ELSE <<Writes(Asset(AssetNameBy(c)), ArchiveBy(c)),
         Writes(ManifestFile, cmd[c].manifest),
         Writes(PayloadFile, cmd[c].wasm),
         Writes(SignatureFile, SignatureBy(c)),
         Writes(LockFile(cmd[c].manifest.pack_id), LockBy(c))>>

Output(c) == Outputs(c)[cmd[c].next]

FilesWith(file, content) ==
  [f \in DOMAIN files \cup {file} |-> IF f = file THEN content ELSE files[f]]

\* std::fs::write opens the file, which empties it.
OpenFile(c) ==
  /\ At(c, "write") /\ ~cmd[c].open
  /\ files' = FilesWith(Output(c).file, Torn)
  /\ Becomes(c, [cmd[c] EXCEPT !.open = TRUE])
  /\ settled' = "no"
  /\ UNCHANGED <<project, targets, starts, alone, published>>

\* The bytes go over what an overlapping command may have written since.
WriteFile(c, content) ==
  /\ At(c, "write") /\ cmd[c].open
  /\ \/ content = Output(c).content
     \/ content = Torn /\ c \notin alone
  /\ files' = FilesWith(Output(c).file, content)
  /\ published' = published \cup
       (IF Output(c).file.kind = "pack.zip"
          THEN {[name |-> Output(c).file.name, archive |-> Output(c).content]} ELSE {})
  /\ IF cmd[c].next < Len(Outputs(c))
       THEN /\ Becomes(c, [cmd[c] EXCEPT !.next = @ + 1, !.open = FALSE])
            /\ UNCHANGED settled
       ELSE /\ Ended(c)
            /\ settled' = IF c \in alone THEN cmd[c].kind ELSE "no"
  /\ UNCHANGED <<project, targets, starts, alone>>

\* The command is killed, or a read or a write of it fails.
Stops(c) ==
  /\ c \in Running
  /\ Ended(c)
  /\ UNCHANGED <<project, targets>> /\ Memory

-----------------------------------------------------------------------------

Author ==
  /\ \E p \in Projects, version \in 0 .. MaxCode :
       \E layout \in Layouts[p] : Edit(p, layout, version)
  /\ UNCHANGED cmd /\ Memory

Starts(c) ==
  \/ \E p \in Projects, compiles \in BOOLEAN, key \in Keys \cup {BadKey},
        asset \in AssetNames \cup {DefaultAsset, BadAsset} :
       StartPack(c, p, compiles, key, asset)
  \/ \E key \in Keys \cup {BadKey} : StartSign(c, key)

Steps(c) ==
  \/ Build(c) \/ CompilerFails(c) \/ ReadWasm(c) \/ ReadProject(c) \/ ReadManifest(c)
  \/ OpenFile(c)
  \/ At(c, "write") /\ \E content \in {Output(c).content, Torn} : WriteFile(c, content)
  \/ Stops(c)

Next == Author \/ \E c \in Commands : Starts(c) \/ Steps(c)

Spec == Init /\ [][Next]_vars

-----------------------------------------------------------------------------
(* Properties.                                                             *)

Locks == {files[f] : f \in {g \in DOMAIN files : g.kind = "lock.json"}} \ {Torn}

\* The files and the history hold what their formats allow, and a command
\* that writes has everything it is going to write.
TypeOK ==
  /\ project \in [Projects -> ProjectType]
  /\ DOMAIN files \subseteq FileNames
  /\ starts \in 0 .. MaxStarts
  /\ alone \subseteq Commands
  /\ settled \in {"no", "pack", "sign"}
  /\ \A c \in Commands :
       /\ cmd[c].next \in 1 .. 5
       /\ At(c, "write") => Output(c).file \in FileNames /\ cmd[c].key \in Keys

Vouches(lock) ==
  /\ lock.asset.sig = [key |-> lock.key, signed |-> lock.asset.manifest]
  /\ lock.asset.manifest.payload = lock.asset.wasm
  /\ lock.asset.manifest.pack_id = lock.pack_id
  /\ <<lock.manifest, lock.payload, lock.sig>>
       = <<lock.asset.manifest, lock.asset.wasm, lock.asset.sig>>

\* Whatever other commands do, and wherever they stop: the archive a lock
\* gives the digest of is signed with the key the lock trusts, holds the pack
\* the lock names, and its manifest has the digest of the payload beside it.
LockVouches == \A lock \in Locks : Vouches(lock)

Archived(lock, archives) ==
  [name |-> lock.asset_path, archive |-> lock.asset] \in archives

\* There is never a lock whose archive has not been written before it: the
\* lock is the last file of a pack, so its presence says the pack got there.
LockAfterArchive == \A lock \in Locks : Archived(lock, published)

\* A pack that compiles never packs code older than what it compiled, although
\* it searches for the binary and reads it afterwards.
PayloadNotOlder ==
  \A c \in Commands :
    cmd[c].pc \in {"read_project", "write"} => cmd[c].wasm >= cmd[c].since

Holds(file, content) == file \in DOMAIN files /\ files[file] = content

\* The loose files are those of the archive a lock describes.
DirectoryAgrees ==
  \E lock \in Locks :
    /\ Holds(Asset(lock.asset_path), lock.asset)
    /\ Holds(ManifestFile, lock.asset.manifest)
    /\ Holds(PayloadFile, lock.asset.wasm)
    /\ Holds(SignatureFile, lock.asset.sig)

\* After a pack that nothing overlapped, the whole directory is one release,
\* whatever earlier commands left in it when they were stopped; after such a
\* sign, the loose signature is one of the loose manifest.
SettledIsConsistent ==
  /\ settled = "pack" => DirectoryAgrees
  /\ settled = "sign" => files[SignatureFile].signed = files[ManifestFile]

=============================================================================
