----------------------------- MODULE ReleaseProofs -----------------------------
(***************************************************************************)
(* What pack guarantees of a lock file, for any number of commands at work *)
(* in one directory, any projects, any place they are stopped at.          *)
(*                                                                         *)
(* The argument: from its first write to its last a pack holds the bytes   *)
(* it digested (CommandsOK), it never gets to its second write without the *)
(* archive written (ArchivesOK), and its fifth, the lock, is built from    *)
(* what it holds; so a lock that is not torn is right (LocksOK), whatever  *)
(* became of the files beside it.  What of the files beside it is certain  *)
(* after a command that ran alone is the last part.                        *)
(***************************************************************************)
EXTENDS Release, TLAPS

\* What a command holds: the fields of its record, and before its first
\* write, and then from write to write, what it is going to write.
CommandOK(r) ==
  /\ r \in [kind : {r.kind}, pc : {r.pc}, project : {r.project},
            compiles : {r.compiles}, key : {r.key}, asset : {r.asset},
            since : {r.since}, place : {r.place}, wasm : {r.wasm},
            manifest : {r.manifest}, next : {r.next}, open : {r.open}]
  /\ r.pc \in {"build", "read_wasm", "read_project"} => r.kind = "pack" /\ r.next = 1
  /\ r.pc = "read_manifest" => r.kind = "sign" /\ r.next = 1
  /\ r.pc = "write" =>
       \/ r.kind = "sign" /\ r.next = 1
       \/ r.kind = "pack" /\ r.next \in 1 .. 5 /\ r.manifest.payload = r.wasm

CommandsOK ==
  /\ cmd = [c \in Commands |-> cmd[c]]
  /\ \A c \in Commands : CommandOK(cmd[c])

ArchiveEntry(c) == [name |-> AssetNameBy(c), archive |-> ArchiveBy(c)]

ArchivesOK ==
  \A c \in Commands :
    At(c, "write") /\ cmd[c].kind = "pack" /\ cmd[c].next > 1
      => ArchiveEntry(c) \in published

LocksOK ==
  \A f \in DOMAIN files :
    f.kind = "lock.json" /\ files[f] # Torn => Vouches(files[f]) /\ Archived(files[f], published)

IInv == CommandsOK /\ ArchivesOK /\ LocksOK

-----------------------------------------------------------------------------

\* A pack writes the archive first and the lock last; a sign writes neither.
LEMMA OutputsInOrder ==
  ASSUME NEW c \in Commands, CommandOK(cmd[c]), At(c, "write")
  PROVE  /\ cmd[c].kind = "sign" => Len(Outputs(c)) = 1
         /\ cmd[c].kind = "pack" => Len(Outputs(c)) = 5
         /\ Output(c).file.kind = "lock.json"
              => /\ cmd[c].kind = "pack" /\ cmd[c].next = 5
                 /\ Output(c).content = LockBy(c)
         /\ cmd[c].kind = "pack" /\ cmd[c].next = 1
              => /\ Output(c).file = Asset(AssetNameBy(c))
                 /\ Output(c).content = ArchiveBy(c)
<1>1. CASE cmd[c].kind = "sign"
  <2>1. cmd[c].next = 1
    BY <1>1 DEF CommandOK, At
  <2>2. Outputs(c) = <<Writes(SignatureFile, SignatureBy(c))>>
    BY <1>1 DEF Outputs
  <2> QED
    BY <1>1, <2>1, <2>2 DEF Output, Writes, SignatureFile
<1>2. CASE cmd[c].kind = "pack"
  <2>1. cmd[c].next \in 1 .. 5
    BY <1>2 DEF CommandOK, At
  <2>2. Outputs(c) = <<Writes(Asset(AssetNameBy(c)), ArchiveBy(c)),
                       Writes(ManifestFile, cmd[c].manifest),
                       Writes(PayloadFile, cmd[c].wasm),
                       Writes(SignatureFile, SignatureBy(c)),
                       Writes(LockFile(cmd[c].manifest.pack_id), LockBy(c))>>
    BY <1>2 DEF Outputs
  <2>3. /\ Len(Outputs(c)) = 5
        /\ Outputs(c)[1] = Writes(Asset(AssetNameBy(c)), ArchiveBy(c))
        /\ Outputs(c)[2].file = ManifestFile
        /\ Outputs(c)[3].file = PayloadFile
        /\ Outputs(c)[4].file = SignatureFile
        /\ Outputs(c)[5].content = LockBy(c)
    BY <2>2 DEF Writes
  <2>4. Outputs(c)[1].file.kind = "pack.zip"
    BY <2>3 DEF Writes, Asset
  <2>5. Output(c).file.kind = "lock.json" => cmd[c].next = 5
    BY <2>1, <2>3, <2>4 DEF Output, ManifestFile, PayloadFile, SignatureFile
  <2> QED
    BY <1>2, <2>3, <2>5 DEF Output, Writes
<1> QED
  BY <1>1, <1>2 DEF CommandOK, At

\* The lock a pack writes vouches for the archive the pack holds.
LEMMA LockByVouches ==
  ASSUME NEW c \in Commands, cmd[c].manifest.payload = cmd[c].wasm
  PROVE  Vouches(LockBy(c))
BY DEF Vouches, LockBy, ArchiveBy, SignatureBy

\* A step of one command that writes nothing and does not go from write to write.
LEMMA QuietStep ==
  ASSUME IInv, NEW c \in Commands, NEW r, Becomes(c, r), CommandOK(r),
         r.pc = "write" => r.kind = "sign" \/ r.next = 1,
         UNCHANGED <<files, published>>
  PROVE  IInv'
<1>1. cmd' = [d \in Commands |-> IF d = c THEN r ELSE cmd[d]]
  BY DEF Becomes, IInv, CommandsOK
<1>2. CommandsOK'
  <2>1. cmd' = [d \in Commands |-> cmd'[d]]
    BY <1>1
  <2>2. ASSUME NEW d \in Commands PROVE CommandOK(cmd'[d])
    BY <1>1 DEF IInv, CommandsOK
  <2> QED
    BY <2>1, <2>2 DEF CommandsOK
<1>3. ArchivesOK'
  <2> SUFFICES ASSUME NEW d \in Commands,
                      cmd'[d].pc = "write", cmd'[d].kind = "pack", cmd'[d].next > 1
               PROVE  ArchiveEntry(d)' \in published
    BY DEF ArchivesOK, At
  <2>1. d # c
    BY <1>1
  <2>2. cmd'[d] = cmd[d]
    BY <1>1, <2>1
  <2> QED
    BY <2>2 DEF IInv, ArchivesOK, At, ArchiveEntry, AssetNameBy, ArchiveBy, SignatureBy
<1>4. LocksOK'
  BY DEF IInv, LocksOK, Vouches, Archived
<1> QED
  BY <1>2, <1>3, <1>4 DEF IInv

LEMMA IdleOK == CommandOK(Idle) /\ Idle.pc = "idle"
BY DEF CommandOK, Idle

\* A command that goes on writing holds what it held.
LEMMA GoesOn ==
  ASSUME NEW q, CommandOK(q), q.pc = "write", NEW r,
         \/ r = [q EXCEPT !.open = TRUE]
         \/ /\ r = [q EXCEPT !.next = @ + 1, !.open = FALSE]
            /\ q.kind = "pack" /\ q.next \in 1 .. 4
  PROVE  /\ CommandOK(r)
         /\ r.pc = q.pc /\ r.kind = q.kind /\ r.key = q.key /\ r.asset = q.asset
         /\ r.wasm = q.wasm /\ r.manifest = q.manifest
         /\ r.next \in {q.next, q.next + 1}
         /\ r = [q EXCEPT !.open = TRUE] => r.next = q.next
<1>1. q \in [kind : {q.kind}, pc : {q.pc}, project : {q.project},
            compiles : {q.compiles}, key : {q.key}, asset : {q.asset},
            since : {q.since}, place : {q.place}, wasm : {q.wasm},
            manifest : {q.manifest}, next : {q.next}, open : {q.open}]
  BY DEF CommandOK
<1>2. CASE r = [q EXCEPT !.open = TRUE]
  <2>1. /\ r \in [kind : {q.kind}, pc : {q.pc}, project : {q.project},
                  compiles : {q.compiles}, key : {q.key}, asset : {q.asset},
                  since : {q.since}, place : {q.place}, wasm : {q.wasm},
                  manifest : {q.manifest}, next : {q.next}, open : {TRUE}]
    BY <1>1, <1>2
  <2>2. /\ r.pc = q.pc /\ r.kind = q.kind /\ r.key = q.key /\ r.asset = q.asset
        /\ r.wasm = q.wasm /\ r.manifest = q.manifest /\ r.next = q.next
    BY <2>1
  <2>3. CommandOK(r)
    BY <2>1, <2>2 DEF CommandOK
  <2> QED
    BY <2>2, <2>3
<1>3. CASE /\ r = [q EXCEPT !.next = @ + 1, !.open = FALSE]
           /\ q.kind = "pack" /\ q.next \in 1 .. 4
  <2>1. /\ r \in [kind : {q.kind}, pc : {q.pc}, project : {q.project},
                  compiles : {q.compiles}, key : {q.key}, asset : {q.asset},
                  since : {q.since}, place : {q.place}, wasm : {q.wasm},
                  manifest : {q.manifest}, next : {q.next + 1}, open : {FALSE}]
    BY <1>1, <1>3
  <2>2. /\ r.pc = q.pc /\ r.kind = q.kind /\ r.key = q.key /\ r.asset = q.asset
        /\ r.wasm = q.wasm /\ r.manifest = q.manifest /\ r.next = q.next + 1
    BY <2>1
  <2>3. r.open = FALSE /\ q.manifest.payload = q.wasm
    BY <2>1, <1>3 DEF CommandOK
  <2>4. r.next \in 1 .. 5 /\ q.next # q.next + 1
    BY <2>2, <1>3
  <2>5. CommandOK(r)
    BY <1>3, <2>1, <2>2, <2>3, <2>4 DEF CommandOK
  <2>6. r # [q EXCEPT !.open = TRUE]
    BY <1>1, <2>2, <2>4
  <2> QED
    BY <2>2, <2>5, <2>6
<1> QED
  BY <1>2, <1>3

\* Opening a file: what it held is gone, no matter what that was.
LEMMA OpenFileOK ==
  ASSUME IInv, NEW c \in Commands, OpenFile(c)
  PROVE  IInv'
<1> DEFINE r == [cmd[c] EXCEPT !.open = TRUE]
<1>1. /\ CommandOK(cmd[c]) /\ At(c, "write")
      /\ cmd' = [d \in Commands |-> IF d = c THEN r ELSE cmd[d]]
      /\ files' = FilesWith(Output(c).file, Torn) /\ published' = published
  BY DEF OpenFile, Becomes, IInv, CommandsOK
<1>2. /\ CommandOK(r)
      /\ r.pc = cmd[c].pc /\ r.kind = cmd[c].kind /\ r.next = cmd[c].next
      /\ r.key = cmd[c].key /\ r.asset = cmd[c].asset /\ r.wasm = cmd[c].wasm
      /\ r.manifest = cmd[c].manifest
  BY <1>1, GoesOn DEF At
<1>3. CommandsOK'
  BY <1>1, <1>2 DEF IInv, CommandsOK
<1>4. ArchivesOK'
  <2> SUFFICES ASSUME NEW d \in Commands,
                      cmd'[d].pc = "write", cmd'[d].kind = "pack", cmd'[d].next > 1
               PROVE  ArchiveEntry(d)' \in published
    BY <1>1 DEF ArchivesOK, At
  <2>1. /\ cmd'[d].key = cmd[d].key /\ cmd'[d].asset = cmd[d].asset
        /\ cmd'[d].wasm = cmd[d].wasm /\ cmd'[d].manifest = cmd[d].manifest
        /\ cmd'[d].pc = cmd[d].pc /\ cmd'[d].kind = cmd[d].kind
        /\ cmd'[d].next = cmd[d].next
    BY <1>1, <1>2
  <2>2. ArchiveEntry(d)' = ArchiveEntry(d)
    BY <2>1 DEF ArchiveEntry, AssetNameBy, ArchiveBy, SignatureBy
  <2> QED
    BY <2>1, <2>2 DEF IInv, ArchivesOK, At
<1>5. LocksOK'
  BY <1>1 DEF IInv, LocksOK, FilesWith, Vouches, Archived
<1> QED
  BY <1>3, <1>4, <1>5 DEF IInv

\* Writing a file: the first entry is published before the command goes on, and
\* a lock is only ever what LockByVouches says, or torn.
LEMMA WriteFileOK ==
  ASSUME IInv, NEW c \in Commands, NEW content, WriteFile(c, content)
  PROVE  IInv'
<1> DEFINE more == cmd[c].next < Len(Outputs(c))
           r == IF more THEN [cmd[c] EXCEPT !.next = @ + 1, !.open = FALSE] ELSE Idle
<1>1. /\ CommandOK(cmd[c]) /\ At(c, "write")
      /\ cmd' = [d \in Commands |-> IF d = c THEN r ELSE cmd[d]]
      /\ files' = FilesWith(Output(c).file, content)
      /\ content \in {Output(c).content, Torn}
      /\ published \subseteq published'
  BY DEF WriteFile, Becomes, Ended, IInv, CommandsOK
<1>2. more => /\ cmd[c].kind = "pack" /\ cmd[c].next \in 1 .. 4
              /\ cmd[c].manifest.payload = cmd[c].wasm
  <2>1. \/ cmd[c].kind = "sign" /\ cmd[c].next = 1
        \/ /\ cmd[c].kind = "pack" /\ cmd[c].next \in 1 .. 5
           /\ cmd[c].manifest.payload = cmd[c].wasm
    BY <1>1 DEF CommandOK, At
  <2>2. /\ cmd[c].kind = "sign" => Len(Outputs(c)) = 1
        /\ cmd[c].kind = "pack" => Len(Outputs(c)) = 5
    BY <1>1, OutputsInOrder
  <2>3. CASE cmd[c].kind = "sign" /\ cmd[c].next = 1
    <3>1. cmd[c].next = 1 /\ Len(Outputs(c)) = 1
      BY <2>2, <2>3
    <3> QED
      BY <3>1
  <2>4. CASE /\ cmd[c].kind = "pack" /\ cmd[c].next \in 1 .. 5
             /\ cmd[c].manifest.payload = cmd[c].wasm
    <3>1. cmd[c].next \in 1 .. 5 /\ Len(Outputs(c)) = 5
      BY <2>2, <2>4
    <3>2. more => cmd[c].next \in 1 .. 4
      BY <3>1
    <3> QED
      BY <2>4, <3>2
  <2> QED
    BY <2>1, <2>3, <2>4
<1>3. more => /\ CommandOK(r) /\ r.pc = "write" /\ r.kind = "pack"
              /\ r.key = cmd[c].key /\ r.asset = cmd[c].asset /\ r.wasm = cmd[c].wasm
              /\ r.manifest = cmd[c].manifest
  BY <1>1, <1>2, GoesOn DEF At
<1>4. CommandOK(r)
  BY <1>3, IdleOK
<1>5. CommandsOK'
  BY <1>1, <1>4 DEF IInv, CommandsOK
<1>6. ArchivesOK'
  <2> SUFFICES ASSUME NEW d \in Commands,
                      cmd'[d].pc = "write", cmd'[d].kind = "pack", cmd'[d].next > 1
               PROVE  ArchiveEntry(d)' \in published'
    BY DEF ArchivesOK, At
  <2>1. CASE d # c
    <3>1. cmd'[d] = cmd[d]
      BY <1>1, <2>1
    <3>2. ArchiveEntry(d)' = ArchiveEntry(d)
      BY <3>1 DEF ArchiveEntry, AssetNameBy, ArchiveBy, SignatureBy
    <3> QED
      BY <1>1, <3>1, <3>2 DEF IInv, ArchivesOK, At
  <2>2. CASE d = c
    <3>1. more /\ cmd'[c] = r
      BY <1>1, <2>2, IdleOK
    <3>2. ArchiveEntry(c)' = ArchiveEntry(c)
      BY <1>3, <3>1 DEF ArchiveEntry, AssetNameBy, ArchiveBy, SignatureBy
    <3>3. CASE cmd[c].next = 1
      <4>1. /\ Output(c).file = Asset(AssetNameBy(c))
            /\ Output(c).content = ArchiveBy(c)
        BY <1>1, <1>2, <3>1, <3>3, OutputsInOrder
      <4>2. /\ Output(c).file.kind = "pack.zip"
            /\ Output(c).file.name = AssetNameBy(c)
        BY <4>1 DEF Asset
      <4> QED
        BY <2>2, <3>2, <4>1, <4>2 DEF WriteFile, ArchiveEntry
    <3>4. CASE cmd[c].next # 1
      <4>1. cmd[c].next > 1 /\ cmd[c].kind = "pack"
        BY <1>2, <3>1, <3>4
      <4> QED
        BY <1>1, <2>2, <3>2, <4>1 DEF IInv, ArchivesOK
    <3> QED
      BY <3>3, <3>4
  <2> QED
    BY <2>1, <2>2
<1>7. LocksOK'
  <2> SUFFICES ASSUME NEW f \in DOMAIN files', f.kind = "lock.json", files'[f] # Torn
               PROVE  Vouches(files'[f]) /\ Archived(files'[f], published')
    BY DEF LocksOK, Vouches
  <2>1. CASE f # Output(c).file
    <3>1. f \in DOMAIN files /\ files'[f] = files[f]
      BY <1>1, <2>1 DEF FilesWith
    <3> QED
      BY <1>1, <3>1 DEF IInv, LocksOK, Archived
  <2>2. CASE f = Output(c).file
    <3>1. files'[f] = content /\ content = Output(c).content
      BY <1>1, <2>2 DEF FilesWith
    <3>2. /\ cmd[c].kind = "pack" /\ cmd[c].next = 5
          /\ content = LockBy(c)
      BY <1>1, <2>2, <3>1, OutputsInOrder
    <3>3. cmd[c].manifest.payload = cmd[c].wasm /\ ArchiveEntry(c) \in published
      BY <1>1, <3>2 DEF CommandOK, At, IInv, ArchivesOK
    <3>4. Vouches(LockBy(c))
      BY <3>3, LockByVouches
    <3>5. Archived(LockBy(c), published')
      BY <1>1, <3>1, <3>2, <3>3 DEF Archived, ArchiveEntry, LockBy
    <3> QED
      BY <3>1, <3>2, <3>4, <3>5
  <2> QED
    BY <2>1, <2>2
<1> QED
  BY <1>5, <1>6, <1>7 DEF IInv

-----------------------------------------------------------------------------
(* The invariant.                                                          *)

LEMMA InitOK == Init => IInv
<1> SUFFICES ASSUME Init PROVE IInv
  OBVIOUS
<1>1. cmd = [c \in Commands |-> Idle] /\ files = << >>
  BY DEF Init
<1>2. CommandsOK
  BY <1>1, IdleOK DEF CommandsOK
<1>3. ArchivesOK
  BY <1>1, IdleOK DEF ArchivesOK, At
<1>4. LocksOK
  BY <1>1 DEF LocksOK
<1> QED
  BY <1>2, <1>3, <1>4 DEF IInv

LEMMA StartsOK ==
  ASSUME IInv, NEW c \in Commands, Starts(c)
  PROVE  IInv'
<1>1. ASSUME NEW p \in Projects, NEW compiles \in BOOLEAN, NEW key, NEW asset,
             StartPack(c, p, compiles, key, asset)
      PROVE  IInv'
  <2> DEFINE r == [Idle EXCEPT !.kind = "pack", !.pc = "build", !.project = p,
                     !.compiles = compiles, !.key = key, !.asset = asset]
  <2>1. CommandOK(r) /\ r.pc = "build"
    BY DEF CommandOK, Idle
  <2>2. Becomes(c, r) /\ UNCHANGED <<files, published>>
    BY <1>1 DEF StartPack, Start
  <2> QED
    BY <2>1, <2>2, QuietStep
<1>2. ASSUME NEW key, StartSign(c, key)
      PROVE  IInv'
  <2> DEFINE r == IF KeyRefused(key) THEN Idle
                  ELSE [Idle EXCEPT !.kind = "sign", !.pc = "read_manifest",
                                    !.key = key]
  <2>1. CommandOK(r) /\ r.pc # "write"
    BY DEF CommandOK, Idle
  <2>2. Becomes(c, r) /\ UNCHANGED <<files, published>>
    BY <1>2 DEF StartSign, Start
  <2> QED
    BY <2>1, <2>2, QuietStep
<1> QED
  BY <1>1, <1>2 DEF Starts

\* Every command that ends, wherever it is.
LEMMA EndedOK ==
  ASSUME IInv, NEW c \in Commands, Ended(c), UNCHANGED <<files, published>>
  PROVE  IInv'
BY IdleOK, QuietStep DEF Ended

LEMMA StepsOK ==
  ASSUME IInv, NEW c \in Commands, Steps(c)
  PROVE  IInv'
<1>1. CommandOK(cmd[c])
  BY DEF IInv, CommandsOK
<1>2. CASE Build(c)
  <2> DEFINE r(place, since) == [cmd[c] EXCEPT !.pc = "read_wasm", !.place = place,
                                               !.since = since]
  <2>1. /\ UNCHANGED <<files, published>>
        /\ \/ Ended(c)
           \/ \E place, since : Becomes(c, r(place, since))
    BY <1>2 DEF Build, Memory
  <2>2. ASSUME NEW place, NEW since PROVE CommandOK(r(place, since))
                                         /\ r(place, since).pc = "read_wasm"
    BY <1>1, <1>2 DEF CommandOK, Build, At
  <2> QED
    BY <2>1, <2>2, EndedOK, QuietStep
<1>3. CASE CompilerFails(c)
  BY <1>3, EndedOK DEF CompilerFails, Memory
<1>4. CASE ReadWasm(c)
  <2> DEFINE r == [cmd[c] EXCEPT !.pc = "read_project",
                                 !.wasm = targets[cmd[c].project][cmd[c].place]]
  <2>1. CommandOK(r) /\ r.pc = "read_project"
    BY <1>1, <1>4 DEF CommandOK, ReadWasm, At
  <2> QED
    BY <1>4, <2>1, QuietStep DEF ReadWasm, Memory
<1>5. CASE ReadProject(c)
  <2> DEFINE r == [cmd[c] EXCEPT !.pc = "write", !.manifest = ManifestOf(c)]
  <2>1. CommandOK(r) /\ r.next = 1
    <3>1. cmd[c].kind = "pack" /\ cmd[c].next = 1
      BY <1>1, <1>5 DEF CommandOK, ReadProject, At
    <3>2. ManifestOf(c).payload = cmd[c].wasm
      BY DEF ManifestOf
    <3>3. ASSUME NEW q, CommandOK(q), q.kind = "pack", q.next = 1,
                 NEW m, m.payload = q.wasm
          PROVE  LET s == [q EXCEPT !.pc = "write", !.manifest = m]
                 IN  CommandOK(s) /\ s.next = 1
      <4> DEFINE s == [q EXCEPT !.pc = "write", !.manifest = m]
      <4>1. /\ s \in [kind : {q.kind}, pc : {"write"}, project : {q.project},
                       compiles : {q.compiles}, key : {q.key}, asset : {q.asset},
                       since : {q.since}, place : {q.place}, wasm : {q.wasm},
                       manifest : {m}, next : {q.next}, open : {q.open}]
        BY <3>3 DEF CommandOK
      <4>2. /\ s.pc = "write" /\ s.kind = "pack" /\ s.manifest = m
            /\ s.wasm = q.wasm /\ s.next = q.next
        BY <3>3, <4>1
      <4>3. s.next \in 1 .. 5 /\ s.manifest.payload = s.wasm
        BY <3>3, <4>2
      <4> QED
        BY <3>3, <4>1, <4>2, <4>3 DEF CommandOK
    <3> QED
      BY <1>1, <3>1, <3>2, <3>3
  <2> QED
    BY <1>5, <2>1, EndedOK, QuietStep DEF ReadProject, Memory
<1>6. CASE ReadManifest(c)
  <2> DEFINE r == [cmd[c] EXCEPT !.pc = "write", !.manifest = files[ManifestFile]]
  <2>1. CommandOK(r) /\ r.next = 1
    BY <1>1, <1>6 DEF CommandOK, ReadManifest, At
  <2> QED
    BY <1>6, <2>1, EndedOK, QuietStep DEF ReadManifest, Memory
<1>7. CASE OpenFile(c)
  BY <1>7, OpenFileOK
<1>8. CASE \E content \in {Output(c).content, Torn} : WriteFile(c, content)
  BY <1>8, WriteFileOK
<1>9. CASE Stops(c)
  BY <1>9, EndedOK DEF Stops, Memory
<1> QED
  BY <1>2, <1>3, <1>4, <1>5, <1>6, <1>7, <1>8, <1>9 DEF Steps

\* A step that touches neither the commands nor the directory.
LEMMA OtherOK ==
  ASSUME IInv, UNCHANGED <<files, cmd, published>>
  PROVE  IInv'
<1>1. CommandsOK'
  BY DEF IInv, CommandsOK
<1>2. ArchivesOK'
  BY DEF IInv, ArchivesOK, At, ArchiveEntry, AssetNameBy, ArchiveBy, SignatureBy
<1>3. LocksOK'
  BY DEF IInv, LocksOK
<1> QED
  BY <1>1, <1>2, <1>3 DEF IInv

LEMMA NextOK == IInv /\ [Next]_vars => IInv'
<1> SUFFICES ASSUME IInv, [Next]_vars PROVE IInv'
  OBVIOUS
<1>1. CASE Author
  BY <1>1, OtherOK DEF Author, Memory
<1>2. ASSUME NEW c \in Commands, Starts(c) PROVE IInv'
  BY <1>2, StartsOK
<1>3. ASSUME NEW c \in Commands, Steps(c) PROVE IInv'
  BY <1>3, StepsOK
<1>4. CASE UNCHANGED vars
  BY <1>4, OtherOK DEF vars
<1> QED
  BY <1>1, <1>2, <1>3, <1>4 DEF Next

\* Every reachable state satisfies the invariant.
THEOREM ReleaseInvariant == Spec => []IInv
BY InitOK, NextOK, PTL DEF Spec

\* Every lock file that is not torn describes one archive the tool signed:
\* signature, payload and pack are those of the digests it gives.
THEOREM LocksVouch == Spec => []LockVouches
<1>1. IInv => LockVouches
  BY DEF IInv, LocksOK, LockVouches, Locks, Vouches
<1> QED
  BY <1>1, ReleaseInvariant, PTL

\* Every lock file that is not torn comes after the archive it describes.
THEOREM LocksComeLast == Spec => []LockAfterArchive
<1>1. IInv => LockAfterArchive
  BY DEF IInv, LocksOK, LockAfterArchive, Locks, Archived
<1> QED
  BY <1>1, ReleaseInvariant, PTL

-----------------------------------------------------------------------------
(* Types.                                                                  *)

(***************************************************************************)
(* That the file a command writes next is one the directory may have needs *)
(* what its steps before left in its record: a key that parsed, an asset   *)
(* name that was accepted and a manifest with a pack_id.                   *)
(***************************************************************************)
CommandTyped(r) ==
  /\ r.next \in 1 .. 5
  /\ r.asset \in AssetNames \cup {DefaultAsset, BadAsset}
  /\ r.pc # "idle" => r.key \in Keys \cup {BadKey}
  /\ r.pc # "idle" /\ r.kind = "pack" => r.project \in Projects
  /\ r.pc # "idle" /\ r.kind = "sign" => r.key \in Keys
  /\ r.pc = "write" =>
       /\ r.key \in Keys
       /\ r.kind = "pack" => /\ r.asset # BadAsset
                             /\ r.manifest.pack_id \in Names
                             /\ r.manifest.version \in 0 .. MaxCode

DirectoryTyped ==
  /\ project \in [Projects -> ProjectType]
  /\ DOMAIN files \subseteq FileNames
  /\ starts \in 0 .. MaxStarts
  /\ alone \subseteq Commands
  /\ settled \in {"no", "pack", "sign"}

TInv == DirectoryTyped /\ \A c \in Commands : CommandTyped(cmd[c])

\* What a command writes goes into a file of the directory.
LEMMA OutputsAreFiles ==
  ASSUME NEW c \in Commands, CommandOK(cmd[c]), CommandTyped(cmd[c]), At(c, "write")
  PROVE  Output(c).file \in FileNames
<1>1. CASE cmd[c].kind = "sign"
  <2>1. cmd[c].next = 1
    BY <1>1 DEF CommandOK, At
  <2>2. Output(c).file = SignatureFile
    BY <1>1, <2>1 DEF Output, Outputs, Writes
  <2> QED BY <2>2 DEF FileNames
<1>2. CASE cmd[c].kind = "pack"
  <2>1. /\ cmd[c].next \in 1 .. 5
        /\ cmd[c].manifest.pack_id \in Names /\ cmd[c].manifest.version \in 0 .. MaxCode
        /\ cmd[c].asset \in AssetNames \cup {DefaultAsset}
    BY <1>2 DEF CommandOK, CommandTyped, At
  <2>2. AssetNameBy(c) \in AssetNames \cup DefaultNames
    BY <2>1 DEF AssetNameBy, DefaultNames
  <2>3. Outputs(c) = <<Writes(Asset(AssetNameBy(c)), ArchiveBy(c)),
                       Writes(ManifestFile, cmd[c].manifest),
                       Writes(PayloadFile, cmd[c].wasm),
                       Writes(SignatureFile, SignatureBy(c)),
                       Writes(LockFile(cmd[c].manifest.pack_id), LockBy(c))>>
    BY <1>2 DEF Outputs
  <2>4. Output(c).file \in {Asset(AssetNameBy(c)), ManifestFile, PayloadFile, SignatureFile,
                            LockFile(cmd[c].manifest.pack_id)}
    BY <2>1, <2>3 DEF Output, Writes
  <2> QED BY <2>1, <2>2, <2>4 DEF FileNames
<1> QED BY <1>1, <1>2 DEF CommandOK, At

LEMMA IdleTyped == CommandTyped(Idle) /\ Idle.pc = "idle"
BY DEF CommandTyped, Idle

\* A command whose record changes to one that is typed.
LEMMA BecomesTyped ==
  ASSUME IInv, TInv, NEW c \in Commands, NEW r, Becomes(c, r), CommandTyped(r), DirectoryTyped'
  PROVE  TInv'
<1>1. cmd' = [d \in Commands |-> IF d = c THEN r ELSE cmd[d]]
  BY DEF Becomes, IInv, CommandsOK
<1>2. ASSUME NEW d \in Commands PROVE CommandTyped(cmd'[d])
  BY <1>1 DEF TInv
<1> QED BY <1>2 DEF TInv

LEMMA TypeInit == Init => TInv
<1> SUFFICES ASSUME Init PROVE TInv
  OBVIOUS
<1>1. DirectoryTyped
  BY ReleaseAssumption DEF Init, BuildInit, DirectoryTyped
<1> QED BY <1>1, IdleTyped DEF Init, TInv

LEMMA StartsTyped ==
  ASSUME IInv, TInv, NEW c \in Commands, Starts(c)
  PROVE  TInv'
<1>0. ASSUME NEW r, Start(c, r), CommandTyped(r) PROVE TInv'
  <2>1. DirectoryTyped'
    BY <1>0, ReleaseAssumption DEF Start, TInv, DirectoryTyped
  <2> QED BY <1>0, <2>1, BecomesTyped DEF Start
<1>1. ASSUME NEW p \in Projects, NEW compiles \in BOOLEAN, NEW key \in Keys \cup {BadKey},
             NEW asset \in AssetNames \cup {DefaultAsset, BadAsset},
             StartPack(c, p, compiles, key, asset)
      PROVE  TInv'
  <2> DEFINE r == [Idle EXCEPT !.kind = "pack", !.pc = "build", !.project = p,
                     !.compiles = compiles, !.key = key, !.asset = asset]
  <2>1. CommandTyped(r)
    BY DEF CommandTyped, Idle
  <2> QED BY <1>0, <1>1, <2>1 DEF StartPack
<1>2. ASSUME NEW key \in Keys \cup {BadKey}, StartSign(c, key)
      PROVE  TInv'
  <2> DEFINE r == IF KeyRefused(key) THEN Idle
                  ELSE [Idle EXCEPT !.kind = "sign", !.pc = "read_manifest",
                                    !.key = key]
  <2>1. CommandTyped(r)
    BY IdleTyped DEF CommandTyped, Idle, KeyRefused
  <2> QED BY <1>0, <1>2, <2>1 DEF StartSign
<1> QED BY <1>1, <1>2 DEF Starts

LEMMA StepsTyped ==
  ASSUME IInv, TInv, NEW c \in Commands, Steps(c)
  PROVE  TInv'
<1>0. CommandOK(cmd[c]) /\ CommandTyped(cmd[c])
  BY DEF IInv, CommandsOK, TInv
<1>1. ASSUME NEW r, Becomes(c, r), CommandTyped(r), UNCHANGED project, Memory PROVE TInv'
  <2>1. DirectoryTyped'
    BY <1>1 DEF Memory, TInv, DirectoryTyped
  <2> QED BY <1>1, <2>1, BecomesTyped
<1>2. ASSUME Ended(c), UNCHANGED project, Memory PROVE TInv'
  BY <1>1, <1>2, IdleTyped DEF Ended
<1>3. CASE Build(c)
  <2> DEFINE r(place, since) == [cmd[c] EXCEPT !.pc = "read_wasm", !.place = place,
                                               !.since = since]
  <2>1. \/ Ended(c)
        \/ \E place, since : Becomes(c, r(place, since))
    BY <1>3 DEF Build
  <2>2. ASSUME NEW place, NEW since PROVE CommandTyped(r(place, since))
    BY <1>0, <1>3 DEF CommandOK, CommandTyped, Build, At
  <2> QED BY <1>1, <1>2, <1>3, <2>1, <2>2 DEF Build
<1>4. CASE CompilerFails(c)
  BY <1>2, <1>4 DEF CompilerFails
<1>5. CASE ReadWasm(c)
  <2> DEFINE r == [cmd[c] EXCEPT !.pc = "read_project",
                                 !.wasm = targets[cmd[c].project][cmd[c].place]]
  <2>1. CommandTyped(r)
    BY <1>0, <1>5 DEF CommandOK, CommandTyped, ReadWasm, At
  <2> QED BY <1>1, <1>5, <2>1 DEF ReadWasm
<1>6. CASE ReadProject(c)
  <2> DEFINE r == [cmd[c] EXCEPT !.pc = "write", !.manifest = ManifestOf(c)]
  <2>1. CASE PackRefused(c)
    BY <1>2, <1>6, <2>1 DEF ReadProject
  <2>2. CASE ~PackRefused(c)
    <3>1. /\ cmd[c].kind = "pack" /\ cmd[c].project \in Projects /\ cmd[c].key \in Keys
          /\ cmd[c].asset # BadAsset /\ ManifestOf(c).pack_id # NoName
      BY <1>0, <1>6, <2>2 DEF CommandOK, CommandTyped, ReadProject, At, PackRefused,
         KeyRefused, AssetNameRefused
    <3>2. project[cmd[c].project] \in ProjectType
      BY <3>1 DEF TInv, DirectoryTyped
    <3>3. ManifestOf(c).pack_id \in Names /\ ManifestOf(c).version \in 0 .. MaxCode
      BY <3>1, <3>2 DEF ManifestOf, ProjectType, LayoutType
    <3>4. CommandTyped(r)
      <4> DEFINE m == ManifestOf(c)
      <4>1. m.pack_id \in Names /\ m.version \in 0 .. MaxCode
        BY <3>3
      <4> HIDE DEF m
      <4>2. /\ r = [cmd[c] EXCEPT !.pc = "write", !.manifest = m]
        BY DEF m
      <4> QED BY <1>0, <3>1, <4>1, <4>2 DEF CommandOK, CommandTyped
    <3> QED BY <1>1, <1>6, <2>2, <3>4 DEF ReadProject
  <2> QED BY <2>1, <2>2
<1>7. CASE ReadManifest(c)
  <2> DEFINE r == [cmd[c] EXCEPT !.pc = "write", !.manifest = files[ManifestFile]]
  <2>1. CommandTyped(r)
    BY <1>0, <1>7 DEF CommandOK, CommandTyped, ReadManifest, At
  <2> QED BY <1>1, <1>2, <1>7, <2>1 DEF ReadManifest
<1>8. CASE OpenFile(c)
  <2> DEFINE r == [cmd[c] EXCEPT !.open = TRUE]
  <2>1. CommandTyped(r)
    BY <1>0 DEF CommandOK, CommandTyped
  <2>2. Output(c).file \in FileNames
    BY <1>0, <1>8, OutputsAreFiles DEF OpenFile
  <2>3. DirectoryTyped'
    BY <1>8, <2>2 DEF OpenFile, FilesWith, TInv, DirectoryTyped
  <2> QED BY <1>8, <2>1, <2>3, BecomesTyped DEF OpenFile
<1>9. ASSUME NEW content, WriteFile(c, content) PROVE TInv'
  <2>1. Output(c).file \in FileNames
    BY <1>0, <1>9, OutputsAreFiles DEF WriteFile
  <2>2. /\ cmd[c].kind \in {"pack", "sign"}
        /\ cmd[c].kind = "sign" => Len(Outputs(c)) = 1 /\ cmd[c].next = 1
        /\ cmd[c].kind = "pack" => Len(Outputs(c)) = 5 /\ cmd[c].next \in 1 .. 5
    BY <1>0, <1>9, OutputsInOrder DEF WriteFile, CommandOK, At
  <2>3. DirectoryTyped'
    <3>1. settled' \in {"no", "pack", "sign"}
      BY <1>9, <2>2 DEF WriteFile, TInv, DirectoryTyped
    <3>2. DOMAIN files' \subseteq FileNames
      BY <1>9, <2>1 DEF WriteFile, FilesWith, TInv, DirectoryTyped
    <3> QED BY <1>9, <3>1, <3>2 DEF WriteFile, TInv, DirectoryTyped
  <2>4. CASE cmd[c].next < Len(Outputs(c))
    <3>1. cmd[c].kind = "pack" /\ cmd[c].next \in 1 .. 4
      <4>1. CASE cmd[c].kind = "sign"
        <5>1. Len(Outputs(c)) = 1 /\ cmd[c].next = 1
          BY <2>2, <4>1
        <5> QED BY <2>4, <5>1
      <4>2. CASE cmd[c].kind = "pack"
        <5>1. Len(Outputs(c)) = 5 /\ cmd[c].next \in 1 .. 5
          BY <2>2, <4>2
        <5>2. cmd[c].next \in 1 .. 4
          BY <2>4, <5>1
        <5> QED BY <4>2, <5>2
      <4> QED BY <2>2, <4>1, <4>2
    <3> DEFINE r == [cmd[c] EXCEPT !.next = @ + 1, !.open = FALSE]
    <3>2. CommandTyped(r)
      BY <1>0, <3>1 DEF CommandOK, CommandTyped
    <3> QED BY <1>9, <2>3, <2>4, <3>2, BecomesTyped DEF WriteFile
  <2>5. CASE ~(cmd[c].next < Len(Outputs(c)))
    BY <1>9, <2>3, <2>5, IdleTyped, BecomesTyped DEF WriteFile, Ended
  <2> QED BY <2>4, <2>5
<1>10. CASE Stops(c)
  BY <1>2, <1>10 DEF Stops
<1> QED
  BY <1>3, <1>4, <1>5, <1>6, <1>7, <1>8, <1>9, <1>10 DEF Steps

LEMMA TypeStep == IInv /\ TInv /\ [Next]_vars => TInv'
<1> SUFFICES ASSUME IInv, TInv, [Next]_vars PROVE TInv'
  OBVIOUS
<1>1. CASE Author
  <2>1. project' \in [Projects -> ProjectType]
    <3>1. PICK p \in Projects, version \in 0 .. MaxCode :
            \E layout \in Layouts[p] : Edit(p, layout, version)
      BY <1>1 DEF Author
    <3>2. PICK layout \in Layouts[p] : Edit(p, layout, version)
      BY <3>1
    <3>3. project[p] \in ProjectType /\ layout \in LayoutType
      <4>1. layout \in Layouts[p] /\ Layouts[p] \subseteq LayoutType
        BY <3>2, BuildAssumption DEF Edit
      <4> QED BY <4>1 DEF TInv, DirectoryTyped
    <3>4. project[p].code + 1 \in 0 .. MaxCode
      BY <3>2, <3>3, BuildAssumption DEF Edit, ProjectType
    <3> QED BY <3>2, <3>3, <3>4 DEF Edit, ProjectType, TInv, DirectoryTyped
  <2> QED BY <1>1, <2>1 DEF Author, Memory, TInv, DirectoryTyped
<1>2. ASSUME NEW c \in Commands, Starts(c) PROVE TInv'
  BY <1>2, StartsTyped
<1>3. ASSUME NEW c \in Commands, Steps(c) PROVE TInv'
  BY <1>3, StepsTyped
<1>4. CASE UNCHANGED vars
  BY <1>4 DEF vars, TInv, DirectoryTyped
<1> QED BY <1>1, <1>2, <1>3, <1>4 DEF Next

\* The directory holds only files of the release formats, and a command that
\* writes has a key and a file to write.
THEOREM TypeCorrect == Spec => []TypeOK
<1>1. IInv /\ TInv => TypeOK
  <2> SUFFICES ASSUME IInv, TInv PROVE TypeOK
    OBVIOUS
  <2>1. ASSUME NEW c \in Commands
        PROVE  /\ cmd[c].next \in 1 .. 5
               /\ At(c, "write") => Output(c).file \in FileNames /\ cmd[c].key \in Keys
    BY OutputsAreFiles DEF IInv, CommandsOK, TInv, CommandTyped, At
  <2> QED BY <2>1 DEF TypeOK, TInv, DirectoryTyped
<1> QED
  BY <1>1, InitOK, NextOK, TypeInit, TypeStep, PTL DEF Spec

-----------------------------------------------------------------------------
(* What binaries and manifests are.                                        *)

BinariesTyped(binaries) ==
  \A place \in DOMAIN binaries : binaries[place] \in 0 .. MaxCode

TargetsTyped ==
  /\ targets = [p \in Projects |-> targets[p]]
  /\ \A p \in Projects : BinariesTyped(targets[p])

\* The binary a pack found is still there, and what it read of it is one.
PayloadsTyped ==
  \A c \in Commands :
    /\ At(c, "read_wasm") => cmd[c].place \in DOMAIN targets[cmd[c].project]
    /\ At(c, "read_project") => cmd[c].wasm \in 0 .. MaxCode
    /\ At(c, "write") /\ cmd[c].kind = "pack" => cmd[c].manifest \in ManifestType

PInv == TargetsTyped /\ PayloadsTyped

\* A search looks in at most four directories, under at most seven names.
LEMMA CandidatesFew ==
  ASSUME NEW layout
  PROVE  /\ DOMAIN SearchDirs(layout) \subseteq 1 .. 7
         /\ DOMAIN CandidateNames(layout) \subseteq 1 .. 7
<1>1. DOMAIN SearchDirs(layout) \subseteq 1 .. 4
  BY DEF SearchDirs
<1> DEFINE S == {Underscored[layout.pack_id], layout.pack_id, Underscored[layout.package],
                 layout.package, Underscored[layout.dir_name], layout.dir_name, Payload}
           last == IF layout.kind = "Zig" THEN <<Payload>> ELSE << >>
<1>2. ASSUME NEW name, name \in S, Underscored[name] \in S
      PROVE  BothForms(name) \in Seq(S) /\ Len(BothForms(name)) \in 0 .. 2
  <2>1. CASE name = NoName
    BY <2>1 DEF BothForms
  <2>2. CASE name # NoName
    <3> HIDE DEF S
    <3>1. BothForms(name) = <<Underscored[name], name>>
      BY <2>2 DEF BothForms
    <3> QED BY <1>2, <3>1
  <2> QED BY <2>1, <2>2
<1>3. /\ BothForms(layout.pack_id) \in Seq(S) /\ Len(BothForms(layout.pack_id)) \in 0 .. 2
      /\ BothForms(layout.package) \in Seq(S) /\ Len(BothForms(layout.package)) \in 0 .. 2
      /\ BothForms(layout.dir_name) \in Seq(S) /\ Len(BothForms(layout.dir_name)) \in 0 .. 2
  BY <1>2
<1>4. last \in Seq(S) /\ Len(last) \in 0 .. 1
  <2>1. Payload \in S
    OBVIOUS
  <2> HIDE DEF S
  <2> QED BY <2>1
<1> HIDE DEF S, last
<1>5. /\ CandidateNames(layout) \in Seq(S)
      /\ Len(CandidateNames(layout)) \in 0 .. 7
  <2>1. CandidateNames(layout) = BothForms(layout.pack_id) \o BothForms(layout.package)
                                   \o BothForms(layout.dir_name) \o last
    BY DEF CandidateNames, last
  <2> DEFINE a == BothForms(layout.pack_id)
             b == BothForms(layout.package)
             d == BothForms(layout.dir_name)
  <2>2. ASSUME NEW x \in Seq(S), NEW y \in Seq(S)
        PROVE  x \o y \in Seq(S) /\ Len(x \o y) = Len(x) + Len(y)
    OBVIOUS
  <2>3. /\ a \in Seq(S) /\ b \in Seq(S) /\ d \in Seq(S) /\ last \in Seq(S)
        /\ Len(a) \in 0 .. 2 /\ Len(b) \in 0 .. 2 /\ Len(d) \in 0 .. 2
    BY <1>3, <1>4
  <2> HIDE DEF a, b, d
  <2>4. /\ a \o b \in Seq(S) /\ Len(a \o b) = Len(a) + Len(b)
        /\ a \o b \o d \in Seq(S) /\ Len(a \o b \o d) = Len(a \o b) + Len(d)
        /\ a \o b \o d \o last \in Seq(S)
        /\ Len(a \o b \o d \o last) = Len(a \o b \o d) + Len(last)
    BY <2>2, <2>3
  <2>5. Len(a \o b \o d \o last) \in 0 .. 7
    <3>1. Len(a \o b \o d \o last) = Len(a) + Len(b) + Len(d) + Len(last)
      BY <2>4
    <3>2. ASSUME NEW i \in 0 .. 2, NEW j \in 0 .. 2, NEW k \in 0 .. 2, NEW l \in 0 .. 1
          PROVE  i + j + k + l \in 0 .. 7
      OBVIOUS
    <3> QED BY <1>4, <2>3, <3>1, <3>2
  <2> QED BY <2>1, <2>4, <2>5 DEF a, b, d
<1> QED BY <1>1, <1>5

\* A set of small numbers has a least one.
LEMMA LeastOfFew ==
  ASSUME NEW T, T \subseteq 1 .. 7, T # {}
  PROVE  \E m \in T : \A n \in T : m <= n
<1> DEFINE Least(m) == m \in T /\ \A n \in T : m <= n
<1>1. \/ 1 \in T \/ 2 \in T \/ 3 \in T \/ 4 \in T \/ 5 \in T \/ 6 \in T \/ 7 \in T
  <2>1. PICK t \in T : TRUE
    OBVIOUS
  <2>2. t \in 1 .. 7
    OBVIOUS
  <2>3. t = 1 \/ t = 2 \/ t = 3 \/ t = 4 \/ t = 5 \/ t = 6 \/ t = 7
    BY <2>2
  <2> QED BY <2>3
<1>2. /\ 1 \in T => Least(1)
      /\ 1 \notin T /\ 2 \in T => Least(2)
      /\ T \cap {1, 2} = {} /\ 3 \in T => Least(3)
      /\ T \cap {1, 2, 3} = {} /\ 4 \in T => Least(4)
      /\ T \cap {1, 2, 3, 4} = {} /\ 5 \in T => Least(5)
      /\ T \cap {1, 2, 3, 4, 5} = {} /\ 6 \in T => Least(6)
      /\ T \cap {1, 2, 3, 4, 5, 6} = {} /\ 7 \in T => Least(7)
  OBVIOUS
<1> QED BY <1>1, <1>2

\* A search that meets a binary at all returns a place that holds one.
LEMMA FoundIsThere ==
  ASSUME NEW layout, NEW binaries, ~WasmNotFound(layout, binaries)
  PROVE  Found(layout, binaries) \in DOMAIN binaries
<1> DEFINE hits == Hits(layout, binaries)
           dirs == {h[1] : h \in hits}
<1>1. hits # {} /\ \A h \in hits : /\ PlaceOf(layout, h) \in DOMAIN binaries
                                   /\ h = <<h[1], h[2]>>
                                   /\ h[1] \in DOMAIN SearchDirs(layout)
                                   /\ h[2] \in DOMAIN CandidateNames(layout)
  BY DEF WasmNotFound, Hits, Searched
<1>2. /\ DOMAIN SearchDirs(layout) \subseteq 1 .. 7
      /\ DOMAIN CandidateNames(layout) \subseteq 1 .. 7
  BY CandidatesFew
<1>3. PICK i \in dirs : \A j \in dirs : i <= j
  <2>1. dirs \subseteq 1 .. 7 /\ dirs # {}
    BY <1>1, <1>2
  <2> HIDE DEF dirs
  <2> QED BY LeastOfFew, <2>1
<1> DEFINE names == {h[2] : h \in {k \in hits : k[1] = i}}
<1>4. PICK n \in names : \A m \in names : n <= m
  <2>1. names \subseteq 1 .. 7 /\ names # {}
    BY <1>1, <1>2
  <2> HIDE DEF names
  <2> QED BY LeastOfFew, <2>1
<1>5. PICK h \in hits : h[1] = i /\ h[2] = n
  OBVIOUS
<1>6. ASSUME NEW k \in hits PROVE Before(h, k)
  <2>1. h[1] \in Nat /\ k[1] \in Nat /\ i <= k[1] /\ (k[1] = i => n <= k[2])
    BY <1>1, <1>2, <1>3, <1>4
  <2> QED BY <1>5, <2>1 DEF Before
<1>7. (CHOOSE g \in hits : \A k \in hits : Before(g, k)) \in hits
  BY <1>6
<1> HIDE DEF hits
<1> QED BY <1>1, <1>7 DEF Found, hits

\* The part of PayloadsTyped about one command.
PayloadTyped(r, binaries) ==
  /\ r.pc = "read_wasm" => r.place \in DOMAIN binaries[r.project]
  /\ r.pc = "read_project" => r.wasm \in 0 .. MaxCode
  /\ r.pc = "write" /\ r.kind = "pack" => r.manifest \in ManifestType

\* A command whose record changes, while binaries are added at most.
LEMMA BecomesPayloadTyped ==
  ASSUME IInv, TInv, PInv, NEW c \in Commands, NEW r, Becomes(c, r), PayloadTyped(r, targets'),
         TargetsTyped',
         \A p \in Projects : DOMAIN targets[p] \subseteq DOMAIN targets'[p]
  PROVE  PInv'
<1>1. cmd' = [d \in Commands |-> IF d = c THEN r ELSE cmd[d]]
  BY DEF Becomes, IInv, CommandsOK
<1>2. ASSUME NEW d \in Commands PROVE PayloadTyped(cmd'[d], targets')
  <2>1. CASE d = c
    BY <1>1, <2>1
  <2>2. CASE d # c
    <3>1. cmd'[d] = cmd[d] /\ PayloadTyped(cmd[d], targets)
      BY <1>1, <2>2 DEF PInv, PayloadsTyped, PayloadTyped, At
    <3>2. cmd[d].pc = "read_wasm" => cmd[d].project \in Projects
      BY DEF IInv, CommandsOK, CommandOK, TInv, CommandTyped
    <3> QED BY <3>1, <3>2 DEF PayloadTyped
  <2> QED BY <2>1, <2>2
<1> QED BY <1>2 DEF PInv, PayloadsTyped, PayloadTyped, At

LEMMA IdlePayloadTyped == \A binaries : PayloadTyped(Idle, binaries)
BY DEF PayloadTyped, Idle

LEMMA PayloadInit == Init => PInv
<1> SUFFICES ASSUME Init PROVE PInv
  OBVIOUS
<1>1. TargetsTyped
  BY DEF Init, BuildInit, TargetsTyped, BinariesTyped
<1>2. PayloadsTyped
  BY DEF Init, PayloadsTyped, At, Idle
<1> QED BY <1>1, <1>2 DEF PInv

\* Compiling adds a binary or replaces one by the code of now.
LEMMA CompiledTyped ==
  ASSUME TInv, PInv, NEW p \in Projects
  PROVE  BinariesTyped(Compiled(p)) /\ DOMAIN targets[p] \subseteq DOMAIN Compiled(p)
<1>1. project[p].code \in 0 .. MaxCode
  BY DEF TInv, DirectoryTyped, ProjectType
<1>2. BinariesTyped(targets[p])
  BY DEF PInv, TargetsTyped
<1> QED BY <1>1, <1>2 DEF Compiled, BinariesTyped

\* The search after a compilation returns a binary that is there.
LEMMA BuildPayload ==
  ASSUME IInv, TInv, PInv, NEW c \in Commands, Build(c)
  PROVE  PInv'
<1> DEFINE p == cmd[c].project
           binaries == IF cmd[c].compiles THEN Compiled(p) ELSE targets[p]
           since == IF cmd[c].compiles THEN project[p].code ELSE 0
           r == [cmd[c] EXCEPT !.pc = "read_wasm",
                               !.place = Found(project[p].layout, binaries), !.since = since]
<1>1. CommandOK(cmd[c]) /\ CommandTyped(cmd[c]) /\ cmd[c].pc = "build"
  BY DEF IInv, CommandsOK, TInv, Build, At
<1>2. p \in Projects
  BY <1>1 DEF CommandOK, CommandTyped
<1>3. /\ targets' = [targets EXCEPT ![p] = binaries]
      /\ IF WasmNotFound(project[p].layout, binaries) THEN Ended(c) ELSE Becomes(c, r)
  BY DEF Build
<1>4. BinariesTyped(binaries) /\ DOMAIN targets[p] \subseteq DOMAIN binaries
  BY <1>2, CompiledTyped DEF PInv, TargetsTyped
<1>5. targets = [q \in Projects |-> targets[q]] /\ \A q \in Projects : BinariesTyped(targets[q])
  BY DEF PInv, TargetsTyped
<1> HIDE DEF binaries
<1>6. targets' = [q \in Projects |-> IF q = p THEN binaries ELSE targets[q]]
  BY <1>3, <1>5
<1>7. TargetsTyped'
  <2>1. ASSUME NEW q \in Projects PROVE BinariesTyped(targets'[q])
    BY <1>4, <1>5, <1>6
  <2>2. targets' = [q \in Projects |-> targets'[q]]
    BY <1>6
  <2> QED BY <2>1, <2>2 DEF TargetsTyped, BinariesTyped
<1>8. \A q \in Projects : DOMAIN targets[q] \subseteq DOMAIN targets'[q]
  BY <1>4, <1>6
<1>9. CASE WasmNotFound(project[p].layout, binaries)
  BY <1>3, <1>7, <1>8, <1>9, IdlePayloadTyped, BecomesPayloadTyped DEF Ended
<1>10. CASE ~WasmNotFound(project[p].layout, binaries)
  <2>1. Found(project[p].layout, binaries) \in DOMAIN binaries
    BY <1>10, FoundIsThere
  <2>2. r.pc = "read_wasm" /\ r.project = p /\ r.place = Found(project[p].layout, binaries)
    BY <1>1 DEF CommandOK
  <2>3. PayloadTyped(r, targets')
    BY <1>2, <1>6, <2>1, <2>2 DEF PayloadTyped
  <2> QED BY <1>3, <1>7, <1>8, <1>10, <2>3, BecomesPayloadTyped
<1> QED BY <1>9, <1>10

\* Binaries are never removed, so the one found is there when it is read.
LEMMA PayloadStep == IInv /\ TInv /\ PInv /\ [Next]_vars => PInv'
<1> SUFFICES ASSUME IInv, TInv, PInv, [Next]_vars PROVE PInv'
  OBVIOUS
<1>1. ASSUME UNCHANGED targets, NEW c \in Commands, NEW r, Becomes(c, r),
             PayloadTyped(r, targets)
      PROVE  PInv'
  <2>1. TargetsTyped' /\ targets' = targets
    BY <1>1 DEF PInv, TargetsTyped, BinariesTyped
  <2> QED BY <1>1, <2>1, BecomesPayloadTyped
<1>2. ASSUME NEW c \in Commands, Ended(c), UNCHANGED targets PROVE PInv'
  BY <1>1, <1>2, IdlePayloadTyped DEF Ended
<1>3. ASSUME UNCHANGED <<cmd, targets>> PROVE PInv'
  BY <1>3 DEF PInv, TargetsTyped, BinariesTyped, PayloadsTyped, At
<1>4. CASE Author
  BY <1>3, <1>4 DEF Author, Edit
<1>5. ASSUME NEW c \in Commands, Starts(c) PROVE PInv'
  <2>1. ASSUME NEW p, NEW compiles, NEW key, NEW asset, StartPack(c, p, compiles, key, asset)
        PROVE  PInv'
    <3> DEFINE r == [Idle EXCEPT !.kind = "pack", !.pc = "build", !.project = p,
                       !.compiles = compiles, !.key = key, !.asset = asset]
    <3>1. PayloadTyped(r, targets)
      BY DEF PayloadTyped, Idle
    <3> QED BY <1>1, <2>1, <3>1 DEF StartPack, Start
  <2>2. ASSUME NEW key, StartSign(c, key) PROVE PInv'
    <3> DEFINE r == IF KeyRefused(key) THEN Idle
                    ELSE [Idle EXCEPT !.kind = "sign", !.pc = "read_manifest", !.key = key]
    <3>1. PayloadTyped(r, targets)
      BY DEF PayloadTyped, Idle
    <3> QED BY <1>1, <2>2, <3>1 DEF StartSign, Start
  <2> QED BY <1>5, <2>1, <2>2 DEF Starts
<1>6. ASSUME NEW c \in Commands, Steps(c) PROVE PInv'
  <2>1. /\ CommandOK(cmd[c]) /\ CommandTyped(cmd[c]) /\ PayloadTyped(cmd[c], targets)
    BY DEF IInv, CommandsOK, TInv, PInv, PayloadsTyped, PayloadTyped, At
  <2>2. CASE Build(c)
    BY <2>2, BuildPayload
  <2>3. CASE CompilerFails(c)
    BY <1>2, <2>3 DEF CompilerFails
  <2>4. CASE ReadWasm(c)
    <3> DEFINE wasm == targets[cmd[c].project][cmd[c].place]
               r == [cmd[c] EXCEPT !.pc = "read_project", !.wasm = wasm]
    <3>1. wasm \in 0 .. MaxCode
      BY <2>1, <2>4 DEF ReadWasm, At, CommandOK, CommandTyped, PayloadTyped, PInv,
         TargetsTyped, BinariesTyped
    <3>2. r.pc = "read_project" /\ r.wasm = wasm
      <4> HIDE DEF wasm
      <4> QED BY <2>1 DEF CommandOK
    <3>3. PayloadTyped(r, targets)
      BY <3>1, <3>2 DEF PayloadTyped
    <3> QED BY <1>1, <2>4, <3>3 DEF ReadWasm
  <2>5. CASE ReadProject(c)
    <3> DEFINE r == [cmd[c] EXCEPT !.pc = "write", !.manifest = ManifestOf(c)]
    <3>1. CASE PackRefused(c)
      BY <1>2, <2>5, <3>1 DEF ReadProject
    <3>2. CASE ~PackRefused(c)
      <4>1. cmd[c].project \in Projects /\ cmd[c].wasm \in 0 .. MaxCode
        BY <2>1, <2>5 DEF ReadProject, At, CommandOK, CommandTyped, PayloadTyped
      <4>2. project[cmd[c].project] \in ProjectType
        BY <4>1 DEF TInv, DirectoryTyped
      <4>3. ManifestOf(c) \in ManifestType
        <5>1. ManifestOf(c).pack_id \in Names
          BY <3>2, <4>2 DEF PackRefused, ManifestOf, ProjectType, LayoutType
        <5>2. project[cmd[c].project].version \in 0 .. MaxCode
          BY <4>2 DEF ProjectType
        <5> QED BY <4>1, <5>1, <5>2 DEF ManifestOf, ManifestType
      <4>4. r.pc = "write" /\ r.manifest = ManifestOf(c)
        BY <2>1 DEF CommandOK
      <4>5. PayloadTyped(r, targets)
        BY <4>3, <4>4 DEF PayloadTyped
      <4> QED BY <1>1, <2>5, <3>2, <4>5 DEF ReadProject
    <3> QED BY <3>1, <3>2
  <2>6. CASE ReadManifest(c)
    <3> DEFINE r == [cmd[c] EXCEPT !.pc = "write", !.manifest = files[ManifestFile]]
    <3>1. r.pc = "write" /\ r.kind = "sign"
      BY <2>1, <2>6 DEF ReadManifest, At, CommandOK
    <3>2. PayloadTyped(r, targets)
      BY <3>1 DEF PayloadTyped
    <3> QED BY <1>1, <1>2, <2>6, <3>2 DEF ReadManifest
  <2>7. CASE OpenFile(c)
    <3>1. PayloadTyped([cmd[c] EXCEPT !.open = TRUE], targets)
      BY <2>1 DEF PayloadTyped, CommandOK
    <3> QED BY <1>1, <2>7, <3>1 DEF OpenFile
  <2>8. ASSUME NEW content, WriteFile(c, content) PROVE PInv'
    <3>1. PayloadTyped([cmd[c] EXCEPT !.next = @ + 1, !.open = FALSE], targets)
      BY <2>1 DEF PayloadTyped, CommandOK
    <3> QED BY <1>1, <1>2, <2>8, <3>1 DEF WriteFile
  <2>9. CASE Stops(c)
    BY <1>2, <2>9 DEF Stops
  <2> QED BY <1>6, <2>2, <2>3, <2>4, <2>5, <2>6, <2>7, <2>8, <2>9 DEF Steps
<1>7. CASE UNCHANGED vars
  BY <1>3, <1>7 DEF vars
<1> QED BY <1>4, <1>5, <1>6, <1>7 DEF Next

-----------------------------------------------------------------------------
(* The directory as a whole.                                               *)

(***************************************************************************)
(* Nobody else runs while a command in alone does (Separately), so what it *)
(* has written is still there when it writes the next file (WrittenOK).    *)
(* Once it has ended, and until a file is opened again, nobody has a file  *)
(* open (NothingOpen), so the directory stays as it is.                    *)
(***************************************************************************)
Separately == \A c \in alone : \A d \in Commands : d # c => At(d, "idle")

NothingOpen ==
  \A c \in Commands : cmd[c].open = FALSE \/ (At(c, "write") /\ settled = "no")

Written(c, i) == Holds(Outputs(c)[i].file, Outputs(c)[i].content)

WrittenOK ==
  \A c \in alone :
    At(c, "write") =>
      /\ cmd[c].kind = "sign" => Holds(ManifestFile, cmd[c].manifest)
      /\ cmd[c].kind = "pack" => \A i \in 1 .. 4 : i < cmd[c].next => Written(c, i)

SInv == Separately /\ NothingOpen /\ WrittenOK /\ SettledIsConsistent

\* The five files of a pack are different ones.
LEMMA FilesDiffer ==
  ASSUME NEW c \in Commands, cmd[c].kind = "pack"
  PROVE  /\ Outputs(c)[1] = Writes(Asset(AssetNameBy(c)), ArchiveBy(c))
         /\ Outputs(c)[2] = Writes(ManifestFile, cmd[c].manifest)
         /\ Outputs(c)[3] = Writes(PayloadFile, cmd[c].wasm)
         /\ Outputs(c)[4] = Writes(SignatureFile, SignatureBy(c))
         /\ Outputs(c)[5] = Writes(LockFile(cmd[c].manifest.pack_id), LockBy(c))
         /\ \A i, j \in 1 .. 5 : i # j => Outputs(c)[i].file # Outputs(c)[j].file
<1>1. Outputs(c) = <<Writes(Asset(AssetNameBy(c)), ArchiveBy(c)),
                     Writes(ManifestFile, cmd[c].manifest),
                     Writes(PayloadFile, cmd[c].wasm),
                     Writes(SignatureFile, SignatureBy(c)),
                     Writes(LockFile(cmd[c].manifest.pack_id), LockBy(c))>>
  BY DEF Outputs
<1>2. /\ Outputs(c)[1] = Writes(Asset(AssetNameBy(c)), ArchiveBy(c))
      /\ Outputs(c)[2] = Writes(ManifestFile, cmd[c].manifest)
      /\ Outputs(c)[3] = Writes(PayloadFile, cmd[c].wasm)
      /\ Outputs(c)[4] = Writes(SignatureFile, SignatureBy(c))
      /\ Outputs(c)[5] = Writes(LockFile(cmd[c].manifest.pack_id), LockBy(c))
  BY <1>1
<1>3. /\ Outputs(c)[1].file.kind = "pack.zip" /\ Outputs(c)[2].file.kind = "manifest.json"
      /\ Outputs(c)[3].file.kind = "payload.wasm" /\ Outputs(c)[4].file.kind = "manifest.sig"
      /\ Outputs(c)[5].file.kind = "lock.json"
  BY <1>2 DEF Writes, Asset, ManifestFile, PayloadFile, SignatureFile, LockFile
<1>4. ASSUME NEW i \in 1 .. 5, NEW j \in 1 .. 5, i # j
      PROVE  Outputs(c)[i].file.kind # Outputs(c)[j].file.kind
  <2>1. /\ i = 1 \/ i = 2 \/ i = 3 \/ i = 4 \/ i = 5
        /\ j = 1 \/ j = 2 \/ j = 3 \/ j = 4 \/ j = 5
    OBVIOUS
  <2> QED BY <1>3, <1>4, <2>1
<1> QED BY <1>2, <1>4

\* What a command writes depends on five fields of its record.
LEMMA SameOutputs ==
  ASSUME NEW c \in Commands,
         /\ cmd'[c].kind = cmd[c].kind /\ cmd'[c].key = cmd[c].key
         /\ cmd'[c].asset = cmd[c].asset /\ cmd'[c].wasm = cmd[c].wasm
         /\ cmd'[c].manifest = cmd[c].manifest
  PROVE  Outputs(c)' = Outputs(c)
BY DEF Outputs, Writes, AssetNameBy, ArchiveBy, LockBy, SignatureBy

\* A record that settles nothing: its command has no file open and, if it is
\* about to write, what it has to find written is there.
Quiet(r) ==
  /\ r.open = FALSE
  /\ r.pc = "write" /\ r.kind = "sign" => Holds(ManifestFile, r.manifest)
  /\ r.pc = "write" /\ r.kind = "pack" => r.next = 1

LEMMA IdleQuiet == Quiet(Idle) /\ Idle.pc = "idle"
BY DEF Quiet, Idle

\* A step that writes nothing: the directory is as settled as it was.
LEMMA QuietSettled ==
  ASSUME IInv, SInv, NEW c \in Commands, NEW r, Becomes(c, r), Quiet(r),
         UNCHANGED <<files, settled>>,
         \/ UNCHANGED alone /\ ~At(c, "idle")
         \/ alone' = {c} /\ Running = {}
         \/ alone' = {}
  PROVE  SInv'
<1>1. cmd' = [d \in Commands |-> IF d = c THEN r ELSE cmd[d]]
  BY DEF Becomes, IInv, CommandsOK
<1>2. alone' \subseteq {c} /\ (alone' # {} => \A d \in Commands : d # c => At(d, "idle"))
  BY DEF SInv, Separately, Running
<1>3. Separately'
  BY <1>1, <1>2 DEF Separately, At
<1>4. NothingOpen'
  <2> SUFFICES ASSUME NEW d \in Commands, cmd'[d].open # FALSE
               PROVE  cmd'[d].pc = "write" /\ settled' = "no"
    BY DEF NothingOpen, At
  <2>1. d # c
    BY <1>1 DEF Quiet
  <2> QED BY <1>1, <2>1 DEF SInv, NothingOpen, At
<1>5. WrittenOK'
  <2> SUFFICES ASSUME NEW d \in alone', cmd'[d].pc = "write"
               PROVE  /\ cmd'[d].kind = "sign" => Holds(ManifestFile, cmd[d].manifest)'
                      /\ cmd'[d].kind = "pack" =>
                           \A i \in 1 .. 4 : i < cmd'[d].next => Written(d, i)'
    BY DEF WrittenOK, At
  <2>1. d = c /\ cmd'[c] = r
    BY <1>1, <1>2
  <2>2. cmd'[d].kind = "sign" => Holds(ManifestFile, cmd[d].manifest)'
    BY <2>1 DEF Quiet, Holds
  <2>3. cmd'[d].kind = "pack" => \A i \in 1 .. 4 : ~(i < cmd'[d].next)
    BY <2>1 DEF Quiet
  <2> QED BY <2>2, <2>3
<1>6. SettledIsConsistent'
  BY DEF SInv, SettledIsConsistent, DirectoryAgrees, Locks, Holds
<1> QED BY <1>3, <1>4, <1>5, <1>6 DEF SInv

\* Opening a file spoils that file only, and the command has written others.
LEMMA OpenFileSettled ==
  ASSUME IInv, SInv, NEW c \in Commands, OpenFile(c)
  PROVE  SInv'
<1> DEFINE r == [cmd[c] EXCEPT !.open = TRUE]
<1>1. /\ CommandOK(cmd[c]) /\ At(c, "write")
      /\ cmd' = [d \in Commands |-> IF d = c THEN r ELSE cmd[d]]
      /\ files' = FilesWith(Output(c).file, Torn) /\ settled' = "no" /\ alone' = alone
  BY DEF OpenFile, Becomes, IInv, CommandsOK
<1>2. /\ r.pc = "write" /\ r.kind = cmd[c].kind /\ r.next = cmd[c].next
      /\ r.key = cmd[c].key /\ r.asset = cmd[c].asset /\ r.wasm = cmd[c].wasm
      /\ r.manifest = cmd[c].manifest
  BY <1>1, GoesOn DEF At
<1>4. Separately'
  BY <1>1, <1>2 DEF SInv, Separately, At
<1>5. NothingOpen'
  BY <1>1, <1>2 DEF SInv, NothingOpen, At
<1>6. WrittenOK'
  <2> SUFFICES ASSUME NEW d \in alone, cmd'[d].pc = "write"
               PROVE  /\ cmd'[d].kind = "sign" => Holds(ManifestFile, cmd[d].manifest)'
                      /\ cmd'[d].kind = "pack" =>
                           \A i \in 1 .. 4 : i < cmd'[d].next => Written(d, i)'
    BY <1>1 DEF WrittenOK, At
  <2>1. d = c
    BY <1>1 DEF SInv, Separately, At
  <2>2. Outputs(c)' = Outputs(c)
    BY <1>1, <1>2, SameOutputs
  <2>3. CASE cmd[c].kind = "sign"
    <3>1. Output(c).file = SignatureFile /\ Holds(ManifestFile, cmd[c].manifest)
      BY <1>1, <2>1, <2>3 DEF Output, Outputs, Writes, CommandOK, At, SInv, WrittenOK
    <3>2. ManifestFile # SignatureFile
      BY DEF ManifestFile, SignatureFile
    <3>3. Holds(ManifestFile, cmd[c].manifest)'
      BY <1>1, <1>2, <3>1, <3>2 DEF Holds, FilesWith
    <3> QED BY <1>1, <1>2, <2>1, <2>3, <3>3
  <2>4. CASE cmd[c].kind = "pack"
    <3> SUFFICES ASSUME NEW i \in 1 .. 4, i < cmd[c].next PROVE Written(c, i)'
      BY <1>1, <1>2, <2>1, <2>4
    <3>1. cmd[c].next \in 1 .. 5
      BY <1>1, <2>4 DEF CommandOK, At
    <3>2. Output(c).file # Outputs(c)[i].file
      <4>1. i \in 1 .. 5 /\ i # cmd[c].next
        BY <3>1
      <4> QED BY <2>4, <3>1, <4>1, FilesDiffer DEF Output
    <3>3. Written(c, i)
      BY <1>1, <2>1, <2>4 DEF SInv, WrittenOK
    <3> QED BY <1>1, <2>2, <3>2, <3>3 DEF Written, Holds, FilesWith
  <2> QED BY <1>1, <2>3, <2>4 DEF CommandOK, At
<1>7. SettledIsConsistent'
  BY <1>1 DEF SettledIsConsistent
<1> QED BY <1>4, <1>5, <1>6, <1>7 DEF SInv

\* After the last write of a pack, its five files are there.
LEMMA PackSettles ==
  ASSUME IInv, TInv, PInv, NEW c \in Commands, At(c, "write"), cmd[c].kind = "pack",
         files' = FilesWith(Outputs(c)[5].file, Outputs(c)[5].content),
         \A i \in 1 .. 4 : Written(c, i)
  PROVE  DirectoryAgrees'
<1> DEFINE lock == LockBy(c)
           place == LockFile(cmd[c].manifest.pack_id)
<1>1. \A i \in 1 .. 5 : /\ Outputs(c)[i].file \in DOMAIN files'
                        /\ files'[Outputs(c)[i].file] = Outputs(c)[i].content
  <2> SUFFICES ASSUME NEW i \in 1 .. 5
               PROVE  /\ Outputs(c)[i].file \in DOMAIN files'
                      /\ files'[Outputs(c)[i].file] = Outputs(c)[i].content
    OBVIOUS
  <2>1. CASE i = 5
    BY <2>1 DEF FilesWith
  <2>2. CASE i # 5
    <3>1. i \in 1 .. 4 /\ Outputs(c)[i].file # Outputs(c)[5].file
      BY <2>2, FilesDiffer
    <3> QED BY <3>1 DEF FilesWith, Written, Holds
  <2> QED BY <2>1, <2>2
<1>2. /\ place \in DOMAIN files' /\ files'[place] = lock
      /\ place.kind = "lock.json"
  <2>1. Outputs(c)[5] = Writes(place, lock)
    BY FilesDiffer
  <2>2. Outputs(c)[5].file = place /\ Outputs(c)[5].content = lock
    BY <2>1 DEF Writes
  <2> QED BY <1>1, <2>2 DEF LockFile
<1>3. lock # Torn
  <2>1. cmd[c].manifest \in ManifestType /\ cmd[c].key \in Keys
    BY DEF PInv, PayloadsTyped, TInv, CommandTyped, At
  <2>2. cmd[c].wasm \in 0 .. MaxCode
    BY <2>1 DEF ManifestType, IInv, CommandsOK, CommandOK, At
  <2>3. AssetNameBy(c) \in AssetNames \cup DefaultNames
    BY <2>1 DEF AssetNameBy, DefaultNames, ManifestType, TInv, CommandTyped, At
  <2>4. SignatureBy(c) \in SignatureType
    BY <2>1 DEF SignatureBy, SignatureType
  <2>5. ArchiveBy(c) \in ArchiveType
    BY <2>1, <2>2, <2>4 DEF ArchiveBy, ArchiveType
  <2>6. cmd[c].manifest.pack_id \in Names
    BY <2>1 DEF ManifestType
  <2>7. lock \in LockType
    BY <2>1, <2>2, <2>3, <2>4, <2>5, <2>6 DEF LockBy, LockType
  <2> QED BY <2>7, TornAssumption
<1>4. lock \in Locks'
  BY <1>2, <1>3 DEF Locks
<1>5. /\ lock.asset_path = AssetNameBy(c) /\ lock.asset = ArchiveBy(c)
      /\ lock.asset.manifest = cmd[c].manifest /\ lock.asset.wasm = cmd[c].wasm
      /\ lock.asset.sig = SignatureBy(c)
  BY DEF LockBy, ArchiveBy
<1>6. /\ Outputs(c)[1].file = Asset(AssetNameBy(c)) /\ Outputs(c)[1].content = ArchiveBy(c)
      /\ Outputs(c)[2].file = ManifestFile /\ Outputs(c)[2].content = cmd[c].manifest
      /\ Outputs(c)[3].file = PayloadFile /\ Outputs(c)[3].content = cmd[c].wasm
      /\ Outputs(c)[4].file = SignatureFile /\ Outputs(c)[4].content = SignatureBy(c)
  <2>1. /\ Outputs(c)[1] = Writes(Asset(AssetNameBy(c)), ArchiveBy(c))
        /\ Outputs(c)[2] = Writes(ManifestFile, cmd[c].manifest)
        /\ Outputs(c)[3] = Writes(PayloadFile, cmd[c].wasm)
        /\ Outputs(c)[4] = Writes(SignatureFile, SignatureBy(c))
    BY FilesDiffer
  <2> QED BY <2>1 DEF Writes
<1> HIDE DEF lock
<1> QED BY <1>1, <1>4, <1>5, <1>6 DEF DirectoryAgrees, Holds

\* Writing a file: alone, a command puts what it says, and others stay as they were.
LEMMA WriteFileSettled ==
  ASSUME IInv, TInv, PInv, SInv, NEW c \in Commands, NEW content, WriteFile(c, content)
  PROVE  SInv'
<1> DEFINE more == cmd[c].next < Len(Outputs(c))
           r == IF more THEN [cmd[c] EXCEPT !.next = @ + 1, !.open = FALSE] ELSE Idle
<1>1. /\ CommandOK(cmd[c]) /\ At(c, "write") /\ cmd[c].open
      /\ cmd' = [d \in Commands |-> IF d = c THEN r ELSE cmd[d]]
      /\ files' = FilesWith(Output(c).file, content) /\ alone' = alone
      /\ settled' = IF more THEN settled ELSE IF c \in alone THEN cmd[c].kind ELSE "no"
  BY DEF WriteFile, Becomes, Ended, IInv, CommandsOK
<1>2. \/ cmd[c].kind = "sign" /\ cmd[c].next = 1 /\ ~more
      \/ cmd[c].kind = "pack" /\ cmd[c].next \in 1 .. 4 /\ more
      \/ cmd[c].kind = "pack" /\ cmd[c].next = 5 /\ ~more
  <2>1. CASE cmd[c].kind = "sign"
    <3>1. cmd[c].next = 1 /\ Len(Outputs(c)) = 1
      BY <1>1, <2>1, OutputsInOrder DEF CommandOK, At
    <3> QED BY <2>1, <3>1
  <2>2. CASE cmd[c].kind = "pack"
    <3>1. cmd[c].next \in 1 .. 5 /\ Len(Outputs(c)) = 5
      BY <1>1, <2>2, OutputsInOrder DEF CommandOK, At
    <3>2. IF cmd[c].next = 5 THEN ~more ELSE more /\ cmd[c].next \in 1 .. 4
      BY <3>1
    <3> QED BY <2>2, <3>2
  <2> QED BY <1>1, <2>1, <2>2 DEF CommandOK, At
<1>3. /\ r.open = FALSE
      /\ more => /\ r.kind = cmd[c].kind /\ r.key = cmd[c].key /\ r.asset = cmd[c].asset
                 /\ r.wasm = cmd[c].wasm /\ r.manifest = cmd[c].manifest
                 /\ r.next = cmd[c].next + 1
      /\ ~more => r.pc = "idle"
  BY <1>1 DEF CommandOK, Idle
<1>4. settled = "no"
  BY <1>1 DEF SInv, NothingOpen
<1>5. \A d \in alone : d = c
  <2> SUFFICES ASSUME NEW d \in alone, d # c PROVE FALSE
    OBVIOUS
  <2>1. d \in Commands
    BY DEF TInv, DirectoryTyped
  <2> QED BY <1>1, <2>1 DEF SInv, Separately, At
<1>6. Separately'
  BY <1>1, <1>5 DEF SInv, Separately, At
<1>7. c \in alone => content = Output(c).content
  BY DEF WriteFile
<1> HIDE DEF r, more
<1>8. NothingOpen'
  <2> SUFFICES ASSUME NEW d \in Commands, cmd'[d].open # FALSE
               PROVE  cmd'[d].pc = "write" /\ settled' = "no"
    BY DEF NothingOpen, At
  <2>1. d # c /\ cmd'[d] = cmd[d]
    BY <1>1, <1>3
  <2>2. cmd[d].pc = "write"
    BY <2>1 DEF SInv, NothingOpen, At
  <2>3. c \notin alone
    BY <2>1, <2>2 DEF SInv, Separately, At
  <2> QED BY <1>1, <1>4, <2>1, <2>2, <2>3
<1>9. WrittenOK'
  <2> SUFFICES ASSUME NEW d \in alone, cmd'[d].pc = "write"
               PROVE  /\ cmd'[d].kind = "sign" => Holds(ManifestFile, cmd[d].manifest)'
                      /\ cmd'[d].kind = "pack" =>
                           \A i \in 1 .. 4 : i < cmd'[d].next => Written(d, i)'
    BY <1>1 DEF WrittenOK, At
  <2>1. d = c /\ cmd'[c] = r /\ more
    BY <1>1, <1>3, <1>5
  <2>2. cmd[c].kind = "pack" /\ cmd[c].next \in 1 .. 4
    BY <1>2, <2>1
  <2>3. Outputs(c)' = Outputs(c)
    BY <1>3, <2>1, SameOutputs
  <2>4. ASSUME NEW i \in 1 .. 4, i < cmd[c].next + 1 PROVE Written(c, i)'
    <3>1. CASE i = cmd[c].next
      BY <1>1, <1>7, <2>1, <2>3, <3>1 DEF Written, Holds, FilesWith, Output
    <3>2. CASE i # cmd[c].next
      <4>1. i < cmd[c].next /\ i \in 1 .. 5 /\ cmd[c].next \in 1 .. 5
        BY <2>2, <2>4, <3>2
      <4>2. Output(c).file # Outputs(c)[i].file
        BY <2>2, <3>2, <4>1, FilesDiffer DEF Output
      <4>3. Written(c, i)
        BY <1>1, <2>1, <2>2, <4>1 DEF SInv, WrittenOK
      <4> QED BY <1>1, <2>3, <4>2, <4>3 DEF Written, Holds, FilesWith
    <3> QED BY <3>1, <3>2
  <2> QED BY <1>3, <2>1, <2>2, <2>4
<1>10. SettledIsConsistent'
  <2>1. CASE more \/ c \notin alone
    BY <1>1, <1>4, <2>1 DEF SettledIsConsistent
  <2>2. CASE ~more /\ c \in alone /\ cmd[c].kind = "sign"
    <3>1. /\ Output(c).file = SignatureFile /\ Output(c).content = SignatureBy(c)
          /\ Holds(ManifestFile, cmd[c].manifest)
      BY <1>1, <1>2, <2>2 DEF Output, Outputs, Writes, SInv, WrittenOK
    <3>2. /\ files'[SignatureFile] = SignatureBy(c)
          /\ files'[ManifestFile] = cmd[c].manifest
      BY <1>1, <1>7, <2>2, <3>1 DEF FilesWith, Holds, ManifestFile, SignatureFile
    <3>3. SignatureBy(c).signed = cmd[c].manifest
      BY DEF SignatureBy
    <3> QED BY <1>1, <2>2, <3>2, <3>3 DEF SettledIsConsistent
  <2>3. CASE ~more /\ c \in alone /\ cmd[c].kind = "pack"
    <3>1. cmd[c].next = 5
      BY <1>2, <2>3
    <3>2. \A i \in 1 .. 4 : Written(c, i)
      BY <1>1, <2>3, <3>1 DEF SInv, WrittenOK
    <3>3. DirectoryAgrees'
      BY <1>1, <1>7, <2>3, <3>1, <3>2, PackSettles DEF Output
    <3> QED BY <1>1, <2>3, <3>3 DEF SettledIsConsistent
  <2> QED BY <1>2, <2>1, <2>2, <2>3
<1> QED BY <1>6, <1>8, <1>9, <1>10 DEF SInv

LEMMA SettledInit == Init => SInv
<1> SUFFICES ASSUME Init PROVE SInv
  OBVIOUS
<1>1. Separately /\ WrittenOK
  BY DEF Init, Separately, WrittenOK
<1>2. NothingOpen
  BY DEF Init, NothingOpen, Idle
<1>3. SettledIsConsistent
  BY DEF Init, SettledIsConsistent
<1> QED BY <1>1, <1>2, <1>3 DEF SInv

LEMMA SettledStep == IInv /\ TInv /\ PInv /\ SInv /\ [Next]_vars => SInv'
<1> SUFFICES ASSUME IInv, TInv, PInv, SInv, [Next]_vars PROVE SInv'
  OBVIOUS
<1>1. ASSUME UNCHANGED <<files, cmd, alone, settled>> PROVE SInv'
  BY <1>1 DEF SInv, Separately, NothingOpen, WrittenOK, SettledIsConsistent, DirectoryAgrees,
     Locks, Holds, Written, Outputs, Writes, AssetNameBy, ArchiveBy, LockBy, SignatureBy, At
<1>2. CASE Author
  BY <1>1, <1>2 DEF Author, Memory
<1>3. ASSUME NEW c \in Commands, Starts(c) PROVE SInv'
  <2>0. ASSUME NEW r, Start(c, r), Quiet(r) PROVE SInv'
    BY <2>0, QuietSettled DEF Start
  <2>1. ASSUME NEW p, NEW compiles, NEW key, NEW asset, StartPack(c, p, compiles, key, asset)
        PROVE  SInv'
    <3>1. Quiet([Idle EXCEPT !.kind = "pack", !.pc = "build", !.project = p,
                   !.compiles = compiles, !.key = key, !.asset = asset])
      BY DEF Quiet, Idle
    <3> QED BY <2>0, <2>1, <3>1 DEF StartPack
  <2>2. ASSUME NEW key, StartSign(c, key) PROVE SInv'
    <3>1. Quiet(IF KeyRefused(key) THEN Idle
                ELSE [Idle EXCEPT !.kind = "sign", !.pc = "read_manifest", !.key = key])
      BY DEF Quiet, Idle
    <3> QED BY <2>0, <2>2, <3>1 DEF StartSign
  <2> QED BY <1>3, <2>1, <2>2 DEF Starts
<1>4. ASSUME NEW c \in Commands, Steps(c) PROVE SInv'
  <2>0. /\ CommandOK(cmd[c])
        /\ ~At(c, "write") => cmd[c].open = FALSE
    BY DEF IInv, CommandsOK, SInv, NothingOpen
  <2>1. ASSUME NEW r, ~At(c, "idle"), Becomes(c, r), Quiet(r), Memory PROVE SInv'
    BY <2>1, QuietSettled DEF Memory
  <2>2. ASSUME ~At(c, "idle"), Ended(c), Memory PROVE SInv'
    BY <2>1, <2>2, IdleQuiet DEF Ended
  <2>3. CASE Build(c)
    <3>1. ASSUME NEW place, NEW since
          PROVE  Quiet([cmd[c] EXCEPT !.pc = "read_wasm", !.place = place, !.since = since])
      BY <2>0, <2>3 DEF Quiet, Build, At, CommandOK
    <3> QED BY <2>1, <2>2, <2>3, <3>1 DEF Build, At
  <2>4. CASE CompilerFails(c)
    BY <2>2, <2>4 DEF CompilerFails, At
  <2>5. CASE ReadWasm(c)
    <3>1. ASSUME NEW wasm PROVE Quiet([cmd[c] EXCEPT !.pc = "read_project", !.wasm = wasm])
      BY <2>0, <2>5 DEF Quiet, ReadWasm, At, CommandOK
    <3> QED BY <2>1, <2>5, <3>1 DEF ReadWasm, At
  <2>6. CASE ReadProject(c)
    <3>1. ASSUME NEW m PROVE Quiet([cmd[c] EXCEPT !.pc = "write", !.manifest = m])
      BY <2>0, <2>6 DEF Quiet, ReadProject, At, CommandOK
    <3> QED BY <2>1, <2>2, <2>6, <3>1 DEF ReadProject, At
  <2>7. CASE ReadManifest(c)
    <3>1. ManifestFile \in DOMAIN files
            => Quiet([cmd[c] EXCEPT !.pc = "write", !.manifest = files[ManifestFile]])
      BY <2>0, <2>7 DEF Quiet, ReadManifest, At, CommandOK, Holds
    <3> QED BY <2>1, <2>2, <2>7, <3>1 DEF ReadManifest, At
  <2>8. CASE OpenFile(c)
    BY <2>8, OpenFileSettled
  <2>9. CASE \E content \in {Output(c).content, Torn} : WriteFile(c, content)
    BY <2>9, WriteFileSettled
  <2>10. CASE Stops(c)
    BY <2>2, <2>10 DEF Stops, Running
  <2> QED
    BY <1>4, <2>3, <2>4, <2>5, <2>6, <2>7, <2>8, <2>9, <2>10 DEF Steps
<1>5. CASE UNCHANGED vars
  BY <1>1, <1>5 DEF vars
<1> QED BY <1>2, <1>3, <1>4, <1>5 DEF Next

\* After a pack that nothing overlapped the directory holds one release, and
\* after such a sign a signature of its manifest, until a file is opened again;
\* it does not matter what the commands before left there.
THEOREM SettledAgrees == Spec => []SettledIsConsistent
<1>1. SInv => SettledIsConsistent
  BY DEF SInv
<1> QED
  BY <1>1, InitOK, NextOK, TypeInit, TypeStep, PayloadInit, PayloadStep, SettledInit,
     SettledStep, PTL DEF Spec

-----------------------------------------------------------------------------
(* The binary that is packed.                                              *)

(***************************************************************************)
(* Where a search finds what the last compilation left depends on the      *)
(* layouts a project goes through: FoundFirst says that none of them looks *)
(* at the output of another one before its own.  A package renamed to      *)
(* something that is not its pack_id violates it.                          *)
(***************************************************************************)

\* The binaries of a project are outputs of its layouts, none from the future.
OutputsOK ==
  \A p \in Projects :
    /\ project[p].layout \in Layouts[p]
    /\ \A place \in DOMAIN targets[p] :
         /\ targets[p][place] <= project[p].code
         /\ \E layout \in Layouts[p] : place = OutputPlace(layout)

\* A binary found is at least as new as what its finder compiled.
Fresh(r, binaries) ==
  /\ r.pc = "read_wasm" => r.since \in Nat /\ binaries[r.project][r.place] >= r.since
  /\ r.pc \in {"read_project", "read_manifest", "write"} => r.wasm >= r.since

NInv == OutputsOK /\ \A c \in Commands : Fresh(cmd[c], targets)

\* After a compilation the search returns the compiler's output.
LEMMA CompiledIsFound ==
  ASSUME FoundFirst, TInv, OutputsOK, NEW p \in Projects,
         ~WasmNotFound(project[p].layout, Compiled(p))
  PROVE  Found(project[p].layout, Compiled(p)) = OutputPlace(project[p].layout)
<1> DEFINE layout == project[p].layout
           binaries == Compiled(p)
           hits == Hits(layout, binaries)
           g == CHOOSE x \in hits : \A k \in hits : Before(x, k)
<1>1. layout \in Layouts[p]
  BY DEF OutputsOK
<1>2. /\ OutputPlace(layout) \in DOMAIN binaries
      /\ \A place \in DOMAIN binaries : \E other \in Layouts[p] : place = OutputPlace(other)
  BY <1>1 DEF Compiled, OutputPlace, OutputsOK
<1>3. PICK h \in Searched(layout) :
        /\ PlaceOf(layout, h) = OutputPlace(layout)
        /\ \A k \in Searched(layout), other \in Layouts[p] :
             PlaceOf(layout, k) = OutputPlace(other) => Before(h, k)
  BY <1>1 DEF FoundFirst
<1>4. /\ h \in hits
      /\ \A k \in hits : k \in Searched(layout) /\ PlaceOf(layout, k) \in DOMAIN binaries
  BY <1>2, <1>3 DEF Hits, Searched
<1>5. \A k \in hits : Before(h, k)
  BY <1>2, <1>3, <1>4
<1>6. g \in hits /\ Before(g, h) /\ Before(h, g)
  BY <1>4, <1>5
<1>7. g = h
  <2>1. /\ g = <<g[1], g[2]>> /\ h = <<h[1], h[2]>>
        /\ g[1] \in 1 .. 7 /\ g[2] \in 1 .. 7 /\ h[1] \in 1 .. 7 /\ h[2] \in 1 .. 7
    BY <1>3, <1>4, <1>6, CandidatesFew DEF Searched
  <2> HIDE DEF g
  <2>2. ASSUME NEW i \in 1 .. 7, NEW j \in 1 .. 7, NEW k \in 1 .. 7, NEW l \in 1 .. 7,
               i < k \/ (i = k /\ j <= l), k < i \/ (k = i /\ l <= j)
        PROVE  i = k /\ j = l
    BY <2>2
  <2>3. g[1] = h[1] /\ g[2] = h[2]
    BY <1>6, <2>1, <2>2 DEF Before
  <2> QED BY <2>1, <2>3
<1> QED BY <1>3, <1>7 DEF Found

\* A command whose record changes, while no binary gets older.
LEMMA BecomesFresh ==
  ASSUME IInv, TInv, PInv, NInv, NEW c \in Commands, NEW r, Becomes(c, r),
         Fresh(r, targets'), OutputsOK', TargetsTyped',
         \A p \in Projects : \A place \in DOMAIN targets[p] :
           place \in DOMAIN targets'[p] /\ targets[p][place] <= targets'[p][place]
  PROVE  NInv'
<1>1. cmd' = [d \in Commands |-> IF d = c THEN r ELSE cmd[d]]
  BY DEF Becomes, IInv, CommandsOK
<1>2. ASSUME NEW d \in Commands PROVE Fresh(cmd'[d], targets')
  <2>1. CASE d = c
    BY <1>1, <2>1
  <2>2. CASE d # c
    <3>1. cmd'[d] = cmd[d] /\ Fresh(cmd[d], targets)
      BY <1>1, <2>2 DEF NInv
    <3>2. ASSUME cmd[d].pc = "read_wasm"
          PROVE  targets'[cmd[d].project][cmd[d].place] >= cmd[d].since
      <4> DEFINE p == cmd[d].project
                 place == cmd[d].place
      <4>1. p \in Projects /\ place \in DOMAIN targets[p]
        BY <3>2 DEF IInv, CommandsOK, CommandOK, TInv, CommandTyped, PInv, PayloadsTyped, At
      <4>2. /\ targets[p][place] \in 0 .. MaxCode /\ targets'[p][place] \in 0 .. MaxCode
            /\ targets[p][place] <= targets'[p][place]
        BY <4>1 DEF PInv, TargetsTyped, BinariesTyped
      <4>3. cmd[d].since \in Nat /\ targets[p][place] >= cmd[d].since
        BY <3>1, <3>2 DEF Fresh
      <4> QED BY <4>2, <4>3
    <3> QED BY <3>1, <3>2 DEF Fresh
  <2> QED BY <2>1, <2>2
<1> QED BY <1>2 DEF NInv

LEMMA IdleFresh == \A binaries : Fresh(Idle, binaries)
BY DEF Fresh, Idle

LEMMA FreshInit == Init => NInv
<1> SUFFICES ASSUME Init PROVE NInv
  OBVIOUS
<1>1. OutputsOK
  <2> SUFFICES ASSUME NEW p \in Projects
               PROVE  project[p].layout \in Layouts[p] /\ DOMAIN targets[p] = {}
    BY DEF OutputsOK
  <2> QED BY DEF Init, BuildInit
<1> QED BY <1>1, IdleFresh DEF Init, NInv

LEMMA BuildFresh ==
  ASSUME FoundFirst, IInv, TInv, PInv, PInv', NInv, NEW c \in Commands, Build(c)
  PROVE  NInv'
<1> DEFINE p == cmd[c].project
           binaries == IF cmd[c].compiles THEN Compiled(p) ELSE targets[p]
           since == IF cmd[c].compiles THEN project[p].code ELSE 0
           place == Found(project[p].layout, binaries)
           r == [cmd[c] EXCEPT !.pc = "read_wasm", !.place = place, !.since = since]
<1>1. CommandOK(cmd[c]) /\ CommandTyped(cmd[c]) /\ cmd[c].pc = "build"
  BY DEF IInv, CommandsOK, TInv, Build, At
<1>2. p \in Projects /\ project[p].code \in 0 .. MaxCode /\ project' = project
  BY <1>1 DEF CommandOK, CommandTyped, TInv, DirectoryTyped, ProjectType, Build
<1>3. /\ targets' = [targets EXCEPT ![p] = binaries]
      /\ IF WasmNotFound(project[p].layout, binaries) THEN Ended(c) ELSE Becomes(c, r)
  BY DEF Build
<1>4. \A q \in Projects : BinariesTyped(targets[q])
  BY DEF PInv, TargetsTyped
<1>5. /\ BinariesTyped(binaries)
      /\ \A x \in DOMAIN targets[p] : x \in DOMAIN binaries /\ targets[p][x] <= binaries[x]
      /\ \A x \in DOMAIN binaries : /\ binaries[x] <= project[p].code
                                    /\ \E layout \in Layouts[p] : x = OutputPlace(layout)
  <2>1. CASE cmd[c].compiles
    <3>1. /\ project[p].layout \in Layouts[p]
          /\ \A x \in DOMAIN targets[p] : /\ targets[p][x] \in 0 .. MaxCode
                                          /\ targets[p][x] <= project[p].code
                                          /\ \E layout \in Layouts[p] : x = OutputPlace(layout)
      BY <1>2, <1>4 DEF NInv, OutputsOK, BinariesTyped
    <3>2. /\ DOMAIN binaries = DOMAIN targets[p] \cup {OutputPlace(project[p].layout)}
          /\ \A x \in DOMAIN binaries :
               binaries[x] = IF x = OutputPlace(project[p].layout) THEN project[p].code
                                                                   ELSE targets[p][x]
      BY <2>1 DEF Compiled, OutputPlace
    <3>3. BinariesTyped(binaries)
      BY <1>2, <2>1, CompiledTyped
    <3> HIDE DEF binaries
    <3>4. \A x \in DOMAIN targets[p] : x \in DOMAIN binaries /\ targets[p][x] <= binaries[x]
      BY <1>2, <3>1, <3>2
    <3>5. \A x \in DOMAIN binaries : /\ binaries[x] <= project[p].code
                                     /\ \E layout \in Layouts[p] : x = OutputPlace(layout)
      BY <1>2, <3>1, <3>2
    <3> QED BY <3>3, <3>4, <3>5
  <2>2. CASE ~cmd[c].compiles
    BY <1>2, <1>4, <2>2 DEF NInv, OutputsOK, BinariesTyped
  <2> QED BY <2>1, <2>2
<1>6. ~WasmNotFound(project[p].layout, binaries)
        => place \in DOMAIN binaries /\ binaries[place] >= since
  <2> SUFFICES ASSUME ~WasmNotFound(project[p].layout, binaries)
               PROVE  place \in DOMAIN binaries /\ binaries[place] >= since
    OBVIOUS
  <2>1. place \in DOMAIN binaries
    BY FoundIsThere
  <2>2. CASE cmd[c].compiles
    <3>1. place = OutputPlace(project[p].layout)
      BY <1>2, <2>2, CompiledIsFound DEF NInv
    <3>2. binaries[place] = project[p].code
      BY <2>1, <2>2, <3>1 DEF Compiled, OutputPlace
    <3> QED BY <1>2, <2>1, <2>2, <3>2
  <2>3. CASE ~cmd[c].compiles
    BY <1>5, <2>1, <2>3 DEF BinariesTyped
  <2> QED BY <2>2, <2>3
<1>7. targets = [q \in Projects |-> targets[q]] /\ TargetsTyped'
  BY DEF PInv, TargetsTyped
<1> HIDE DEF binaries, since, place
<1>8. targets' = [q \in Projects |-> IF q = p THEN binaries ELSE targets[q]]
  BY <1>3, <1>7
<1>9. OutputsOK'
  BY <1>2, <1>5, <1>8 DEF NInv, OutputsOK
<1>10. \A q \in Projects : \A x \in DOMAIN targets[q] :
         x \in DOMAIN targets'[q] /\ targets[q][x] <= targets'[q][x]
  BY <1>4, <1>5, <1>8 DEF BinariesTyped
<1>11. CASE WasmNotFound(project[p].layout, binaries)
  BY <1>3, <1>7, <1>9, <1>10, <1>11, IdleFresh, BecomesFresh DEF Ended
<1>12. CASE ~WasmNotFound(project[p].layout, binaries)
  <2>1. r.pc = "read_wasm" /\ r.project = p /\ r.place = place /\ r.since = since
    BY <1>1 DEF CommandOK
  <2>2. since \in Nat
    BY <1>2 DEF since
  <2>3. Fresh(r, targets')
    BY <1>2, <1>6, <1>8, <1>12, <2>1, <2>2 DEF Fresh
  <2> QED BY <1>3, <1>7, <1>9, <1>10, <1>12, <2>3, BecomesFresh
<1> QED BY <1>11, <1>12

LEMMA FreshStep == FoundFirst /\ IInv /\ TInv /\ PInv /\ PInv' /\ NInv /\ [Next]_vars => NInv'
<1> SUFFICES ASSUME FoundFirst, IInv, TInv, PInv, PInv', NInv, [Next]_vars PROVE NInv'
  OBVIOUS
<1>1. ASSUME UNCHANGED <<project, targets>>, NEW c \in Commands, NEW r, Becomes(c, r),
             Fresh(r, targets)
      PROVE  NInv'
  <2>1. OutputsOK' /\ TargetsTyped'
    BY <1>1 DEF NInv, OutputsOK, PInv
  <2>2. \A p \in Projects : \A place \in DOMAIN targets[p] : targets[p][place] <= targets[p][place]
    BY DEF PInv, TargetsTyped, BinariesTyped
  <2> QED BY <1>1, <2>1, <2>2, BecomesFresh
<1>2. ASSUME NEW c \in Commands, Ended(c), UNCHANGED <<project, targets>> PROVE NInv'
  BY <1>1, <1>2, IdleFresh DEF Ended
<1>3. CASE Author
  <2>1. PICK p \in Projects, version \in 0 .. MaxCode :
          \E layout \in Layouts[p] : Edit(p, layout, version)
    BY <1>3 DEF Author
  <2>2. PICK layout \in Layouts[p] : Edit(p, layout, version)
    BY <2>1
  <2>3. /\ UNCHANGED <<cmd, targets>>
        /\ project' = [project EXCEPT ![p] = [layout |-> layout, code |-> @.code + 1,
                                              version |-> version]]
    BY <1>3, <2>2 DEF Author, Edit
  <2>4. ASSUME NEW q \in Projects
        PROVE  /\ project'[q].layout \in Layouts[q]
               /\ project[q].code \in Nat /\ project'[q].code \in Nat
               /\ project[q].code <= project'[q].code
    <3>1. /\ project[q] \in ProjectType /\ project \in [Projects -> ProjectType]
          /\ project[q].layout \in Layouts[q]
      BY DEF TInv, DirectoryTyped, NInv, OutputsOK
    <3>2. project[q].code \in Nat
      BY <3>1 DEF ProjectType
    <3>3. CASE q = p
      <4>1. project'[q].layout = layout /\ project'[q].code = project[q].code + 1
        BY <2>3, <3>1, <3>3
      <4> QED BY <2>2, <3>2, <3>3, <4>1
    <3>4. CASE q # p
      BY <2>3, <3>1, <3>2, <3>4
    <3> QED BY <3>3, <3>4
  <2>5. OutputsOK'
    <3> SUFFICES ASSUME NEW q \in Projects, NEW place \in DOMAIN targets[q]
                 PROVE  /\ targets[q][place] <= project'[q].code
                        /\ \E other \in Layouts[q] : place = OutputPlace(other)
      BY <2>3, <2>4 DEF OutputsOK
    <3>1. /\ targets[q][place] \in 0 .. MaxCode /\ targets[q][place] <= project[q].code
          /\ \E other \in Layouts[q] : place = OutputPlace(other)
      BY DEF NInv, OutputsOK, PInv, TargetsTyped, BinariesTyped
    <3> QED BY <2>4, <3>1
  <2> QED BY <2>3, <2>5 DEF NInv, Fresh
<1>4. ASSUME NEW c \in Commands, Starts(c) PROVE NInv'
  <2>1. ASSUME NEW p, NEW compiles, NEW key, NEW asset, StartPack(c, p, compiles, key, asset)
        PROVE  NInv'
    <3> DEFINE r == [Idle EXCEPT !.kind = "pack", !.pc = "build", !.project = p,
                       !.compiles = compiles, !.key = key, !.asset = asset]
    <3>1. Fresh(r, targets)
      BY DEF Fresh, Idle
    <3> QED BY <1>1, <2>1, <3>1 DEF StartPack, Start
  <2>2. ASSUME NEW key, StartSign(c, key) PROVE NInv'
    <3> DEFINE r == IF KeyRefused(key) THEN Idle
                    ELSE [Idle EXCEPT !.kind = "sign", !.pc = "read_manifest", !.key = key]
    <3>1. Fresh(r, targets)
      BY DEF Fresh, Idle
    <3> QED BY <1>1, <2>2, <3>1 DEF StartSign, Start
  <2> QED BY <1>4, <2>1, <2>2 DEF Starts
<1>5. ASSUME NEW c \in Commands, Steps(c) PROVE NInv'
  <2>1. CommandOK(cmd[c]) /\ Fresh(cmd[c], targets)
    BY DEF IInv, CommandsOK, NInv
  <2>2. CASE Build(c)
    BY <2>2, BuildFresh
  <2>3. CASE CompilerFails(c)
    BY <1>2, <2>3 DEF CompilerFails
  <2>4. CASE ReadWasm(c)
    <3> DEFINE wasm == targets[cmd[c].project][cmd[c].place]
               r == [cmd[c] EXCEPT !.pc = "read_project", !.wasm = wasm]
    <3>1. wasm >= cmd[c].since
      BY <2>1, <2>4 DEF ReadWasm, At, Fresh
    <3>2. r.pc = "read_project" /\ r.wasm = wasm /\ r.since = cmd[c].since
      <4> HIDE DEF wasm
      <4> QED BY <2>1 DEF CommandOK
    <3>3. Fresh(r, targets)
      BY <3>1, <3>2 DEF Fresh
    <3> QED BY <1>1, <2>4, <3>3 DEF ReadWasm
  <2>5. CASE ReadProject(c)
    <3> DEFINE r == [cmd[c] EXCEPT !.pc = "write", !.manifest = ManifestOf(c)]
    <3>1. Fresh(r, targets)
      BY <2>1, <2>5 DEF ReadProject, At, Fresh, CommandOK
    <3> QED BY <1>1, <1>2, <2>5, <3>1 DEF ReadProject
  <2>6. CASE ReadManifest(c)
    <3> DEFINE r == [cmd[c] EXCEPT !.pc = "write", !.manifest = files[ManifestFile]]
    <3>1. Fresh(r, targets)
      BY <2>1, <2>6 DEF ReadManifest, At, Fresh, CommandOK
    <3> QED BY <1>1, <1>2, <2>6, <3>1 DEF ReadManifest
  <2>7. CASE OpenFile(c)
    <3>1. Fresh([cmd[c] EXCEPT !.open = TRUE], targets)
      BY <2>1 DEF Fresh, CommandOK
    <3> QED BY <1>1, <2>7, <3>1 DEF OpenFile
  <2>8. ASSUME NEW content, WriteFile(c, content) PROVE NInv'
    <3>1. Fresh([cmd[c] EXCEPT !.next = @ + 1, !.open = FALSE], targets)
      BY <2>1 DEF Fresh, CommandOK
    <3> QED BY <1>1, <1>2, <2>8, <3>1 DEF WriteFile
  <2>9. CASE Stops(c)
    BY <1>2, <2>9 DEF Stops
  <2> QED BY <1>5, <2>2, <2>3, <2>4, <2>5, <2>6, <2>7, <2>8, <2>9 DEF Steps
<1>6. CASE UNCHANGED vars
  BY <1>6 DEF vars, NInv, OutputsOK, Fresh
<1> QED BY <1>3, <1>4, <1>5, <1>6 DEF Next

\* Unless a project goes through layouts of which one looks at the output of
\* another before its own, a pack that compiles packs nothing older.
THEOREM NothingOlderPacked ==
  ASSUME FoundFirst
  PROVE  Spec => []PayloadNotOlder
<1>1. NInv => PayloadNotOlder
  BY DEF NInv, Fresh, PayloadNotOlder
<1>2. IInv /\ TInv /\ PInv /\ NInv /\ [Next]_vars => NInv'
  BY FreshStep, PayloadStep
<1> QED
  BY <1>1, <1>2, InitOK, NextOK, TypeInit, TypeStep, PayloadInit, PayloadStep, FreshInit,
     PTL DEF Spec

=============================================================================
