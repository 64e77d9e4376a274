---------------------------- MODULE ReplayArchive ----------------------------
(***************************************************************************)
(* The ingest daemon (runtime/scanner.py, runtime/archive.py), the probe   *)
(* worker (runtime/worker.py) and the two ledger tables and the archive    *)
(* directory they share, with an uploader that replaces, removes and       *)
(* settles incoming files while they work, and crashes of either process.  *)
(*                                                                         *)
(* A byte string stands for its own SHA-256 (no collisions).  A file       *)
(* carries a stamp that stands for its inode, size, mtime and ctime: every *)
(* change of the file at a path gives it a fresh one.  (The scanner's own  *)
(* test reads size and mtime_ns only: two files at one path are taken to   *)
(* differ in them.)  Each SQLite commit is one step, because every write   *)
(* method of RuntimeState commits alone.                                   *)
(***************************************************************************)
EXTENDS Naturals, FiniteSets

CONSTANTS Paths,        \* incoming paths ending in .hbr2
          Contents,     \* whole byte strings an uploader may write
          Torn,         \* a mixture read while a file was being overwritten
          HeaderOK,     \* byte strings that pass validate_replay_basic
          PayloadOK,    \* byte strings whose deflate payload decompresses
          NoFile,       \* no file at a path; also the NULL sha256 of a row
          BatchSize,    \* --batch-size of the worker
          MaxUploads,   \* bound: writes by the uploader
          MaxCrashes,   \* bound: crashes of the two processes together
          MaxFaults     \* bound: objects damaged or deleted, each once, in the archive

Bytes == Contents \union {Torn}

ASSUME ArchiveAssumption ==
    /\ Torn \notin Contents
    /\ NoFile \notin Bytes
    /\ HeaderOK \subseteq Bytes
    /\ PayloadOK \subseteq HeaderOK \ {Torn}
    /\ BatchSize \in Nat \ {0}
    /\ MaxUploads \in Nat /\ MaxCrashes \in Nat /\ MaxFaults \in Nat

VARIABLES
    \* the incoming directory, and the uploader's history
    incoming,     \* the bytes at each incoming path
    stamp,        \* the stamp of the file at each incoming path
    settled,      \* paths whose mtime is older than --minimum-file-age
    uploads,      \* how many files were ever written; the latest stamp
    offered,      \* history: byte strings ever put at an incoming path
    \* the archive directory
    object,       \* the bytes at archive_path_for(sha256)
    objectStamp,  \* the stamp of that inode
    damaged,      \* history: objects an administrator damaged or deleted
    \* the ledger
    sources,      \* source_files: one row per incoming path
    rawRows,      \* raw_replays: the registered hashes
    processing,   \* replay_processing: "none" is the absence of a row
    \* the ingest daemon
    pc, todo, path, statStamp, openStamp, openBytes, staged, isDup, linked,
    \* the probe worker
    wpc, batch, probed, probeStamp, outcome,
    crashes

uploaderVars == <<incoming, stamp, settled, uploads, offered>>
objectVars   == <<object, objectStamp, damaged>>
localVars    == <<path, statStamp, openStamp, openBytes, staged, isDup, linked>>
ingestVars   == <<pc, todo, localVars>>
workerVars   == <<wpc, batch, probed, probeStamp, outcome>>
vars == <<uploaderVars, objectVars, sources, rawRows, processing,
          ingestVars, workerVars, crashes>>

NoSource == [status |-> "none", stamp |-> 0, sha256 |-> NoFile]

Init ==
    /\ incoming = [p \in Paths |-> NoFile]
    /\ stamp = [p \in Paths |-> 0]
    /\ settled = {}
    /\ uploads = 0
    /\ offered = {}
    /\ object = [c \in Bytes |-> NoFile]
    /\ objectStamp = [c \in Bytes |-> 0]
    /\ damaged = {}
    /\ sources = [p \in Paths |-> NoSource]
    /\ rawRows = {}
    /\ processing = [c \in Bytes |-> "none"]
    /\ pc = "idle" /\ todo = {} /\ path = NoFile
    /\ statStamp = 0 /\ openStamp = 0 /\ openBytes = NoFile
    /\ staged = NoFile /\ isDup = FALSE /\ linked = FALSE
    /\ wpc = "idle" /\ batch = {} /\ probed = NoFile
    /\ probeStamp = 0 /\ outcome = "none"
    /\ crashes = 0

-----------------------------------------------------------------------------
(* The uploader, and an administrator who damages the archive.             *)

\* A write or a rename puts new bytes, and so a new stamp, at a path.
Upload(p, c) ==
    /\ uploads < MaxUploads
    /\ uploads' = uploads + 1
    /\ incoming' = [incoming EXCEPT ![p] = c]
    /\ stamp' = [stamp EXCEPT ![p] = uploads + 1]
    /\ settled' = settled \ {p}
    /\ offered' = offered \union {c}
    /\ UNCHANGED <<objectVars, sources, rawRows, processing, ingestVars,
                   workerVars, crashes>>

Remove(p) ==
    /\ incoming[p] # NoFile
    /\ incoming' = [incoming EXCEPT ![p] = NoFile]
    /\ settled' = settled \ {p}
    /\ UNCHANGED <<stamp, uploads, offered, objectVars, sources, rawRows,
                   processing, ingestVars, workerVars, crashes>>

\* The minimum file age passes without another write to p.
Settle(p) ==
    /\ incoming[p] # NoFile
    /\ p \notin settled
    /\ settled' = settled \union {p}
    /\ UNCHANGED <<incoming, stamp, uploads, offered, objectVars, sources,
                   rawRows, processing, ingestVars, workerVars, crashes>>

DamageObject(c) ==
    /\ Cardinality(damaged) < MaxFaults
    /\ c \notin damaged
    /\ object[c] = c
    /\ damaged' = damaged \union {c}
    /\ \E bytes \in (Bytes \union {NoFile}) \ {c} :
          object' = [object EXCEPT ![c] = bytes]
    /\ objectStamp' = [objectStamp EXCEPT ![c] = @ + 1]
    /\ UNCHANGED <<uploaderVars, sources, rawRows, processing, ingestVars,
                   workerVars, crashes>>

-----------------------------------------------------------------------------
(* The ingest daemon: scan_once, which calls archive_replay for each path. *)

ForgetLocals ==
    /\ path' = NoFile
    /\ statStamp' = 0 /\ openStamp' = 0 /\ openBytes' = NoFile
    /\ staged' = NoFile /\ isDup' = FALSE /\ linked' = FALSE

\* The rglob listing.
StartScan ==
    /\ pc = "idle"
    /\ pc' = "scan"
    /\ todo' = {p \in Paths : incoming[p] # NoFile}
    /\ UNCHANGED <<uploaderVars, objectVars, sources, rawRows, processing,
                   localVars, workerVars, crashes>>

\* Faulty variant of Unchanged: any row of p makes the scan skip it.
KnownPath(p) == sources[p].status # "none"

\* The row of p says that the file now at p was already ingested.
Unchanged(p) ==
    /\ sources[p].status \in {"archived", "duplicate"}
    /\ sources[p].stamp = stamp[p]

\* The three `continue`s: gone since the listing, still uploading, unchanged.
SkipSource(p) ==
    /\ pc = "scan"
    /\ p \in todo
    /\ \/ incoming[p] = NoFile
       \/ p \notin settled
       \/ Unchanged(p)
    /\ todo' = todo \ {p}
    /\ UNCHANGED <<uploaderVars, objectVars, sources, rawRows, processing,
                   pc, localVars, workerVars, crashes>>

\* path.stat() finds a settled file that the ledger does not know.
TakeSource(p) ==
    /\ pc = "scan"
    /\ p \in todo
    /\ incoming[p] # NoFile
    /\ p \in settled
    /\ ~Unchanged(p)
    /\ pc' = "open"
    /\ todo' = todo \ {p}
    /\ path' = p
    /\ statStamp' = stamp[p]
    /\ UNCHANGED <<uploaderVars, objectVars, sources, rawRows, processing,
                   openStamp, openBytes, staged, isDup, linked, workerVars,
                   crashes>>

\* source_path.stat() and _open_verified_source.
OpenSource ==
    /\ pc = "open"
    /\ IF incoming[path] = NoFile
       THEN /\ pc' = "fail"
            /\ UNCHANGED <<openStamp, openBytes>>
       ELSE /\ pc' = "copy"
            /\ openStamp' = stamp[path]
            /\ openBytes' = incoming[path]
    /\ UNCHANGED <<uploaderVars, objectVars, sources, rawRows, processing,
                   todo, path, statStamp, staged, isDup, linked, workerVars,
                   crashes>>

\* Faulty variant of SourceHeld: only the existence of the path is rechecked.
SourceStillThere == incoming[path] # NoFile

\* The file opened is still the file at the path, with the same stamp.
SourceHeld ==
    /\ incoming[path] # NoFile
    /\ stamp[path] = openStamp

\* What the copy loop may read: the opened bytes; after an overwrite in
\* place, the new bytes or a mixture as well.
Readable ==
    IF SourceHeld THEN {openBytes}
    ELSE ({openBytes, Torn, incoming[path]} \ {NoFile})

CopySource ==
    /\ pc = "copy"
    /\ pc' = "recheck"
    /\ staged' \in Readable
    /\ UNCHANGED <<uploaderVars, objectVars, sources, rawRows, processing,
                   todo, path, statStamp, openStamp, openBytes, isDup, linked,
                   workerVars, crashes>>

\* The fstat and lstat comparisons at the end of _copy_to_staging_and_hash.
RecheckCopy ==
    /\ pc = "recheck"
    /\ pc' = IF SourceHeld THEN "validate" ELSE "fail"
    /\ UNCHANGED <<uploaderVars, objectVars, sources, rawRows, processing,
                   todo, localVars, workerVars, crashes>>

\* archive_replay's own second stat, then validate_replay_basic on staging.
ValidateStaged ==
    /\ pc = "validate"
    /\ pc' = IF SourceHeld /\ staged \in HeaderOK THEN "publish" ELSE "fail"
    /\ UNCHANGED <<uploaderVars, objectVars, sources, rawRows, processing,
                   todo, localVars, workerVars, crashes>>

\* Faulty variant of VerifyDuplicate: the duplicate flag is lost.
VerifyWithoutFlag ==
    /\ pc = "publish"
    /\ staged \in rawRows
    /\ pc' = IF object[staged] = staged THEN "cleanup" ELSE "fail"
    /\ UNCHANGED <<uploaderVars, objectVars, sources, rawRows, processing,
                   todo, localVars, workerVars, crashes>>

\* raw_exists: the object must still be there and hash to its name.
VerifyDuplicate ==
    /\ pc = "publish"
    /\ staged \in rawRows
    /\ isDup' = TRUE
    /\ pc' = IF object[staged] = staged THEN "cleanup" ELSE "fail"
    /\ UNCHANGED <<uploaderVars, objectVars, sources, rawRows, processing,
                   todo, path, statStamp, openStamp, openBytes, staged, linked,
                   workerVars, crashes>>

\* Faulty variant of LinkObject: publication by rename, which overwrites.
RenameObject ==
    /\ pc = "publish"
    /\ staged \notin rawRows
    /\ object' = [object EXCEPT ![staged] = staged]
    /\ objectStamp' = [objectStamp EXCEPT ![staged] = @ + 1]
    /\ linked' = FALSE
    /\ pc' = "register"
    /\ UNCHANGED <<uploaderVars, damaged, sources, rawRows, processing,
                   todo, path, statStamp, openStamp, openBytes, staged, isDup,
                   workerVars, crashes>>

\* os.link gives the staging inode its archive name.
LinkObject ==
    /\ pc = "publish"
    /\ staged \notin rawRows
    /\ object[staged] = NoFile
    /\ object' = [object EXCEPT ![staged] = staged]
    /\ objectStamp' = [objectStamp EXCEPT ![staged] = @ + 1]
    /\ linked' = TRUE
    /\ pc' = "register"
    /\ UNCHANGED <<uploaderVars, damaged, sources, rawRows, processing,
                   todo, path, statStamp, openStamp, openBytes, staged, isDup,
                   workerVars, crashes>>

\* FileExistsError: accept the object an earlier run left, if it is intact.
AdoptObject ==
    /\ pc = "publish"
    /\ staged \notin rawRows
    /\ object[staged] # NoFile
    /\ pc' = IF object[staged] = staged THEN "register" ELSE "fail"
    /\ UNCHANGED <<uploaderVars, objectVars, sources, rawRows, processing,
                   todo, localVars, workerVars, crashes>>

RegisterRaw ==
    /\ pc = "register"
    /\ rawRows' = rawRows \union {staged}
    /\ pc' = "cleanup"
    /\ UNCHANGED <<uploaderVars, objectVars, sources, processing, todo,
                   localVars, workerVars, crashes>>

\* The finally clause unlinks the staging name; when it is a second name of
\* the archive object, that inode's link count and ctime change with it.
UnlinkStaging ==
    /\ pc = "cleanup"
    /\ pc' = "mark"
    /\ linked' = FALSE
    /\ objectStamp' = IF linked /\ object[staged] = staged
                      THEN [objectStamp EXCEPT ![staged] = @ + 1]
                      ELSE objectStamp
    /\ UNCHANGED <<uploaderVars, object, damaged, sources, rawRows, processing,
                   todo, path, statStamp, openStamp, openBytes, staged, isDup,
                   workerVars, crashes>>

\* Faulty variant of MarkSource: the path is stat'ed again after archiving.
MarkRestated ==
    /\ pc = "mark"
    /\ sources' = [sources EXCEPT ![path] =
                     [status |-> IF isDup THEN "duplicate" ELSE "archived",
                      stamp |-> stamp[path], sha256 |-> staged]]
    /\ pc' = "scan"
    /\ ForgetLocals
    /\ UNCHANGED <<uploaderVars, objectVars, rawRows, processing, todo,
                   workerVars, crashes>>

\* mark_seen after success, with the stat taken before archive_replay.
MarkSource ==
    /\ pc = "mark"
    /\ sources' = [sources EXCEPT ![path] =
                     [status |-> IF isDup THEN "duplicate" ELSE "archived",
                      stamp |-> statStamp, sha256 |-> staged]]
    /\ pc' = "scan"
    /\ ForgetLocals
    /\ UNCHANGED <<uploaderVars, objectVars, rawRows, processing, todo,
                   workerVars, crashes>>

\* mark_seen in the except clause.
FailSource ==
    /\ pc = "fail"
    /\ sources' = [sources EXCEPT ![path] =
                     [status |-> "failed", stamp |-> statStamp,
                      sha256 |-> NoFile]]
    /\ pc' = "scan"
    /\ ForgetLocals
    /\ UNCHANGED <<uploaderVars, objectVars, rawRows, processing, todo,
                   workerVars, crashes>>

EndScan ==
    /\ pc = "scan"
    /\ todo = {}
    /\ pc' = "idle"
    /\ UNCHANGED <<uploaderVars, objectVars, sources, rawRows, processing,
                   todo, localVars, workerVars, crashes>>

\* The process dies and systemd restarts it; its staging file stays behind.
CrashIngest ==
    /\ pc # "idle"
    /\ crashes < MaxCrashes
    /\ crashes' = crashes + 1
    /\ pc' = "idle"
    /\ todo' = {}
    /\ ForgetLocals
    /\ UNCHANGED <<uploaderVars, objectVars, sources, rawRows, processing,
                   workerVars>>

-----------------------------------------------------------------------------
(* The probe worker: process_batch over _verified_archive_bytes.           *)

\* Faulty variants of Unprocessed: failed probes are selected again; only
\* rows with an "archived" source are selected.
UnprocessedOrFailed == {c \in rawRows : processing[c] # "ok"}
UnprocessedArchived ==
    {c \in rawRows : /\ processing[c] = "none"
                     /\ \E p \in Paths : /\ sources[p].status = "archived"
                                         /\ sources[p].sha256 = c}

\* The rows without a processing row, whatever became of their sources.
Unprocessed == {c \in rawRows : processing[c] = "none"}

\* list_unprocessed_replays(limit).
SelectBatch ==
    /\ wpc = "idle"
    /\ Unprocessed # {}
    /\ \E b \in SUBSET Unprocessed :
          /\ IF Cardinality(Unprocessed) <= BatchSize
             THEN b = Unprocessed
             ELSE Cardinality(b) = BatchSize
          /\ batch' = b
    /\ wpc' = "probe"
    /\ UNCHANGED <<uploaderVars, objectVars, sources, rawRows, processing,
                   ingestVars, probed, probeStamp, outcome, crashes>>

\* lstat, open and the first fstat of the archived object.
OpenObject(c) ==
    /\ wpc = "probe"
    /\ c \in batch
    /\ probed' = c
    /\ IF object[c] = NoFile
       THEN /\ wpc' = "record"
            /\ outcome' = "failed"
            /\ UNCHANGED probeStamp
       ELSE /\ wpc' = "read"
            /\ probeStamp' = objectStamp[c]
            /\ UNCHANGED outcome
    /\ UNCHANGED <<uploaderVars, objectVars, sources, rawRows, processing,
                   ingestVars, batch, crashes>>

\* Faulty variant of ReadVerified: the digest is not compared.
ReadUnhashed ==
    /\ object[probed] # NoFile
    /\ objectStamp[probed] = probeStamp

\* The read is accepted when the second fstat and the last lstat find the
\* stamp of the first fstat, and the bytes hash to the registered digest.
ReadVerified ==
    /\ object[probed] = probed
    /\ objectStamp[probed] = probeStamp

ReadObject ==
    /\ wpc = "read"
    /\ wpc' = "record"
    /\ outcome' = IF ReadVerified /\ object[probed] \in PayloadOK
                  THEN "ok" ELSE "failed"
    /\ UNCHANGED <<uploaderVars, objectVars, sources, rawRows, processing,
                   ingestVars, batch, probed, probeStamp, crashes>>

\* mark_replay_processing.
RecordProbe ==
    /\ wpc = "record"
    /\ processing' = [processing EXCEPT ![probed] = outcome]
    /\ batch' = batch \ {probed}
    /\ wpc' = IF batch' = {} THEN "idle" ELSE "probe"
    /\ probed' = NoFile /\ probeStamp' = 0 /\ outcome' = "none"
    /\ UNCHANGED <<uploaderVars, objectVars, sources, rawRows, ingestVars,
                   crashes>>

CrashWorker ==
    /\ wpc # "idle"
    /\ crashes < MaxCrashes
    /\ crashes' = crashes + 1
    /\ wpc' = "idle" /\ batch' = {}
    /\ probed' = NoFile /\ probeStamp' = 0 /\ outcome' = "none"
    /\ UNCHANGED <<uploaderVars, objectVars, sources, rawRows, processing,
                   ingestVars>>

-----------------------------------------------------------------------------
ScanStep ==
    \/ StartScan \/ EndScan
    \/ \E p \in Paths : SkipSource(p) \/ TakeSource(p)

ArchiveStep ==
    \/ OpenSource \/ CopySource \/ RecheckCopy \/ ValidateStaged
    \/ VerifyDuplicate \/ LinkObject \/ AdoptObject \/ RegisterRaw
    \/ UnlinkStaging \/ MarkSource \/ FailSource

WorkerStep ==
    \/ SelectBatch \/ ReadObject \/ RecordProbe
    \/ \E c \in Bytes : OpenObject(c)

Next ==
    \/ \E p \in Paths, c \in Contents : Upload(p, c)
    \/ \E p \in Paths : Remove(p) \/ Settle(p)
    \/ \E c \in Bytes : DamageObject(c)
    \/ ScanStep \/ ArchiveStep \/ CrashIngest
    \/ WorkerStep \/ CrashWorker

Spec == Init /\ [][Next]_vars

\* Both daemons keep running (Restart=always), and time passes.
FairSpec ==
    /\ Spec
    /\ WF_vars(ScanStep \/ ArchiveStep)
    /\ WF_vars(WorkerStep)
    /\ \A p \in Paths : WF_vars(Settle(p))

-----------------------------------------------------------------------------
(* Properties.                                                             *)

Replays == Bytes \union {NoFile}

UploaderType ==
    /\ incoming \in [Paths -> Contents \union {NoFile}]
    /\ stamp \in [Paths -> Nat]
    /\ settled \subseteq Paths
    /\ uploads \in Nat
    /\ offered \subseteq Contents

ArchiveType ==
    /\ object \in [Bytes -> Replays]
    /\ objectStamp \in [Bytes -> Nat]
    /\ damaged \subseteq Bytes
    /\ sources \in [Paths -> [status : {"none", "archived", "duplicate", "failed"},
                              stamp : Nat, sha256 : Replays]]
    /\ rawRows \subseteq Bytes
    /\ processing \in [Bytes -> {"none", "ok", "failed"}]

IngestType ==
    /\ pc \in {"idle", "scan", "open", "copy", "recheck", "validate", "publish",
               "register", "cleanup", "mark", "fail"}
    /\ todo \subseteq Paths
    /\ path \in Paths \union {NoFile}
    /\ statStamp \in Nat /\ openStamp \in Nat
    /\ openBytes \in Contents \union {NoFile}
    /\ staged \in Replays
    /\ isDup \in BOOLEAN /\ linked \in BOOLEAN

WorkerType ==
    /\ wpc \in {"idle", "probe", "read", "record"}
    /\ batch \subseteq Bytes
    /\ probed \in Replays
    /\ probeStamp \in Nat
    /\ outcome \in {"none", "ok", "failed"}

TypeOK ==
    /\ UploaderType /\ ArchiveType /\ IngestType /\ WorkerType
    /\ crashes \in Nat

\* A registered replay is a byte string some uploader really put at a path,
\* never a mixture of two, and until an administrator damages it the archive
\* holds exactly those bytes under its hash.
ArchiveContentAddressed ==
    \A c \in rawRows :
        /\ c \in offered \intersect HeaderOK
        /\ c \notin damaged => object[c] = c

\* When a scan skips a file as unchanged, the bytes now at that path are in
\* the archive: replacing a file while it is being archived loses nothing.
SkipSound ==
    \A p \in Paths :
        incoming[p] # NoFile /\ Unchanged(p) =>
            incoming[p] \in rawRows /\ sources[p].sha256 = incoming[p]

\* One raw object, several provenance rows: of the paths that hold the same
\* replay at most one is its "archived" source, the others are duplicates.
OneArchivedSource ==
    \A p, q \in Paths :
        /\ sources[p].status = "archived"
        /\ sources[q].status = "archived"
        /\ sources[p].sha256 = sources[q].sha256
        => p = q

\* Success is never recorded for a replay whose own payload does not decode,
\* whatever bytes its archive file was replaced with.
ProbeSound ==
    \A c \in Bytes :
        processing[c] = "ok" => c \in rawRows \intersect PayloadOK

\* Ingestion never overwrites an object: an invalid file found at the
\* destination is left as it is.
NoClobber ==
    [][\A c \in Bytes :
          object[c] # NoFile /\ object'[c] # object[c] => damaged' # damaged]_vars

\* The ledger keeps the promise of ReplayLedger: rows only for offered valid
\* replays, never withdrawn, and one final verdict each.
Ledger == INSTANCE ReplayLedger WITH archived <- rawRows, verdict <- processing
LedgerPromise == Ledger!LedgerSpec

\* A valid replay that stays settled at a path is registered, whatever was
\* uploaded, removed or crashed before, unless its archive file was damaged.
EventuallyArchived ==
    \A p \in Paths, c \in HeaderOK \intersect Contents :
        <>[](incoming[p] = c /\ p \in settled) => <>(c \in rawRows \union damaged)

\* Every registered replay gets a probe verdict.
EventuallyProbed ==
    \A c \in Bytes : c \in rawRows ~> processing[c] # "none"

\* A replay that decodes and whose archive file nobody touched is not
\* recorded as failed.
IntactNotFailed ==
    \A c \in PayloadOK : processing[c] = "failed" => c \in damaged
-----------------------------------------------------------------------------
(* The inductive invariant behind the theorems of ReplayArchive_proofs.    *)

Archiving == pc \notin {"idle", "scan"}

\* The file now at p is the one whose stamp is n.
Current(p, n) == incoming[p] # NoFile /\ stamp[p] = n

\* Stamps are handed out in order, and every file came from an upload.
UploaderInv ==
    /\ \A p \in Paths : stamp[p] <= uploads
    /\ \A p \in Paths : incoming[p] # NoFile => incoming[p] \in offered
    /\ \A p \in Paths : sources[p].stamp <= uploads

\* The copy under way is of the file that was stat'ed, or a check will fail.
CopyInv ==
    /\ Archiving => path \in Paths /\ statStamp <= stamp[path]
    /\ pc \notin {"cleanup", "mark", "fail"} => ~isDup
    /\ pc \in {"copy", "recheck", "validate"} =>
          /\ statStamp <= openStamp /\ openStamp <= stamp[path]
          /\ openBytes \in offered
          /\ SourceHeld => incoming[path] = openBytes
    /\ pc \in {"recheck", "validate"} =>
          /\ staged \in Bytes
          /\ SourceHeld => staged = openBytes
    /\ pc \in {"publish", "register", "cleanup", "mark"} =>
          /\ staged \in offered \intersect HeaderOK
          /\ Current(path, statStamp) => incoming[path] = staged

\* From publication to the provenance row the object is in place.
PublishInv ==
    /\ pc = "register" =>
          /\ staged \notin rawRows
          /\ staged \notin damaged => object[staged] = staged
    /\ pc \in {"cleanup", "mark"} =>
          /\ staged \in rawRows
          /\ ~isDup => \A p \in Paths : sources[p].status = "archived"
                                           => sources[p].sha256 # staged

\* A provenance row names a registered hash, that of the file it was taken of.
SourceInv ==
    \A p \in Paths :
        sources[p].status \in {"archived", "duplicate"} =>
            /\ sources[p].sha256 \in rawRows
            /\ Current(p, sources[p].stamp) => incoming[p] = sources[p].sha256

\* The worker holds rows without a verdict, and judges the one it reads.
WorkerInv ==
    /\ \A c \in batch : c \in rawRows /\ processing[c] = "none"
    /\ wpc \in {"read", "record"} => probed \in batch
    /\ wpc = "record" <=> outcome # "none"
    /\ outcome = "ok" => probed \in PayloadOK

IInv ==
    /\ TypeOK /\ UploaderInv /\ CopyInv /\ PublishInv /\ SourceInv /\ WorkerInv
    /\ ArchiveContentAddressed /\ OneArchivedSource /\ ProbeSound

=============================================================================
