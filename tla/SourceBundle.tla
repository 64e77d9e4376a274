----------------------------- MODULE SourceBundle -----------------------------
(***************************************************************************)
(* The raw export directory and the three commands an operator runs over   *)
(* it: the source receipt (ingestion/source_bundle_receipt.py), the import *)
(* (ingestion/pipeline.py with discovery.py, discord_export.py and         *)
(* matcher.py) and the verification of a receipt kept from an earlier run  *)
(* (ingestion/source_bundle_verify.py).  None of them locks the directory, *)
(* in which a downloader may still create, rewrite, touch, remove or link  *)
(* files, swap a subdirectory or put another export in place of the root.  *)
(*                                                                         *)
(* Simplifications.  A file is its identity (device, inode, size, mtime    *)
(* and ctime, of which some part is new after every change: stamp) and its *)
(* bytes (body, which stands for size and SHA-256).  A rewrite brings      *)
(* bytes the export never held before.  A command that listed a directory  *)
(* has stat'ed its entries at the same moment.  An error ends a command    *)
(* without any effect.                                                     *)
(***************************************************************************)
EXTENDS Naturals, Sequences, FiniteSets, SequencesExt

CONSTANTS Replays,      \* paths that end in .hbr2
          Exports,      \* paths that end in .json
          Order,        \* all paths, in the order of their casefolded names
          Walk,         \* the directories, in the order they are walked: the root first
          DirOf,        \* the directory of each path
          Posted,       \* the reports in the messages of each body, in order
          Evidences,    \* what may tie the file name of each replay to a report
          Originals,    \* what the exports may hold at first, 0 for no file
          Newest,       \* the largest of these bodies
          None,         \* no file, no record
          MaxChanges,   \* bound: changes to the directory and to the kept receipt
          MaxRuns       \* bound: runs of each command

Sources == Replays \cup Exports
Dirs == {Walk[i] : i \in DOMAIN Walk}
Roots == {1, 2}     \* the export, and the one that is put in its place

Entries == [link : BOOLEAN, stamp : Nat, body : Nat]
Reports == [id : Nat, time : Nat, text : Nat]

ASSUME SourceAssumption ==
    /\ Replays \cap Exports = {}
    /\ Order \in Seq(Sources) /\ IsInjective(Order)
    /\ {Order[i] : i \in DOMAIN Order} = Sources
    /\ Walk \in Seq(Dirs) /\ IsInjective(Walk) /\ Walk # <<>>
    /\ DirOf \in [Sources -> Dirs]
    /\ \A body \in DOMAIN Posted : Posted[body] \in Seq(Reports)
    /\ Newest \in Nat /\ MaxChanges \in Nat /\ MaxRuns \in Nat
    /\ Originals \subseteq [Roots -> [Sources -> 0..Newest]]
    /\ None \notin Entries

VARIABLES
    files,      \* the entry at each path below each root: None is no file
    dirId,      \* the device and inode of each directory below each root
    root,       \* the directory the configured path leads to
    clock,      \* the newest identity and the newest bytes
    kept,       \* the file with the operator's receipt, and the command it is of
    \* the command that runs
    command, ran, pc,      \* its name, those run so far with it, and its next step
    inventory,  \* locals of create_source_bundle_receipt
    expected,   \* the receipt verify_source_bundle has loaded
    import,     \* locals of run_import
    \* results
    imported,   \* what the last complete import was made from
    verdict     \* of the last verification

treeVars == <<files, dirId, root>>
vars == <<treeVars, clock, kept, command, ran, pc, inventory, expected,
          import, imported, verdict>>

NoInventory ==
    [root |-> 0, at |-> 1, found |-> {}, dirs |-> <<>>, refound |-> {},
     redirs |-> <<>>, hashed |-> <<>>, opened |-> None, moment |-> <<>>]

NoImport ==
    [at |-> 1, listed |-> {}, opened |-> None, replays |-> <<>>, checked |-> <<>>,
     described |-> <<>>,
     exports |-> <<>>]

Init ==
    /\ \E original \in Originals :
          files = [r \in Roots |-> [p \in Sources |->
                     IF original[r][p] = 0 THEN None
                     ELSE [link |-> FALSE, stamp |-> 0, body |-> original[r][p]]]]
    /\ dirId = [r \in Roots |-> [d \in Dirs |-> 0]]
    /\ root = 1
    /\ clock = Newest
    /\ kept = None
    /\ command = "none" /\ ran = <<>> /\ pc = "idle"
    /\ inventory = NoInventory /\ expected = None /\ import = NoImport
    /\ imported = None /\ verdict = None

-----------------------------------------------------------------------------
(* Sorting.                                                                *)

\* The elements of S in the strict total order that before is, a set of pairs.
Sorted(S, before) ==
    [i \in 1..Cardinality(S) |->
        CHOOSE x \in S : Cardinality({y \in S : <<y, x>> \in before}) = i - 1]

Position(p) == CHOOSE i \in DOMAIN Order : Order[i] = p

\* The first of a set of paths in the order of the sorted inventories.
First(paths) == CHOOSE p \in paths : \A q \in paths : Position(p) <= Position(q)

Canonical(paths) ==
    Sorted(paths, {pair \in paths \X paths : Position(pair[1]) < Position(pair[2])})

\* Comparison of keys of the same length, the first difference deciding.
Less(key, other) ==
    \E i \in DOMAIN key : key[i] < other[i] /\ \A j \in 1..i - 1 : key[j] = other[j]

\* The function f with the value v at x.
Extend(f, x, v) == [y \in DOMAIN f \cup {x} |-> IF y = x THEN v ELSE f[y]]

-----------------------------------------------------------------------------
(* The downloader, and whoever else touches the files.                     *)

Change ==
    /\ clock < Newest + MaxChanges
    /\ clock' = clock + 1
    /\ UNCHANGED <<command, ran, pc, inventory, expected, import, imported,
                   verdict>>

PutEntry(p, entry) ==
    /\ Change
    /\ files' = [files EXCEPT ![root][p] = entry]
    /\ UNCHANGED <<dirId, root, kept>>

\* A new file, or new bytes for an old one, in place or by a rename.
WriteFile(p) == PutEntry(p, [link |-> FALSE, stamp |-> clock + 1, body |-> clock + 1])

TouchFile(p) == /\ files[root][p] # None
                /\ PutEntry(p, [files[root][p] EXCEPT !.stamp = clock + 1])

RemoveFile(p) == files[root][p] # None /\ PutEntry(p, None)

LinkFile(p) == PutEntry(p, [link |-> TRUE, stamp |-> clock + 1, body |-> clock + 1])

\* A subdirectory is replaced by a copy of itself.
ReplaceDir(d) ==
    /\ d # Walk[1]
    /\ Change
    /\ dirId' = [dirId EXCEPT ![root][d] = clock + 1]
    /\ files' = [files EXCEPT ![root] = [p \in Sources |->
                   IF DirOf[p] = d /\ @[p] # None THEN [@[p] EXCEPT !.stamp = clock + 1]
                   ELSE @[p]]]
    /\ UNCHANGED <<root, kept>>

\* The next export takes the place of this one, which stays below a new name.
SwapRoot ==
    /\ root = 1
    /\ Change
    /\ root' = 2
    /\ UNCHANGED <<files, dirId, kept>>

-----------------------------------------------------------------------------
(* Receipts.                                                               *)

Kind(p) == IF p \in Replays THEN "hbr2" ELSE "discord_json"

\* The receipt of a list of files; the digest over the rest is the rest.
Signed(list) ==
    LET count(kind) == Cardinality({i \in DOMAIN list : list[i].kind = kind})
        unsigned == [files |-> list, fileCount |-> Len(list),
                     hbr2Count |-> count("hbr2"), jsonCount |-> count("discord_json")]
    IN [body |-> unsigned, sha256 |-> unsigned]

\* create_source_bundle_receipt's payload for files with these bodies.
Receipt(bodies) ==
    LET list == Canonical(DOMAIN bodies) IN
    Signed([i \in DOMAIN list |->
              [kind |-> Kind(list[i]), path |-> list[i], body |-> bodies[list[i]]]])

\* Faulty variant of ValidReceipt: the order of the files is not checked.
ValidInAnyOrder(receipt) ==
    LET r == receipt.body
        listed == {r.files[i].path : i \in DOMAIN r.files}
    IN  /\ Cardinality(listed) = Len(r.files)
        /\ r.fileCount = Len(r.files)
        /\ receipt.sha256 = r

\* validate_source_receipt.
ValidReceipt(receipt) ==
    LET r == receipt.body
        paths == [i \in DOMAIN r.files |-> r.files[i].path]
        listed == {paths[i] : i \in DOMAIN paths}
    IN  /\ \A i \in DOMAIN r.files : r.files[i].kind = Kind(r.files[i].path)
        /\ Cardinality(listed) = Len(paths)
        /\ paths = Canonical(listed)
        /\ r.fileCount = Len(r.files)
        /\ r.hbr2Count = Cardinality(listed \cap Replays)
        /\ r.jsonCount = Cardinality(listed \cap Exports)
        /\ receipt.sha256 = r

BodyIn(receipt, p) ==
    {receipt.body.files[i].body :
        i \in {j \in DOMAIN receipt.body.files : receipt.body.files[j].path = p}}

PathsIn(receipt) ==
    {receipt.body.files[i].path : i \in DOMAIN receipt.body.files}

\* The kept receipt is copied over itself, or edited: files in another order, one
\* repeated or left out, the counts and the digest made to fit again or not.
EditReceipt ==
    /\ kept # None
    /\ Change
    /\ LET list == kept.payload.body.files
           edits == {kept.payload, Signed(Reverse(list)),
                     Signed(Append(list, Last(list))), Signed(Tail(list)),
                     [kept.payload EXCEPT !.body.files = Tail(list)]}
       IN /\ list # <<>>
          /\ \E payload \in edits :
               kept' = [payload |-> payload, stamp |-> clock + 1,
                        madeBy |-> IF payload = kept.payload THEN kept.madeBy ELSE 0]
    /\ UNCHANGED treeVars

DownloaderStep ==
    \/ \E p \in Sources : WriteFile(p) \/ TouchFile(p) \/ RemoveFile(p) \/ LinkFile(p)
    \/ \E d \in Dirs : ReplaceDir(d)
    \/ SwapRoot
    \/ EditReceipt

-----------------------------------------------------------------------------
(* Commands.                                                               *)

Start(c) ==
    /\ pc = "idle"
    /\ Cardinality({i \in DOMAIN ran : ran[i] = c}) < MaxRuns
    /\ command' = c /\ ran' = Append(ran, c)
    /\ UNCHANGED <<treeVars, clock, kept, imported>>

End ==
    /\ command' = "none" /\ pc' = "idle"
    /\ inventory' = NoInventory /\ expected' = None /\ import' = NoImport
    /\ UNCHANGED <<treeVars, clock, ran>>

\* Exit code 2, or an exception: nothing was written.
Fail == End /\ UNCHANGED <<kept, imported, verdict>>

StartReceipt ==
    /\ Start("receipt")
    /\ pc' = "bind"
    /\ UNCHANGED <<inventory, expected, import, verdict>>

StartVerification ==
    /\ Start("verify")
    /\ verdict' = None
    /\ pc' = "load"
    /\ UNCHANGED <<inventory, expected, import>>

\* _read_receipt_bytes: the path is opened component by component ...
OpenReceipt ==
    /\ pc = "load"
    /\ IF kept = None THEN Fail
       ELSE /\ expected' = kept
            /\ pc' = "loaded"
            /\ UNCHANGED <<treeVars, clock, kept, command, ran, inventory, import,
                           imported, verdict>>

\* ... and must lead to the same unchanged file after the last byte; what was read
\* is then validated.
LoadReceipt ==
    /\ pc = "loaded"
    /\ IF kept # expected \/ ~ValidReceipt(expected.payload) THEN Fail
       ELSE /\ pc' = "bind"
            /\ UNCHANGED <<treeVars, clock, kept, command, ran, inventory, expected,
                           import, imported, verdict>>

-----------------------------------------------------------------------------
(* create_source_bundle_receipt.                                           *)

Tree == files[inventory.root]

\* The commands' steps below leave everything else as it is.
Inventory(step, next) ==
    /\ inventory' = step
    /\ pc' = next
    /\ UNCHANGED <<treeVars, clock, kept, command, ran, expected, import, imported,
                   verdict>>

\* _open_root_directory.
BindRoot ==
    /\ pc = "bind"
    /\ Inventory([NoInventory EXCEPT !.root = root], "list")

\* One directory of _inventory_paths.
PresentIn(tree, d) == {p \in Sources : DirOf[p] = d /\ tree[p] # None}

ListDirectory ==
    /\ pc = "list"
    /\ LET d == Walk[inventory.at]
           found == inventory.found \cup PresentIn(Tree, d)
       IN IF \E p \in PresentIn(Tree, d) : Tree[p].link THEN Fail
          ELSE IF inventory.at < Len(Walk)
          THEN Inventory([inventory EXCEPT !.at = @ + 1, !.found = found,
                            !.dirs = Append(@, dirId[inventory.root][d])], "list")
          ELSE Inventory([inventory EXCEPT !.at = 1, !.found = found,
                            !.dirs = Append(@, dirId[inventory.root][d])],
                         IF found = {} THEN "relist" ELSE "open")

\* The parent of p is still the directory of the inventory (_open_bound_parent).
ParentBound(p) ==
    \A i \in DOMAIN Walk :
        Walk[i] = DirOf[p] => dirId[inventory.root][Walk[i]] = inventory.dirs[i]

NextSource == First(inventory.found \ DOMAIN inventory.hashed)

\* _read_regular_file: stat, open and fstat ...
OpenSource ==
    /\ pc = "open"
    /\ LET p == NextSource IN
       IF ~ParentBound(p) \/ Tree[p] = None THEN Fail
       ELSE IF Tree[p].link THEN Fail
       ELSE Inventory([inventory EXCEPT !.opened = Tree[p]], "hash")

\* ... and, after the last byte, fstat and stat again.
HashSource ==
    /\ pc = "hash"
    /\ LET p == NextSource
           hashed == Extend(inventory.hashed, p, inventory.opened)
       IN IF Tree[p] # inventory.opened THEN Fail
          ELSE Inventory([inventory EXCEPT !.hashed = hashed, !.opened = None],
                         IF DOMAIN hashed = inventory.found THEN "relist" ELSE "open")

\* One directory of the second inventory; what the configured path leads to at
\* that moment is noted for ReceiptOfOneMoment.
RelistDirectory ==
    /\ pc = "relist"
    /\ LET d == Walk[inventory.at]
           step == [inventory EXCEPT
                      !.refound = @ \cup PresentIn(Tree, d),
                      !.redirs = Append(@, dirId[inventory.root][d]),
                      !.moment = Append(@, files[root])]
       IN IF \E p \in PresentIn(Tree, d) : Tree[p].link THEN Fail
          ELSE IF inventory.at < Len(Walk)
          THEN Inventory([step EXCEPT !.at = @ + 1], "relist")
          ELSE IF step.refound # step.found \/ step.redirs # step.dirs THEN Fail
          ELSE Inventory([step EXCEPT !.at = 1, !.refound = {}, !.redirs = <<>>],
                         IF step.found = {} THEN "reopen" ELSE "assert")

\* Faulty variant of Unchanged: the path must only still lead to some source.
StillThere(p) == ParentBound(p) /\ Tree[p] # None

\* _assert_hashed_file_identity.
Unchanged(p) == ParentBound(p) /\ Tree[p] = inventory.hashed[p]

AssertSource ==
    /\ pc = "assert"
    /\ LET order == Canonical(inventory.found) IN
       IF ~Unchanged(order[inventory.at]) THEN Fail
       ELSE Inventory([inventory EXCEPT !.at = @ + 1],
                      IF inventory.at = Len(order) THEN "reopen" ELSE "assert")

\* _reopen_root_identity.
ReopenRoot ==
    /\ pc = "reopen"
    /\ IF root # inventory.root THEN Fail
       ELSE Inventory(inventory, IF command = "receipt" THEN "print" ELSE "compare")

Current == Receipt([p \in DOMAIN inventory.hashed |-> inventory.hashed[p].body])

\* The operator keeps what the command printed.
KeepReceipt ==
    /\ pc = "print"
    /\ kept' = [payload |-> Current, stamp |-> clock, madeBy |-> Len(ran)]
    /\ End
    /\ UNCHANGED <<imported, verdict>>

\* Faulty variant of Compare: the kept receipt is not read again.
CompareUnread ==
    /\ pc = "compare"
    /\ verdict' = [clean |-> expected.payload = Current, missing |-> {},
                   unexpected |-> {}, changed |-> {}, receipt |-> expected,
                   by |-> Len(ran)]
    /\ End
    /\ UNCHANGED <<kept, imported>>

\* verify_source_bundle once the current receipt is made: the kept receipt is
\* read again, must be the same file with the same bytes, and is compared.
Compare ==
    /\ pc = "compare"
    /\ IF kept # expected THEN Fail
       ELSE
         /\ verdict' =
              LET then == PathsIn(expected.payload)
                  now == PathsIn(Current)
              IN [clean |-> expected.payload = Current,
                  missing |-> then \ now,
                  unexpected |-> now \ then,
                  changed |-> {p \in then \cap now :
                                 BodyIn(expected.payload, p) # BodyIn(Current, p)},
                  receipt |-> expected, by |-> Len(ran)]
         /\ End
         /\ UNCHANGED <<kept, imported>>

-----------------------------------------------------------------------------
(* The matcher (matcher.py).                                               *)

\* score_pair, in percent, for one piece of evidence.
ScorePair(evidence) ==
    LET name == CASE evidence.name = "exact"  -> 90
                  [] evidence.name = "hashed" -> 84
                  [] OTHER -> 0
        size == IF name > 0 /\ evidence.size THEN 6 ELSE 0
        time == CASE evidence.minutes <= 1 -> 8
                  [] evidence.minutes \in 2..5 -> 3
                  [] OTHER -> 0
        sum == name + size + time
    IN IF sum > 100 THEN 100 ELSE sum

MinimumConfidence == 65

\* The reports of some bodies in the order of read_discord_exports: by timestamp
\* and message id, and otherwise as they were read.
SortedReports(bodies) ==
    LET reports(body) == IF body \in DOMAIN Posted THEN Posted[body] ELSE <<>>
        read == UNION {LET in == reports(bodies[i]) IN
                       {[report |-> in[j], at |-> <<i, j>>] : j \in DOMAIN in} :
                          i \in DOMAIN bodies}
        key(e) == <<e.report.time, e.report.id, e.at[1], e.at[2]>>
        sorted == Sorted(read, {pair \in read \X read : Less(key(pair[1]), key(pair[2]))})
    IN [n \in DOMAIN sorted |-> sorted[n].report]

\* The pairs of match_replays_to_reports with enough evidence.
Scored(replays, reports, evidence) ==
    LET pair(p, i) ==
            LET report == reports[i] IN
            [sha256 |-> replays[p], id |-> report.id, nth |-> i,
             score |-> ScorePair(evidence[p][report.text])]
    IN {c \in {pair(p, i) : p \in DOMAIN replays, i \in DOMAIN reports} :
           c.score >= MinimumConfidence}

\* Faulty variant of Candidates: the pairs are not sorted by their score.
CandidatesAsScored(scored) ==
    LET key(c) == <<c.sha256, c.nth>>
    IN Sorted(scored, {pair \in scored \X scored : Less(key(pair[1]), key(pair[2]))})

\* They are sorted best first; a score is at most 100.
Candidates(scored) ==
    LET key(c) == <<100 - c.score, c.sha256, c.id, c.nth>>
    IN Sorted(scored, {pair \in scored \X scored : Less(key(pair[1]), key(pair[2]))})

\* Two pairs want the same replay or the same message.
Conflict(a, b) == a.sha256 = b.sha256 \/ a.id = b.id

\* The loop over the pairs: those taken among the first n.
Greedy(candidates) ==
    LET taken[n \in 0..Len(candidates)] ==
            IF n = 0 THEN {}
            ELSE LET before == taken[n - 1]
                     next == candidates[n]
                 IN IF \E c \in before : Conflict(c, next) THEN before
                    ELSE before \cup {next}
    IN taken[Len(candidates)]

-----------------------------------------------------------------------------
(* run_import.                                                             *)

StartImport ==
    /\ Start("import")
    /\ pc' = "discover"
    /\ UNCHANGED <<inventory, expected, import, verdict>>

Import(step, next) ==
    /\ import' = step
    /\ pc' = next
    /\ UNCHANGED <<treeVars, clock, kept, command, ran, inventory, expected,
                   imported, verdict>>

\* What the configured path leads to now, and the bytes a plain open reads there:
\* 0 when there are none.
EntryAt(p) == files[root][p]
BytesAt(p) == IF EntryAt(p) = None THEN 0 ELSE EntryAt(p).body

\* Faulty variant of Traverse: only the root is listed.
TraverseRoot(paths, some, nothing) ==
    LET listed == PresentIn(files[root], Walk[1]) \cap paths
    IN Import([import EXCEPT !.listed = listed],
              IF listed = {} THEN nothing ELSE some)

\* One directory of a traversal; nothing binds it to the directory listed before.
Traverse(paths, some, nothing) ==
    LET listed == import.listed \cup (PresentIn(files[root], Walk[import.at]) \cap paths)
    IN IF import.at < Len(Walk)
       THEN Import([import EXCEPT !.at = @ + 1, !.listed = listed], pc)
       ELSE Import([import EXCEPT !.at = 1, !.listed = listed],
                   IF listed = {} THEN nothing ELSE some)

\* _candidate_paths.
DiscoverDirectory == pc = "discover" /\ Traverse(Replays, "snapshot", "scan")

NextReplay == First(import.listed \ DOMAIN import.replays)

\* _snapshot_replay: lstat, open and fstat ...
OpenReplay ==
    /\ pc = "snapshot"
    /\ LET entry == EntryAt(NextReplay) IN
       IF entry = None THEN Fail
       ELSE IF entry.link THEN Fail
       ELSE Import([import EXCEPT !.opened = <<root, entry>>], "digest")

\* ... and, after the last byte, fstat and lstat again.
DigestReplay ==
    /\ pc = "digest"
    /\ LET replays == Extend(import.replays, NextReplay, import.opened[2].body)
           step == [import EXCEPT !.opened = None, !.replays = replays]
       IN IF <<root, EntryAt(NextReplay)>> # import.opened THEN Fail
          ELSE IF DOMAIN replays # import.listed THEN Import(step, "snapshot")
          ELSE Import([step EXCEPT !.listed = {}], "scan")

\* The traversal of read_discord_exports.
ScanDirectory == pc = "scan" /\ Traverse(Exports, "read", "validate")

\* Unread paths are left in listed; an export is read without any check, and one
\* that is gone is noted as a failure.
ReadExport ==
    /\ pc = "read"
    /\ LET p == First(import.listed)
           left == import.listed \ {p}
       IN Import([import EXCEPT !.exports = Extend(@, p, BytesAt(p)), !.listed = left],
                 IF left = {} THEN "validate" ELSE "read")

\* unique_files: the first path of each digest.
Unique == {p \in DOMAIN import.replays :
             p = First({q \in DOMAIN import.replays :
                          import.replays[q] = import.replays[p]})}

\* validate_replay_basic opens each unique replay again, by its path: before the
\* matching, and once more in _replay_dict.
ValidateReplay ==
    /\ pc = "validate"
    /\ IF Unique = DOMAIN import.checked THEN Import(import, "describe")
       ELSE LET p == First(Unique \ DOMAIN import.checked) IN
            Import([import EXCEPT !.checked = Extend(@, p, BytesAt(p))], "validate")

DescribeReplay ==
    /\ pc = "describe"
    /\ IF Unique = DOMAIN import.described THEN Import(import, "publish")
       ELSE LET p == First(Unique \ DOMAIN import.described) IN
            Import([import EXCEPT !.described = Extend(@, p, BytesAt(p))], "describe")

\* The matches, and the five files.
Publish ==
    /\ pc = "publish"
    /\ LET valid == {p \in Unique : import.checked[p] # 0}
           read == Canonical(DOMAIN import.exports)
           reports == SortedReports([i \in DOMAIN read |-> import.exports[read[i]]])
       IN \E evidence \in Evidences :
            LET candidates == Candidates(Scored([p \in valid |-> import.replays[p]],
                                                reports, evidence))
            IN imported' =
                 [replays |-> import.replays, checked |-> import.checked,
                  described |-> import.described, exports |-> import.exports,
                  candidates |-> {candidates[i] : i \in DOMAIN candidates},
                  matches |-> Greedy(candidates), by |-> Len(ran)]
    /\ End
    /\ UNCHANGED <<kept, verdict>>

-----------------------------------------------------------------------------
ReceiptStep ==
    \/ BindRoot \/ ListDirectory \/ OpenSource \/ HashSource \/ RelistDirectory
    \/ AssertSource \/ ReopenRoot \/ KeepReceipt
    \/ OpenReceipt \/ LoadReceipt \/ Compare

ImportStep ==
    \/ DiscoverDirectory \/ OpenReplay \/ DigestReplay \/ ScanDirectory \/ ReadExport
    \/ ValidateReplay \/ DescribeReplay \/ Publish

Next ==
    \/ DownloaderStep
    \/ StartReceipt \/ StartVerification \/ StartImport
    \/ ReceiptStep
    \/ ImportStep

Spec == Init /\ [][Next]_vars

-----------------------------------------------------------------------------
(* Properties.                                                             *)

\* A receipt speaks of one state of the export: of each directory it lists exactly
\* the sources the configured path led to when that directory was listed again, and
\* every source it lists, of any directory, had the listed bytes at those moments.
ReceiptOfOneMoment ==
    pc \in {"print", "compare"} =>
        LET hashed == inventory.hashed IN
        \A i \in DOMAIN Walk :
            LET then == inventory.moment[i] IN
            /\ PresentIn(then, Walk[i]) = {p \in DOMAIN hashed : DirOf[p] = Walk[i]}
            /\ \A p \in DOMAIN hashed :
                  then[p] # None /\ then[p].body = hashed[p].body

\* When a receipt was made before an import and verified clean after it, every
\* source it lists entered the import with the listed bytes, in each of the three
\* times a replay is opened and although exports are read without any check.
BracketedImport ==
    /\ verdict # None /\ imported # None
    /\ verdict.clean
    /\ 0 < verdict.receipt.madeBy /\ verdict.receipt.madeBy < imported.by
    /\ imported.by < verdict.by
    => \A p \in PathsIn(verdict.receipt.payload) :
          LET bytes == BodyIn(verdict.receipt.payload, p) IN
          /\ p \in Replays => p \in DOMAIN imported.replays /\ imported.replays[p] \in bytes
          /\ p \in DOMAIN imported.checked =>
                imported.checked[p] \in bytes /\ imported.described[p] \in bytes
          /\ p \in Exports => p \in DOMAIN imported.exports /\ imported.exports[p] \in bytes

\* A verification that is not clean names what differs, and a clean one names
\* nothing: the persisted receipt and the current one are equal exactly when no
\* path is missing, unexpected or changed.
VerdictExplained ==
    verdict # None =>
        (verdict.clean <=> verdict.missing = {} /\ verdict.unexpected = {}
                               /\ verdict.changed = {})

\* A clean verdict is about the receipt the operator has on file when it is given.
CleanOfKeptReceipt ==
    [][verdict' # verdict /\ verdict' # None =>
          verdict'.receipt = kept /\ (verdict'.clean => kept.payload = Current)]_vars

\* The published matches are the stable ones: no replay and no message is matched
\* twice, and a pair with enough evidence that was not taken lost its replay or its
\* message to a pair at least as good.
MatchesAreStable ==
    imported # None =>
        /\ \A a, b \in imported.matches : Conflict(a, b) => a = b
        /\ \A c \in imported.candidates : \E m \in imported.matches :
              Conflict(c, m) /\ m.score >= c.score

-----------------------------------------------------------------------------
(* The types.                                                              *)

Trees == [Sources -> Entries \cup {None}]

ListedFiles == [kind : {"hbr2", "discord_json"}, path : Sources, body : Nat]
Unsigned == [files : Seq(ListedFiles), fileCount : Nat, hbr2Count : Nat, jsonCount : Nat]
Payloads == [body : Unsigned, sha256 : Unsigned]
KeptReceipts == [payload : Payloads, stamp : Nat, madeBy : Nat]

\* A function on some of the paths.
PartOf(f, values) == DOMAIN f \subseteq Sources /\ f \in [DOMAIN f -> values]

InventoryTyped(i) ==
    /\ i \in [root : {0} \cup Roots, at : Nat \ {0}, found : SUBSET Sources,
              dirs : Seq(Nat), refound : SUBSET Sources, redirs : Seq(Nat),
              hashed : {i.hashed}, opened : Entries \cup {None}, moment : Seq(Trees)]
    /\ PartOf(i.hashed, Entries)

ReadingsTyped(run) ==
    /\ PartOf(run.replays, Nat) /\ PartOf(run.exports, Nat)
    /\ PartOf(run.checked, Nat) /\ PartOf(run.described, Nat)

ImportTyped(i) ==
    /\ i \in [at : Nat \ {0}, listed : SUBSET Sources,
              opened : (Roots \X Entries) \cup {None},
              replays : {i.replays}, checked : {i.checked},
              described : {i.described}, exports : {i.exports}]
    /\ ReadingsTyped(i)

CommandNames == {"receipt", "verify", "import"}
InventorySteps == {"list", "open", "hash", "relist", "assert", "reopen", "print", "compare"}
ImportSteps == {"discover", "snapshot", "digest", "scan", "read", "validate", "describe",
                "publish"}

BundleTypeOK ==
    /\ files \in [Roots -> Trees]
    /\ dirId \in [Roots -> [Dirs -> Nat]]
    /\ root \in Roots /\ clock \in Nat
    /\ kept \in KeptReceipts \cup {None} /\ expected \in KeptReceipts \cup {None}
    /\ command \in CommandNames \cup {"none"} /\ ran \in Seq(CommandNames)
    /\ pc \in {"idle", "load", "loaded", "bind"} \cup InventorySteps \cup ImportSteps
    /\ InventoryTyped(inventory) /\ ImportTyped(import)
    /\ imported # None => ReadingsTyped(imported) /\ imported.by \in Nat
    /\ verdict # None => verdict.receipt \in KeptReceipts /\ verdict.by \in Nat

-----------------------------------------------------------------------------
(* The inductive invariant (SourceBundle_proofs).                          *)

\* Every identity and all bytes were new once; nothing is newer than the clock.
Known(entry) == entry.stamp <= clock /\ entry.body \in 1..clock

FilesInv ==
    /\ Newest <= clock
    /\ \A r \in Roots, p \in Sources : files[r][p] # None => Known(files[r][p])

\* Which command is where, and which commands came before it.
CommandInv ==
    /\ pc = "idle" <=> command = "none"
    /\ pc \in ImportSteps <=> command = "import"
    /\ pc \in {"load", "loaded", "compare"} => command = "verify"
    /\ pc = "print" => command = "receipt"
    /\ pc \notin ImportSteps => import = NoImport
    /\ command = "verify" /\ pc # "load" => expected \in KeptReceipts /\ expected # None
    /\ command = "verify" /\ pc \notin {"load", "loaded"} => ValidReceipt(expected.payload)
    /\ kept # None => kept.madeBy <= Len(ran) /\ (pc # "idle" => kept.madeBy < Len(ran))
    /\ imported # None => imported.by <= Len(ran) /\ (pc # "idle" => imported.by < Len(ran))
    /\ verdict # None => verdict.by <= Len(ran) /\ (pc # "idle" => verdict.by < Len(ran))

\* How far an inventory is.
InventoryInv ==
    pc \in InventorySteps =>
      LET i == inventory IN
      /\ i.root \in Roots /\ i.root <= root
      /\ DOMAIN i.hashed \subseteq i.found
      /\ \A p \in DOMAIN i.hashed : Known(i.hashed[p])
      /\ pc \in {"list", "relist"} => i.at <= Len(Walk)
      /\ pc = "list" => DOMAIN i.hashed = {}
      /\ pc \in {"list", "open", "hash"} => i.moment = <<>> /\ i.refound = {}
      /\ pc \in {"open", "hash"} => i.at = 1 /\ DOMAIN i.hashed # i.found
      /\ pc = "hash" => i.opened \in Entries
      /\ pc \in {"relist", "assert", "reopen", "print", "compare"} => DOMAIN i.hashed = i.found
      /\ pc = "relist" => Len(i.moment) = i.at - 1
      /\ pc = "assert" => i.at <= Len(Canonical(i.found))
      /\ pc \in {"assert", "reopen", "print", "compare"} => Len(i.moment) = Len(Walk)

\* While the configured path leads to the root of the inventory: what the second
\* inventory met is what was hashed, or will never be there again.
MomentInv ==
    LET i == inventory
        same(n, p) == i.moment[n][p] = i.hashed[p]
    IN
    /\ pc \in {"relist", "assert"} /\ root = i.root =>
          \A n \in DOMAIN i.moment, p \in DOMAIN i.hashed : same(n, p) \/ Tree[p] # i.hashed[p]
    /\ pc = "relist" /\ root = i.root =>
          \A p \in Sources : p \in i.refound <=>
             \E n \in DOMAIN i.moment : Walk[n] = DirOf[p] /\ i.moment[n][p] # None
    /\ \/ pc \in {"assert", "reopen"} /\ root = i.root
       \/ pc \in {"print", "compare"}
       => \A n \in DOMAIN i.moment :
             PresentIn(i.moment[n], Walk[n]) = {p \in DOMAIN i.hashed : DirOf[p] = Walk[n]}
    /\ pc = "assert" /\ root = i.root =>
          \A n \in DOMAIN i.moment, k \in 1..i.at - 1 : same(n, Canonical(i.found)[k])
    /\ \/ pc = "reopen" /\ root = i.root
       \/ pc \in {"print", "compare"}
       => \A n \in DOMAIN i.moment, p \in DOMAIN i.hashed : same(n, p)

\* How far an import is.
ImportInv ==
    /\ pc \in ImportSteps =>
         LET i == import IN
         /\ DOMAIN i.replays \subseteq Replays
         /\ i.at <= Len(Walk)
         /\ pc \notin {"discover", "scan"} => i.at = 1
         /\ pc \in {"discover", "snapshot", "digest"} => i.listed \subseteq Replays
         /\ pc = "discover" => DOMAIN i.replays = {}
         /\ pc \in {"snapshot", "digest"} =>
               DOMAIN i.replays \subseteq i.listed /\ DOMAIN i.replays # i.listed
         /\ pc = "digest" => i.opened \in Roots \X Entries
         /\ pc \in {"discover", "snapshot", "digest", "scan"} => DOMAIN i.exports = {}
         /\ pc \in {"scan", "read"} => i.listed \subseteq Exports
         /\ pc = "read" => i.listed # {}
         /\ pc \notin {"validate", "describe", "publish"} => DOMAIN i.checked = {}
         /\ pc \notin {"describe", "publish"} => DOMAIN i.described = {}
         /\ DOMAIN i.checked \subseteq Unique /\ DOMAIN i.described \subseteq Unique
         /\ pc \in {"describe", "publish"} => DOMAIN i.checked = Unique
         /\ pc = "publish" => DOMAIN i.described = Unique
    /\ imported # None => DOMAIN imported.described = DOMAIN imported.checked

BundleInv ==
    /\ BundleTypeOK /\ FilesInv /\ CommandInv /\ InventoryInv /\ MomentInv /\ ImportInv
    /\ VerdictExplained /\ MatchesAreStable

\* Of the two exports, no path holds the same bytes in both at first.
ExportsTellApart ==
    \A original \in Originals, p \in Sources :
       original[1][p] # 0 => original[1][p] # original[2][p]

Held(p, body, r) == files[r][p] # None /\ files[r][p].body = body

\* Until the next export takes the place of this one, it does not have these bytes.
OnlyHere(p, body) == root = 1 => ~Held(p, body, 2)

\* The configured path will never lead to these bytes again.
Lost(p, body) == ~Held(p, body, 2) /\ (root = 1 => ~Held(p, body, 1))

ApartInv ==
    /\ \A p \in Sources : files[1][p] # None => OnlyHere(p, files[1][p].body)
    /\ pc \in InventorySteps =>
          \A p \in DOMAIN inventory.hashed : OnlyHere(p, inventory.hashed[p].body)

\* All that a run read at this path is these bytes.
ReadOnly(run, p, body) ==
    \A read \in {run.replays, run.checked, run.described, run.exports} :
       p \in DOMAIN read => read[p] = body

Walked(p) == \E n \in 1..import.at - 1 : Walk[n] = DirOf[p]

\* The import that runs has not met this source where it should have.
Overlooked(p) ==
    LET i == import IN
    \/ /\ p \in Replays
       /\ \/ pc = "discover" /\ Walked(p) /\ p \notin i.listed
          \/ pc \in {"snapshot", "digest"} /\ p \notin i.listed
          \/ pc \in {"scan", "read", "validate", "describe", "publish"}
                /\ p \notin DOMAIN i.replays
    \/ /\ p \in Exports
       /\ \/ pc = "scan" /\ Walked(p) /\ p \notin i.listed
          \/ pc = "read" /\ p \notin i.listed \cup DOMAIN i.exports
          \/ pc \in {"validate", "describe", "publish"} /\ p \notin DOMAIN i.exports

\* The last import read these bytes wherever it had to read this source.
Entered(p, body) ==
    /\ ReadOnly(imported, p, body)
    /\ p \in Replays => p \in DOMAIN imported.replays
    /\ p \in Exports => p \in DOMAIN imported.exports

\* Since the command of that number made a receipt that gives these bytes to this
\* source: every later import reads them there, or they are lost.
Filed(by, p, body) ==
    /\ body \in 1..clock /\ OnlyHere(p, body)
    /\ pc \in ImportSteps =>
          \/ ReadOnly(import, p, body) /\ ~Overlooked(p)
          \/ Lost(p, body)
    /\ imported # None /\ by < imported.by => Entered(p, body) \/ Lost(p, body)

\* An edited receipt is made by none of the commands.
OnFile(receipt) ==
    0 < receipt.madeBy =>
      \A p \in Sources : \A body \in BodyIn(receipt.payload, p) : Filed(receipt.madeBy, p, body)

OnFileInv ==
    /\ kept # None => OnFile(kept)
    /\ expected # None => OnFile(expected)

\* A verification that still finds these bytes has found what the import read.
VerifiedInv ==
    /\ pc \in InventorySteps /\ command = "verify"
    /\ pc = "compare" \/ root = inventory.root
    /\ imported # None /\ 0 < expected.madeBy /\ expected.madeBy < imported.by
    => \A p \in DOMAIN inventory.hashed :
          LET body == inventory.hashed[p].body IN
          body \in BodyIn(expected.payload, p) => Entered(p, body)

BracketInv == BundleInv /\ ApartInv /\ OnFileInv /\ VerifiedInv /\ BracketedImport
==============================================================================
