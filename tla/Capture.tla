------------------------------ MODULE Capture ------------------------------
(***************************************************************************)
(* One metadata capture of the observed roots (src/snapshot.rs,            *)
(* capture_internal): a sorted depth-first walk that keeps at most         *)
(* MaxEntries entries, hashes regular files within two byte limits, and    *)
(* reads a file system that other processes keep changing.                 *)
(*                                                                         *)
(* A path is a number and the walk yields paths in increasing order: a     *)
(* directory before what lies below it, siblings in name order.  What a    *)
(* path holds is a node: its kind, a stamp standing for the modification   *)
(* time, mode and read-only flag, and its data (file content or symlink    *)
(* target).                                                                *)
(***************************************************************************)
EXTENDS Integers, FiniteSets, Functions

CONSTANTS
    Paths,         \* the paths that may ever exist, numbered in walk order
    NRoots,        \* prepared roots 1..NRoots
    RootOf,        \* [Paths -> 1..NRoots]
    ParentOf,      \* [Paths -> Paths \cup {0}], 0 for a child of the root itself
    Below,         \* [Paths -> SUBSET Paths], the proper descendants
    Nodes,         \* what a path may hold
    SizeOf,        \* length of each file content
    Sensitive,     \* paths whose content may not be hashed
    MaxEntries, MaxFileHash, MaxTotalHash,      \* SnapshotConfig
    IoFaults,      \* whether directory listings, stats and reads may fail
    MaxChanges,    \* bound on file-system changes during the capture
    None, Torn     \* no value; digest of a content no file ever had

Data == DOMAIN SizeOf
Sizes == {SizeOf[d] : d \in Data}
Kinds == {"file", "directory", "symlink", "other"}

HashStates == {"hashed", "not_regular_file", "skipped_sensitive_path", "skipped_file_too_large",
               "skipped_total_budget", "changed_during_read", "read_error"}

\* What a capture records of a path.
EntryStates ==
    [kind : Kinds, stamp : {n.stamp : n \in Nodes}, size : Sizes \cup {0},
     target : Data \cup {None}, digest : Data \cup {Torn, None}, hash : HashStates]

ASSUME TreeAssumption ==
    /\ Paths \subseteq Nat \ {0}
    /\ NRoots \in Nat \ {0}
    /\ RootOf \in [Paths -> 1..NRoots]
    /\ ParentOf \in [Paths -> Paths \cup {0}]
    /\ Below \in [Paths -> SUBSET Paths]
    /\ \A p \in Paths : \A q \in Below[p] :
         q > p /\ RootOf[q] = RootOf[p] /\ Below[q] \subseteq Below[p]
    \* what lies below a directory is a child of it or lies below a child
    /\ \A p, q \in Paths :
         q \in Below[p] <=>
           \E c \in Paths : ParentOf[c] = p /\ (q = c \/ q \in Below[c])
    /\ \A q \in Paths : \E c \in Paths :
         ParentOf[c] = 0 /\ RootOf[c] = RootOf[q] /\ (q = c \/ q \in Below[c])

ASSUME ValueAssumption ==
    /\ SizeOf \in [Data -> Nat]
    /\ None \notin Data \cup Nodes \cup EntryStates /\ Torn \notin Data \cup {None}
    /\ Nodes \subseteq [kind : Kinds, stamp : {n.stamp : n \in Nodes}, data : Data \cup {None}]
    /\ \A n \in Nodes :
         /\ n.kind = "file" => n.data \in Data
         /\ n.kind \in {"directory", "other"} => n.data = None
    /\ Sensitive \subseteq Paths
    /\ MaxEntries \in Nat \ {0} /\ MaxFileHash \in Nat /\ MaxTotalHash \in Nat
    /\ IoFaults \in BOOLEAN /\ MaxChanges \in Nat

VARIABLES
    fs,               \* the file system: [Paths -> Nodes \cup {None}]
    interrupted,      \* the Ctrl-C flag capture_interruptible reads
    pc,               \* where the capture is
    root,             \* the root being walked
    pending, dirs,    \* listed but not yet yielded; those listed as directories
    walkErrs,         \* error items the walk yields before the next path
    cur, meta, buf,   \* path in hand, its metadata, its open content
    entries,          \* Snapshot.entries: [Paths -> EntryState \cup {None}]
    stats,            \* Snapshot.stats, per root
    retainedTotal, hashedTotal, sensitiveSkipped, globalTruncated,
    changes,          \* file-system changes so far
    held              \* history: what each path held since the capture began

walkVars  == <<root, pending, dirs, walkErrs>>
handVars  == <<cur, meta, buf>>
tallyVars == <<entries, retainedTotal, hashedTotal, sensitiveSkipped>>
envVars   == <<fs, changes, held, interrupted>>
captureVars == <<pc, walkVars, handVars, tallyVars, stats, globalTruncated>>
vars == <<envVars, captureVars>>

-----------------------------------------------------------------------------
(* The file system and what a listing of it returns.                       *)

Kind(n)  == IF n = None THEN "absent" ELSE n.kind
IsDir(n) == Kind(n) = "directory"

\* A change replaces a node; one that leaves no directory takes all below with it.
Alter(p, n) ==
    /\ changes < MaxChanges
    /\ fs[p] # n
    /\ n # None => \A a \in Paths : p \in Below[a] => IsDir(fs[a])
    /\ fs' = [q \in Paths |-> IF q = p THEN n
                              ELSE IF q \in Below[p] /\ ~IsDir(n) THEN None ELSE fs[q]]
    /\ held' = [q \in Paths |-> held[q] \cup {fs'[q]}]
    /\ changes' = changes + 1
    \* an open file written in place reads torn; its path tells nothing more
    /\ buf' = IF pc = "hash" /\ cur = p /\ Kind(n) = "file"
                THEN [buf EXCEPT !.torn = TRUE] ELSE buf

TreeConsistent(f) == \A p \in Paths : \A q \in Below[p] : f[q] # None => IsDir(f[p])
FileSystems == {f \in [Paths -> Nodes \cup {None}] : TreeConsistent(f)}

ChildrenOf(d)     == {c \in Paths : ParentOf[c] = d /\ fs[c] # None}
TopLevelOf(r)     == {c \in Paths : ParentOf[c] = 0 /\ RootOf[c] = r /\ fs[c] # None}
ListedAsDir(s)    == {c \in s : IsDir(fs[c])}

\* Mutant: errors of a listing are filtered out.
ErrorsFilteredOut(opens, children) ==
    {[seen |-> s, errs |-> 0] : s \in IF ~opens THEN {{}}
                                      ELSE IF IoFaults THEN SUBSET children ELSE {children}}

\* Reading a directory yields all its children, or an error and some of them.
Listings(opens, children) ==
    {[seen |-> s, errs |-> 1] : s \in IF ~opens THEN {{}}
                                      ELSE IF IoFaults THEN SUBSET children ELSE {}}
      \cup (IF opens THEN {[seen |-> children, errs |-> 0]} ELSE {})

-----------------------------------------------------------------------------
(* Counters and entry states.                                              *)

ZeroStats == [scanned |-> 0, retained |-> 0, hashedFiles |-> 0, hashedBytes |-> 0,
              skipped |-> 0, errors |-> 0, truncated |-> FALSE, omittedKnown |-> FALSE]

NodeSize(n) == IF n.kind = "file" THEN SizeOf[n.data] ELSE 0

EntryState(n, target, digest, hash) ==
    [kind |-> n.kind, stamp |-> n.stamp, size |-> NodeSize(n),
     target |-> target, digest |-> digest, hash |-> hash]

\* Mutants: the limit off by one, each way.
LimitOneLate  == retainedTotal > MaxEntries
LimitOneEarly == retainedTotal + 1 >= MaxEntries

AtEntryLimit == retainedTotal >= MaxEntries

Truncated(s) == [s EXCEPT !.truncated = TRUE, !.omittedKnown = FALSE]

\* record_walk_error, for an item that was counted as scanned.
WalkErrorCounted(s) == [s EXCEPT !.scanned = s.scanned + 1, !.errors = s.errors + 1]

\* Mutant: the budget compared with one file instead of the running total.
BudgetPerFile(n) == MaxTotalHash = 0 \/ NodeSize(n) > MaxTotalHash

OverTotalBudget(n) == MaxTotalHash = 0 \/ hashedTotal + NodeSize(n) > MaxTotalHash

HashDecision(p, n) ==
    IF n.kind # "file" THEN "not_regular_file"
    ELSE IF p \in Sensitive THEN "skipped_sensitive_path"
    ELSE IF MaxFileHash = 0 \/ NodeSize(n) > MaxFileHash THEN "skipped_file_too_large"
    ELSE IF OverTotalBudget(n) THEN "skipped_total_budget"
    ELSE "hashed"

\* Mutant: every entry without a hash is counted as skipped.
SkippedAnyKind(n, hash) == hash # "hashed"

HashSkipped(n, hash) == hash # "hashed" /\ n.kind = "file"

CountEntry(s, n, hash) ==
    [s EXCEPT !.retained = s.retained + 1,
              !.hashedFiles = s.hashedFiles + (IF hash = "hashed" THEN 1 ELSE 0),
              !.hashedBytes = s.hashedBytes + (IF hash = "hashed" THEN NodeSize(n) ELSE 0),
              !.skipped = s.skipped + (IF HashSkipped(n, hash) THEN 1 ELSE 0)]

\* Mutant: the file limit is exclusive.
LimitExclusive(r)  == r.size < MaxFileHash /\ r.size = NodeSize(meta)

\* hash_regular_file stops past the file limit; entry_state wants the length of the stat.
ReadIsWhole(r) == r.size <= MaxFileHash /\ r.size = NodeSize(meta)

-----------------------------------------------------------------------------
(* The capture.                                                            *)

\* A root is skipped, and marked truncated, once the walk was cut short.
SkipRoot ==
    /\ pc = "roots" /\ root <= NRoots
    /\ globalTruncated \/ interrupted
    /\ stats' = [stats EXCEPT ![root] = Truncated(@)]
    /\ root' = root + 1
    /\ UNCHANGED <<envVars, pc, pending, dirs, walkErrs, handVars, tallyVars, globalTruncated>>

\* WalkDir opens the root directory and reads its whole listing to sort it.
OpenRoot ==
    /\ pc = "roots" /\ root <= NRoots
    /\ ~(globalTruncated \/ interrupted)
    /\ \E l \in Listings(TRUE, TopLevelOf(root)) :
         pending' = l.seen /\ dirs' = ListedAsDir(l.seen) /\ walkErrs' = l.errs
    /\ pc' = "walk"
    /\ UNCHANGED <<envVars, root, handVars, tallyVars, stats, globalTruncated>>

CloseRoot ==
    /\ pc = "walk" /\ walkErrs = 0 /\ pending = {}
    /\ root' = root + 1 /\ pc' = "roots"
    /\ UNCHANGED <<envVars, pending, dirs, walkErrs, handVars, tallyVars, stats, globalTruncated>>

\* Mutant: only the root at hand is cut short.
BreakThisRootOnly(counted) ==
    /\ stats' = [stats EXCEPT ![root] =
                    [Truncated(stats[root]) EXCEPT !.scanned = stats[root].scanned + counted]]
    /\ pending' = {} /\ dirs' = {} /\ walkErrs' = 0
    /\ root' = root + 1 /\ pc' = "roots"
    /\ UNCHANGED <<envVars, handVars, tallyVars, globalTruncated>>

\* Leaving the loop early drops what the walk still had to yield.
BreakWalk(counted) ==
    /\ stats' = [stats EXCEPT ![root] =
                    [Truncated(stats[root]) EXCEPT !.scanned = stats[root].scanned + counted]]
    /\ globalTruncated' = TRUE
    /\ pending' = {} /\ dirs' = {} /\ walkErrs' = 0
    /\ root' = root + 1 /\ pc' = "roots"
    /\ UNCHANGED <<envVars, handVars, tallyVars>>

\* The flag is read only when the walk has yielded an item.
StopOnInterrupt ==
    /\ pc = "walk" /\ (walkErrs > 0 \/ pending # {})
    /\ interrupted
    /\ BreakWalk(0)

\* Error items come before the paths of their listing, and before the limit.
CountWalkError ==
    /\ pc = "walk" /\ ~interrupted /\ walkErrs > 0
    /\ walkErrs' = walkErrs - 1
    /\ stats' = [stats EXCEPT ![root] = WalkErrorCounted(@)]
    /\ UNCHANGED <<envVars, pc, root, pending, dirs, handVars, tallyVars, globalTruncated>>

StopOnLimit ==
    /\ pc = "walk" /\ ~interrupted /\ walkErrs = 0 /\ pending # {}
    /\ AtEntryLimit
    /\ BreakWalk(1)

\* The next path.  WalkDir lists a directory before it yields the directory itself.
VisitEntry(p) ==
    /\ pc = "walk" /\ ~interrupted /\ walkErrs = 0
    /\ p \in pending /\ \A q \in pending : p <= q
    /\ ~AtEntryLimit
    /\ IF p \in dirs
         THEN \E l \in Listings(IsDir(fs[p]), ChildrenOf(p)) :
                /\ pending' = (pending \ {p}) \cup l.seen
                /\ dirs' = (dirs \ {p}) \cup ListedAsDir(l.seen)
                /\ walkErrs' = l.errs
         ELSE pending' = pending \ {p} /\ UNCHANGED <<dirs, walkErrs>>
    /\ stats' = [stats EXCEPT ![root].scanned = @ + 1]
    /\ cur' = p /\ pc' = "stat"
    /\ UNCHANGED <<envVars, root, meta, buf, tallyVars, globalTruncated>>

\* symlink_metadata fails: the path is gone, or the call failed.
StatFails ==
    /\ pc = "stat" /\ (fs[cur] = None \/ IoFaults)
    /\ stats' = [stats EXCEPT ![root].errors = @ + 1]
    /\ cur' = 0 /\ pc' = "walk"
    /\ UNCHANGED <<envVars, walkVars, meta, buf, tallyVars, globalTruncated>>

\* The entry of the path in hand is kept; only a hashed file is charged to the budget.
Retain(n, target, digest, hash) ==
    /\ entries' = [entries EXCEPT ![cur] = EntryState(n, target, digest, hash)]
    /\ retainedTotal' = retainedTotal + 1
    /\ hashedTotal' = hashedTotal + (IF hash = "hashed" THEN NodeSize(n) ELSE 0)
    /\ sensitiveSkipped' = sensitiveSkipped + (IF hash = "skipped_sensitive_path" THEN 1 ELSE 0)
    /\ stats' = [stats EXCEPT ![root] = CountEntry(@, n, hash)]
    /\ cur' = 0 /\ meta' = None /\ buf' = None /\ pc' = "walk"
    /\ UNCHANGED <<envVars, walkVars, globalTruncated>>

\* symlink_metadata succeeds; a directory or a file that is not to be hashed is kept at once.
StatKeeps ==
    /\ pc = "stat" /\ Kind(fs[cur]) \notin {"absent", "symlink"}
    /\ HashDecision(cur, fs[cur]) # "hashed"
    /\ Retain(fs[cur], None, None, HashDecision(cur, fs[cur]))

StatGoesOn ==
    /\ pc = "stat" /\ fs[cur] # None
    /\ Kind(fs[cur]) = "symlink" \/ HashDecision(cur, fs[cur]) = "hashed"
    /\ meta' = fs[cur]
    /\ pc' = IF fs[cur].kind = "symlink" THEN "readlink" ELSE "open"
    /\ UNCHANGED <<envVars, walkVars, cur, buf, tallyVars, stats, globalTruncated>>

\* A target that can no longer be read is left out without an error.
ReadLink ==
    /\ pc = "readlink"
    /\ \E target \in (IF Kind(fs[cur]) = "symlink" THEN {fs[cur].data} ELSE {None})
                      \cup (IF IoFaults THEN {None} ELSE {}) :
         Retain(meta, target, None, "not_regular_file")

\* File::open follows a symlink, or opens a device, that took the file's place: anything
\* may be read.
OpenContent ==
    /\ pc = "open"
    /\ Kind(fs[cur]) \in {"file", "symlink", "other"}
    /\ buf' = [data |-> fs[cur].data, torn |-> fs[cur].kind # "file"]
    /\ pc' = "hash"
    /\ UNCHANGED <<envVars, walkVars, cur, meta, tallyVars, stats, globalTruncated>>

OpenFails ==
    /\ pc = "open"
    /\ IoFaults \/ Kind(fs[cur]) # "file"
    /\ Retain(meta, None, None, "read_error")

\* The open, or the first read, of a pipe that took the file's place, or of what a link
\* there leads to: it returns when others write to the pipe, and no flag ends it.
OpenWaits ==
    /\ pc = "open"
    /\ Kind(fs[cur]) \in {"symlink", "other"}
    /\ pc' = "waiting"
    /\ UNCHANGED <<envVars, walkVars, handVars, tallyVars, stats, globalTruncated>>

Waits == pc = "waiting"

\* What was opened stays open, whatever becomes of the path.
WaitEnds ==
    /\ Waits
    /\ buf' = [data |-> None, torn |-> TRUE]
    /\ pc' = "hash"
    /\ UNCHANGED <<envVars, walkVars, cur, meta, tallyVars, stats, globalTruncated>>

\* What one read of the open file may return: its length and its digest.
Reads ==
    IF buf.torn
      THEN {[size |-> SizeOf[d], digest |-> d] : d \in Data}
             \cup {[size |-> s, digest |-> Torn] : s \in Sizes}
      ELSE {[size |-> SizeOf[buf.data], digest |-> buf.data]}

\* Mutant: a file that changed while it was read is read again.
ReadAgain ==
    /\ pc = "hash"
    /\ \E r \in Reads :
         IF ReadIsWhole(r)
           THEN Retain(meta, None, r.digest, "hashed")
           ELSE /\ pc' = "open" /\ buf' = None
                /\ UNCHANGED <<envVars, walkVars, cur, meta, tallyVars, stats, globalTruncated>>

FinishRead ==
    /\ pc = "hash"
    /\ \E r \in Reads :
         IF ReadIsWhole(r) THEN Retain(meta, None, r.digest, "hashed")
                           ELSE Retain(meta, None, None, "changed_during_read")

ReadFails ==
    /\ pc = "hash" /\ IoFaults
    /\ Retain(meta, None, None, "read_error")

Finish ==
    /\ pc = "roots" /\ root > NRoots
    /\ pc' = "done"
    /\ UNCHANGED <<envVars, walkVars, handVars, tallyVars, stats, globalTruncated>>

CaptureStep ==
    \/ SkipRoot \/ OpenRoot \/ CloseRoot \/ StopOnInterrupt \/ CountWalkError \/ StopOnLimit
    \/ \E p \in Paths : VisitEntry(p)
    \/ StatFails \/ StatKeeps \/ StatGoesOn \/ ReadLink
    \/ OpenContent \/ OpenFails \/ OpenWaits \/ WaitEnds \/ FinishRead \/ ReadFails \/ Finish

-----------------------------------------------------------------------------
(* The environment and the specification.                                  *)

Interrupt ==
    /\ pc # "done" /\ ~interrupted
    /\ interrupted' = TRUE
    /\ UNCHANGED <<fs, changes, held, captureVars>>

FsChange ==
    /\ pc # "done"
    /\ \E p \in Paths, n \in Nodes \cup {None} : Alter(p, n)
    /\ UNCHANGED <<interrupted, pc, walkVars, cur, meta, tallyVars, stats, globalTruncated>>

\* The state in which capture_internal starts.
Fresh ==
    /\ held = [p \in Paths |-> {fs[p]}]
    /\ pc = "roots" /\ root = 1
    /\ pending = {} /\ dirs = {} /\ walkErrs = 0
    /\ cur = 0 /\ meta = None /\ buf = None
    /\ entries = [p \in Paths |-> None]
    /\ stats = [r \in 1..NRoots |-> ZeroStats]
    /\ retainedTotal = 0 /\ hashedTotal = 0 /\ sensitiveSkipped = 0
    /\ globalTruncated = FALSE

Init == interrupted = FALSE /\ changes = 0 /\ fs \in FileSystems /\ Fresh

Done == pc = "done" /\ UNCHANGED vars

Next == CaptureStep \/ Interrupt \/ FsChange \/ Done

Spec == Init /\ [][Next]_vars

\* The capture runs on the recorder's own thread, which the scheduler keeps serving; that
\* others ever write to a pipe is not assumed.
FairSpec == Spec /\ WF_vars(CaptureStep /\ ~Waits)

-----------------------------------------------------------------------------
(* Properties.                                                             *)

Stats == [scanned : Nat, retained : Nat, hashedFiles : Nat, hashedBytes : Nat,
          skipped : Nat, errors : Nat, truncated : BOOLEAN, omittedKnown : BOOLEAN]

\* Every variable holds a value of its kind, and the entry limit is never exceeded.
TypeOK ==
    /\ fs \in [Paths -> Nodes \cup {None}]
    /\ held \in [Paths -> SUBSET (Nodes \cup {None})]
    /\ changes \in 0..MaxChanges /\ interrupted \in BOOLEAN
    /\ pc \in {"roots", "walk", "stat", "readlink", "open", "waiting", "hash", "done"}
    /\ root \in 1..(NRoots + 1)
    /\ pending \subseteq Paths /\ dirs \subseteq pending /\ walkErrs \in Nat
    /\ cur \in Paths \cup {0} /\ meta \in Nodes \cup {None}
    /\ buf \in [data : Data \cup {None}, torn : BOOLEAN] \cup {None}
    /\ entries \in [Paths -> EntryStates \cup {None}]
    /\ stats \in [1..NRoots -> Stats]
    /\ retainedTotal \in 0..MaxEntries
    /\ hashedTotal \in Nat /\ sensitiveSkipped \in Nat
    /\ globalTruncated \in BOOLEAN

Retained == {p \in Paths : entries[p] # None}
RetainedIn(r) == {p \in Retained : RootOf[p] = r}
HashedPaths == {p \in Retained : entries[p].hash = "hashed"}
HashedSizes == [p \in HashedPaths |-> entries[p].size]

\* The per-root counters of the receipt say exactly what the entries say, whatever
\* way each entry was read (capture_internal keeps the two in step by hand).
CountersMatchEntries ==
    /\ retainedTotal = Cardinality(Retained)
    /\ hashedTotal = SumFunction([r \in 1..NRoots |-> stats[r].hashedBytes])
    /\ sensitiveSkipped =
         Cardinality({p \in Retained : entries[p].hash = "skipped_sensitive_path"})
    /\ \A r \in 1..NRoots :
         /\ stats[r].retained = Cardinality(RetainedIn(r))
         /\ stats[r].hashedFiles = Cardinality(RetainedIn(r) \cap HashedPaths)
         /\ stats[r].hashedBytes =
              SumFunctionOnSet(HashedSizes, RetainedIn(r) \cap HashedPaths)
         /\ stats[r].hashedFiles + stats[r].skipped =
              Cardinality({p \in RetainedIn(r) : entries[p].kind = "file"})

\* Every scanned item is accounted for: kept, counted as an error, or the one item
\* that met the entry limit; only one root in a capture meets it.
ScanAccounting ==
    pc \in {"roots", "done"} =>
      LET surplus(r) == stats[r].scanned - stats[r].retained - stats[r].errors IN
      /\ \A r \in 1..NRoots :
           /\ surplus(r) \in {0, 1}
           /\ surplus(r) = 1 => stats[r].truncated /\ retainedTotal = MaxEntries
      /\ Cardinality({r \in 1..NRoots : surplus(r) = 1}) <= 1

\* The counters of the receipt are true of its entries and of the walk.
CountersAreTrue == CountersMatchEntries /\ ScanAccounting

\* The charged bytes of one capture stay within the total hash limit and no hashed file
\* is longer than the file limit; what is charged is what was read: a file that grew or
\* shrank between the stat and the read is not recorded as hashed.
HashBudget ==
    /\ SumFunction(HashedSizes) <= MaxTotalHash
    /\ \A p \in HashedPaths :
         /\ entries[p].size <= MaxFileHash
         /\ entries[p].digest # Torn => SizeOf[entries[p].digest] = entries[p].size

Steady(p) == None \notin held[p]
Quiet(p)  == held[p] = {fs[p]}
RootIsClean(r) == ~stats[r].truncated /\ stats[r].errors = 0

\* CONCEPT.md's rule for a missing entry: a path that is not in a finished capture was
\* absent at some moment of it, or its root says the capture is incomplete.
AbsenceIsEvidence ==
    pc = "done" =>
      \A p \in Paths : entries[p] = None => ~Steady(p) \/ ~RootIsClean(RootOf[p])

\* Truncation only ever loses a tail of the walk: later roots are truncated too, and
\* within an error-free root no steady path is missing before one that was kept.
TruncationLosesATail ==
    pc = "done" =>
      /\ \A r \in 1..NRoots : stats[r].truncated =>
           \A s \in (r + 1)..NRoots : stats[s].truncated /\ RetainedIn(s) = {}
      /\ \A q \in Retained, p \in Paths :
           p < q /\ RootOf[p] = RootOf[q] /\ Steady(p) /\ stats[RootOf[p]].errors = 0
             => p \in Retained

\* A root is truncated only by an interruption or with the entry limit used up.
TruncationHasCause ==
    \A r \in 1..NRoots : stats[r].truncated => interrupted \/ retainedTotal = MaxEntries

\* The entry of a path nobody touched states what the path holds, with a digest of its
\* content when it is hashed, and never claims that it changed while being read.
QuietEntryIsExact ==
    \A p \in Retained :
      LET e == entries[p]  n == fs[p] IN
      Quiet(p) =>
        /\ n # None /\ e.kind = n.kind /\ e.stamp = n.stamp /\ e.size = NodeSize(n)
        /\ e.hash # "changed_during_read"
        /\ e.hash = "hashed" => e.digest = n.data
        /\ e.hash = "read_error" => IoFaults
        /\ e.kind = "symlink" => e.target = n.data \/ IoFaults

\* A capture ends, whatever the file system does and whether or not it is interrupted,
\* unless it waits for good at a pipe: one put at a path between its stat and its open,
\* never at a path nobody touched.
CaptureTerminates == <>(pc = "done") \/ <>[](Waits /\ ~Quiet(cur))

=============================================================================
