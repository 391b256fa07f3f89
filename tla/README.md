# cmdtrail in TLA+

Specifications of `cmdtrail`, the recorder that runs one direct command between
two file-system captures and writes a sealed receipt of what changed. The
modules are translated from the Rust sources of this repository; TLC checks
them on small instances and TLAPS proves the theorems of the `*Proofs` modules
for every value of the constants. Every definition that models code is listed
with its lines in `PROJECT.json` under `map`.

Run a check with `tlc -config MCCapture_walk.cfg MCCapture` and the proofs with
`tlapm CaptureProofs.tla`, and so on for the other `*Proofs` modules.

## The system

| Part | State it keeps | Operations | Hard behaviour | What makes it correct |
| --- | --- | --- | --- | --- |
| Run setup (`record.rs`, `main.rs`, `snapshot.rs`) | options, working directory, prepared roots | parse the time limit, check the options, preflight, canonicalise, check, reject duplicates and overlaps | products that overflow; links and `..`; roots resolved one after the other while the tree changes | the limit is the one written; no place is in two roots |
| Filesystem snapshot (`snapshot.rs`, `capture_internal`) | entries, per-root statistics, totals, truncation flag | walk, stat, read, hash, count, stop | the tree changes during the walk; each listing, stat, open and read may fail; three limits; Ctrl-C | a kept entry is true; a missing entry is evidence of absence or is disclosed; counters agree with entries; the walk ends, or waits where a file became a pipe |
| Comparison (`snapshot.rs`, `compare`) | none | classify each path | captures that did not finish | only real differences are reported, lasting ones always |
| Record pipeline (`record.rs`, `record`) | the phases of a run, the receipt | capture, run, capture, compare, limit events, collect blind spots, seal, store | Ctrl-C in any phase | gaps are disclosed, dropped effects are counted |
| Command supervisor (`record.rs`, `run_command`) | child, two forwarder threads, Ctrl-C flag | spawn, poll, kill, wait, join | races of exit, limit and Ctrl-C; descendants that keep the pipes; failing kill and wait | the outcome is true; no child is left behind unsaid; no deadlock on full pipes |
| Receipt storage (`receipt.rs`, `record.rs`) | the receipt's directory | preflight, create, write, sync, recovery name | other processes and other recorders in the directory; failures and crashes between steps | nothing is overwritten; the exit code and the directory agree |
| Exit codes (`error.rs`, `main.rs`) | none | map errors to 0..6, print | the result cannot be printed | 0 and 6 tell whether to retry |
| Receipt integrity (`integrity.rs`) | event chain, digests | append, finalize, verify | several alterations that could cancel out | what verifies was sealed |
| Reading receipts (`receipt.rs`, `main.rs`) | none | stat, open, read, parse, verify, print | the file is still being written, replaced or overwritten; a length limit tested twice | success is about a sealed receipt that was there; the exit code says which fault a file has; a reader ends |
| Receipt comparison (`diff.rs`) | none | classify effect keys of two receipts | duplicate keys; effects a receipt dropped | what it says is true of the two runs |
| Redaction (`redact.rs`) | configured values, the flag that hides the next argument | redact commands, paths, text | flags whose value is the next argument; overlapping values; four rules one after the other on one text | what a rule covers is not shown by the next ones, and `argument_sha256` has digests of arguments shown in full only |
| Capability documents, schema (`capability.rs`, `model.rs`) | none | constant documents | | they agree with the code |
| Release evidence gate, benchmarks, drill, CI | files | scripts | | not part of the program |

The parts interact by calls inside one process, with four exceptions: the Ctrl-C
handler sets a flag that captures and supervisor read; the forwarder threads
read pipes whose other ends belong to the child and its descendants; the
captures share the file system with everybody; the receipt's directory is
shared with the observed command and other recorders. These four are where the
environment actions of the modules come from.

## Modules

| Module | Models | Extends or instantiates |
| --- | --- | --- |
| `Setup` | `record` up to the Ctrl-C handler: `parse_duration_ms`, `validate_options`, preflight, working directory, `prepare_roots`, in a changing tree | |
| `Capture` | one capture: `capture_internal`, `entry_state`, `hash_regular_file`, error records, against a changing tree | |
| `Observation` | `record` around two captures: the phases, `compare`, the event limit, blind spots | extends `Capture` |
| `Supervisor` | `run_command` ... `outcome_from_status`, forwarders, child, descendants, pipes | |
| `Recorder` | the whole run: the supervised command between the two captures | extends `Observation`, instantiates `Supervisor` |
| `Redaction` | the configured values, `command`, `path_display`, `path_is_sensitive`, `text`, URLs | |
| `ReceiptPromise` | abstract: what the files and exit codes promise a caller | |
| `ReceiptStore` | `record` from arguments to exit code, `write_new_receipt`, recovery, several recorders in one directory | instantiates `ReceiptPromise` |
| `Integrity` | `append_event`, `finalize_receipt`, `verify_receipt`, altered copies | |
| `Reader` | `show`, `verify`, `diff`: `read_receipt`, `parse_receipt_document`, `diff_receipts`, beside a writer and others | |
| `SetupProofs`, `CaptureProofs`, `SupervisorProofs`, `ReceiptStoreProofs`, `IntegrityProofs`, `ReaderProofs`, `RedactionProofs` | theorems | extend the component and `TLAPS` |
| `RecorderProofs` | theorems about `Observation` and `Recorder` | extends `Recorder` and `CaptureProofs`, instantiates `SupervisorProofs` |
| `MC*` | instances for TLC | extend the component |

### Setup

A place is the sequence of names that leads to it from `/`; `tree` says what each
place holds, and `Canonical` is `fs::canonicalize`: it walks a path, follows links
(up to `MaxLinks` of them) and steps back at `..`. `pc` follows `record`: every
call that may refuse is an action with its exit code, so refusals come in the
code's order. The candidates are resolved one at a time, and a root is resolved
in one step and inspected in the next (`ResolveRoot`, `InspectRoot`), because
`prepare_roots` makes two calls; others may change the tree in between.
Durations are digits and the letters after them; `CheckedMul` works in words of
`Word` values. Loading the redaction values may fail or not; root identifiers
and display names are left out.

### Capture

`fs` is the tree (path to node or `None`), `held` a history of what each path
held since the capture began. `pc` says where `capture_internal` is: between
roots, in the walk, after the listing of an entry and before its stat, before
the open, before the read. `pending` and `dirs` are the walker's stack, `cur`,
`meta` and `buf` the entry in hand, `entries`, `stats`, `retainedTotal`,
`hashedTotal`, `sensitiveSkipped`, `globalTruncated` the locals of the code with
the same or a close name. A file-system change may happen between any two
steps; a read that meets a change may return content no file ever had (`Torn`).
`StopOnInterrupt` and `StopOnLimit` are the two breaks of the walk, the order of
the tests is the code's.

Simplifications: a directory is listed in one step; the walk error of a listing
is one error; a root is always a directory (`prepare_roots` checked it); no
populated directory is moved into the tree in one step; the branch that rejects
a path outside its root (`path_escape`) is left out since the walk cannot leave
the root without following links, which it does not; opening a path that has
become a link or a device reads any content, fails, or waits; a read beyond the file
limit counts no bytes.

A file may become a named pipe, or a link to one, between its stat and its open. Then
`File::open` or the first read blocks, whatever the Ctrl-C flag says, until somebody
else writes: `OpenWaits` leads to `pc = "waiting"`, and `WaitEnds`, without fairness, out
of it. `WaitsOnlyAtChangedPaths` proves that this needs a change during the capture: a
pipe that was there from the start is kept as `other` and never opened.

### Observation

`phase` is where `record` is, `before` the finished first capture with its
history, `mid` the history since. `Seal` is one action: `compare`, the cut to
`max_events - 2` effects, counts and blind spots, for the code does them without
reading the file system again. The command is a phase in which the tree
changes; how it is run is `Supervisor`'s subject.

### Recorder

`Run == INSTANCE Supervisor WITH pc <- runPc` puts the supervised command where
`Observation` has the phase "command". The two share `interrupted`, as the code
shares the flag: one Ctrl-C may cut the first capture, keep the command from
being spawned, stop it and cut the second capture. The command changes the tree
only while its process lives, others change it at any time; `late` records a
change by the command after the second capture began, which only a child that
could not be awaited makes.

### Supervisor

`pc` follows `run_command`: the flag test, the spawn, `try_wait`, the flags, kill,
wait, the joins of `finish_run`. The child is running, dying (killed, not yet
dead), a zombie or reaped. A pipe has a capacity; a forwarder ends at end of
file, which needs an empty pipe and no process that holds it, or fails. A
descendant inherits what its parent still holds.

### ReceiptStore and ReceiptPromise

`files` is the directory: each name holds nothing or a file with its owner, the
receipt's identifier, and how far it has come (`partial`, `whole`, `synced`). A
recorder's `pc` follows `record` and `write_new_receipt`; `target` is the
requested name first and the recovery name after a failure. `Place`, `Remove`
and `Toggle` are the observed commands, other programs and the administrator of
the directory; `Crash` stops a recorder anywhere. The identifier is chosen at
sealing from a small set, so two recorders may seal the same one, as they do
when the contents agree to the millisecond. Nobody else creates a recovery
name, which is unknown before its receipt is sealed. Durability is that of
`sync_all` on the file; the directory entry is taken to survive.

`ReceiptPromise` is the caller's view: a name is claimed while it is free, has
one owner, a receipt is completed by its owner, and "kept" or "recovered" is
said only of a completed one. `ImplementsPromise` is its specification under the
mapping `StageOf`, `files[n].owner`, "synced".

### Integrity

Digests are symbolic: `Hash(domain, value)` is the pair, so different values have
different digests. Recorders build and seal receipts; a copy is then altered:
single fields, digests of other receipts, events dropped, replaced, inserted, and
the envelope sealed again.

### Reader

`dir` maps a name to a file, `store` a file to what it holds, so that a name may
be made to lead to another file while the reader keeps the one it opened. `pc`
is at the stat, the open, a read, the parse or the report; `docs` are the receipts
parsed so far. A document stands for what a file is to hold once it is written:
it has a size in pieces, is a receipt or not, verifies or not (which is
`Integrity`'s subject), and carries the effects its run had (`ran`) and the
events it kept. A recorder writes it piece by piece; a text without its last
piece, the newline, still parses. Overwriting a file that is being read gives a
mixture, which parses to nothing or to a receipt that does not verify. Opening a
pipe that replaced the file waits (`Waits`), as the code does.

### Redaction

A text is a sequence of tokens: the separators and signs the code looks for, and
words. A word stands for its spellings in either case and with `_`, `.` or `-`
inside, and two words side by side form no third one, so `contains` is membership.
`redacted` markers are tokens no input has. Two of them carry digits of a digest of what
they hide, eight of a path component (`src/redact.rs:123`) and twelve of an argument
that is not Unicode (`:152`); the model leaves the digits out, and no property says
that they are not there: `DigestsAreOfShownText` is about `argument_sha256`. The operators follow the functions of `redact.rs` one by one, and those of
`Redactor` take its values as their first parameter, so that a lemma about them holds
in every state; the arguments are handled one action each, for `redactNext` is state
between them. `FromEnvironmentNames` is the set of the sorted lists without duplicates
(there is one, as `Rank` orders the tokens), or nothing. `RedactionAssumption` says that
inputs are texts over the ranked tokens, in which the code's markers do not occur.

`SecretArgumentsAreHidden` looks at the arguments as they were given, not as the code
shows them, and says which of them it leaves out. `Text` runs before the rules for
flags and keys, and may take a flag or key away: with a configured value that begins
in it, or, in an argument with a separator, with a path component of it that holds a
sensitive word. `KeyStands` says that neither happens, up to the equals sign or, if
there are separators, to the end of the component with the sign (`KeyEnd`). Where it holds
everything behind the sign is hidden, separators, configured values and URLs included,
as in `--token=a/b`; where it does not, `redaction_inline` shows what happens. A
run of flags alternates as the code says if the names in it, and that of the
argument before it, stand (`FlagsStand`); see the observation on `--password/z` below.

## Runs

All runs check deadlock: sealed, ended or finished states have an explicit
stuttering action (`Sealed`, `Done`).

| Run | Instance | Shows |
| --- | --- | --- |
| `setup` | five places, links to two of them, 74 command lines, eight-bit words, no root, one or two, free and taken destinations, one change; 305 736 states | roots disjoint; setup exact in a quiet tree: a free destination, the roots asked for or the working directory, and reasons for exits 1 and 2; time limits exact |
| `capture` | three roots (a directory with a child, a leaf, nothing); files below and above the hash limit, a symbolic link, a device or pipe; entry limit 2; a hash budget for one file; failing calls; one change; weak fairness of the recorder but in a wait; 1 747 386 states | types, counters account for every scanned item and agree with the entries, truncation loses only a tail and has a cause, the hash budget and the length of what was hashed, absence is evidence, an untouched path's entry is exact, the capture ends or waits at a path that was changed |
| `observation_effects` | three paths, limit 2, two changes, one slot for file effects, no failing call; 1 221 445 states | absences disclosed; what is reported has a witness and is bounded; lasting changes are reported or the loss is disclosed (with failing calls by the theorem only) |
| `observation_deletion`, `observation_limitspot` | no change at all | two findings |
| `supervisor` | child and one descendant, pipes of one unit, two writes each, every fault | outcomes are true, no unreaped child unsaid, pass-through complete or disclosed, full pipes are drained, Ctrl-C or the limit ends the run |
| `recorder` | one path, a file or a link, failing file, spawn, wait and kill calls, one change | late changes of the command disclosed, interrupted runs disclosed, untouched paths not reported also when calls fail, Ctrl-C or the limit leads to a sealed receipt, but for held streams and a wait at a changed path; 499 380 states |
| `redaction` | 19 arguments, up to three at a time, eight lists of configured values, two executables, six paths; 72 400 states | values behind flags and keys that stand hidden, configured values hidden, digests in `argument_sha256` of arguments shown in full only, path display and hashing decision agree |
| `redaction_inline` | a key that also hides path components | a finding |
| `store` | two recorders, two names, two identifiers, every fault and crashes, one change by others | exit codes and files agree, no clobber, the refinement |
| `integrity_splice` | two recorders, two events each, three alterations | what verifies was sealed; links pin the history |
| `reader` | two names, two effect keys, receipts of every run over them, whole or with one effect dropped, of the limit's length and around it, altered, unfinished or no receipts; failing calls, one change by others | success is about sealed receipts, exit codes exact, comparisons true, readers end |

Bounds. Three roots show what carries over from root to root (truncation, budget,
totals) and a root that was never looked at. The tree has a directory with a
child and a path in the next root, so a walk descends, returns and moves on. The
entry limit lies below the number of paths, so it is met inside a root, at its
end and not at all, depending on the tree. In `observation_effects` a second change
makes a path go and come back. In `Supervisor` one descendant is enough to keep a
pipe open after the child; a pipe of one unit blocks at once. `recorder` leaves out
descendants and output, which `supervisor` has, and keeps one path, since its
properties are about one path at a time; that a change elsewhere leaves an untouched
path unreported is the theorem `UntouchedUnreported`. Two recorders collide on a
name and an identifier; a third would meet the same free-or-taken name. In
`Integrity` two receipts with two events allow every splice of head and tail; `Reseal`
seals the envelope of a copy again and never the events, whose digests pin the
history (whoever runs the program's own code on new events has a fresh receipt,
which no check can tell from another). In
`Setup` two roots show every overlap, which is a property of pairs; words of 256
make the product of each unit overflow. In `Reader` the limit is three pieces: two,
three, four (a last newline past the limit) and five are the lengths it tells
apart; one change falls between any two calls. In `Redaction` three arguments
show a flag, its value and what follows; the configured values contain each
other. `MaxChanges`, `MaxWrites`, `MaxEvents` of `Integrity` and `MaxArguments` are the only
artificial bounds, on the environment and on history.

Fairness. `CaptureTerminates` and the supervisor's properties assume weak
fairness of the recorder's own threads (they are runnable whenever the action is
enabled), and of `ChildDies`, since the kernel ends a process that was sent
SIGKILL. Of a capture that waits in an open or read nothing is assumed: fairness is of
`CaptureStep /\ ~Waits`, so it may wait for good, and `CaptureTerminates` and
`StopSealsTheReceipt` name that case and that the path was changed. Fairness of `Forward`
assumes that whoever reads the recorder's own stderr keeps reading it: `FullPipeDrains`,
`StopEndsTheRun` and `StopSealsTheReceipt` say nothing of a recorder whose stderr is a
full pipe, for there `io::copy` blocks and the joins wait. Nothing is assumed of the
command, of Ctrl-C or of the time limit.
`StopEndsTheRun` and `StopSealsTheReceipt` therefore promise the end of the run only
once no process holds its streams: a descendant may keep them, and so may a
child that could not be killed. `ReaderEnds` assumes weak fairness of the reader's
own calls; that a call fails is not assumed, nor that a writer goes on, so a reader
also ends on a receipt that stays unfinished.

## Findings

Each is a run that TLC ends with a counterexample.

- `observation_deletion`: a second capture cut short reports paths that were never
  absent as deleted. The truncation is in the summary; the effect is not marked.
- `observation_limitspot`: an interrupted capture is announced as one that hit the
  entry limit.
- `redaction_inline`: in `--password=a/b` the path rule runs first, replaces the
  component that holds the key and the equals sign, and shows `b`.

Observations without a run:

- A file whose length changes between stat and read is read and hashed without being
  charged to the total hash limit (`src/snapshot.rs:389`), so more bytes than the
  limit may be hashed; `HashBudget` is about what is charged.
- A file that became a named pipe, or a link to one, between its stat and its open
  (`src/snapshot.rs:221`, `:412`) blocks the capture until somebody writes to the pipe.
  Ctrl-C sets a flag that is looked at between entries, so it does not end the wait,
  and the time limit is not running. `CaptureTerminates` and `StopSealsTheReceipt` name
  the case; `O_NONBLOCK`, or a second stat of the open file, would close it.
- The README says "Digests for redacted arguments are omitted" (`src/README.md:151`) and the
  concept speaks of "omitted secret digests" (`src/CONCEPT.md:126`). That is so of
  `argument_sha256`, which `DigestsAreOfShownText` checks. The display itself has eight hex
  digits of the unsalted SHA-256 of a hidden path component (`src/redact.rs:123`) and
  twelve of an argument that is not Unicode (`:152`).
- In a flag with a separator such as `--password/z` the path rule hides the component
  with the name first; what is left is no flag and the next argument is shown. The same
  goes for a configured value that begins in a flag or key. `FlagsStand` and `KeyStands` name
  these cases; `redaction_inline` is the finding for keys.
- The second capture waits for every process that holds stdout or stderr, also after
  the time limit or Ctrl-C (`src/record.rs:523`): a descendant started in the
  background with inherited streams delays it. `StopEndsTheRun` names the case.
- A run interrupted before the spawn whose receipt cannot be written ends with exit 6
  and says that the command was attempted (`src/record.rs:364`).
- `omitted_count_known` is false for complete captures too, where the contract fixture
  of v0.1 shows true (`src/model.rs:127`; no line sets it true).
- A stored receipt whose result cannot be printed ends with exit 1
  (`src/main.rs:171`; `ReportFails` in `ReceiptStore`).
- Configured values are replaced in sorted order, so a value that begins with another
  one loses its head to the shorter value and its tail stays visible
  (`src/redact.rs:43`); `ConfiguredValuesAreHidden` holds since the whole value is gone.
  A configured value that contains a separator is not found inside paths, which are
  split first; the property leaves such values out.
- `path_display` splits at backslashes too, `path_is_sensitive` on Unix only at slashes
  (`src/redact.rs:119`, `:139`): a file named `a.pem\b` is displayed with a hidden part
  while its content is hashed, and with a configured value that holds a backslash it
  is the other way round. `HiddenPathsAreNotHashed` leaves paths with a backslash out.
- A receipt one byte past 64 MiB is written without complaint and read by nobody; the
  model has it as a document too long, with exit 4.

## Proofs

`CaptureProofs`, from the assumptions on the tree (`TreeAssumption`: numbering in
walk order, `Below` the proper descendants, one root per path) and on values
(`ValueAssumption`):

- `TypeCorrect`. `TypeOK` is not inductive: the entry in hand has a node in `meta`
  and a current root only in some values of `pc`. `TypeInv` adds that (`HandOK`).
- `MissingEntryIsEvidence`. `AbsenceInv` adds four conjuncts: the tree is
  consistent (a path's ancestors are directories), a steady path is there now,
  pending directories are what they should be, and the heart, `CoverInv`: every
  steady path of the current root that was not kept is still pending, is below a
  pending directory, is in hand, or its root has an error or is truncated. One
  lemma per action that moves the walk; file-system changes only make fewer
  paths steady.
- `TruncationCaused`, from `CauseInv`, which ties the truncation flag to its causes.
- `QuietEntryExact`. `EntryInv` says of every kept entry that it comes from a node the
  path held (`FromNode`), has a shape `entry_state` can give it (`Shape`) and is exact
  while the path is quiet (`Exact`); `HandInv` says the same of the entry in hand
  between its stat, its open and its read. One lemma (`RetainEntry`) for all five
  steps that keep an entry.
- `WaitsOnlyAtChangedPaths`, from `HandInv` too: what is in hand and quiet is the regular
  file its stat saw, so its open does not wait.
- `TruncationTail`. `TailInv` adds to `AbsenceInv` where kept, pending and current paths
  lie (`PlaceInv`), that a truncated root was left for good (`MarkInv`), and that no
  steady path before a kept one, or before the one in hand, is missing from an
  error-free root (`OrderInv`).

The second half of `CaptureProofs` compares the counters with cardinalities and sums
over the entries. A sum is a `SumFunctionOnSet`, a recursion over subsets: that the recursive function
exists and that its value does not depend on the order are proved by a least
counterexample in the number of elements (`AddsExists`, `AddsAnyOrder`), since the
induction theorems of the library cannot be used.

- `CountersTrue`. A path is counted once because the walk only moves forward:
  everything kept comes before everything in hand or pending (`AheadInv`). Each step
  that keeps an entry moves the counters of its root by what the entry adds to the
  sets they count (`SetsGrow`, `CountedMoves`); `ScanInv` accounts for the items
  scanned: the one in hand, and the one that met the entry limit.
- `BudgetKept`. Between the test of the budget and the charge the budget still has room
  for the file in hand (`BudgetInv`).

The lemmas are stated for `Move`: a step of the capture, a change, a rising Ctrl-C flag
or a stutter. The captures of `Observation` and `Recorder` take no other steps, so
the invariants carry over to them.

`RecorderProofs` treats the observed run and the whole run. A finished capture is
described by `Outcome`, which speaks of its entries, counters and history alone: what
a path's entry, or its absence, says of what the path held (`Says`). It follows from
the invariants of `CaptureProofs` when the walk is done and no longer depends on
the file system, so it outlives the command and the second capture.
`ObservationInv` keeps it, the second capture's invariants while it runs, and ties
the receipt to the two (`SealedInv`).

- `AbsenceDisclosed`, `ReportTrue`, `LastingChangeReported`, `UntouchedUnreported`: what
  the receipt says, of `ObservationSpec`, where the command changes the tree at will.
- `RecorderIsObservation`: every step of the whole run is a step of the observation or
  a stutter of it, so those theorems hold of the whole run as well
  (`RecorderUntouched`).
- `LateChildDisclosed`, `InterruptionDisclosed`, `RecorderSupervised`: `RecorderInv` joins
  `ObservationInv` with the supervisor's invariant, taken from `SupervisorProofs`
  under the substitution `pc <- runPc`. The supervisor's constants are constrained by
  `RunAssumption`, which is `SupervisorAssumption` under that substitution. The flag
  may rise outside the command as well (`FlagsRise`).

`SetupProofs`, from `SetupAssumption`:

- `TypeCorrect`: types, and exactly a refused run has an exit code.
- `RootsShareNothing`. The accepted roots do not overlap pairwise (`~Overlap` is what
  the code tests), and two prefixes of one place are nested (`PrefixesNest`), so no
  place lies below two roots. Nothing about the tree is needed: whatever changed
  while the roots were resolved, the accepted sequence is disjoint.
- `QuietSetupExact`. `prepare_roots` canonicalises a root and then asks what is at the
  result, which canonicalises once more, so exactness needs that a canonical path
  leads to itself (`CanonicalStays`). `Canonical` is a recursion over links left and
  names left; that its function exists is proved from a state without an earlier
  counterexample (`WalkIs`). What the walk has behind it is `Straight`: every name is
  there, no link, and a file only at the end (`ArrivesStraight`), and a straight path
  stays (`StraightStays`). `QuietInv` then says that the roots accepted so far are the first
  ones asked for, that a run past the preflight had a free destination, and that one
  refused there had none; `ApartIsTested` says that `Overlap` is the test for a shared place.
- `LimitIsExact`. The property speaks of the written text through a reference,
  `DurationIsExact` relates `parse_duration_ms` to it: what is read was spelled
  (`ReadIsSpelled`), what is spelled is read (`SpelledIsRead`), and a product is
  refused exactly when it leaves the word.

`SupervisorProofs`, from `SupervisorAssumption` (a pipe holds at least a byte, `None` and "child" are nothing
else). The invariant is `TypeOK`, `RunInv` and `PipeInv`. `RunInv` ties the child's
state to `pc` (`ChildInv`), each reason for a kill to what caused it (`ReasonInv`)
and the outcome to both (`VerdictInv`): `UnreapedChildIsDisclosed` and
`OutcomeIsTrue` are about the end only and not inductive. `PipeInv` is the
conservation of bytes, written = forwarded + in the pipe (`StreamInv`), and what a
finished join has seen (`JoinInv`); `PassThroughIsComplete` follows since a forwarder
that saw the end of file left an empty pipe with no holder.

- `TypeCorrect`, `ChildIsDisclosed`, `OutcomeTrue`, `PassThrough`; and `OutcomeFinal`,
  an action property no run checks: a decided outcome is not revised and
  nothing is spawned after it.

`ReceiptStoreProofs`, from `StoreAssumption` (recovery names cannot be requested,
`None` and `Foreign` are nothing else):

- The invariant `StoreInv` is `TypeOK` and `RecorderInv(r)` for every recorder. It
  has four parts: `Position` (what is known where), `Files` (the files a recorder
  made are those it meant to make, and a removed one is not made again),
  `Progress` (the file in hand is partial, whole or synced as `pc` says, or was
  removed) and `Verdict` (what each exit code implies). The properties alone are
  not inductive, since they say nothing of a recorder that has not ended.
- `OwnSteps` treats the recorder's own actions; `DirectorySteps` says that any
  recorder only claims free names or completes its own file, so `OtherSteps`
  follows by `Frame`; `PlaceStep` and `RemoveStep` treat everybody else.
- `StoreTypeCorrect`, `ReceiptIsStored`, `RefusalLeavesNothing`,
  `LeftoversAreDisclosed` are consequences of `StoreInv`; `NothingIsClobbered` is
  an action property and follows from `StoreInv` and `DirectorySteps`.
- `PromiseIsKept` is the refinement: `StoreInv` makes every step of a recorder a
  claim, a completion or an answer of `ReceiptPromise`, or a stutter, and every change
  by others one of the abstract ones; `StageOf` and the owners are followed name by
  name.

`IntegrityProofs`, without assumptions on the constants: any number of recorders,
events of any content, any number of alterations. The only fact about digests is
that equal ones are of equal values in equal domains (`HashInjective`).
`IntegrityInv` says that every log is chained (each event carries its number, the
digest of the one before, and its own), that what is sealed verifies, and that a
copy is made of known pieces: each of its events carries a digest found in a sealed
log, and unless it was sealed again so does its receipt digest.

- `VerdictExact`. A receipt digest is in a domain of its own, so a known one that
  verifies is that of a sealed receipt, and its material is too (`DigestPinsReceipt`).
- `HistoryIsPinned`. The digest of the copy's last event is in a sealed log, at the
  same place since it covers the number; from there the links lead down to the
  first event (`LinksPin`, a descent along the natural numbers by `WFMin`).

`ReaderProofs`, from `ReaderAssumption` and `RecordedAssumption`. `ReaderInv` is `TypeOK` with the directory
(`DirInv`: a file has at most one name, and what a name leads to was noted),
the open file (`OpenFileInv`: others may take its name away but cannot write it), the
text (`TextInv`) and what was parsed so far (`ProgressInv`).

- `TypeCorrect`, which bounds what is read by the limit and one piece.
- `SuccessIsAboutSealedReceipts`: exit 0 is about receipts that verify and were
  under their name since the reader began.
- `ComparisonIsTrue`, from `DiffOfRuns`: what `diff_receipts` says of two event lists
  is true of the runs but for effects a receipt dropped.
- `QuietReadExact`. While nobody touches the named files, `QuietInv` says that what was
  parsed is what the files before the one in hand hold, each whole and verified in the
  order of the tests, so the exit code is that of the first fault.

`RedactionProofs`, from `RedactionAssumption`:

- A rule is compared with the text it was given by what can be read in its result: a
  text without markers that occurs in the result occurred in what the rule had to show
  (`Masked`), and a rule that changed anything left a marker (`Noted`). Both carry over
  from rule to rule, so no later rule can put together again what an earlier one took
  apart: `Replaced` and `Hidden` for configured values, `PathIs` for components,
  `InlineIs` and `UrlIs` for the two rules on arguments, `ShownIs` for all of them.
- `Replace`, `HideValues`, `Parts` and the `FlattenSeq` of `Joined` are recursive
  functions. That they exist and what they return is proved by a least counterexample
  (`LeastNumber`) in the place of the text they have come to. `PartsAre` and
  `JoinedParts` say that splitting and joining give the text back, with slashes.
- `RedactionInvariant`. The properties speak of displays already made and are not
  inductive by themselves. `RedactionInv` adds the types, that `redactNext` is what the
  alternation of the flags so far makes it (`TurnIsKnown`, by `TurnMore`: one argument
  more flips the turn or ends the run of flags), that each argument is displayed as its
  turn says (`DisplaysByTurn`) and that what is hidden is counted (`HiddenAreCounted`).
- For `SecretArgumentsStayHidden` a rule is also compared with the beginning of its text:
  up to the first place where a value starts nothing changes, and no value that was not
  there starts in it afterwards (`Continues`, from `ScanContinues` for one value to
  `HideContinues` for all); up to a separator before which no component is hidden a path
  is shown as it is (`Leads`, `PathLeads`, `PathBegins`). So a name that stands is shown, its
  equals sign is still the first one (`NameKept`), and the rule for keys finds it
  (`InlineValue`). That nothing behind the sign comes back is a bound on the tokens a rule may
  show: those it was given, slashes and markers (`MaskedTokens`, `TextTokens`). Flags that
  stand are flags as the code sees them (`ArmedIsFlag`), so the alternation of the
  arguments as given is that of the arguments as shown (`IsFlagValueIs`).
- `SecretArgumentsStayHidden`, `DigestsStayOfShownText`, `ConfiguredValuesStayHidden` and
  `HiddenPathsStayUnhashed` follow from it. The last one is about `PathDisplay` and
  `PathIsSensitive` alone, which agree component by component (`ComponentHidden`,
  `PathJudged`): an empty component, which one of them skips, hides nothing.

Only model-checked:

- liveness (`CaptureTerminates`, `StopEndsTheRun`, `FullPipeDrains`,
  `StopSealsTheReceipt`, `ReaderEnds`), since the provers do not handle fairness and
  `ENABLED`. Every other property of a passing run is stated by a theorem.

## Plan

The order is that of the promise the program makes: first what a capture may be
believed for, then the run, then the files, then what is read back and shown.
All modules of the plan are there, and of what they state only liveness is left
without a proof.

Not modelled, and why: benchmarks, CI workflows, the fuzz target and the
continuity drill are release infrastructure without program state; the
capability and schema documents are constants, used here for what they claim;
the v1 evidence gate is a release-time check of a JSON file. Formatting of
receipts, display names, time stamps and JSON wording carry no property here.
