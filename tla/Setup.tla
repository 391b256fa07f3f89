------------------------------- MODULE Setup -------------------------------
(***************************************************************************)
(* From the command line to the first capture (src/main.rs,                *)
(* parse_duration_ms; src/record.rs, record and validate_options;          *)
(* src/receipt.rs, preflight_new_receipt; src/snapshot.rs, prepare_roots): *)
(* the time limit is read, the options are checked, the destination is     *)
(* looked at, and the working directory and the observation roots are      *)
(* resolved, in a file system others change between any two calls.         *)
(*                                                                         *)
(* A place is the sequence of names that leads to it from /.  A canonical  *)
(* path is a place.  Loading the redaction values may fail or not here;    *)
(* Redaction is about them.                                                *)
(***************************************************************************)
EXTENDS Integers, FiniteSets, SequencesExt

CONSTANTS
    Places,         \* the places that may ever exist
    Nodes,          \* what a place holds: a kind, and where a link leads
    MaxLinks,       \* links the kernel follows in one resolution
    MaxChanges,     \* bound on changes by others
    Units,          \* milliseconds of each unit: [{"ms", "s", "m", "h"} -> Nat]
    Word,           \* 2^64: the first count that does not fit a machine word
    MaxTimeout, MaxEntriesLimit, MaxEventsLimit, MaxFileLimit, MaxTotalLimit,
    CommandLines,   \* options, destination, working directory and roots as they are given
    SetupFaults,    \* whether environment values or the handler may be missing
    None

Directory == [kind |-> "directory", to |-> <<>>]

ASSUME SetupAssumption ==
    /\ <<>> \in Places /\ \A p \in Places : p \in Seq(STRING) /\ (p # <<>> => Front(p) \in Places)
    /\ Directory \in Nodes
    /\ None \notin Places /\ None \notin Nodes
    /\ None \notin Int /\ None \notin {"ms", "s", "m", "h"}
    /\ MaxLinks \in Nat /\ \A n \in Nodes : n.to \in Seq(STRING)
    /\ MaxChanges \in Nat /\ MaxTimeout \in Nat /\ Word \in Nat /\ MaxTimeout < Word
    /\ Units \in [{"ms", "s", "m", "h"} -> Nat]
    /\ \A c \in CommandLines :
         /\ c.duration # None => c.duration.digits \in Nat /\ c.duration.letters \in Seq(STRING)
         /\ c.working \in Seq(STRING)
         /\ c.roots \in Seq([absolute : BOOLEAN, path : Seq(STRING)])

VARIABLES
    pc,         \* where record is
    exit,       \* the exit code of a refused run
    given,      \* the command line
    timeout,    \* timeout_ms
    tree,       \* what each place holds
    changes,    \* how often others changed it
    working,    \* the canonical working directory
    found,      \* the root that was resolved last
    roots       \* canonical

setupVars == <<pc, exit, given, timeout, working, found, roots>>
vars == <<setupVars, tree, changes>>

-----------------------------------------------------------------------------
(* Paths.                                                                  *)

Holds(t, p) == IF p \in Places THEN t[p] ELSE None

\* fs::canonicalize: the place a path leads to, None when a name on the way is missing, a
\* file is passed through, or links do not end.
Canonical(t, path) ==
    LET walk[s \in [done : Seq(STRING), rest : Seq(STRING), links : 0..MaxLinks]] ==
          LET next == Append(s.done, Head(s.rest))
              rest == Tail(s.rest)
              node == Holds(t, next)
          IN CASE s.rest = <<>> -> s.done
               [] s.rest # <<>> /\ Head(s.rest) = ".." ->
                    walk[[s EXCEPT !.done = IF @ = <<>> THEN <<>> ELSE Front(@), !.rest = rest]]
               [] OTHER ->
                    IF node = None \/ (node.kind = "file" /\ rest # <<>>) THEN None
                    ELSE IF node.kind # "link" THEN walk[[s EXCEPT !.done = next, !.rest = rest]]
                    ELSE IF s.links = 0 THEN None
                    ELSE walk[[done |-> <<>>, rest |-> node.to \o rest, links |-> s.links - 1]]
    IN walk[[done |-> <<>>, rest |-> path, links |-> MaxLinks]]

IsDirectory(t, path) == LET p == Canonical(t, path) IN p # None /\ t[p].kind = "directory"

\* A relative path is taken from a directory, an absolute one from /.
From(directory, given_path) ==
    IF given_path.absolute THEN given_path.path ELSE directory \o given_path.path

\* symlink_metadata finds nothing there, and the directory can be looked into.
FreeName(t, path) ==
    LET parent == Canonical(t, Front(path)) IN
    parent # None /\ t[parent].kind = "directory" /\ Holds(t, Append(parent, Last(path))) = None

-----------------------------------------------------------------------------
(* Options.                                                                *)

EndsIn(t, s) == Len(s) <= Len(t) /\ SubSeq(t, Len(t) - Len(s) + 1, Len(t)) = s

\* The unit a duration ends in, tried from ms to h: the longer one before the shorter.
UnitOf(letters) ==
    IF EndsIn(letters, <<"m", "s">>) THEN "ms"
    ELSE IF EndsIn(letters, <<"s">>) THEN "s"
    ELSE IF EndsIn(letters, <<"m">>) THEN "m"
    ELSE IF EndsIn(letters, <<"h">>) THEN "h" ELSE None

\* Mutant: the product wraps around in its machine word.
WrappingMul(a, b) == (a * b) % Word

\* u64::checked_mul.
CheckedMul(a, b) == IF a * b < Word THEN a * b ELSE None

\* parse_duration_ms on digits and the letters after them; None stands for its error.
ParseDuration(text) ==
    LET unit == UnitOf(text.letters)
        left == SubSeq(text.letters, 1, Len(text.letters) - (IF unit = "ms" THEN 2 ELSE 1))
        ms == CheckedMul(text.digits, Units[unit])
    IN IF unit = None THEN None
       ELSE IF left # <<>> \/ text.digits >= Word THEN None
       ELSE IF ms # None /\ ms > 0 /\ ms <= MaxTimeout THEN ms ELSE None

\* validate_options.
OptionsInRange(o, ms) ==
    /\ o.words > 0 /\ o.entries \in 1..MaxEntriesLimit /\ o.events \in 2..MaxEventsLimit
    /\ o.file <= MaxFileLimit /\ o.total <= MaxTotalLimit
    /\ ms # None => ms \in 1..MaxTimeout

-----------------------------------------------------------------------------
(* The steps of record.                                                    *)

InitialTrees ==
    {t \in [Places -> Nodes \cup {None}] :
       t[<<>>] = Directory /\ \A p \in Places : p # <<>> /\ t[p] # None => t[Front(p)] = Directory}

Init ==
    /\ pc = "arguments" /\ exit = None
    /\ given \in CommandLines /\ timeout = None
    /\ tree \in InitialTrees /\ changes = 0
    /\ working = None /\ found = None /\ roots = <<>>

Proceeds(from, to) == pc = from /\ pc' = to /\ UNCHANGED <<exit, given, tree, changes>>

Refuses(from, code) ==
    /\ pc = from /\ pc' = "refused" /\ exit' = code
    /\ UNCHANGED <<given, timeout, working, found, roots, tree, changes>>

ParseArguments ==
    \/ /\ given.duration = None
       /\ Proceeds("arguments", "validate") /\ UNCHANGED <<timeout, working, found, roots>>
    \/ /\ given.duration # None
       /\ ParseDuration(given.duration) # None /\ timeout' = ParseDuration(given.duration)
       /\ Proceeds("arguments", "validate") /\ UNCHANGED <<working, found, roots>>
    \/ /\ given.duration # None /\ ParseDuration(given.duration) = None
       /\ Refuses("arguments", 2)

ValidateOptions ==
    \/ /\ OptionsInRange(given, timeout)
       /\ Proceeds("validate", "preflight") /\ UNCHANGED <<timeout, working, found, roots>>
    \/ ~OptionsInRange(given, timeout) /\ Refuses("validate", 2)

\* Mutant: the destination is looked at through links.
PreflightFollows ==
    LET named == given.output # <<>> /\ Last(given.output) # ".."
        absent == Canonical(tree, given.output) = None
    IN \/ /\ named /\ absent
          /\ Proceeds("preflight", "redactor") /\ UNCHANGED <<timeout, working, found, roots>>
       \/ ~named /\ Refuses("preflight", 2)
       \/ named /\ ~absent /\ Refuses("preflight", 1)

Preflight ==
    LET named == given.output # <<>> /\ Last(given.output) # ".." IN
    \/ /\ named /\ FreeName(tree, given.output)
       /\ Proceeds("preflight", "redactor") /\ UNCHANGED <<timeout, working, found, roots>>
    \/ ~named /\ Refuses("preflight", 2)
    \/ named /\ ~FreeName(tree, given.output) /\ Refuses("preflight", 1)

LoadRedactor ==
    \/ Proceeds("redactor", "working") /\ UNCHANGED <<timeout, working, found, roots>>
    \/ SetupFaults /\ Refuses("redactor", 2)

\* The directory is not required to be one; a file fails as a root, or at the spawn.
ResolveWorking ==
    LET place == Canonical(tree, given.working) IN
    /\ pc = "working"
    /\ \/ /\ place \in Places /\ working' = place
          /\ Proceeds("working", "resolve") /\ UNCHANGED <<timeout, found, roots>>
       \/ place = None /\ Refuses("working", 2)

Candidates == IF given.roots = <<>> THEN <<working>>
              ELSE [i \in DOMAIN given.roots |-> From(working, given.roots[i])]

\* canonicalize, then a second call that asks what is at the result.
ResolveRoot ==
    LET place == Canonical(tree, Candidates[Len(roots) + 1]) IN
    /\ pc = "resolve" /\ Len(roots) < Len(Candidates)
    /\ \/ /\ place \in Places /\ found' = place
          /\ Proceeds("resolve", "inspect") /\ UNCHANGED <<timeout, working, roots>>
       \/ place = None /\ Refuses("resolve", 2)

InspectRoot ==
    \/ /\ pc = "inspect" /\ IsDirectory(tree, found) /\ roots' = Append(roots, found)
       /\ Proceeds("inspect", "resolve") /\ UNCHANGED <<timeout, working, found>>
    \/ pc = "inspect" /\ ~IsDirectory(tree, found) /\ Refuses("inspect", 2)

\* Mutant: a root is only compared with what lies below the ones before it.
OverlapDownwards(rs) == \E i, j \in DOMAIN rs : i < j /\ IsPrefix(rs[i], rs[j])

\* Two roots are the same, or one lies below the other.
Overlap(rs) == \E i, j \in DOMAIN rs : i < j /\ (IsPrefix(rs[i], rs[j]) \/ IsPrefix(rs[j], rs[i]))

CheckOverlap ==
    /\ pc = "resolve" /\ Len(roots) = Len(Candidates)
    /\ \/ /\ ~Overlap(roots)
          /\ Proceeds("resolve", "handler") /\ UNCHANGED <<timeout, working, found, roots>>
       \/ Overlap(roots) /\ Refuses("resolve", 2)

InstallHandler ==
    \/ Proceeds("handler", "ready") /\ UNCHANGED <<timeout, working, found, roots>>
    \/ SetupFaults /\ Refuses("handler", 5)

SetupStep ==
    \/ ParseArguments \/ ValidateOptions \/ Preflight \/ LoadRedactor \/ ResolveWorking
    \/ ResolveRoot \/ InspectRoot \/ CheckOverlap \/ InstallHandler

\* Others replace what a place holds; what is no directory any more has nothing below.
\* Nothing is read before the preflight, so changes before it are in the initial tree.
TreeChanges ==
    /\ pc \notin {"arguments", "validate", "ready", "refused"}
    /\ changes < MaxChanges /\ changes' = changes + 1
    /\ \E p \in Places \ {<<>>}, n \in Nodes \cup {None} :
         /\ tree[p] # n /\ tree[Front(p)] = Directory
         /\ tree' = [q \in Places |-> IF q = p THEN n
                                      ELSE IF IsPrefix(p, q) /\ n # Directory THEN None ELSE tree[q]]
    /\ UNCHANGED setupVars

Done == pc \in {"ready", "refused"} /\ UNCHANGED vars

Next == SetupStep \/ TreeChanges \/ Done

Spec == Init /\ [][Next]_vars

-----------------------------------------------------------------------------
(* Properties.                                                             *)

\* Every variable holds a value of its kind, and exactly a refused run has an exit code.
TypeOK ==
    /\ pc \in {"arguments", "validate", "preflight", "redactor", "working", "resolve", "inspect",
               "handler", "ready", "refused"}
    /\ exit \in {1, 2, 5, None} /\ (exit # None <=> pc = "refused")
    /\ given \in CommandLines
    /\ timeout \in 1..MaxTimeout \cup {None}
    /\ working \in Places \cup {None} /\ found \in Places \cup {None}
    /\ pc = "inspect" => found # None
    /\ roots \in Seq(Places)
    /\ tree \in [Places -> Nodes \cup {None}] /\ changes \in 0..MaxChanges

\* The roots a run goes on with share nothing: no place lies in two of them, in whatever
\* order they were asked for and whatever was changed while they were resolved.
RootsAreDisjoint ==
    pc \in {"handler", "ready"} =>
      \A p \in Places : \A i, j \in DOMAIN roots :
        IsPrefix(roots[i], p) /\ IsPrefix(roots[j], p) => i = j

\* The roots that are asked for; without any it is the working directory.
Wanted == IF given.roots = <<>> THEN <<[absolute |-> FALSE, path |-> <<>>]>> ELSE given.roots

\* In a quiet file system a run that is ready had a free destination, every root it was
\* asked for names a directory, no two lead into each other, and its i-th root is the i-th
\* one asked for.  A run refused with exit 1 had no free destination; one refused with
\* exit 2 after its working directory was found had one, and a root that is no directory
\* or leads into another.
QuietSetupIsExact ==
    (changes = 0 /\ pc \in {"ready", "refused"}) =>
      LET start == Canonical(tree, given.working)
          Named(i) == Canonical(tree, From(start, Wanted[i]))
          free == /\ given.output # <<>> /\ Last(given.output) # ".."
                  /\ FreeName(tree, given.output)
          all == \A i \in DOMAIN Wanted :
                   Named(i) # None /\ tree[Named(i)].kind = "directory"
          apart == \A p \in Places : Cardinality({i \in DOMAIN Wanted :
                                                    IsPrefix(Named(i), p)}) <= 1
      IN /\ pc = "ready" => /\ free /\ start # None /\ all /\ apart
                            /\ roots = [i \in DOMAIN Wanted |-> Named(i)]
         /\ exit = 1 => ~free
         /\ exit = 2 /\ working # None => free /\ ~(all /\ apart)

Spelled(u) == IF u = "ms" THEN <<"m", "s">> ELSE <<u>>
Lengths(d) == {d.digits * Units[u] : u \in {v \in DOMAIN Units : d.letters = Spelled(v)}}

\* A time limit is the length asked for, to the millisecond, however large the numbers: a
\* limit goes on exactly if it is written with one unit and its exact length is in range.
TimeoutIsExact ==
    (pc # "arguments" /\ given.duration # None) =>
      \/ timeout \in Lengths(given.duration) \cap 1..MaxTimeout
      \/ pc = "refused" /\ timeout = None /\ Lengths(given.duration) \cap 1..MaxTimeout = {}

=============================================================================
