----------------------------- MODULE Redaction -----------------------------
(***************************************************************************)
(* What a receipt shows of the observed command and of paths               *)
(* (src/redact.rs): the executable's name, the arguments one after the     *)
(* other, the parts of a path.                                             *)
(*                                                                         *)
(* A text is a sequence of tokens: the separators the code looks for, and  *)
(* words.  A word stands for its spellings in either case and with _, . or *)
(* - inside; two words side by side form no third one.  Markers of the     *)
(* code are single tokens that occur in no input.  Two of them carry in    *)
(* the code the first digits of the digest of what they hide, that of a    *)
(* path component and that of a text that is not Unicode: the model writes *)
(* them without and says nothing of what those digits give away.           *)
(* The methods of Redactor take its values as their first parameter.       *)
(***************************************************************************)
EXTENDS Integers, FiniteSets, SequencesExt

CONSTANTS
    Environment, \* what each variable holds: a text, None when unset or not Unicode
    NameLists,   \* the names a run may be given
    KeyWords,    \* words that make the key of an argument sensitive
    PathWords,   \* words that make a path component sensitive
    Rank,        \* the order of tokens in the encoding
    Executables, Arguments,   \* the commands: texts, or NonUtf8
    PathTexts,   \* relative paths below a root
    MaxArguments,
    NonUtf8, None

Mark == "[redacted]"
Separators == {"/", "\\"}

\* The tokens only the code writes, and the texts it is given.
Markers == {Mark, "[redacted_hash]", "[non_utf8_hash]", "[non-utf8-executable]",
            "[redacted-query]", "[redacted-fragment]"}
Texts == Seq(DOMAIN Rank)

ASSUME RedactionAssumption ==
    /\ DOMAIN Rank \cap Markers = {}
    /\ KeyWords \cap (Markers \cup Separators) = {}
    /\ \A n \in DOMAIN Environment : Environment[n] \in Texts \cup {None}
    /\ \A names \in NameLists : names \in Seq(DOMAIN Environment)
    /\ \A t \in Executables \cup Arguments : t \in Texts \cup {NonUtf8}
    /\ \A t \in PathTexts : t \in Texts
    /\ MaxArguments \in Nat

VARIABLES
    custom,      \* the redactor's values
    executable,  \* the executable given
    args,        \* the arguments done so far
    displays, digests,   \* their displays, and whether the digest of each is kept
    redactNext,  \* the argument to come is the value of a sensitive flag
    redacted     \* redacted_arguments

vars == <<custom, executable, args, displays, digests, redactNext, redacted>>

-----------------------------------------------------------------------------
(* The configured values.                                                  *)

\* Texts in the order of String: token by token, a prefix before what it begins.
Precedes(s, t) ==
    \/ IsStrictPrefix(s, t)
    \/ \E k \in DOMAIN s \cap DOMAIN t :
         SubSeq(s, 1, k - 1) = SubSeq(t, 1, k - 1) /\ Rank[s[k]] < Rank[t[k]]

\* from_environment_names: sorted and without duplicates, or nothing on its error.
FromEnvironmentNames(names) ==
    LET values == {Environment[n] : n \in Range(names)} IN
    IF "" \in Range(names) \/ values \cap {None, <<>>} # {} THEN {}
    ELSE {sorted \in [1..Cardinality(values) -> values] :
            \A i, j \in DOMAIN sorted : i < j => Precedes(sorted[i], sorted[j])}

OccursAt(v, t, k) == k + Len(v) - 1 <= Len(t) /\ SubSeq(t, k, k + Len(v) - 1) = v
Occurs(v, t) == \E k \in DOMAIN t : OccursAt(v, t, k)

\* String::replace, from left to right and without overlaps.
Replace(v, t) ==
    LET from[k \in 1..(Len(t) + 1)] ==
          IF k > Len(t) THEN <<>>
          ELSE IF OccursAt(v, t, k) THEN <<Mark>> \o from[k + Len(v)]
          ELSE <<t[k]>> \o from[k + 1]
    IN from[1]

\* Mutant: only a text that is a configured value is replaced.
HideWholeValues(values, t) == IF t \in Range(values) THEN <<Mark>> ELSE t

\* replace_custom_values: one value after the other in what the ones before left.  The
\* text has changed exactly when a value occurred, since values hold no marker.
HideValues(values, t) ==
    LET left[n \in 0..Len(values)] == IF n = 0 THEN t ELSE Replace(values[n], left[n - 1])
    IN left[Len(values)]

-----------------------------------------------------------------------------
(* Paths.                                                                  *)

SensitiveComponent(c) == Range(c) \cap PathWords # {}

\* split and join.
Parts(t, separators) ==
    LET upTo[k \in 0..Len(t)] ==
          IF k = 0 THEN << <<>> >>
          ELSE IF t[k] \in separators THEN Append(upTo[k - 1], <<>>)
          ELSE [upTo[k - 1] EXCEPT ![Len(upTo[k - 1])] = Append(@, t[k])]
    IN upTo[Len(t)]
Joined(parts) == Tail(FlattenSeq([i \in DOMAIN parts |-> <<"/">> \o parts[i]]))

\* The code's marker has the first eight hex digits of the component's digest in it.
ShownComponent(values, c) ==
    IF SensitiveComponent(c) THEN <<"[redacted_hash]">> ELSE HideValues(values, c)

\* path_display: the text shown and the number of components that are not.
PathDisplay(values, t) ==
    LET parts == Parts(t, Separators)
        shown == [i \in DOMAIN parts |-> ShownComponent(values, parts[i])]
    IN [shown |-> Joined(shown), hidden |-> Cardinality({i \in DOMAIN parts : shown[i] # parts[i]})]

\* Path::components: only / separates, and there are no empty components.
PathComponents(t) == Range(Parts(t, {"/"})) \ {<<>>}

\* Mutant: configured values are looked for in displays only.
SensitiveByPattern(values, t) == \E c \in PathComponents(t) : SensitiveComponent(c)

PathIsSensitive(values, t) ==
    \E c \in PathComponents(t) :
      SensitiveComponent(c) \/ \E v \in Range(values) : Occurs(v, c)

\* text: the display, and whether anything was hidden.
Text(values, t) ==
    IF t = NonUtf8 THEN [shown |-> <<"[non_utf8_hash]">>, hidden |-> TRUE]
    ELSE LET s == HideValues(values, t)
             path == PathDisplay(values, s)
         IN IF Range(s) \cap Separators # {}
            THEN [shown |-> path.shown, hidden |-> s # t \/ path.hidden > 0]
            ELSE [shown |-> s, hidden |-> s # t]

\* The executable is shown by its file name; a path like / has none.
ExecutableDisplay ==
    LET parts == Parts(executable, {"/"})
        named == {i \in DOMAIN parts : parts[i] # <<>>}
    IN IF executable = NonUtf8 THEN Text(custom, NonUtf8).shown
       ELSE IF named = {} THEN <<"[non-utf8-executable]">>
       ELSE Text(custom, parts[Max(named)]).shown

-----------------------------------------------------------------------------
(* Arguments.                                                              *)

Places(t, tokens) == {k \in DOMAIN t : t[k] \in tokens}
First(t, tokens) == IF Places(t, tokens) = {} THEN 0 ELSE Min(Places(t, tokens))
SensitiveKey(t) == Range(t) \cap KeyWords # {}

\* split_once('='): what comes before the first one.
Key(t) == IF First(t, {"="}) = 0 THEN t ELSE SubSeq(t, 1, First(t, {"="}) - 1)

SensitiveInline(t) == First(t, {"="}) > 0 /\ SensitiveKey(Key(t))
ArmsNext(t) == First(t, {"="}) = 0 /\ SensitiveKey(t) /\ t # <<>> /\ t[1] = "-"

ShownInline(t) == IF SensitiveInline(t) THEN Key(t) \o <<"=", Mark>> ELSE t

\* find(marker) and truncate: the text before the token, and a note instead of the rest.
CutAt(t, token, note) ==
    IF First(t, {token}) = 0 THEN t ELSE SubSeq(t, 1, First(t, {token}) - 1) \o <<token, note>>

\* redact_url: split_once("://"), rsplit_once('@') in the authority, query, fragment.
RedactUrl(t) ==
    LET start == {k \in DOMAIN t : OccursAt(<<":", "/", "/">>, t, k)} IN
    IF start = {} THEN t
    ELSE LET scheme == SubSeq(t, 1, Min(start) + 2)
             rest == SubSeq(t, Min(start) + 3, Len(t))
             boundary == First(rest, {"/", "?", "#"})
             authority == IF boundary = 0 THEN rest ELSE SubSeq(rest, 1, boundary - 1)
             suffix == IF boundary = 0 THEN <<>> ELSE SubSeq(rest, boundary, Len(rest))
             at == Places(authority, {"@"})
             host == SubSeq(authority, Max(at), Len(authority))
         IN scheme \o (IF at = {} THEN authority ELSE <<Mark>> \o host)
              \o CutAt(CutAt(suffix, "?", "[redacted-query]"), "#", "[redacted-fragment]")

\* Mutant: what only the URL rule hides is not taken for hidden.
ShownUrlUnmarked(values, a) ==
    LET text == Text(values, a)
    IN [shown |-> RedactUrl(ShownInline(text.shown)),
        hidden |-> text.hidden \/ SensitiveInline(text.shown)]

\* One argument that is not a flag's value: its display, and whether something is hidden.
Shown(values, a) ==
    LET text == Text(values, a)
        inline == ShownInline(text.shown)
    IN [shown |-> RedactUrl(inline),
        hidden |-> text.hidden \/ SensitiveInline(text.shown) \/ RedactUrl(inline) # inline]

-----------------------------------------------------------------------------
(* Redactor::command.                                                      *)

Init ==
    /\ \E names \in NameLists : custom \in FromEnvironmentNames(names)
    /\ executable \in Executables
    /\ args = <<>> /\ displays = <<>> /\ digests = <<>>
    /\ redactNext = FALSE /\ redacted = 0

Pushes(a, shown, hidden) ==
    /\ args' = Append(args, a)
    /\ displays' = Append(displays, shown) /\ digests' = Append(digests, ~hidden)
    /\ redacted' = IF hidden THEN redacted + 1 ELSE redacted
    /\ UNCHANGED <<custom, executable>>

\* Mutant: a hidden value that looks like a flag hides the next argument too.
HideAndArm(a) ==
    /\ redactNext /\ Pushes(a, <<Mark>>, TRUE)
    /\ redactNext' = (a # NonUtf8 /\ ArmsNext(a))

\* The value of the flag before it, whatever it looks like.
HideValue(a) == redactNext /\ Pushes(a, <<Mark>>, TRUE) /\ redactNext' = FALSE

ShowArgument(a) ==
    /\ ~redactNext
    /\ Pushes(a, Shown(custom, a).shown, Shown(custom, a).hidden)
    /\ redactNext' = ArmsNext(Text(custom, a).shown)

Done == Len(args) = MaxArguments /\ UNCHANGED vars

Next ==
    \/ Len(args) < MaxArguments /\ \E a \in Arguments : HideValue(a) \/ ShowArgument(a)
    \/ Done

Spec == Init /\ [][Next]_vars

-----------------------------------------------------------------------------
(* Properties.                                                             *)

HoldsValue(t) == t # NonUtf8 /\ \E v \in Range(custom) : Occurs(v, t)
Slashed(t) == [i \in DOMAIN t |-> IF t[i] = "\\" THEN "/" ELSE t[i]]
KeyIsSensitive(a) == \E i \in 1..(First(a, {"="}) - 1) : a[i] \in KeyWords

\* Two rules come before the one for names and may take the name itself away: that for
\* configured values, and in an argument with a separator that for path components.  The
\* name ends with its first equals sign, or with the path component that holds this sign.
KeyEnd(a) ==
    LET sign == First(a, {"="})
        behind == {k \in Places(a, Separators) : k > sign}
    IN IF sign > 0 /\ Range(a) \cap Separators = {} THEN sign
       ELSE IF sign > 0 /\ behind # {} THEN Min(behind)
       ELSE Len(a)

\* No configured value begins in it, and no component of it has a sensitive word.
KeyStands(a) ==
    /\ \A k \in 1..KeyEnd(a) : \A v \in Range(custom) : ~OccursAt(v, a, k)
    /\ Range(a) \cap Separators # {} => \A k \in 1..KeyEnd(a) : a[k] \notin PathWords

NameStands(a) == a = NonUtf8 \/ ~SensitiveKey(a) \/ KeyStands(a)

\* The arguments that are values of a sensitive flag, by the arguments as they were given:
\* every second one of a run of flags.
Flag(a) == a # NonUtf8 /\ ArmsNext(a)
FlagsBefore(k) == Cardinality({j \in 1..(k - 1) : \A i \in j..(k - 1) : Flag(args[i])})
IsFlagValue(k) == FlagsBefore(k) % 2 = 1

\* The flags before an argument, and what stands before the first of them.
FlagsStand(k) ==
    \A j \in 1..(k - 1) : (\A i \in (j + 1)..(k - 1) : Flag(args[i])) => NameStands(args[j])

\* Behind flags whose names stand the value of a sensitive flag is never shown, whatever it
\* looks like, and the alternation does not slip: nothing else is hidden as one.
FlagValueIsHidden ==
    \A k \in DOMAIN args : FlagsStand(k) =>
      /\ IsFlagValue(k) => displays[k] = <<Mark>>
      /\ displays[k] = <<Mark>> => IsFlagValue(k) \/ HoldsValue(args[k])

\* A sensitive key that stands hides everything behind its first equals sign: only what
\* comes before is shown, whatever values, separators and URLs the argument has.
InlineValueIsHidden ==
    \A k \in DOMAIN args :
      (args[k] # NonUtf8 /\ KeyIsSensitive(args[k]) /\ KeyStands(args[k])) =>
        Range(displays[k]) \subseteq
          Range(SubSeq(args[k], 1, First(args[k], {"="}))) \cup {"/"} \cup Markers

\* What stands behind a sensitive flag or key is hidden, and nothing by mistake, where no
\* configured value and no path rule took the flag or key away first.
SecretArgumentsAreHidden == FlagValueIsHidden /\ InlineValueIsHidden

\* Each argument has its display and its slot in argument_sha256: the digest is kept there
\* exactly for those that are shown in full, and the report counts all others.  This is of
\* argument_sha256 only, not of the digits of a digest inside a marker.
DigestsAreOfShownText ==
    /\ DOMAIN displays = DOMAIN args /\ DOMAIN digests = DOMAIN args
    /\ \A k \in DOMAIN args :
         digests[k] <=> args[k] # NonUtf8 /\ displays[k] = Slashed(args[k])
    /\ redacted = Cardinality({k \in DOMAIN args : ~digests[k]})

\* No configured value without a separator is left in any display, the executable's
\* included, in whatever order the values are replaced.
ConfiguredValuesAreHidden ==
    \A v \in Range(custom) :
      Range(v) \cap Separators = {} =>
        /\ ~Occurs(v, ExecutableDisplay)
        /\ \A k \in DOMAIN displays : ~Occurs(v, displays[k])

\* A path is shown in full exactly when the content of its file may be hashed.  A path
\* with a backslash is left out: it is shown by other components than it is judged by.
HiddenPathsAreNotHashed ==
    \A p \in PathTexts :
      "\\" \notin Range(p) => (PathIsSensitive(custom, p) <=> PathDisplay(custom, p).hidden > 0)

\* The corpus lists key=value arguments among the patterns whose value never escapes.
InlineSecretIsHidden ==
    \A k \in DOMAIN args :
      (args[k] # NonUtf8 /\ KeyIsSensitive(args[k])) =>
        \A i \in First(args[k], {"="}) + 1..Len(args[k]) :
          args[k][i] \in Separators \/ args[k][i] \notin Range(displays[k])

=============================================================================
