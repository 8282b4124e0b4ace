---------------------------- MODULE FeatureList ----------------------------
(***************************************************************************)
(* From FEATURES.md to the rows of a run: project.Parse, state.Reconcile,  *)
(* scanner.Scan and Refine, while an author edits the file, code that      *)
(* mentions features is written, and `pave run` is used in between.        *)
(*                                                                         *)
(* The text of an item is a sequence of tokens: words, symbols and the     *)
(* separators between title and description. A slug, and so an ID, is a    *)
(* sequence of words: "add-login" is <<"add", "login">>, and appending     *)
(* "-2" appends the word "2".                                              *)
(***************************************************************************)
EXTENDS Integers, Sequences, FiniteSets, SequencesExt

CONSTANTS
    Lines,      \* the lines an author may write
    Mentions,   \* the texts that source files may hold
    Outcomes,   \* bound: statuses that a run gives to what it works on
    MaxLines,   \* bound: lines of the file
    MaxFiles    \* bound: source files

Statuses == {"pending", "in_progress", "implemented", "failed"}
Separators == <<"emdash", "endash", "--", ":", "-">>  \* as they are tried
Symbols == {"!!!", "blank"}
NonWords == Range(Separators) \cup Symbols
Numerals == <<"1", "2", "3", "4", "5", "6", "7", "8", "9">>
Marks == {"none", "open", "checked", "overlong"}

ASSUME LinesAssumption ==
    \A l \in Lines : /\ l.mark \in Marks
                     /\ l.text \in Seq(STRING)
                     /\ l.meta \in Seq([key : STRING, val : Seq(Seq(STRING))])
ASSUME MentionsAssumption == Mentions \subseteq Seq(STRING)
ASSUME OutcomesAssumption == Outcomes \subseteq Statuses
ASSUME BoundsAssumption == MaxLines \in 0..Len(Numerals) /\ MaxFiles \in Nat

VARIABLES
    file,       \* the lines of FEATURES.md
    rows,       \* the features table of the newest run: [IDs -> Statuses]
    code,       \* texts in the files that Scan reads
    hidden      \* texts in files that it does not read
vars == <<file, rows, code, hidden>>

-----------------------------------------------------------------------------
(* Plausible slips.                                                        *)

SlipSuffixed(slug, n) ==         \* two lines with one title get one ID
    IF n > 2 THEN Append(slug, Numerals[n]) ELSE slug
SlipSameSlug(slugs, j, k) == TRUE    \* the suffix counts all items, not duplicates
SlipDependsOn(meta) ==           \* the parts without a key are ignored
    UNION {Range(p.val) : p \in {q \in Range(meta) : q.key = "depends"}}
SlipSearched == code \cup hidden        \* node_modules is searched as well

-----------------------------------------------------------------------------
(* project.Parse.                                                          *)

\* What a loop over s that appends makes of it: the elements that are in S.
Only(s, S) ==
    LET upTo[k \in 0..Len(s)] ==
            IF k = 0 THEN <<>>
            ELSE IF s[k] \in S THEN Append(upTo[k-1], s[k]) ELSE upTo[k-1]
    IN  upTo[Len(s)]

Occurs(sep, text) == \E j \in 1..Len(text) : text[j] = sep
FirstAt(sep, text) ==
    CHOOSE j \in 1..Len(text) : text[j] = sep /\ \A h \in 1..j-1 : text[h] # sep

\* splitTitleDesc: the separator that comes first in the list decides, not
\* the one that comes first in the text.
Title(text) ==
    LET used == {s \in 1..Len(Separators) : Occurs(Separators[s], text)}
    IN  IF used = {} THEN text
        ELSE SubSeq(text, 1, FirstAt(Separators[Min(used)], text) - 1)

Slug(text) == Only(Title(text), STRING \ NonWords)

\* applyMeta looks at the parts between commas, which have a key or are bare,
\* and a value: the IDs between blanks. The value behind "depends:" is taken
\* apart; a bare part is one dependency, and one on an ID that no feature has
\* if there are blanks in it.
WithBlanks == <<"blank">>
DependsOn(meta) ==
    LET found == {p \in Range(meta) :
            \/ p.key \in {"depends", "dependson", "deps"}
            \/ p.key = "bare" /\ Len(p.val) = 1}
        wrong == {p \in Range(meta) : p.key = "bare" /\ Len(p.val) > 1}
    IN  (UNION {Range(p.val) : p \in found}) \cup {WithBlanks : p \in wrong}

\* Any other line is skipped, also one that continues the item above it, with
\* the metadata that stands on it.
Mark(l) == IF l.mark = "checked" THEN "implemented" ELSE "pending"
Items == {l \in Lines : l.mark \in {"open", "checked"} /\ Slug(l.text) # <<>>}

\* seen[feat.ID] counts items j and k together.
SameSlug(slugs, j, k) == slugs[j] = slugs[k]
Suffixed(slug, n) == IF n > 1 THEN Append(slug, Numerals[n]) ELSE slug

Parse(f) ==
    LET items == Only(f, Items)
        slugs == [k \in 1..Len(items) |-> Slug(items[k].text)]
        Count(k) == Cardinality({j \in 1..k : SameSlug(slugs, j, k)})
    IN  [k \in 1..Len(items) |->
            [id     |-> Suffixed(slugs[k], Count(k)),
             status |-> Mark(items[k]),
             deps   |-> DependsOn(items[k].meta)]]

\* A line longer than the scanner's buffer fails the whole file.
Readable(f) == \A k \in 1..Len(f) : f[k].mark # "overlong"

-----------------------------------------------------------------------------
(* state.Reconcile and the scanner.                                        *)

KeptStatus(feat, r) ==
    IF feat.id \in DOMAIN r /\ feat.status # "implemented"
    THEN r[feat.id] ELSE feat.status
Reconcile(feats, r) ==
    [k \in 1..Len(feats) |-> [feats[k] EXCEPT !.status = KeptStatus(feats[k], r)]]

\* strings.Contains: an ID is also found inside a longer one.
Searched == code
IsSubstring(id, m) ==
    \E j \in 0..Len(m) - Len(id) : SubSeq(m, j + 1, j + Len(id)) = id
Mentioned(id) == \E m \in Searched : IsSubstring(id, m)

Refine(feats) ==
    [k \in 1..Len(feats) |->
        IF feats[k].status = "pending" /\ Mentioned(feats[k].id)
        THEN [feats[k] EXCEPT !.status = "implemented"] ELSE feats[k]]

\* What `pave run` plans and `pave status` shows; and `pave status --scan`,
\* which stores nothing.
Plan(f, r) == Reconcile(Parse(f), r)
ScanView == Reconcile(Refine(Parse(file)), rows)

IdsWith(list, s) == {list[k].id : k \in {j \in 1..Len(list) : list[j].status = s}}

-----------------------------------------------------------------------------
Init ==
    /\ file = <<>> /\ rows = [id \in {} |-> "pending"]
    /\ code = {} /\ hidden = {}

(* The author, and whoever writes code.                                    *)
InsertLine ==
    /\ Len(file) < MaxLines
    /\ \E l \in Lines, k \in 1..Len(file) + 1 : file' = InsertAt(file, k, l)
    /\ UNCHANGED <<rows, code, hidden>>

RemoveLine ==
    /\ \E k \in 1..Len(file) : file' = RemoveAt(file, k)
    /\ UNCHANGED <<rows, code, hidden>>

WriteCode ==
    /\ Cardinality(code) + Cardinality(hidden) < MaxFiles
    /\ \E m \in Mentions : code' = code \cup {m}
    /\ UNCHANGED <<file, rows, hidden>>

\* In node_modules and its like, in files above 1 MiB or not readable.
WriteHidden ==
    /\ Cardinality(code) + Cardinality(hidden) < MaxFiles
    /\ \E m \in Mentions : hidden' = hidden \cup {m}
    /\ UNCHANGED <<file, rows, code>>

\* One `pave run` over the whole list that wrote its rows, however it ends: a
\* feature is worked on when its dependencies are done, and those that are
\* implemented stay so (Sessions and Engine have the detail).
Runs(plan) ==
    {after \in [1..Len(plan) -> Outcomes \cup {plan[k].status : k \in 1..Len(plan)}] :
        LET Done(k) == IdsWith(plan, "implemented") \cup
                {plan[j].id : j \in {h \in 1..k-1 : after[h] = "implemented"}}
        IN  \A k \in 1..Len(plan) :
                after[k] # plan[k].status =>
                    /\ plan[k].status # "implemented"
                    /\ plan[k].deps \subseteq Done(k)
                    /\ after[k] \in Outcomes}

PaveRun ==
    /\ Readable(file)
    /\ \E plan \in {Plan(file, rows)} : \E after \in Runs(plan) :
              rows' = [id \in {plan[k].id : k \in 1..Len(plan)} |->
                         after[Max({k \in 1..Len(plan) : plan[k].id = id})]]
    /\ UNCHANGED <<file, code, hidden>>

Next ==
    \/ InsertLine \/ RemoveLine \/ WriteCode \/ WriteHidden
    \/ PaveRun

Spec == Init /\ [][Next]_vars

-----------------------------------------------------------------------------
\* No title ends in a number that Parse appends to the ID of a duplicate:
\* "Same", "Same", "Same 2" do share an ID.
OwnTitles ==
    \A l \in Items : \A n \in 2..Len(Numerals) :
        Slug(l.text)[Len(Slug(l.text))] # Numerals[n]

\* parser.go:60: however titles repeat, and whatever stands between them, no
\* two features share an ID, and so a row. Holds where OwnTitles does.
UniqueIds ==
    LET feats == Parse(file)
    IN  \A j, k \in 1..Len(feats) : feats[j].id = feats[k].id => j = k

\* What is recorded for the items of one title is not touched by an edit
\* anywhere else in the file: IDs are stable (feature.go:37), so nothing is
\* taken for implemented, or implemented again, because of it.
Group(f, s) == Only(f, {l \in Items : Slug(l.text) = s})
Of(list, s) == Only(list, {p \in Range(list) : p[1] = s})
Recorded(f, plan) ==
    LET items == Only(f, Items)
    IN  [k \in 1..Len(items) |-> <<Slug(items[k].text), plan[k].status>>]

EditsAreLocal ==
    [][file' # file =>
          \A plan \in {Plan(file, rows)}, next \in {Plan(file', rows)} :
          \A s \in {Slug(l.text) : l \in Range(file)} :
              Group(file', s) = Group(file, s) =>
                  Of(Recorded(file', next), s) = Of(Recorded(file, plan), s)]_vars

\* What `pave status --scan` shows is what is recorded, except that each
\* feature named in a file that is searched is shown as implemented, and no
\* other. Whatever is recorded: as Refine comes before Reconcile
\* (status.go:49-68), also a feature that failed or is in_progress, although
\* --scan is said to refine pending ones only (status.go:26, scanner_test.go:90).
ScanAddsTheMentioned ==
    LET plan == Plan(file, rows)
        view == ScanView
    IN  \A k \in 1..Len(plan) :
            view[k].status =
                IF \E m \in code : IsSubstring(plan[k].id, m)
                THEN "implemented" ELSE plan[k].status

\* The IDs behind "depends:" up to the next key, as README 97 describes them,
\* with commas or blanks or both between them.
Declared(meta) ==
    UNION {Range(meta[j].val) : j \in {h \in 1..Len(meta) :
        \E d \in 1..h :
            meta[d].key = "depends" /\ \A e \in d+1..h : meta[e].key = "bare"}}

\* No run implements a feature while one that the item's line declares as a
\* dependency is not implemented, in whichever way several are written there.
\* What stands on a line that continues the item is skipped (parser.go:46-51),
\* although README 134-136 puts the metadata there.
Has(table, id) == id \in DOMAIN table /\ table[id] = "implemented"
DeclaredDependenciesFirst ==
    [][rows' # rows =>
          \A plan \in {Plan(file, rows)}, items \in {Only(file, Items)} :
          \A k \in 1..Len(plan) :
              plan[k].status # "implemented" /\ Has(rows', plan[k].id) =>
                  \A d \in Declared(items[k].meta) : Has(rows', d)]_vars
=============================================================================
