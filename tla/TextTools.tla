----------------------------- MODULE TextTools ------------------------------
(***************************************************************************)
(* The text tools of the browser, as functions: the word diff of the       *)
(* refine tab (lib/diff.ts) and the reading of imported notes              *)
(* (lib/promptImport.ts): headings, note metadata, over-long sections,     *)
(* section names, CSV rows, and the files of a database export.  A step    *)
(* applies the tool to its input; the properties compare the result with   *)
(* what the tool is for.  Of a line only its kind is kept: frontmatter,    *)
(* tags, links and highlights, rewritten within a line, are left out.      *)
(***************************************************************************)
EXTENDS Integers, Sequences, FiniteSets, SequencesExt, FiniteSetsExt, TLC

CONSTANTS
  Tokens, MaxTokens,  \* words of the texts compared, and how many a text may have
  MAX_CELLS,          \* the largest table the diff fills in
  MAX_SECTION,        \* characters a section may have
  MaxChars,           \* bound: characters of a text to split
  Kinds, MaxLines,    \* the kinds of line a note may have, and how many
  Headings,           \* a set of lists of section headings, each heading a list of words
  Cells,              \* CSV cells, each a list of characters
  Files,              \* the files an export may have
  None

VARIABLES input, result

vars == <<input, result>>

UpTo(S, n) == UNION {[1..k -> S] : k \in 0..n}

-----------------------------------------------------------------------------
(* diffWords: texts are lists of tokens *)

Lcs(old, new) ==
  LET lcs[i \in 1..Len(old) + 1, j \in 1..Len(new) + 1] ==
        IF i > Len(old) \/ j > Len(new) THEN 0
        ELSE IF old[i] = new[j] THEN lcs[i + 1, j + 1] + 1
        ELSE Max({lcs[i + 1, j], lcs[i, j + 1]})
  IN lcs

Change(type, tokens) == [type |-> type, text |-> tokens]

TakesOld(lcs, i, j) == lcs[i + 1, j] >= lcs[i, j + 1]

Walk(old, new) ==
  LET lcs == Lcs(old, new)
      walk[i \in 1..Len(old) + 1, j \in 1..Len(new) + 1] ==
        CASE i > Len(old) -> [k \in 1..Len(new) - j + 1 |-> Change("added", <<new[j + k - 1]>>)]
          [] i <= Len(old) /\ j > Len(new) -> <<Change("removed", <<old[i]>>)>> \o walk[i + 1, j]
          [] i <= Len(old) /\ j <= Len(new) ->
               IF old[i] = new[j] THEN <<Change("unchanged", <<old[i]>>)>> \o walk[i + 1, j + 1]
               ELSE IF TakesOld(lcs, i, j) THEN <<Change("removed", <<old[i]>>)>> \o walk[i + 1, j]
               ELSE <<Change("added", <<new[j]>>)>> \o walk[i, j + 1]
  IN walk[1, 1]

(* One entry per run of changes of one type. *)
Merge(runs, token) ==
  IF runs # <<>> /\ Last(runs).type = token.type
  THEN [runs EXCEPT ![Len(runs)].text = @ \o token.text]
  ELSE Append(runs, token)

DiffWords(old, new) ==
  IF old = new THEN IF old = <<>> THEN <<>> ELSE <<Change("unchanged", old)>>
  ELSE IF (Len(old) + 1) * (Len(new) + 1) > MAX_CELLS
  THEN SelectSeq(<<Change("removed", old), Change("added", new)>>, LAMBDA c : c.text # <<>>)
  ELSE FoldLeft(Merge, <<>>, Walk(old, new))

-----------------------------------------------------------------------------
(* splitText: a text is its characters ("c" any, "n" a line break, "hi" and "lo" the halves of an emoji) and
   the spans of its placeholders; offsets count the characters before. *)

Inside(text, at) == {s \in text.spans : s[1] < at /\ s[2] > at}

ParagraphEnds(text) ==
  {k \in 2..Len(text.chars) : text.chars[k - 1] = "n" /\ text.chars[k] = "n" /\ Inside(text, k) = {}}

BesideSpan(span, start, end) == IF span[1] > start THEN span[1] ELSE span[2]

CutAfter(text, start) ==
  LET limit == start + MAX_SECTION
      breaks == {k \in ParagraphEnds(text) : start < k /\ k <= limit}
      end == IF breaks = {} THEN limit ELSE Max(breaks)
      cut == IF Inside(text, end) = {} THEN end
             ELSE BesideSpan(CHOOSE s \in Inside(text, end) : TRUE, start, end)
  IN IF cut < Len(text.chars) /\ text.chars[cut + 1] = "lo" /\ cut - 1 > start THEN cut - 1 ELSE cut

SplitText(text) ==
  LET n == Len(text.chars)
      from[start \in 0..n] ==
        IF n - start <= MAX_SECTION THEN <<n>>
        ELSE LET cut == CutAfter(text, start) IN <<cut>> \o from[cut]
  IN from[0]

(* sectionName: headings as words; a tag ignores case. *)
Tag(name) == [i \in DOMAIN name |-> IF name[i] = "Ref" THEN "ref" ELSE name[i]]

Numbered(heading, number) == Append(heading, ToString(number))

FreeNumber(heading, taken, number) ==
  /\ Tag(Numbered(heading, number)) \notin taken
  /\ \A smaller \in 2..number - 1 : Tag(Numbered(heading, smaller)) \in taken

SectionNames(headings) ==
  FoldLeft(LAMBDA names, heading :
             LET taken == {Tag(names[i]) : i \in DOMAIN names}
             IN Append(names, IF Tag(heading) \notin taken THEN heading
                              ELSE Numbered(heading, CHOOSE k \in 2..Len(headings) + 1 : FreeNumber(heading, taken, k))),
           <<>>, headings)

-----------------------------------------------------------------------------
(* Notes: a note is the list of the kinds of its lines; what is read from it names lines by their numbers. *)

Marker(kind) == CASE kind \in {"fence", "info"} -> 3 [] kind = "long fence" -> 4 [] OTHER -> 0

Level(kind) == CASE kind = "h1" -> 1 [] kind = "h2" -> 2 [] kind = "h3" -> 3 [] OTHER -> 0

(* The lines outside code fences.  The headings are read with "bare": a marker followed by a language does not
   end a fence; mapProse takes any marker. *)
Prose(kinds, bare) ==
  LET fence[i \in 1..Len(kinds) + 1] ==
        IF i = 1 THEN 0
        ELSE LET open == fence[i - 1]
                 kind == kinds[i - 1]
             IN CASE Marker(kind) = 0 -> open
                  [] Marker(kind) # 0 /\ open = 0 -> Marker(kind)
                  [] OTHER -> IF Marker(kind) >= open /\ (bare => kind # "info") THEN 0 ELSE open
  IN {i \in DOMAIN kinds : fence[i] = 0 /\ Marker(kinds[i]) = 0}

FirstLine(note) == Min({i \in DOMAIN note : note[i] # "blank"})

(* promoteHeadings: a note that opens with a lower heading and has no "# " line moves its headings up.  A "# " line
   inside a code fence counts too: mapProse gives fenced lines back as they are. *)
Levels(note) ==
  LET shift == IF \E i \in DOMAIN note : note[i] = "h1" THEN 0 ELSE Max({0, Level(note[FirstLine(note)]) - 1})
  IN [i \in DOMAIN note |->
        IF Level(note[i]) = 0 THEN 0
        ELSE IF i \in Prose(note, FALSE) THEN Max({1, Level(note[i]) - shift}) ELSE Level(note[i])]

Trimmed(note, lines) ==
  LET full == {k \in DOMAIN lines : note[lines[k]] # "blank"}
  IN IF full = {} THEN <<>> ELSE SubSeq(lines, Min(full), Max(full))

Field(name, lines) == [name |-> name, lines |-> lines]

(* A "# " line starts a prompt and a "## " line a section; other lines join the section, or "Prompt" (0). *)
ReadLine(note, prompts, i) ==
  LET level == IF i \in Prose(note, TRUE) THEN Levels(note)[i] ELSE 0
      last == Len(prompts)
      fields == prompts[last].fields
  IN CASE level = 1 -> Append(prompts, [title |-> i, fields |-> <<>>])
       [] level = 2 -> [prompts EXCEPT ![last].fields = Append(@, Field(i, <<>>))]
       [] OTHER -> [prompts EXCEPT ![last].fields =
                      IF fields = <<>> THEN <<Field(0, <<i>>)>>
                      ELSE [fields EXCEPT ![Len(fields)].lines = Append(@, i)]]

Sections(note) ==
  IF Levels(note)[FirstLine(note)] # 1 THEN <<[title |-> 0, fields |-> <<Field(0, [i \in DOMAIN note |-> i])>>]>>
  ELSE LET read == FoldLeft(LAMBDA prompts, i : ReadLine(note, prompts, i), <<>>,
                            [k \in 1..Len(note) - FirstLine(note) + 1 |-> FirstLine(note) + k - 1])
           trim(f) == Field(f.name, Trimmed(note, f.lines))
           kept(fields) == SelectSeq([k \in DOMAIN fields |-> trim(fields[k])],
                                     LAMBDA f : f.name # 0 \/ f.lines # <<>> \/ Len(fields) = 1)
       IN [p \in DOMAIN read |-> [read[p] EXCEPT !.fields = kept(@)]]

(* tidyNote: the block of properties that opens the first section loses its metadata. *)
WithoutMetadata(note, lines) ==
  LET block == {k \in DOMAIN lines : \A j \in 1..k : note[lines[j]] \in {"key", "meta"}}
      kept == {k \in DOMAIN lines : k \notin block \/ note[lines[k]] # "meta"}
  IN [k \in 1..Cardinality(kept) |-> lines[CHOOSE j \in kept : Cardinality({i \in kept : i <= j}) = k]]

InComment(comment, kind) == comment # (kind = "%%")

(* Comments, callouts and asides go, with the lines they cover; fenced lines and their markers always stay. *)
TidyLine(note, prose, acc, i) ==
  LET shown == IF acc.comment \/ note[i] = "%%" THEN "nothing" ELSE note[i]
      aside == acc.aside \/ shown = "aside"
      after == [acc EXCEPT !.comment = InComment(@, note[i])]
  IN CASE i \notin prose -> [acc EXCEPT !.out = Append(@, i)]
       [] i \in prose /\ shown = "callout" -> [after EXCEPT !.callout = TRUE]
       [] i \in prose /\ shown = "quote" /\ acc.callout -> after
       [] OTHER -> [after EXCEPT !.callout = FALSE, !.aside = aside /\ shown # "/aside",
                                 !.out = IF aside \/ (shown = "nothing" /\ note[i] # "blank") THEN @
                                         ELSE Append(@, i)]

TidyLines(note, prose, lines) ==
  FoldLeft(LAMBDA acc, i : TidyLine(note, prose, acc, i),
           [comment |-> FALSE, callout |-> FALSE, aside |-> FALSE, out |-> <<>>], lines).out

(* Mistake: code is tidied as text is. *)
MutTidyField(note, lines) == TidyLines(note, ToSet(lines), lines)

TidyField(note, lines) ==
  LET outside == Prose([k \in DOMAIN lines |-> note[lines[k]]], FALSE)
  IN TidyLines(note, {lines[k] : k \in outside}, lines)

TidyNote(note, prompt) ==
  LET tidy(k) == LET f == prompt.fields[k]
                 IN Field(f.name, TidyField(note, IF k = 1 THEN WithoutMetadata(note, f.lines) ELSE f.lines))
  IN [prompt EXCEPT !.fields = SelectSeq([k \in DOMAIN @ |-> tidy(k)],
                                         LAMBDA f : Trimmed(note, f.lines) # <<>> \/ Len(prompt.fields) = 1)]

(* A note is refused when it is empty or one of its prompts has no section. *)
ParsePromptImport(note) ==
  IF \A i \in DOMAIN note : note[i] = "blank" THEN None
  ELSE LET prompts == Sections(note)
           tidied == [p \in DOMAIN prompts |-> TidyNote(note, prompts[p])]
       IN IF \E p \in DOMAIN prompts : prompts[p].fields = <<>> \/ tidied[p].fields = <<>> THEN None ELSE tidied

-----------------------------------------------------------------------------
(* csvRows: "q" is a quote, "n" and "r" the line breaks, "," the separator. *)

EndField(acc) == [acc EXCEPT !.rows[Len(acc.rows)] = Append(@, acc.field), !.field = <<>>]

(* A quote inside quotes: doubled it stands for one and the next character is passed over, else it ends them. *)
QuoteChar(acc, next) ==
  IF next = "q" THEN [acc EXCEPT !.field = Append(@, "q"), !.skip = TRUE] ELSE [acc EXCEPT !.quoted = FALSE]

CsvChar(acc, char, next) ==
  CASE acc.skip -> [acc EXCEPT !.skip = FALSE]
    [] ~acc.skip /\ acc.quoted -> IF char = "q" THEN QuoteChar(acc, next) ELSE [acc EXCEPT !.field = Append(@, char)]
    [] OTHER -> CASE char = "q" -> [acc EXCEPT !.quoted = TRUE]
                  [] char = "," -> EndField(acc)
                  [] char \in {"n", "r"} ->
                       [EndField(acc) EXCEPT !.rows = Append(@, <<>>), !.skip = char = "r" /\ next = "n"]
                  [] OTHER -> [acc EXCEPT !.field = Append(@, char)]

FullRow(row) == \E c \in DOMAIN row : ToSet(row[c]) \ {"n", "r"} # {}

CsvRows(text) ==
  LET read == FoldLeft(LAMBDA acc, i : CsvChar(acc, text[i], IF i = Len(text) THEN None ELSE text[i + 1]),
                       [rows |-> <<<<>>>>, field |-> <<>>, quoted |-> FALSE, skip |-> FALSE], [i \in DOMAIN text |-> i])
  IN SelectSeq(EndField(read).rows, FullRow)

(* The same table as RFC 4180 has it written. *)
Written(cell) ==
  IF ToSet(cell) \cap {"q", ",", "n", "r"} = {} THEN cell
  ELSE <<"q">> \o FlattenSeq([i \in DOMAIN cell |-> IF cell[i] = "q" THEN <<"q", "q">> ELSE <<cell[i]>>]) \o <<"q">>

Join(parts, between) == FoldLeft(LAMBDA all, part : IF all = None THEN part ELSE all \o between \o part, None, parts)

Csv(table, eol) ==
  Join([r \in DOMAIN table |-> Join([c \in DOMAIN table[r] |-> Written(table[r][c])], <<",">>)], eol)

-----------------------------------------------------------------------------
(* preferPages: a file is a page, a database "csv" or its "all" variant, in a folder (a list of names, without
   the parts of a split export); a database X keeps its pages in the folder X beside it. *)

Base(file) == Append(file.folder, file.stem)

PagesOf(file, files) == {page \in files : page.kind = "page" /\ IsPrefix(Base(file), page.folder)}

Fuller(file, files) ==
  {other \in files \ {file} : file.kind = "csv" /\ other.kind = "all" /\ Base(other) = Base(file)}

PreferPages(files) ==
  {file \in files : file.kind = "page" \/ (PagesOf(file, files) = {} /\ Fuller(file, files) = {})}

-----------------------------------------------------------------------------
(* Inputs, and the one step *)

(* Placeholders hold no emoji, do not overlap and are at least two characters long. *)
IsSpan(chars, s) == s[2] - s[1] >= 2 /\ \A k \in s[1] + 1..s[2] : chars[k] \in {"c", "n"}
                    /\ chars[s[1] + 1] = "c" /\ chars[s[2]] = "c"

Paired(chars) == \A k \in DOMAIN chars : /\ chars[k] = "hi" => k < Len(chars) /\ chars[k + 1] = "lo"
                                         /\ chars[k] = "lo" => k > 1 /\ chars[k - 1] = "hi"

SplitInputs ==
  UNION {{[tool |-> "split", chars |-> chars, spans |-> spans] :
            spans \in {{}} \cup {{s} : s \in {p \in (0..MaxChars) \X (1..MaxChars) : p[1] < p[2] /\ IsSpan(chars, p)}}} :
         chars \in {c \in [1..MaxChars -> {"c", "n", "hi", "lo"}] : Paired(c)}}

Inputs ==
  [tool : {"diff"}, old : UpTo(Tokens, MaxTokens), new : UpTo(Tokens, MaxTokens)] \cup SplitInputs
  \cup [tool : {"names"}, headings : Headings] \cup [tool : {"note"}, note : [1..MaxLines -> Kinds]]
  \cup [tool : {"csv"}, table : [1..2 -> [1..2 -> Cells]], eol : {<<"n">>, <<"r", "n">>}]
  \cup [tool : {"files"}, files : SUBSET Files]

Init == input \in Inputs /\ result = None

Apply ==
  /\ result = None
  /\ result' = [of |-> CASE input.tool = "diff" -> DiffWords(input.old, input.new)
                         [] input.tool = "split" -> SplitText(input)
                         [] input.tool = "names" -> SectionNames(input.headings)
                         [] input.tool = "note" -> ParsePromptImport(input.note)
                         [] input.tool = "csv" -> CsvRows(Csv(input.table, input.eol))
                         [] input.tool = "files" -> PreferPages(input.files)]
  /\ UNCHANGED input

Spec == Init /\ [][Apply]_vars

-----------------------------------------------------------------------------
(* Properties *)

Done(tool) == result # None /\ input.tool = tool

Texts(runs, type) ==
  FlattenSeq([k \in DOMAIN runs |-> IF runs[k].type \in {"unchanged", type} THEN runs[k].text ELSE <<>>])

IsCommon(old, new, n) ==
  \E f \in [1..n -> (DOMAIN old) \X (DOMAIN new)] :
    /\ \A k \in 1..n : old[f[k][1]] = new[f[k][2]]
    /\ \A k \in 1..n - 1 : f[k][1] < f[k + 1][1] /\ f[k][2] < f[k + 1][2]

(* A diff is exact and smallest: without what was added it is the old text, without what was removed the new one,
   it calls as much unchanged as two texts can share in order (unless the texts are too long for the table), and no
   two neighbouring entries are of one type (lib/diff.ts). *)
DiffExact ==
  Done("diff") =>
    LET runs == result.of
        same == FoldLeft(LAMBDA n, c : IF c.type = "unchanged" THEN n + Len(c.text) ELSE n, 0, runs)
    IN /\ Texts(runs, "removed") = input.old /\ Texts(runs, "added") = input.new
       /\ \A k \in 1..Len(runs) - 1 : runs[k].type # runs[k + 1].type
       /\ (Len(input.old) + 1) * (Len(input.new) + 1) <= MAX_CELLS => ~IsCommon(input.old, input.new, same + 1)

(* An over-long section is cut into sections that fit and lose nothing; no cut falls inside a placeholder or an
   emoji, and only a placeholder that alone is too long makes an over-long section, or at the end of the text an
   empty one after it (splitText). *)
SplitKeeps ==
  Done("split") =>
    LET cuts == result.of
        start(k) == IF k = 1 THEN 0 ELSE cuts[k - 1]
    IN /\ Last(cuts) = Len(input.chars)
       /\ \A k \in DOMAIN cuts :
            /\ start(k) < cuts[k] \/ (k > 1 /\ <<start(k - 1), start(k)>> \in input.spans)
            /\ Inside(input, cuts[k]) = {}
            /\ cuts[k] - start(k) <= MAX_SECTION \/ <<start(k), cuts[k]>> \in input.spans
            /\ cuts[k] < Len(input.chars) => input.chars[cuts[k] + 1] # "lo"

(* No two sections of a prompt get the same tag, whatever the headings were and although a heading may look like
   a name made unique; every name starts with its heading (sectionName). *)
NamesUnique ==
  Done("names") =>
    /\ \A i, j \in DOMAIN result.of : Tag(result.of[i]) = Tag(result.of[j]) => i = j
    /\ \A i \in DOMAIN result.of : IsPrefix(input.headings[i], result.of[i])

KeptLines == FlattenSeq([p \in DOMAIN result.of |->
               FlattenSeq([f \in DOMAIN result.of[p].fields |-> result.of[p].fields[f].lines])])

HeadingsOf(note) == {i \in Prose(note, TRUE) : Levels(note)[i] \in {1, 2} /\ Levels(note)[FirstLine(note)] = 1}

(* A language after a marker inside a fence ends it for mapProse and not for the reader of headings: left out. *)
FencesAgree(note) == Prose(note, TRUE) = Prose(note, FALSE)

(* Code samples keep every line that is not blank, in comments and asides too, and so is all text that no comment, aside or
   callout precedes; lines stay in order and under their own heading (parsePromptImport, tidyNote). *)
NoteKept ==
  Done("note") /\ result.of # None /\ FencesAgree(input.note) =>
    LET note == input.note
        kept == ToSet(KeptLines)
    IN /\ \A k \in 1..Len(KeptLines) - 1 : KeptLines[k] < KeptLines[k + 1]
       /\ {i \in DOMAIN note \ Prose(note, TRUE) : note[i] # "blank"} \subseteq kept
       /\ \A i \in DOMAIN note :
            note[i] = "text" /\ (\A j \in 1..i : note[j] \notin {"%%", "aside", "callout"}) => i \in kept
       /\ \A p \in DOMAIN result.of : \A f \in DOMAIN result.of[p].fields :
            LET field == result.of[p].fields[f]
                above(i) == {h \in HeadingsOf(note) : h < i}
            IN \A k \in DOMAIN field.lines :
                 Max({0} \cup above(field.lines[k])) = IF field.name = 0 THEN result.of[p].title ELSE field.name

(* What a comment or an aside encloses never reaches the prompt (tidyNote). *)
HiddenDropped ==
  Done("note") /\ result.of # None /\ FencesAgree(input.note) =>
    \A i \in ToSet(KeptLines) \cap Prose(input.note, TRUE) :
      LET section == {j \in Prose(input.note, TRUE) : j < i /\ ~\E h \in HeadingsOf(input.note) : j <= h /\ h < i}
          marks == {j \in section : input.note[j] = "%%"}
      IN input.note[i] = "text" =>
           /\ Cardinality(marks) % 2 = 0
           /\ marks = {} => \A j \in section : input.note[j] = "aside" =>
                              \E k \in section : j < k /\ input.note[k] = "/aside"

Untitled(note) == Level(note[FirstLine(note)]) # 0 /\ \A i \in Prose(note, TRUE) : note[i] # "h1"

(* "When the text opens with a heading and has no # Title, its top heading level becomes the title level": the headings
   at least as high as the first one are the titles (the comment above promoteHeadings).  The code does not keep this
   when a code fence holds a "# " line. *)
TopHeadingIsTitle ==
  Done("note") /\ result.of # None /\ FencesAgree(input.note) /\ Untitled(input.note) =>
    LET note == input.note
        top == Level(note[FirstLine(note)])
    IN {result.of[p].title : p \in DOMAIN result.of} = {i \in Prose(note, TRUE) : Level(note[i]) \in 1..top}

FencedTitle(note) == \E i \in DOMAIN note \ Prose(note, TRUE) : note[i] = "h1"

(* Without such a line in a fence it does (promoteHeadings, parsePromptImport). *)
HeadingsPromoted == Done("note") /\ ~FencedTitle(input.note) => TopHeadingIsTitle

(* A table comes back as it was written, less the rows with nothing in them (csvRows). *)
CsvRoundTrip == Done("csv") => result.of = SelectSeq(input.table, FullRow)

(* A database file is left out only if its pages, or its full table, are read (preferPages). *)
NothingUnread ==
  Done("files") =>
    \A file \in input.files \ result.of :
      \E other \in result.of : other \in PagesOf(file, input.files) \/ (other.kind = "all" /\ Base(other) = Base(file))

=============================================================================
