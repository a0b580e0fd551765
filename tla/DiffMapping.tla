----------------------------- MODULE DiffMapping -----------------------------
(***************************************************************************)
(* build_diff_mapping (diff_mapping.py) and _build_hunk_context            *)
(* (service.py) read the text of a diff, line by line, with no other state *)
(* than the last header they saw; _build_reconcile_diff_excerpt            *)
(* (prompts.py) cuts the same text into the parts of its files.  Here git  *)
(* prints the diff of a merge request and the readers take each line as it *)
(* comes, so that what they believe can be compared with what git meant: a *)
(* removed line "-- x" prints as "--- x", git quotes a path that is not    *)
(* ASCII, and splitlines breaks a line at a form feed.                     *)
(***************************************************************************)
EXTENDS Integers, SequencesExt

CONSTANTS
  Paths,     \* paths of the repository
  Quoted,    \* those git prints in quotes (core.quotePath: not ASCII)
  None,
  MaxFiles,  \* bound: files in the diff
  MaxHunks,  \* bound: hunks in the diff
  MaxLines,  \* bound: lines in the hunks, pieces of broken lines included
  MaxSkip,   \* bound: unchanged lines between hunks
  MaxShown,  \* MAX_RECONCILE_DIFF_FILES: files looked up for an excerpt
  Room       \* MAX_RECONCILE_FILE_DIFF_CHARS, in lines

\* What stands behind "--- " or "+++ ".
Names == [form: {"prefixed", "path", "quoted", "dev_null", "text"}, path: Paths \cup {None}]

ASSUME DiffMappingAssumption ==
  /\ Quoted \subseteq Paths
  /\ None \notin Paths \cup Names
  /\ {MaxFiles, MaxHunks, MaxLines, MaxSkip, MaxShown, Room} \subseteq Nat

VARIABLES
  section,  \* the part of the diff being printed: a file and what happened to it
  cursor,   \* the next line on the old and on the new side
  origin,   \* file in the diff -> the path it had before, or None when not in the diff
  added,    \* history: the lines <<file, line>> the diff adds
  hunks,    \* history: the hunks <<file, first new line>> of the diff
  misread,  \* files whose text looked like something else, by what it affects
  reader,   \* what build_diff_mapping remembers
  context,  \* what _build_hunk_context remembers
  text,     \* the lines so far: whose they are, and the path a "diff --git" shows
  budget    \* what git may still print

gitVars == <<section, cursor, origin, added, hunks, misread, budget>>
vars == <<gitVars, reader, context, text>>
-----------------------------------------------------------------------------
File(p) == [form |-> "path", path |-> p]
DevNull == [form |-> "dev_null", path |-> None]
SomeText == [form |-> "text", path |-> None]
Printed(p) == [form |-> IF p \in Quoted THEN "quoted" ELSE "prefixed", path |-> p]

\* The names git prints for the two sides of a file.
OldName(before, change) == IF change = "created" THEN DevNull ELSE Printed(before)
NewName(p, change) == IF change = "deleted" THEN DevNull ELSE Printed(p)

\* _normalize_path.
NormalizePath(name) ==
  IF name.form = "prefixed" THEN [name EXCEPT !.form = "path"] ELSE name

\* The lines of a diff, as far as the readers tell them apart.
DiffGit == [kind |-> "diff --git"]
OldPath(name) == [kind |-> "---", name |-> name]
NewPath(name) == [kind |-> "+++", name |-> name]
HunkHeader(old, new) == [kind |-> "@@", old |-> old, new |-> new]
Content(prefix) == [kind |-> prefix]

\* GitLab wants a path on both sides, also of a file that was created or deleted.
DiscussionOldPath_AsPrinted(old, new) == old
DiscussionOldPath(old, new) == IF old = DevNull /\ new # DevNull THEN new ELSE old
DiscussionNewPath(old, new) == IF new = DevNull /\ old # DevNull THEN old ELSE new

\* Where a finding on an added line is attached.
Anchor(r) ==
  [path |-> r.newPath, line |-> r.newLine,
   old |-> DiscussionOldPath(r.oldPath, r.newPath),
   new |-> DiscussionNewPath(r.oldPath, r.newPath)]

SamePlace(a, b) == a.path = b.path /\ a.line = b.line

ReadContent_CountsRemoved(r, prefix) ==
  CASE prefix = "+" ->
         [r EXCEPT !.anchors = {a \in @ : ~SamePlace(a, Anchor(r))} \cup {Anchor(r)},
                   !.newLine = @ + 1]
    [] prefix = "-" -> [r EXCEPT !.oldLine = @ + 1, !.newLine = @ + 1]
    [] prefix = " " -> [r EXCEPT !.oldLine = @ + 1, !.newLine = @ + 1]
    [] OTHER -> r
ReadContent(r, prefix) ==
  CASE prefix = "+" ->
         [r EXCEPT !.anchors = {a \in @ : ~SamePlace(a, Anchor(r))} \cup {Anchor(r)},
                   !.newLine = @ + 1]
    [] prefix = "-" -> [r EXCEPT !.oldLine = @ + 1]
    [] prefix = " " -> [r EXCEPT !.oldLine = @ + 1, !.newLine = @ + 1]
    [] OTHER -> r

InFile(r) == r.inHunk /\ r.oldPath # None /\ r.newPath # None

\* One iteration of build_diff_mapping: headers are looked for first, wherever
\* the line stands.
ReadLine(r, line) ==
  CASE line.kind = "diff --git" ->
         [r EXCEPT !.oldPath = None, !.newPath = None, !.inHunk = FALSE]
    [] line.kind = "---" -> [r EXCEPT !.oldPath = NormalizePath(line.name)]
    [] line.kind = "+++" -> [r EXCEPT !.newPath = NormalizePath(line.name)]
    [] line.kind = "@@" ->
         [r EXCEPT !.oldLine = line.old, !.newLine = line.new, !.inHunk = TRUE]
    [] OTHER -> IF InFile(r) THEN ReadContent(r, line.kind) ELSE r

\* One iteration of _build_hunk_context: only "+++ b/" names a file.
ReadForContext_OldSide(c, line) ==
  CASE line.kind = "+++" /\ line.name.form = "prefixed" ->
         [c EXCEPT !.file = NormalizePath(line.name)]
    [] line.kind = "@@" /\ c.file # None ->
         [c EXCEPT !.starts = @ \cup {<<c.file, line.old>>}]
    [] OTHER -> c
ReadForContext(c, line) ==
  CASE line.kind = "+++" /\ line.name.form = "prefixed" ->
         [c EXCEPT !.file = NormalizePath(line.name)]
    [] line.kind = "@@" /\ c.file # None ->
         [c EXCEPT !.starts = @ \cup {<<c.file, line.new>>}]
    [] OTHER -> c

Line(p) == [of |-> p, shows |-> None]

Emit(line) ==
  /\ reader' = ReadLine(reader, line)
  /\ context' = ReadForContext(context, line)
  /\ text' = Append(text, Line(section.path))

\* _DIFF_HEADER_RE knows "diff --git" lines in which neither path is quoted.
DiffHeader(before, p) ==
  [of |-> p, shows |-> IF {before, p} \cap Quoted = {} THEN p ELSE None]

\* The part of the text that _extract_file_diff takes for the file p.
FileDiff_ToTheEnd(p) ==
  LET headers == {i \in DOMAIN text : text[i].shows = p}
  IN IF headers = {} THEN <<>> ELSE SubSeq(text, Min(headers), Len(text))
FileDiff(p) ==
  LET headers == {i \in DOMAIN text : text[i].shows = p}
      first == Min(headers)
      later == {i \in DOMAIN text : i > first /\ text[i].shows # None}
  IN IF headers = {} THEN <<>>
     ELSE SubSeq(text, first, Min(later \cup {Len(text) + 1}) - 1)

\* The files an excerpt may be asked for: the one of the finding, then changed
\* files in the order in which the discussion, the names of tests and the
\* identifiers of the finding bring them, each of them once.
Orders == {s \in BoundedSeq(Paths, Cardinality(Paths)) : IsInjective(s)}
CandidatePaths == {s \in Orders : \A i \in 2..Len(s) : origin[s[i]] # None}

CutOff(s) == SubSeq(s, 1, Min({Room, Len(s)}))

\* What a reconcile run shows of the diff; when none of the files looked up is
\* in it, its beginning.
Looked(candidates) == SubSeq(candidates, 1, Min({MaxShown, Len(candidates)}))
Excerpt(candidates) ==
  LET looked == Looked(candidates)
      found == FlattenSeq([i \in DOMAIN looked |-> FileDiff(looked[i])])
  IN CutOff(IF found = <<>> THEN text ELSE found)
-----------------------------------------------------------------------------
Changes == {"modified", "created", "deleted", "renamed", "bare"}

Init ==
  /\ section = [path |-> None, change |-> "bare", lines |-> 0, open |-> FALSE]
  /\ cursor = [old |-> 0, new |-> 0]
  /\ origin = [p \in Paths |-> None]
  /\ added = {}
  /\ hunks = {}
  /\ misread = [lines |-> {}, path |-> {}, origin |-> {}]
  /\ reader = [oldPath |-> None, newPath |-> None, oldLine |-> 0, newLine |-> 0,
               inHunk |-> FALSE, anchors |-> {}]
  /\ context = [file |-> None, starts |-> {}]
  /\ text = <<>>
  /\ budget = [files |-> MaxFiles, hunks |-> MaxHunks, lines |-> MaxLines]

Spend(what) == budget[what] > 0 /\ budget' = [budget EXCEPT ![what] = @ - 1]

\* The next file, with its "---" and "+++" lines; a bare one has none: a binary
\* file, another mode, a new name only.
PrintFile(p, before, change) ==
  /\ origin[p] = None
  /\ change = "renamed" <=> before # p
  /\ Spend("files")
  /\ section' = [path |-> p, change |-> change, lines |-> 0, open |-> FALSE]
  /\ cursor' = [old |-> IF change = "created" THEN 0 ELSE 1,
                new |-> IF change = "deleted" THEN 0 ELSE 1]
  /\ origin' = [origin EXCEPT ![p] = before]
  /\ LET left  == OldPath(OldName(before, change))
         right == NewPath(NewName(p, change))
         r     == ReadLine(reader, DiffGit)
         c     == ReadForContext(context, DiffGit)
     IN IF change = "bare"
        THEN /\ reader' = r
             /\ context' = c
             /\ text' = text \o <<DiffHeader(before, p)>>
        ELSE /\ reader' = ReadLine(ReadLine(r, left), right)
             /\ context' = ReadForContext(ReadForContext(c, left), right)
             /\ text' = text \o <<DiffHeader(before, p), Line(p), Line(p)>>
  /\ UNCHANGED <<added, hunks, misread>>

\* A hunk further down; a file that was created or deleted is one hunk.
PrintHunk(skip) ==
  /\ section.change # "bare"
  /\ IF section.open
     THEN skip > 0 /\ section.change \in {"modified", "renamed"}
     ELSE section.change \in {"modified", "renamed"} \/ skip = 0
  /\ Spend("hunks")
  /\ section' = [section EXCEPT !.open = TRUE, !.lines = 0]
  /\ cursor' = [old |-> cursor.old + skip, new |-> cursor.new + skip]
  /\ hunks' = hunks \cup {<<section.path, cursor.new + skip>>}
  /\ Emit(HunkHeader(cursor.old + skip, cursor.new + skip))
  /\ UNCHANGED <<origin, added, misread>>

InHunk ==
  /\ section.open
  /\ Spend("lines")
  /\ section' = [section EXCEPT !.lines = @ + 1]
  /\ UNCHANGED <<origin, hunks>>

PrintContext ==
  /\ section.change \in {"modified", "renamed"}
  /\ InHunk
  /\ cursor' = [old |-> cursor.old + 1, new |-> cursor.new + 1]
  /\ Emit(Content(" "))
  /\ UNCHANGED <<added, misread>>

\* An added line; one whose text starts with "++ " looks like a header.
PrintAdded(likeHeader) ==
  /\ section.change # "deleted"
  /\ InHunk
  /\ cursor' = [cursor EXCEPT !.new = @ + 1]
  /\ added' = added \cup {<<section.path, cursor.new>>}
  /\ Emit(IF likeHeader THEN NewPath(SomeText) ELSE Content("+"))
  /\ misread' = IF likeHeader THEN [misread EXCEPT !.path = @ \cup {section.path}] ELSE misread

\* A removed line; one whose text starts with "-- ", as a comment in SQL, looks
\* like a header.
PrintRemoved(likeHeader) ==
  /\ section.change # "created"
  /\ InHunk
  /\ cursor' = [cursor EXCEPT !.old = @ + 1]
  /\ Emit(IF likeHeader THEN OldPath(SomeText) ELSE Content("-"))
  /\ misread' = IF likeHeader THEN [misread EXCEPT !.origin = @ \cup {section.path}] ELSE misread
  /\ UNCHANGED added

\* "\ No newline at end of file".
PrintMarker ==
  /\ section.lines > 0
  /\ InHunk
  /\ Emit(Content("\\"))
  /\ UNCHANGED <<cursor, added, misread>>

\* The rest of a line that splitlines breaks: it counts as a line of its own
\* when its text happens to start with "+" or a blank.
PrintPiece(start) ==
  /\ section.lines > 0
  /\ InHunk
  /\ Emit(Content(start))
  /\ misread' = IF start \in {"+", " "} THEN [misread EXCEPT !.lines = @ \cup {section.path}]
                                         ELSE misread
  /\ UNCHANGED <<cursor, added>>

Next ==
  \/ \E p, before \in Paths, change \in Changes : PrintFile(p, before, change)
  \/ \E skip \in 0..MaxSkip : PrintHunk(skip)
  \/ PrintContext
  \/ \E likeHeader \in BOOLEAN : PrintAdded(likeHeader) \/ PrintRemoved(likeHeader)
  \/ PrintMarker
  \/ \E start \in {"+", "-", " ", "text"} : PrintPiece(start)

Spec == Init /\ [][Next]_vars
-----------------------------------------------------------------------------
Anchors == [path: Names, line: Nat, old: Names, new: Names]

\* Every variable has its type.
TypeOK ==
  /\ section \in [path: Paths \cup {None}, change: Changes, lines: Nat, open: BOOLEAN]
  /\ cursor \in [old: Nat, new: Nat]
  /\ origin \in [Paths -> Paths \cup {None}]
  /\ added \subseteq Paths \X Nat
  /\ hunks \subseteq Paths \X Nat
  /\ misread \in [lines: SUBSET Paths, path: SUBSET Paths, origin: SUBSET Paths]
  /\ reader \in [oldPath: Names \cup {None}, newPath: Names \cup {None}, oldLine: Nat,
                 newLine: Nat, inHunk: BOOLEAN, anchors: SUBSET Anchors]
  /\ context \in [file: Names \cup {None}, starts: SUBSET (Names \X Nat)]
  /\ text \in Seq([of: Paths, shows: Paths \cup {None}])
  /\ budget \in [{"files", "hunks", "lines"} -> Nat]

\* DiffMapping.to_position and has_changes_near.
HasPosition(name, line) == \E a \in reader.anchors : a.path = name /\ a.line = line

\* The mapping has exactly the lines the diff adds.  Text that looks like a
\* header costs lines of its file but puts no line where none was added; a
\* broken line may shift its file; neither reaches the next file.
MappingIsExact ==
  /\ \A a \in reader.anchors :
       a.path.form = "path" /\ a.path.path \notin misread.lines
         => <<a.path.path, a.line>> \in added
  /\ \A x \in added :
       x[1] \notin Quoted \cup misread.lines \cup misread.path
         => HasPosition(File(x[1]), x[2])

\* A position names the file on both sides: under its old name if the diff
\* renames it, under its only name if the diff creates it.
AnchorsNameTheFile ==
  \A a \in reader.anchors :
    /\ a.path.form = "path"
    /\ a.path.path \notin misread.origin
    /\ origin[a.path.path] \notin Quoted
    => a.new = a.path /\ a.old = File(origin[a.path.path])

\* The prompt shows the surroundings of every hunk under its own file; only a
\* file that has no "+++ b/" line lends its hunks to the file before it.
HasPlusHeader(p) == p \notin Quoted /\ <<p, 0>> \notin hunks
ContextShowsTheHunks ==
  /\ \A x \in hunks : HasPlusHeader(x[1]) => <<File(x[1]), x[2]>> \in context.starts
  /\ \A c \in context.starts :
       \E x \in hunks : c[2] = x[2] /\ (HasPlusHeader(x[1]) => c[1] = File(x[1]))

\* An excerpt for a reconcile run opens with the part of the finding's file.  It
\* has lines of files it was not asked for only when they have no header of
\* their own, and when it has room left it shows each file that was looked up
\* whole.
HasGitHeader(p) == origin[p] # None /\ {p, origin[p]} \cap Quoted = {}
OwnLines(s, p) ==  \* from the first to the last: git prints them together
  LET own == {i \in DOMAIN s : s[i].of = p}
  IN IF own = {} THEN <<>> ELSE SubSeq(s, Min(own), Max(own))
ExcerptShowsTheFiles ==
  \A candidates \in CandidatePaths :
    LET excerpt == Excerpt(candidates)
        looked  == ToSet(Looked(candidates))
        visible == {p \in looked : HasGitHeader(p)}
    IN visible # {} =>
       /\ HasGitHeader(candidates[1]) =>
            IsPrefix(CutOff(OwnLines(text, candidates[1])), excerpt)
       /\ \A i \in DOMAIN excerpt :
            excerpt[i].of \in visible \/ ~HasGitHeader(excerpt[i].of)
       /\ Len(excerpt) < Room =>
            \A p \in visible : OwnLines(excerpt, p) = OwnLines(text, p)

\* Both prompts show each part of the diff as a part of its own file.
PromptsShowTheDiff == ContextShowsTheHunks /\ ExcerptShowsTheFiles
=============================================================================
