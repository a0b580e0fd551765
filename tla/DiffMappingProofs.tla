-------------------------- MODULE DiffMappingProofs --------------------------
(***************************************************************************)
(* What DiffMapping promises of the readers of a diff, for any paths, any  *)
(* diff and any bounds: the lines of a file are those git adds, under its  *)
(* own name on both sides, the hunks a prompt is told of are those of the  *)
(* diff, and an excerpt shows the files it was made for.                   *)
(***************************************************************************)
EXTENDS DiffMapping, WellFoundedInduction, TLAPS

Readers == [oldPath: Names \cup {None}, newPath: Names \cup {None}, oldLine: Nat,
            newLine: Nat, inHunk: BOOLEAN, anchors: SUBSET Anchors]
Misread == [lines: SUBSET Paths, path: SUBSET Paths, origin: SUBSET Paths]
Contexts == [file: Names \cup {None}, starts: SUBSET (Names \X Nat)]

-----------------------------------------------------------------------------
(* The names and what the readers make of a line.                          *)

\* The names git prints are names, and stay so when they are normalized.
LEMMA NamesAreNames ==
  /\ \A p \in Paths : File(p) \in Names /\ Printed(p) \in Names
  /\ DevNull \in Names /\ SomeText \in Names
  /\ \A n \in Names : NormalizePath(n) \in Names
  BY DEF Names, File, Printed, DevNull, SomeText, NormalizePath

\* A header of a file: only the name it shows is remembered.
LEMMA ReadsGit ==
  ASSUME NEW r \in Readers
  PROVE  ReadLine(r, DiffGit) = [r EXCEPT !.oldPath = None, !.newPath = None, !.inHunk = FALSE]
  BY DEF ReadLine, DiffGit

LEMMA ReadsOldPath ==
  ASSUME NEW r \in Readers, NEW n \in Names
  PROVE  ReadLine(r, OldPath(n)) = [r EXCEPT !.oldPath = NormalizePath(n)]
  BY DEF ReadLine, OldPath

LEMMA ReadsNewPath ==
  ASSUME NEW r \in Readers, NEW n \in Names
  PROVE  ReadLine(r, NewPath(n)) = [r EXCEPT !.newPath = NormalizePath(n)]
  BY DEF ReadLine, NewPath

\* The lines of a hunk.
LEMMA ReadsAdded ==
  ASSUME NEW r \in Readers, InFile(r)
  PROVE  ReadLine(r, Content("+"))
           = [r EXCEPT !.anchors = {a \in @ : ~SamePlace(a, Anchor(r))} \cup {Anchor(r)},
                       !.newLine = @ + 1]
  BY DEF ReadLine, Content, ReadContent

LEMMA ReadsRemoved ==
  ASSUME NEW r \in Readers, InFile(r)
  PROVE  ReadLine(r, Content("-")) = [r EXCEPT !.oldLine = @ + 1]
  BY DEF ReadLine, Content, ReadContent

LEMMA ReadsContext ==
  ASSUME NEW r \in Readers, InFile(r)
  PROVE  ReadLine(r, Content(" ")) = [r EXCEPT !.oldLine = @ + 1, !.newLine = @ + 1]
  BY DEF ReadLine, Content, ReadContent

LEMMA ReadsOther ==
  ASSUME NEW r \in Readers, InFile(r)
  PROVE  /\ ReadLine(r, Content("\\")) = r
         /\ ReadLine(r, Content("text")) = r
  BY DEF ReadLine, Content, ReadContent

LEMMA AnchorsAreAnchors ==
  ASSUME NEW r \in Readers, InFile(r)
  PROVE  /\ Anchor(r) \in Anchors
         /\ Anchor(r).path = r.newPath
         /\ Anchor(r).line = r.newLine
         /\ Anchor(r).old = DiscussionOldPath(r.oldPath, r.newPath)
         /\ Anchor(r).new = DiscussionNewPath(r.oldPath, r.newPath)
  BY DEF Anchor, Anchors, Readers, InFile, DiscussionOldPath, DiscussionNewPath

-----------------------------------------------------------------------------
(* What the readers know while a file is printed.                          *)

\* The names remembered are those of the file being printed, unless one of its
\* lines looked like a header.
HeadersRead ==
  section.change # "bare" =>
    /\ section.path \in Paths
    /\ origin[section.path] \in Paths
    /\ section.change # "renamed" => origin[section.path] = section.path
    /\ section.path \in misread.origin => reader.oldPath = SomeText
    /\ section.path \notin misread.origin =>
         reader.oldPath = NormalizePath(OldName(origin[section.path], section.change))
    /\ section.path \in misread.path => reader.newPath = SomeText
    /\ section.path \notin misread.path =>
         reader.newPath = NormalizePath(NewName(section.path, section.change))

\* In a hunk the reader is in a hunk, and counts as git does.
HunkRead == section.open => section.change # "bare" /\ reader.inHunk
LinesRead ==
  section.open /\ section.path \notin misread.lines \cup misread.path
    => reader.newLine = cursor.new

\* Only a file that is deleted has a line 0.
CursorKnown ==
  /\ section.change = "deleted" => cursor.new = 0
  /\ section.change \notin {"bare", "deleted"} => cursor.new > 0

\* Whatever is known of a file is known after its header was printed.
OnlyPrinted ==
  /\ \A p \in misread.lines \cup misread.path \cup misread.origin : origin[p] # None
  /\ \A x \in hunks : origin[x[1]] # None
  /\ \A a \in reader.anchors :
       a.path.form = "path" => a.path.path \in Paths /\ origin[a.path.path] # None
  /\ section.change # "bare" /\ ~section.open => \A x \in hunks : x[1] # section.path

\* The reader of hunk starts knows the file, if it has a name that is not quoted.
FileRead ==
  section.change \notin {"bare", "deleted"} /\ section.path \notin Quoted
    => context.file = File(section.path)

ReadersInv ==
  TypeOK /\ HeadersRead /\ HunkRead /\ LinesRead /\ CursorKnown /\ OnlyPrinted /\ FileRead

LEMMA InFileInHunk ==
  ASSUME ReadersInv, section.open
  PROVE  InFile(reader)
<1>1. section.change # "bare" /\ reader.inHunk
  BY DEF ReadersInv, HunkRead
<1>2. section.path \in Paths /\ origin[section.path] \in Paths
  BY <1>1 DEF ReadersInv, HeadersRead
<1>3. /\ OldName(origin[section.path], section.change) \in Names
      /\ NewName(section.path, section.change) \in Names
  BY <1>2, NamesAreNames DEF OldName, NewName
<1>4. reader.oldPath \in Names /\ reader.newPath \in Names
  BY <1>1, <1>3, NamesAreNames DEF ReadersInv, HeadersRead
<1>5. None \notin Names
  BY DiffMappingAssumption
<1> QED
  BY <1>1, <1>4, <1>5 DEF InFile

-----------------------------------------------------------------------------
(* The lines of a hunk.                                                    *)

\* The anchor of an added line takes the place of one that was there.
Attached ==
  reader'.anchors = {a \in reader.anchors : ~SamePlace(a, Anchor(reader))} \cup {Anchor(reader)}

\* What git adds and what the reader takes for added.
LineTold ==
  \/ reader'.anchors = reader.anchors /\ added' = added
  \/ /\ Attached
     /\ section.change # "deleted"
     /\ misread'.path = misread.path
     /\ added' = added \cup {<<section.path, cursor.new>>}
  \/ Attached /\ added' = added /\ section.path \in misread'.lines
  \/ /\ reader'.anchors = reader.anchors
     /\ section.path \in misread'.path
     /\ added' = added \cup {<<section.path, cursor.new>>}

\* How a line of a hunk moves the readers, the history and git.
LineMoves ==
  /\ section.open /\ section'.open
  /\ section'.path = section.path /\ section'.change = section.change
  /\ UNCHANGED <<origin, hunks, context>>
  /\ reader'.inHunk
  /\ \/ reader'.oldPath = reader.oldPath /\ misread'.origin = misread.origin
     \/ reader'.oldPath = SomeText /\ misread'.origin = misread.origin \cup {section.path}
  /\ \/ reader'.newPath = reader.newPath /\ misread'.path = misread.path
     \/ reader'.newPath = SomeText /\ misread'.path = misread.path \cup {section.path}
  /\ misread'.lines = misread.lines \/ misread'.lines = misread.lines \cup {section.path}
  /\ LineTold

LEMMA Types ==
  ASSUME TypeOK
  PROVE  /\ cursor.old \in Nat /\ cursor.old + 1 \in Nat
         /\ cursor.new \in Nat /\ cursor.new + 1 \in Nat
         /\ reader.oldLine \in Nat /\ reader.oldLine + 1 \in Nat
         /\ reader.newLine \in Nat /\ reader.newLine + 1 \in Nat
         /\ reader \in Readers
         /\ added \subseteq Paths \X Nat
         /\ misread \in Misread
<1>1. cursor.old \in Nat /\ cursor.new \in Nat
  BY DEF TypeOK
<1>4. added \subseteq Paths \X Nat /\ misread \in Misread
  BY DEF TypeOK, Misread
<1>2. reader \in Readers
  BY DEF TypeOK, Readers
<1>3. reader.oldLine \in Nat /\ reader.newLine \in Nat
  BY <1>2 DEF Readers
<1> QED
  BY <1>1, <1>2, <1>3, <1>4

LEMMA HunkLines ==
  ASSUME ReadersInv, InHunk
  PROVE  /\ section.open /\ section'.open
         /\ section'.path = section.path /\ section'.change = section.change
         /\ section.change # "bare" /\ section.path \in Paths
         /\ section' \in [path: Paths \cup {None}, change: Changes, lines: Nat, open: BOOLEAN]
         /\ budget' \in [{"files", "hunks", "lines"} -> Nat]
         /\ UNCHANGED <<origin, hunks>>
         /\ InFile(reader)
         /\ reader \in Readers
<1>1. section.open /\ section' = [section EXCEPT !.lines = @ + 1] /\ UNCHANGED <<origin, hunks>>
  BY DEF InHunk
<1>2. section \in [path: Paths \cup {None}, change: Changes, lines: Nat, open: BOOLEAN]
  BY DEF ReadersInv, TypeOK
<1>3. /\ section'.open = section.open
      /\ section'.path = section.path /\ section'.change = section.change
      /\ section' \in [path: Paths \cup {None}, change: Changes, lines: Nat, open: BOOLEAN]
  <2>1. section.lines + 1 \in Nat
    BY <1>2
  <2>2. \A n \in Nat : LET t == [section EXCEPT !.lines = n]
                       IN /\ t.open = section.open
                          /\ t.path = section.path /\ t.change = section.change
                          /\ t \in [path: Paths \cup {None}, change: Changes, lines: Nat, open: BOOLEAN]
    BY <1>2, Zenon
  <2>3. section' = [section EXCEPT !.lines = section.lines + 1]
    BY <1>1
  <2> HIDE DEF InHunk
  <2> QED
    BY <2>1, <2>2, <2>3, Zenon
<1>4. section.change # "bare" /\ section.path \in Paths
  BY <1>1 DEF ReadersInv, HunkRead, HeadersRead
<1>5. budget' \in [{"files", "hunks", "lines"} -> Nat]
  <2>1. budget \in [{"files", "hunks", "lines"} -> Nat]
    BY DEF ReadersInv, TypeOK
  <2>2. budget["lines"] > 0 /\ budget' = [budget EXCEPT !["lines"] = @ - 1]
    BY DEF InHunk, Spend
  <2> QED
    BY <2>1, <2>2
<1>6. InFile(reader)
  BY <1>1, InFileInHunk
<1>7. reader \in Readers
  BY DEF ReadersInv, TypeOK, Readers
<1> QED
  BY <1>1, <1>3, <1>4, <1>5, <1>6, <1>7

\* A line adds a line to the text, and no hunk starts in it.
LEMMA EmitsLine ==
  ASSUME TypeOK, section.path \in Paths, NEW line, Emit(line),
         line.kind # "@@", line.kind = "+++" => line.name = SomeText
  PROVE  /\ context' = context
         /\ reader' = ReadLine(reader, line)
         /\ text' \in Seq([of: Paths, shows: Paths \cup {None}])
<1>1. context' = context
  BY DEF Emit, ReadForContext, SomeText
<1>2. text \in Seq([of: Paths, shows: Paths \cup {None}])
  BY DEF TypeOK
<1>3. Line(section.path) \in [of: Paths, shows: Paths \cup {None}]
  BY DEF Line
<1> QED
  BY <1>1, <1>2, <1>3 DEF Emit

\* What is left of the types for a line of a hunk.
LEMMA SameType ==
  ASSUME ReadersInv, InHunk,
         cursor' \in [old: Nat, new: Nat],
         added' \subseteq Paths \X Nat,
         misread' \in Misread,
         reader' \in Readers,
         context' = context,
         text' \in Seq([of: Paths, shows: Paths \cup {None}])
  PROVE  TypeOK'
<1>1. TypeOK
  BY DEF ReadersInv
<1>2. context' \in [file: Names \cup {None}, starts: SUBSET (Names \X Nat)]
  BY <1>1 DEF TypeOK
<1>3. origin' \in [Paths -> Paths \cup {None}] /\ hunks' \subseteq Paths \X Nat
  BY <1>1, HunkLines DEF TypeOK
<1> QED
  BY <1>2, <1>3, HunkLines DEF TypeOK, Readers, Misread

LEMMA ContextMoves ==
  ASSUME ReadersInv, PrintContext
  PROVE  TypeOK' /\ LineMoves /\ LinesRead' /\ CursorKnown'
<1>1. InHunk /\ Emit(Content(" ")) /\ UNCHANGED <<added, misread>>
      /\ cursor' = [old |-> cursor.old + 1, new |-> cursor.new + 1]
      /\ section.change \in {"modified", "renamed"}
  BY DEF PrintContext
<1>2. TypeOK
  BY DEF ReadersInv
<1>3. /\ context' = context
      /\ reader' = ReadLine(reader, Content(" "))
      /\ text' \in Seq([of: Paths, shows: Paths \cup {None}])
  <2>1. Content(" ").kind # "@@" /\ Content(" ").kind # "+++"
    BY DEF Content
  <2> QED
    BY <1>1, <1>2, <2>1, HunkLines, EmitsLine
<1>4. reader' = [reader EXCEPT !.oldLine = @ + 1, !.newLine = @ + 1]
  BY <1>1, <1>3, HunkLines, ReadsContext
<1>5. /\ reader' \in Readers
      /\ reader'.oldPath = reader.oldPath /\ reader'.newPath = reader.newPath
      /\ reader'.anchors = reader.anchors
      /\ reader'.newLine = reader.newLine + 1
      /\ reader'.inHunk = reader.inHunk
  <2>1. reader \in Readers /\ reader.newLine + 1 \in Nat /\ reader.oldLine + 1 \in Nat
    BY <1>2, Types
  <2>2. reader' = [reader EXCEPT !.oldLine = reader.oldLine + 1, !.newLine = reader.newLine + 1]
    BY <1>4
  <2> QED
    <3>1. PICK o \in Nat, n \in Nat : o = reader.oldLine + 1 /\ n = reader.newLine + 1
      BY <2>1
    <3>2. reader' = [reader EXCEPT !.oldLine = o, !.newLine = n]
      BY <2>2, <3>1
    <3> QED
      BY <2>1, <3>1, <3>2 DEF Readers
<1>6. cursor \in [old: Nat, new: Nat]
  BY <1>2 DEF TypeOK
<1>7. TypeOK'
  <2>1. cursor' \in [old: Nat, new: Nat]
    <3>1. cursor' = [old |-> cursor.old + 1, new |-> cursor.new + 1]
      BY <1>1
    <3> QED
      BY <1>2, <3>1, Types
  <2> QED
    BY <1>1, <1>2, <1>3, <1>5, <2>1, Types, SameType
<1>8. LineMoves
  <2>1. reader.inHunk
    BY <1>1, HunkLines DEF InFile
  <2> QED
    BY <1>1, <1>3, <1>5, <2>1, HunkLines DEF LineMoves, LineTold
<1>9. LinesRead'
  BY <1>1, <1>5, <1>6, HunkLines DEF LinesRead, ReadersInv
<1>10. CursorKnown'
  <2>1. cursor'.new = cursor.new + 1 /\ cursor.new \in Nat
    BY <1>1, <1>6
  <2>2. section'.change = section.change /\ section.change \in {"modified", "renamed"}
    BY <1>1, HunkLines
  <2>3. cursor'.new > 0
    BY <2>1
  <2> QED
    BY <2>2, <2>3 DEF CursorKnown
<1> QED
  BY <1>7, <1>8, <1>9, <1>10

LEMMA RemovedMoves ==
  ASSUME ReadersInv, NEW likeHeader \in BOOLEAN, PrintRemoved(likeHeader)
  PROVE  TypeOK' /\ LineMoves /\ LinesRead' /\ CursorKnown'
<1> DEFINE line == IF likeHeader THEN OldPath(SomeText) ELSE Content("-")
<1>1. InHunk /\ Emit(line) /\ UNCHANGED added
  BY DEF PrintRemoved
<1>2. cursor' = [cursor EXCEPT !.old = @ + 1]
  BY DEF PrintRemoved
<1>3. misread' = IF likeHeader THEN [misread EXCEPT !.origin = @ \cup {section.path}] ELSE misread
  BY DEF PrintRemoved
<1>4. TypeOK
  BY DEF ReadersInv
<1>5. /\ context' = context
      /\ reader' = ReadLine(reader, line)
      /\ text' \in Seq([of: Paths, shows: Paths \cup {None}])
  <2>1. line.kind # "@@" /\ line.kind # "+++"
    BY DEF Content, OldPath
  <2> QED
    BY <1>1, <1>4, <2>1, HunkLines, EmitsLine
<1>6. cursor' \in [old: Nat, new: Nat] /\ cursor'.new = cursor.new
  <2>1. cursor \in [old: Nat, new: Nat] /\ cursor.old + 1 \in Nat
    BY <1>4, Types DEF TypeOK
  <2> QED
    BY <1>2, <2>1
<1>7. /\ reader' \in Readers
      /\ reader'.newPath = reader.newPath
      /\ reader'.anchors = reader.anchors
      /\ reader'.newLine = reader.newLine
      /\ reader'.inHunk = reader.inHunk
      /\ reader'.oldPath = IF likeHeader THEN SomeText ELSE reader.oldPath
  <2>1. CASE likeHeader
    <3>1. reader' = [reader EXCEPT !.oldPath = SomeText]
      <4>1. NormalizePath(SomeText) = SomeText
        BY DEF NormalizePath, SomeText
      <4> QED
        BY <1>4, <1>5, <2>1, <4>1, Types, ReadsOldPath, NamesAreNames
    <3> QED
      BY <1>4, <2>1, <3>1, Types, NamesAreNames DEF Readers
  <2>2. CASE ~likeHeader
    <3>1. reader' = [reader EXCEPT !.oldLine = @ + 1]
      BY <1>1, <1>5, <2>2, HunkLines, ReadsRemoved
    <3>2. reader' = [reader EXCEPT !.oldLine = reader.oldLine + 1, !.newLine = reader.newLine]
      BY <1>4, <3>1, Types DEF Readers
    <3>3. reader \in Readers /\ reader.newLine \in Nat /\ reader.oldLine + 1 \in Nat
      BY <1>4, Types
    <3>4. /\ reader' \in Readers
          /\ reader'.oldPath = reader.oldPath /\ reader'.newPath = reader.newPath
          /\ reader'.anchors = reader.anchors
          /\ reader'.newLine = reader.newLine
          /\ reader'.inHunk = reader.inHunk
      <4>1. PICK o \in Nat, n \in Nat : o = reader.oldLine + 1 /\ n = reader.newLine
        BY <3>3
      <4>2. reader' = [reader EXCEPT !.oldLine = o, !.newLine = n]
        BY <3>2, <4>1
      <4> QED
        BY <3>3, <4>1, <4>2 DEF Readers
    <3> QED
      BY <2>2, <3>4
  <2> QED
    BY <2>1, <2>2
<1>8. section.path \in Paths /\ misread \in Misread
  BY <1>1, <1>4, HunkLines, Types
<1>9. /\ misread' \in Misread
      /\ misread'.lines = misread.lines /\ misread'.path = misread.path
      /\ misread'.origin = IF likeHeader THEN misread.origin \cup {section.path} ELSE misread.origin
  BY <1>3, <1>8 DEF Misread
<1>10. TypeOK'
  BY <1>1, <1>4, <1>5, <1>6, <1>7, <1>9, Types, SameType
<1>11. LineMoves
  <2>1. reader.inHunk
    BY <1>1, HunkLines DEF InFile
  <2> QED
    BY <1>1, <1>5, <1>7, <1>9, <2>1, HunkLines DEF LineMoves, LineTold
<1>12. LinesRead'
  BY <1>1, <1>6, <1>7, <1>9, HunkLines DEF LinesRead, ReadersInv
<1>13. CursorKnown'
  BY <1>1, <1>6, HunkLines DEF CursorKnown, ReadersInv
<1> QED
  BY <1>10, <1>11, <1>12, <1>13

LEMMA AttachAdded ==
  ASSUME NEW r \in Readers, InFile(r)
  PROVE  LET t == ReadLine(r, Content("+"))
         IN /\ t \in Readers
            /\ t.oldPath = r.oldPath /\ t.newPath = r.newPath
            /\ t.anchors = {a \in r.anchors : ~SamePlace(a, Anchor(r))} \cup {Anchor(r)}
            /\ t.newLine = r.newLine + 1
            /\ t.inHunk = r.inHunk
<1> DEFINE rest == {a \in r.anchors : ~SamePlace(a, Anchor(r))} \cup {Anchor(r)}
<1>1. ReadLine(r, Content("+")) = [r EXCEPT !.anchors = rest, !.newLine = r.newLine + 1]
  BY ReadsAdded
<1>2. rest \subseteq Anchors
  BY AnchorsAreAnchors DEF Readers
<1>3. r.newLine + 1 \in Nat
  <2>1. r.newLine \in Nat
    BY DEF Readers
  <2> QED
    BY <2>1
<1> HIDE DEF rest
<1>4. PICK n \in Nat : n = r.newLine + 1
  BY <1>3
<1>5. PICK as \in SUBSET Anchors : as = rest
  BY <1>2
<1>6. ReadLine(r, Content("+")) = [r EXCEPT !.anchors = as, !.newLine = n]
  BY <1>1, <1>4, <1>5
<1> QED
  BY <1>4, <1>5, <1>6 DEF Readers, rest

LEMMA AddedMoves ==
  ASSUME ReadersInv, NEW likeHeader \in BOOLEAN, PrintAdded(likeHeader)
  PROVE  TypeOK' /\ LineMoves /\ LinesRead' /\ CursorKnown'
<1> DEFINE line == IF likeHeader THEN NewPath(SomeText) ELSE Content("+")
<1>1. InHunk /\ Emit(line) /\ section.change # "deleted"
  BY DEF PrintAdded
<1>2. cursor' = [cursor EXCEPT !.new = @ + 1] /\ added' = added \cup {<<section.path, cursor.new>>}
  BY DEF PrintAdded
<1>3. misread' = IF likeHeader THEN [misread EXCEPT !.path = @ \cup {section.path}] ELSE misread
  BY DEF PrintAdded
<1>4. TypeOK
  BY DEF ReadersInv
<1>5. /\ context' = context
      /\ reader' = ReadLine(reader, line)
      /\ text' \in Seq([of: Paths, shows: Paths \cup {None}])
  <2>1. line.kind # "@@" /\ (line.kind = "+++" => line.name = SomeText)
    BY DEF Content, NewPath
  <2> QED
    BY <1>1, <1>4, <2>1, HunkLines, EmitsLine
<1>6. cursor' \in [old: Nat, new: Nat] /\ cursor'.new = cursor.new + 1
  <2>1. cursor \in [old: Nat, new: Nat] /\ cursor.new + 1 \in Nat
    BY <1>4, Types DEF TypeOK
  <2> QED
    BY <1>2, <2>1
<1>7. section.path \in Paths /\ section.change # "bare"
  BY <1>1, HunkLines
<1>8. /\ misread' \in Misread
      /\ misread'.lines = misread.lines /\ misread'.origin = misread.origin
      /\ misread'.path = IF likeHeader THEN misread.path \cup {section.path} ELSE misread.path
  BY <1>3, <1>4, <1>7, Types DEF Misread
<1>9. added' \subseteq Paths \X Nat
  BY <1>2, <1>4, <1>7, Types
<1>10. cursor.new > 0 /\ CursorKnown'
  <2>1. section'.change = section.change
    BY <1>1, HunkLines
  <2>2. cursor.new > 0
    BY <1>1, <1>7 DEF CursorKnown, ReadersInv
  <2>3. cursor'.new > 0
    BY <1>4, <1>6, <2>2, Types
  <2> QED
    BY <1>1, <1>7, <2>1, <2>2, <2>3 DEF CursorKnown
<1>11. section.open /\ section'.open /\ section'.path = section.path /\ reader.inHunk
       /\ section'.change = section.change /\ UNCHANGED <<origin, hunks>>
  BY <1>1, HunkLines DEF InFile
<1>12. CASE likeHeader
  <2>1. reader' = [reader EXCEPT !.newPath = SomeText]
    <3>1. NormalizePath(SomeText) = SomeText
      BY DEF NormalizePath, SomeText
    <3> QED
      BY <1>4, <1>5, <1>12, <3>1, Types, ReadsNewPath, NamesAreNames
  <2>2. /\ reader' \in Readers
        /\ reader'.newPath = SomeText
        /\ reader'.oldPath = reader.oldPath
        /\ reader'.anchors = reader.anchors
        /\ reader'.inHunk = reader.inHunk
    BY <1>4, <2>1, Types, NamesAreNames DEF Readers
  <2>3. TypeOK'
    BY <1>1, <1>5, <1>6, <1>8, <1>9, <2>2, SameType
  <2>4. LineMoves
    BY <1>2, <1>5, <1>8, <1>11, <1>12, <2>2 DEF LineMoves, LineTold
  <2>5. LinesRead'
    BY <1>8, <1>11, <1>12 DEF LinesRead
  <2> QED
    BY <1>10, <2>3, <2>4, <2>5
<1>13. CASE ~likeHeader
  <2>1. /\ reader' \in Readers
        /\ reader'.oldPath = reader.oldPath /\ reader'.newPath = reader.newPath
        /\ Attached
        /\ reader'.newLine = reader.newLine + 1
        /\ reader'.inHunk = reader.inHunk
    BY <1>1, <1>5, <1>13, HunkLines, AttachAdded DEF Attached
  <2>2. TypeOK'
    BY <1>1, <1>5, <1>6, <1>8, <1>9, <2>1, SameType
  <2>3. LineMoves
    BY <1>1, <1>2, <1>5, <1>8, <1>11, <1>13, <2>1 DEF LineMoves, LineTold
  <2>4. LinesRead'
    BY <1>6, <1>8, <1>11, <1>13, <2>1 DEF LinesRead, ReadersInv
  <2> QED
    BY <1>10, <2>2, <2>3, <2>4
<1> QED
  BY <1>12, <1>13

LEMMA MarkerMoves ==
  ASSUME ReadersInv, PrintMarker
  PROVE  TypeOK' /\ LineMoves /\ LinesRead' /\ CursorKnown'
<1>1. InHunk /\ Emit(Content("\\")) /\ UNCHANGED <<cursor, added, misread>>
  BY DEF PrintMarker
<1>2. TypeOK
  BY DEF ReadersInv
<1>3. /\ context' = context
      /\ reader' = ReadLine(reader, Content("\\"))
      /\ text' \in Seq([of: Paths, shows: Paths \cup {None}])
  <2>1. Content("\\").kind # "@@" /\ Content("\\").kind # "+++"
    BY DEF Content
  <2> QED
    BY <1>1, <1>2, <2>1, HunkLines, EmitsLine
<1>4. reader' = reader /\ reader \in Readers
  BY <1>1, <1>3, HunkLines, ReadsOther
<1>5. cursor' \in [old: Nat, new: Nat]
  BY <1>1, <1>2 DEF TypeOK
<1>6. TypeOK'
  BY <1>1, <1>2, <1>3, <1>4, <1>5, Types, SameType
<1>7. section.open /\ section'.open /\ section'.path = section.path /\ reader.inHunk
      /\ section'.change = section.change /\ UNCHANGED <<origin, hunks>>
  BY <1>1, HunkLines DEF InFile
<1>8. LineMoves
  BY <1>1, <1>3, <1>4, <1>7 DEF LineMoves, LineTold
<1>9. LinesRead' /\ CursorKnown'
  BY <1>1, <1>4, <1>7 DEF LinesRead, CursorKnown, ReadersInv
<1> QED
  BY <1>6, <1>8, <1>9

LEMMA PieceMoves ==
  ASSUME ReadersInv, NEW start \in {"+", "-", " ", "text"}, PrintPiece(start)
  PROVE  TypeOK' /\ LineMoves /\ LinesRead' /\ CursorKnown'
<1>1. InHunk /\ Emit(Content(start)) /\ UNCHANGED <<cursor, added>>
  BY DEF PrintPiece
<1>2. misread' = IF start \in {"+", " "} THEN [misread EXCEPT !.lines = @ \cup {section.path}]
                                         ELSE misread
  BY DEF PrintPiece
<1>3. TypeOK
  BY DEF ReadersInv
<1>4. /\ context' = context
      /\ reader' = ReadLine(reader, Content(start))
      /\ text' \in Seq([of: Paths, shows: Paths \cup {None}])
  <2>1. Content(start).kind # "@@" /\ Content(start).kind # "+++"
    BY DEF Content
  <2> QED
    BY <1>1, <1>3, <2>1, HunkLines, EmitsLine
<1>5. section.open /\ section'.open /\ section'.path = section.path /\ reader.inHunk
      /\ section'.change = section.change /\ UNCHANGED <<origin, hunks>>
      /\ section.path \in Paths
  BY <1>1, HunkLines DEF InFile
<1>6. /\ misread' \in Misread
      /\ misread'.path = misread.path /\ misread'.origin = misread.origin
      /\ misread'.lines = IF start \in {"+", " "} THEN misread.lines \cup {section.path}
                                                  ELSE misread.lines
  BY <1>2, <1>3, <1>5, Types DEF Misread
<1>7. cursor' \in [old: Nat, new: Nat] /\ added' \subseteq Paths \X Nat
  BY <1>1, <1>3, Types DEF TypeOK
<1>8. CursorKnown'
  BY <1>1, <1>5 DEF CursorKnown, ReadersInv
<1>9. reader \in Readers /\ InFile(reader)
  BY <1>1, HunkLines
<1>10. /\ reader' \in Readers
       /\ reader'.oldPath = reader.oldPath /\ reader'.newPath = reader.newPath
       /\ reader'.inHunk = reader.inHunk
       /\ IF start = "+" THEN Attached ELSE reader'.anchors = reader.anchors
       /\ start \in {"-", "text"} => reader'.newLine = reader.newLine
  <2>1. CASE start = "+"
    BY <1>4, <1>9, <2>1, AttachAdded DEF Attached
  <2>2. CASE start = "text"
    BY <1>4, <1>9, <2>2, ReadsOther
  <2>3. reader.oldLine + 1 \in Nat /\ reader.newLine + 1 \in Nat /\ reader.newLine \in Nat
    BY <1>3, Types
  <2>4. CASE start = "-"
    <3>1. reader' = [reader EXCEPT !.oldLine = reader.oldLine + 1, !.newLine = reader.newLine]
      BY <1>4, <1>9, <2>4, ReadsRemoved DEF Readers
    <3>2. PICK o \in Nat, n \in Nat : o = reader.oldLine + 1 /\ n = reader.newLine
      BY <2>3
    <3>3. reader' = [reader EXCEPT !.oldLine = o, !.newLine = n]
      BY <3>1, <3>2
    <3> QED
      BY <1>9, <2>4, <3>2, <3>3 DEF Readers
  <2>5. CASE start = " "
    <3>1. reader' = [reader EXCEPT !.oldLine = reader.oldLine + 1, !.newLine = reader.newLine + 1]
      BY <1>4, <1>9, <2>5, ReadsContext
    <3>2. PICK o \in Nat, n \in Nat : o = reader.oldLine + 1 /\ n = reader.newLine + 1
      BY <2>3
    <3>3. reader' = [reader EXCEPT !.oldLine = o, !.newLine = n]
      BY <3>1, <3>2
    <3> QED
      BY <1>9, <2>5, <3>3 DEF Readers
  <2> QED
    BY <2>1, <2>2, <2>4, <2>5
<1>11. TypeOK'
  BY <1>1, <1>4, <1>6, <1>7, <1>10, SameType
<1>12. LineMoves
  BY <1>1, <1>4, <1>5, <1>6, <1>10 DEF LineMoves, LineTold
<1>13. LinesRead'
  BY <1>1, <1>5, <1>6, <1>10 DEF LinesRead, ReadersInv
<1> QED
  BY <1>8, <1>11, <1>12, <1>13

-----------------------------------------------------------------------------
(* The headers of a file and of a hunk.                                    *)

\* What the headers of a file leave behind.
FileMoves(p, before, change) ==
  /\ origin[p] = None /\ origin' = [origin EXCEPT ![p] = before]
  /\ change = "renamed" <=> before # p
  /\ section'.path = p /\ section'.change = change /\ ~section'.open
  /\ cursor'.new = IF change = "deleted" THEN 0 ELSE 1
  /\ UNCHANGED <<added, hunks, misread>>
  /\ reader'.anchors = reader.anchors
  /\ change # "bare" =>
       /\ reader'.oldPath = NormalizePath(OldName(before, change))
       /\ reader'.newPath = NormalizePath(NewName(p, change))
  /\ context'.starts = context.starts
  /\ change \notin {"bare", "deleted"} /\ p \notin Quoted => context'.file = File(p)

LEMMA FileHeaders ==
  ASSUME TypeOK, NEW p \in Paths, NEW before \in Paths, NEW change \in Changes,
         PrintFile(p, before, change)
  PROVE  TypeOK' /\ FileMoves(p, before, change)
<1> DEFINE left  == OldName(before, change)
           right == NewName(p, change)
           r     == ReadLine(reader, DiffGit)
           c     == ReadForContext(context, DiffGit)
           Lines == [of: Paths, shows: Paths \cup {None}]
<1>1. left \in Names /\ right \in Names
  BY NamesAreNames DEF OldName, NewName
<1>2. reader \in Readers /\ context \in Contexts
  BY DEF TypeOK, Readers, Contexts
<1>3. r = [reader EXCEPT !.oldPath = None, !.newPath = None, !.inHunk = FALSE]
  BY <1>2, ReadsGit
<1>4. r \in Readers /\ r.anchors = reader.anchors
  BY <1>2, <1>3 DEF Readers
<1>5. c = context
  BY DEF ReadForContext, DiffGit
<1>6. /\ reader' = IF change = "bare" THEN r ELSE ReadLine(ReadLine(r, OldPath(left)), NewPath(right))
      /\ context' = IF change = "bare" THEN c
                    ELSE ReadForContext(ReadForContext(c, OldPath(left)), NewPath(right))
      /\ text' = text \o IF change = "bare" THEN <<DiffHeader(before, p)>>
                         ELSE <<DiffHeader(before, p), Line(p), Line(p)>>
  BY DEF PrintFile
<1>7. /\ reader' \in Readers /\ reader'.anchors = reader.anchors
      /\ change # "bare" => reader'.oldPath = NormalizePath(left) /\ reader'.newPath = NormalizePath(right)
  <2>1. CASE change = "bare"
    BY <1>4, <1>6, <2>1
  <2>2. CASE change # "bare"
    <3> HIDE DEF r, left, right
    <3>1. PICK q \in Readers : q = ReadLine(r, OldPath(left)) /\ q = [r EXCEPT !.oldPath = NormalizePath(left)]
      <4>1. [r EXCEPT !.oldPath = NormalizePath(left)] \in Readers
        BY <1>1, <1>4, NamesAreNames DEF Readers
      <4> QED
        BY <1>1, <1>4, <4>1, ReadsOldPath
    <3>2. reader' = [q EXCEPT !.newPath = NormalizePath(right)]
      BY <1>1, <1>6, <2>2, <3>1, ReadsNewPath
    <3> QED
      BY <1>1, <1>4, <2>2, <3>1, <3>2, NamesAreNames DEF Readers
  <2> QED
    BY <2>1, <2>2
<1>8. /\ context' \in Contexts /\ context'.starts = context.starts
      /\ change \notin {"bare", "deleted"} /\ p \notin Quoted => context'.file = File(p)
  <2>1. CASE change = "bare"
    BY <1>2, <1>5, <1>6, <2>1
  <2>2. CASE change # "bare"
    <3>1. ReadForContext(context, OldPath(left)) = context
      BY DEF ReadForContext, OldPath
    <3>2. context' = ReadForContext(context, NewPath(right))
      BY <1>5, <1>6, <2>2, <3>1
    <3>3. context' = IF right.form = "prefixed" THEN [context EXCEPT !.file = NormalizePath(right)]
                     ELSE context
      BY <3>2 DEF ReadForContext, NewPath
    <3>4. change # "deleted" /\ p \notin Quoted => right.form = "prefixed" /\ NormalizePath(right) = File(p)
      BY DEF NewName, Printed, NormalizePath, File
    <3> QED
      BY <1>1, <1>2, <2>2, <3>3, <3>4, NamesAreNames DEF Contexts
  <2> QED
    BY <2>1, <2>2
<1>9. text' \in Seq(Lines)
  <2>1. text \in Seq(Lines)
    BY DEF TypeOK
  <2>2. DiffHeader(before, p) \in Lines /\ Line(p) \in Lines
    BY DEF DiffHeader, Line
  <2> HIDE DEF Lines
  <2>3. <<DiffHeader(before, p)>> \in Seq(Lines) /\ <<DiffHeader(before, p), Line(p), Line(p)>> \in Seq(Lines)
    BY <2>2
  <2> QED
    BY <1>6, <2>1, <2>3
<1>10. budget' \in [{"files", "hunks", "lines"} -> Nat]
  <2>1. budget \in [{"files", "hunks", "lines"} -> Nat]
    BY DEF TypeOK
  <2>2. budget["files"] > 0 /\ budget' = [budget EXCEPT !["files"] = @ - 1]
    BY DEF PrintFile, Spend
  <2> QED
    BY <2>1, <2>2
<1>11. /\ origin[p] = None /\ origin' = [origin EXCEPT ![p] = before]
       /\ change = "renamed" <=> before # p
       /\ UNCHANGED <<added, hunks, misread>>
  BY DEF PrintFile
<1>12. section' = [path |-> p, change |-> change, lines |-> 0, open |-> FALSE]
  BY DEF PrintFile
<1>13. cursor' = [old |-> IF change = "created" THEN 0 ELSE 1, new |-> IF change = "deleted" THEN 0 ELSE 1]
  BY DEF PrintFile
<1>14. TypeOK'
  <2>1. section' \in [path: Paths \cup {None}, change: Changes, lines: Nat, open: BOOLEAN]
    BY <1>12
  <2>2. cursor' \in [old: Nat, new: Nat]
    BY <1>13
  <2>3. /\ origin' \in [Paths -> Paths \cup {None}]
        /\ added' \subseteq Paths \X Nat
        /\ hunks' \subseteq Paths \X Nat
        /\ misread' \in [lines: SUBSET Paths, path: SUBSET Paths, origin: SUBSET Paths]
    BY <1>11 DEF TypeOK
  <2> QED
    BY <1>7, <1>8, <1>9, <1>10, <2>1, <2>2, <2>3 DEF TypeOK, Readers, Contexts
<1>15. section'.path = p /\ section'.change = change /\ ~section'.open
  BY <1>12
<1>16. cursor'.new = IF change = "deleted" THEN 0 ELSE 1
  BY <1>13
<1> QED
  BY <1>7, <1>8, <1>11, <1>14, <1>15, <1>16 DEF FileMoves

\* What the header of a hunk leaves behind, when it starts at line n.
HunkMoves(n) ==
  /\ section.change # "bare"
  /\ section'.path = section.path /\ section'.change = section.change /\ section'.open
  /\ section.change = "deleted" => ~section.open
  /\ cursor'.new = n
  /\ hunks' = hunks \cup {<<section.path, n>>}
  /\ UNCHANGED <<origin, added, misread>>
  /\ reader'.oldPath = reader.oldPath /\ reader'.newPath = reader.newPath
  /\ reader'.anchors = reader.anchors
  /\ reader'.newLine = n /\ reader'.inHunk
  /\ context'.file = context.file
  /\ context'.starts = IF context.file # None THEN context.starts \cup {<<context.file, n>>}
                       ELSE context.starts

LEMMA HunkHeaders ==
  ASSUME ReadersInv, NEW skip \in 0..MaxSkip, PrintHunk(skip)
  PROVE  TypeOK' /\ CursorKnown' /\ \E m \in Nat : HunkMoves(m)
<1>1. TypeOK /\ section.path \in Paths /\ section.change # "bare" /\ skip \in Nat
  <2>1. section.change # "bare"
    BY DEF PrintHunk
  <2>2. MaxSkip \in Nat
    BY DiffMappingAssumption
  <2> QED
    BY <2>1, <2>2 DEF ReadersInv, HeadersRead
<1>2. PICK o \in Nat, n \in Nat : o = cursor.old + skip /\ n = cursor.new + skip
  BY <1>1, Types
<1>3. section.change \in {"created", "deleted"} => ~section.open /\ n = cursor.new
  <2>1. section.change \in {"created", "deleted"} => ~section.open /\ skip = 0
    BY DEF PrintHunk
  <2>2. skip = 0 => n = cursor.new
    BY <1>1, <1>2, Types
  <2> QED
    BY <2>1, <2>2
<1>4. /\ cursor' = [old |-> cursor.old + skip, new |-> cursor.new + skip]
      /\ hunks' = hunks \cup {<<section.path, cursor.new + skip>>}
      /\ Emit(HunkHeader(cursor.old + skip, cursor.new + skip))
  BY DEF PrintHunk
<1>5. cursor' = [old |-> o, new |-> n] /\ hunks' = hunks \cup {<<section.path, n>>}
  BY <1>2, <1>4
<1>6. Emit(HunkHeader(o, n))
  BY <1>2, <1>4, Zenon
<1>7. UNCHANGED <<origin, added, misread>>
  BY DEF PrintHunk
<1>8. reader' = [reader EXCEPT !.oldLine = o, !.newLine = n, !.inHunk = TRUE] /\ reader \in Readers
  <2>1. reader \in Readers
    BY <1>1, Types
  <2>2. reader' = ReadLine(reader, HunkHeader(o, n))
    BY <1>6 DEF Emit
  <2> QED
    BY <2>1, <2>2 DEF ReadLine, HunkHeader
<1>9. /\ reader' \in Readers
       /\ reader'.oldPath = reader.oldPath /\ reader'.newPath = reader.newPath
       /\ reader'.anchors = reader.anchors
       /\ reader'.newLine = n /\ reader'.inHunk
  BY <1>8 DEF Readers
<1>10. context \in Contexts
  BY <1>1 DEF TypeOK, Contexts
<1>11. context' = IF context.file # None THEN [context EXCEPT !.starts = @ \cup {<<context.file, n>>}]
                  ELSE context
  BY <1>6 DEF Emit, ReadForContext, HunkHeader
<1>12. /\ context' \in Contexts
       /\ context'.file = context.file
       /\ context'.starts = IF context.file # None THEN context.starts \cup {<<context.file, n>>}
                            ELSE context.starts
  BY <1>10, <1>11 DEF Contexts
<1>13. section \in [path: Paths \cup {None}, change: Changes, lines: Nat, open: BOOLEAN]
  BY <1>1 DEF TypeOK
<1>14. /\ section'.path = section.path /\ section'.change = section.change /\ section'.open
       /\ section' \in [path: Paths \cup {None}, change: Changes, lines: Nat, open: BOOLEAN]
  BY <1>13 DEF PrintHunk
<1>15. budget' \in [{"files", "hunks", "lines"} -> Nat]
  <2>1. budget \in [{"files", "hunks", "lines"} -> Nat]
    BY <1>1 DEF TypeOK
  <2>2. budget["hunks"] > 0 /\ budget' = [budget EXCEPT !["hunks"] = @ - 1]
    BY DEF PrintHunk, Spend
  <2> QED
    BY <2>1, <2>2
<1>16. text' \in Seq([of: Paths, shows: Paths \cup {None}])
  <2>1. text \in Seq([of: Paths, shows: Paths \cup {None}])
    BY <1>1 DEF TypeOK
  <2>2. Line(section.path) \in [of: Paths, shows: Paths \cup {None}]
    BY <1>1 DEF Line
  <2> QED
    BY <1>6, <2>1, <2>2 DEF Emit
<1>17. TypeOK'
  <2>1. cursor' \in [old: Nat, new: Nat]
    BY <1>5
  <2>2. /\ origin' \in [Paths -> Paths \cup {None}]
        /\ added' \subseteq Paths \X Nat
        /\ hunks' \subseteq Paths \X Nat
        /\ misread' \in [lines: SUBSET Paths, path: SUBSET Paths, origin: SUBSET Paths]
    BY <1>1, <1>5, <1>7 DEF TypeOK
  <2> QED
    BY <1>9, <1>12, <1>14, <1>15, <1>16, <2>1, <2>2 DEF TypeOK, Readers, Contexts
<1>18. CursorKnown'
  <2>1. cursor'.new = n
    BY <1>5
  <2>2. cursor.new > 0 => n > 0
    BY <1>1, <1>2, Types
  <2> QED
    BY <1>1, <1>3, <1>14, <2>1, <2>2 DEF ReadersInv, CursorKnown
<1>19. HunkMoves(n)
  <2>1. cursor'.new = n
    BY <1>5
  <2> QED
    BY <1>1, <1>3, <1>5, <1>7, <1>9, <1>12, <1>14, <2>1 DEF HunkMoves
<1> QED
  BY <1>17, <1>18, <1>19

-----------------------------------------------------------------------------
(* What the readers know is inductive.                                     *)

LEMMA NamesOfFiles ==
  ASSUME NEW p \in Paths, NEW change
  PROVE  LET name == NormalizePath(NewName(p, change))
         IN name.form = "path" => name = File(p) /\ p \notin Quoted
  BY DEF NormalizePath, NewName, Printed, DevNull, File

\* A new anchor is in the file being printed, or in none.
LEMMA AnchorsOfTheFile ==
  ASSUME ReadersInv, section.open, Anchor(reader).path.form = "path"
  PROVE  /\ section.path \in Paths /\ section.path \notin misread.path
         /\ section.path \notin Quoted
         /\ section.change # "deleted"
         /\ reader.newPath = File(section.path)
         /\ Anchor(reader).path = File(section.path)
<1>1. section.change # "bare" /\ section.path \in Paths
  BY DEF ReadersInv, HunkRead, HeadersRead
<1>2. Anchor(reader).path = reader.newPath
  BY DEF Anchor
<1>3. section.path \notin misread.path
  BY <1>1, <1>2 DEF ReadersInv, HeadersRead, SomeText
<1>4. reader.newPath = NormalizePath(NewName(section.path, section.change))
  BY <1>1, <1>3 DEF ReadersInv, HeadersRead
<1>5. section.change # "deleted"
  BY <1>2, <1>4 DEF NewName, NormalizePath, DevNull
<1> QED
  BY <1>1, <1>2, <1>3, <1>4, <1>5, NamesOfFiles

LEMMA NewAnchors ==
  ASSUME LineMoves, NEW a \in reader'.anchors
  PROVE  a \in reader.anchors \/ a = Anchor(reader)
  BY DEF LineMoves, LineTold, Attached

LEMMA ReadersStart == Init => ReadersInv
<1> SUFFICES ASSUME Init PROVE ReadersInv
  OBVIOUS
<1>1. TypeOK
  <2>1. budget \in [{"files", "hunks", "lines"} -> Nat]
    <3>1. budget = [files |-> MaxFiles, hunks |-> MaxHunks, lines |-> MaxLines]
      BY DEF Init
    <3>2. MaxFiles \in Nat /\ MaxHunks \in Nat /\ MaxLines \in Nat
      BY DiffMappingAssumption
    <3> QED
      BY <3>1, <3>2
  <2>2. /\ section \in [path: Paths \cup {None}, change: Changes, lines: Nat, open: BOOLEAN]
        /\ cursor \in [old: Nat, new: Nat]
        /\ origin \in [Paths -> Paths \cup {None}]
        /\ added \subseteq Paths \X Nat
        /\ hunks \subseteq Paths \X Nat
        /\ misread \in [lines: SUBSET Paths, path: SUBSET Paths, origin: SUBSET Paths]
    BY DEF Init, Changes
  <2>3. /\ reader \in [oldPath: Names \cup {None}, newPath: Names \cup {None}, oldLine: Nat,
                       newLine: Nat, inHunk: BOOLEAN, anchors: SUBSET Anchors]
        /\ context \in [file: Names \cup {None}, starts: SUBSET (Names \X Nat)]
    BY DEF Init
  <2>4. text \in Seq([of: Paths, shows: Paths \cup {None}])
    BY DEF Init
  <2> QED
    BY <2>1, <2>2, <2>3, <2>4 DEF TypeOK
<1> QED
  BY <1>1 DEF ReadersInv, Init, HeadersRead, HunkRead, LinesRead, CursorKnown, OnlyPrinted, FileRead

LEMMA LineKeeps ==
  ASSUME ReadersInv, LineMoves, TypeOK', LinesRead', CursorKnown'
  PROVE  ReadersInv'
<1>1. HeadersRead'
  BY DEF ReadersInv, HeadersRead, LineMoves, HunkRead
<1>2. HunkRead'
  BY DEF ReadersInv, HunkRead, LineMoves
<1>3. FileRead'
  BY DEF ReadersInv, FileRead, LineMoves
<1>4. OnlyPrinted'
  <2>1. section.open /\ origin[section.path] # None
    BY DiffMappingAssumption DEF ReadersInv, HunkRead, HeadersRead, LineMoves
  <2>2. /\ \A p \in (misread.lines \cup misread.path \cup misread.origin)' : origin'[p] # None
        /\ \A x \in hunks' : origin'[x[1]] # None
        /\ section'.change # "bare" /\ ~section'.open => \A x \in hunks' : x[1] # section'.path
    BY <2>1 DEF ReadersInv, OnlyPrinted, LineMoves
  <2>3. ASSUME NEW a \in reader'.anchors, a.path.form = "path"
        PROVE  a.path.path \in Paths /\ origin'[a.path.path] # None
    <3>1. a \in reader.anchors \/ a = Anchor(reader)
      BY NewAnchors
    <3>2. CASE a \in reader.anchors
      BY <2>3, <3>2 DEF ReadersInv, OnlyPrinted, LineMoves
    <3>3. CASE a = Anchor(reader)
      BY <2>1, <2>3, <3>3, AnchorsOfTheFile DEF LineMoves, File
    <3> QED
      BY <3>1, <3>2, <3>3
  <2> QED
    BY <2>2, <2>3 DEF OnlyPrinted
<1> QED
  BY <1>1, <1>2, <1>3, <1>4 DEF ReadersInv

LEMMA FileKeeps ==
  ASSUME ReadersInv, NEW p \in Paths, NEW before \in Paths, NEW change \in Changes,
         FileMoves(p, before, change), TypeOK'
  PROVE  ReadersInv'
<1>1. origin' = [origin EXCEPT ![p] = before] /\ origin \in [Paths -> Paths \cup {None}]
      /\ origin[p] = None /\ before # None
  BY DiffMappingAssumption DEF FileMoves, ReadersInv, TypeOK
<1>2. p \notin misread.lines /\ p \notin misread.path /\ p \notin misread.origin
  BY <1>1 DEF ReadersInv, OnlyPrinted
<1>3. HeadersRead'
  BY <1>1, <1>2 DEF HeadersRead, FileMoves
<1>4. HunkRead' /\ LinesRead'
  BY DEF HunkRead, LinesRead, FileMoves
<1>5. CursorKnown'
  BY DEF CursorKnown, FileMoves
<1>6. FileRead'
  BY DEF FileRead, FileMoves
<1>7. OnlyPrinted'
  <2>1. \A q : origin[q] # None /\ q \in Paths => origin'[q] # None
    BY <1>1
  <2>2. \A x \in hunks : x[1] \in Paths /\ origin[x[1]] # None
    BY DEF ReadersInv, OnlyPrinted, TypeOK
  <2>3. \A q \in misread.lines \cup misread.path \cup misread.origin : q \in Paths /\ origin[q] # None
    BY DEF ReadersInv, OnlyPrinted, TypeOK
  <2>4. \A x \in hunks : x[1] # p
    BY <1>1, <2>2
  <2>5. \A a \in reader.anchors : a.path.form = "path" => a.path.path \in Paths /\ origin[a.path.path] # None
    BY DEF ReadersInv, OnlyPrinted
  <2> QED
    BY <2>1, <2>2, <2>3, <2>4, <2>5 DEF OnlyPrinted, FileMoves
<1> QED
  BY <1>3, <1>4, <1>5, <1>6, <1>7 DEF ReadersInv

LEMMA HunkKeeps ==
  ASSUME ReadersInv, NEW n \in Nat, HunkMoves(n), TypeOK', CursorKnown'
  PROVE  ReadersInv'
<1>1. HeadersRead'
  BY DEF ReadersInv, HeadersRead, HunkMoves
<1>2. HunkRead'
  BY DEF HunkRead, HunkMoves
<1>3. LinesRead'
  BY DEF LinesRead, HunkMoves
<1>4. FileRead'
  BY DEF ReadersInv, FileRead, HunkMoves
<1>5. OnlyPrinted'
  <2>1. origin[section.path] # None
    BY DiffMappingAssumption DEF ReadersInv, HeadersRead, HunkMoves
  <2> QED
    BY <2>1 DEF ReadersInv, OnlyPrinted, HunkMoves
<1> QED
  BY <1>1, <1>2, <1>3, <1>4, <1>5 DEF ReadersInv

\* The kinds of steps there are.
LineOfHunk ==
  \/ PrintContext
  \/ \E likeHeader \in BOOLEAN : PrintAdded(likeHeader) \/ PrintRemoved(likeHeader)
  \/ PrintMarker
  \/ \E start \in {"+", "-", " ", "text"} : PrintPiece(start)

LEMMA LinesMove ==
  ASSUME ReadersInv, LineOfHunk
  PROVE  LineMoves /\ ReadersInv'
<1>1. TypeOK' /\ LineMoves /\ LinesRead' /\ CursorKnown'
  BY ContextMoves, AddedMoves, RemovedMoves, MarkerMoves, PieceMoves DEF LineOfHunk
<1> QED
  BY <1>1, LineKeeps

LEMMA ReadersStep == ReadersInv /\ [Next]_vars => ReadersInv'
<1> SUFFICES ASSUME ReadersInv, [Next]_vars PROVE ReadersInv'
  OBVIOUS
<1>1. ASSUME NEW p \in Paths, NEW before \in Paths, NEW change \in Changes, PrintFile(p, before, change)
      PROVE  ReadersInv'
  BY <1>1, FileHeaders, FileKeeps DEF ReadersInv
<1>2. ASSUME NEW skip \in 0..MaxSkip, PrintHunk(skip)
      PROVE  ReadersInv'
  BY <1>2, HunkHeaders, HunkKeeps
<1>3. CASE LineOfHunk
  BY <1>3, LinesMove
<1>4. CASE UNCHANGED vars
  BY <1>4 DEF vars, gitVars, ReadersInv, TypeOK, HeadersRead, HunkRead, LinesRead, CursorKnown,
              OnlyPrinted, FileRead
<1> QED
  BY <1>1, <1>2, <1>3, <1>4 DEF Next, LineOfHunk

\* The variables keep their types whatever git prints.
THEOREM TypeCorrect == Spec => []TypeOK
<1>1. ReadersInv => TypeOK
  BY DEF ReadersInv
<1> QED
  BY <1>1, ReadersStart, ReadersStep, PTL DEF Spec

-----------------------------------------------------------------------------
(* What the readers promise.                                               *)

\* The lines told to be added are exactly those the diff adds.
LEMMA LinesKeepExact ==
  ASSUME ReadersInv, MappingIsExact, LineMoves, TypeOK'
  PROVE  MappingIsExact'
<1>1. section.open /\ section.path \in Paths /\ section.change # "bare"
  BY DEF LineMoves, ReadersInv, HunkRead, HeadersRead
<1>2. /\ misread.lines \subseteq misread'.lines /\ misread.path \subseteq misread'.path
      /\ added \subseteq added'
  BY DEF LineMoves, LineTold
<1>3. Anchor(reader).path = reader.newPath /\ Anchor(reader).line = reader.newLine
  BY DEF Anchor
<1>4. section.path \notin misread.lines \cup misread.path => reader.newLine = cursor.new
  BY <1>1 DEF ReadersInv, LinesRead
<1>5. ASSUME NEW a \in reader'.anchors, a.path.form = "path", a.path.path \notin misread'.lines
      PROVE  <<a.path.path, a.line>> \in added'
  <2>1. CASE a \in reader.anchors
    BY <1>2, <1>5, <2>1 DEF MappingIsExact
  <2>2. CASE a \notin reader.anchors
    <3>1. a = Anchor(reader)
      BY <2>2, NewAnchors
    <3>2. a.path = File(section.path) /\ section.path \notin misread.path
      BY <1>1, <1>5, <3>1, AnchorsOfTheFile
    <3>3. a.path.path = section.path
      BY <3>2 DEF File
    <3>4. <<section.path, cursor.new>> \in added'
      BY <1>5, <2>2, <3>3 DEF LineMoves, LineTold
    <3>5. a.line = cursor.new
      BY <1>2, <1>3, <1>4, <1>5, <3>1, <3>2, <3>3
    <3> QED
      BY <3>3, <3>4, <3>5
  <2> QED
    BY <2>1, <2>2
<1>6. ASSUME NEW x \in added', x[1] \notin Quoted \cup misread'.lines \cup misread'.path
      PROVE  HasPosition(File(x[1]), x[2])'
  <2>1. ASSUME NEW a \in reader.anchors
        PROVE  \E b \in reader'.anchors : b.path = a.path /\ b.line = a.line
    BY DEF LineMoves, LineTold, Attached, SamePlace
  <2>2. CASE x \in added
    <3>1. HasPosition(File(x[1]), x[2])
      BY <1>2, <1>6, <2>2 DEF MappingIsExact
    <3> QED
      BY <2>1, <3>1 DEF HasPosition
  <2>3. CASE x \notin added
    <3>1. x = <<section.path, cursor.new>> /\ ((Attached /\ section.change # "deleted") \/ section.path \in misread'.path)
      BY <2>3 DEF LineMoves, LineTold
    <3>2. x[1] = section.path /\ x[2] = cursor.new
      BY <3>1
    <3>3. Attached /\ section.change # "deleted" /\ section.path \notin misread.lines \cup misread.path
          /\ section.path \notin Quoted
      BY <1>2, <1>6, <3>1, <3>2
    <3>4. reader.newPath = File(section.path)
      BY <1>1, <3>3 DEF ReadersInv, HeadersRead, NewName, Printed, NormalizePath, File
    <3>5. Anchor(reader) \in reader'.anchors
      BY <3>3 DEF Attached
    <3> QED
      BY <1>3, <1>4, <3>2, <3>3, <3>4, <3>5 DEF HasPosition
  <2> QED
    BY <2>2, <2>3
<1> QED
  BY <1>5, <1>6 DEF MappingIsExact

\* build_diff_mapping has exactly the lines the diff adds, but for those of a
\* file whose text looks like a header or has a broken line.
THEOREM MappingExact == Spec => []MappingIsExact
<1>1. Init => MappingIsExact
  BY DEF Init, MappingIsExact
<1>2. ReadersInv /\ MappingIsExact /\ [Next]_vars => MappingIsExact'
  <2> SUFFICES ASSUME ReadersInv, MappingIsExact, [Next]_vars PROVE MappingIsExact'
    OBVIOUS
  <2>1. ASSUME NEW p \in Paths, NEW before \in Paths, NEW change \in Changes, PrintFile(p, before, change)
        PROVE  MappingIsExact'
    BY <2>1, FileHeaders DEF ReadersInv, FileMoves, MappingIsExact, HasPosition
  <2>2. ASSUME NEW skip \in 0..MaxSkip, PrintHunk(skip)
        PROVE  MappingIsExact'
    BY <2>2, HunkHeaders DEF HunkMoves, MappingIsExact, HasPosition
  <2>3. CASE LineOfHunk
    BY <2>3, LinesMove, LinesKeepExact DEF ReadersInv
  <2>4. CASE UNCHANGED vars
    BY <2>4 DEF vars, gitVars, MappingIsExact, HasPosition
  <2> QED
    BY <2>1, <2>2, <2>3, <2>4 DEF Next, LineOfHunk
<1> QED
  BY <1>1, <1>2, ReadersStart, ReadersStep, PTL DEF Spec

LEMMA LinesKeepNames ==
  ASSUME ReadersInv, AnchorsNameTheFile, LineMoves
  PROVE  AnchorsNameTheFile'
<1>1. section.open /\ section.path \in Paths /\ section.change # "bare" /\ origin' = origin
  BY DEF LineMoves, ReadersInv, HunkRead, HeadersRead
<1>2. misread.origin \subseteq misread'.origin
  BY DEF LineMoves
<1>3. SUFFICES ASSUME NEW a \in reader'.anchors, a.path.form = "path",
                      a.path.path \notin misread'.origin, origin[a.path.path] \notin Quoted
               PROVE  a.new = a.path /\ a.old = File(origin[a.path.path])
  BY <1>1 DEF AnchorsNameTheFile
<1>4. CASE a \in reader.anchors
  BY <1>2, <1>3, <1>4 DEF AnchorsNameTheFile
<1>5. CASE a \notin reader.anchors
  <2>1. a = Anchor(reader)
    BY <1>5, NewAnchors
  <2>2. reader.newPath = File(section.path) /\ a.path = File(section.path) /\ section.change # "deleted"
    BY <1>1, <1>3, <2>1, AnchorsOfTheFile
  <2>3. a.path.path = section.path
    BY <2>2 DEF File
  <2>4. section.path \notin misread.origin /\ origin[section.path] \notin Quoted
    BY <1>2, <1>3, <2>3
  <2>5. reader.oldPath = NormalizePath(OldName(origin[section.path], section.change))
    BY <1>1, <2>4 DEF ReadersInv, HeadersRead
  <2>6. /\ a.old = IF reader.oldPath = DevNull /\ reader.newPath # DevNull THEN reader.newPath ELSE reader.oldPath
        /\ a.new = IF reader.newPath = DevNull /\ reader.oldPath # DevNull THEN reader.oldPath ELSE reader.newPath
    BY <2>1 DEF Anchor, DiscussionOldPath, DiscussionNewPath
  <2>7. \A p : File(p) # DevNull
    BY DEF File, DevNull
  <2>8. CASE section.change = "created"
    <3>1. reader.oldPath = DevNull
      BY <2>5, <2>8 DEF OldName, NormalizePath, DevNull
    <3>2. origin[section.path] = section.path
      BY <1>1, <2>8 DEF ReadersInv, HeadersRead
    <3> QED
      BY <2>2, <2>3, <2>6, <2>7, <3>1, <3>2
  <2>9. CASE section.change # "created"
    <3>1. reader.oldPath = File(origin[section.path])
      BY <2>4, <2>5, <2>9 DEF OldName, Printed, NormalizePath, File
    <3> QED
      BY <2>2, <2>3, <2>6, <2>7, <3>1
  <2> QED
    BY <2>8, <2>9
<1> QED
  BY <1>4, <1>5

\* A position names the file on both sides, under its old name if it was renamed
\* and under its only one if it was created.
THEOREM AnchorsNamed == Spec => []AnchorsNameTheFile
<1>1. Init => AnchorsNameTheFile
  BY DEF Init, AnchorsNameTheFile
<1>2. ReadersInv /\ AnchorsNameTheFile /\ [Next]_vars => AnchorsNameTheFile'
  <2> SUFFICES ASSUME ReadersInv, AnchorsNameTheFile, [Next]_vars PROVE AnchorsNameTheFile'
    OBVIOUS
  <2>1. ASSUME NEW p \in Paths, NEW before \in Paths, NEW change \in Changes, PrintFile(p, before, change)
        PROVE  AnchorsNameTheFile'
    <3>1. FileMoves(p, before, change) /\ origin \in [Paths -> Paths \cup {None}]
      BY <2>1, FileHeaders DEF ReadersInv, TypeOK
    <3>2. \A q \in Paths : origin[q] # None => origin'[q] = origin[q]
      BY <3>1 DEF FileMoves
    <3>3. \A a \in reader.anchors : a.path.form = "path" => origin'[a.path.path] = origin[a.path.path]
      BY <3>2 DEF ReadersInv, OnlyPrinted
    <3> QED
      BY <3>1, <3>3 DEF FileMoves, AnchorsNameTheFile
  <2>2. ASSUME NEW skip \in 0..MaxSkip, PrintHunk(skip)
        PROVE  AnchorsNameTheFile'
    BY <2>2, HunkHeaders DEF HunkMoves, AnchorsNameTheFile
  <2>3. CASE LineOfHunk
    BY <2>3, LinesMove, LinesKeepNames
  <2>4. CASE UNCHANGED vars
    BY <2>4 DEF vars, gitVars, AnchorsNameTheFile
  <2> QED
    BY <2>1, <2>2, <2>3, <2>4 DEF Next, LineOfHunk
<1> QED
  BY <1>1, <1>2, ReadersStart, ReadersStep, PTL DEF Spec

LEMMA HunkIsShown ==
  ASSUME ReadersInv, ContextShowsTheHunks, NEW n \in Nat, HunkMoves(n), CursorKnown'
  PROVE  ContextShowsTheHunks'
<1>1. PICK f \in Paths : f = section.path
  BY DEF HunkMoves, ReadersInv, HeadersRead
<1>2. hunks' = hunks \cup {<<f, n>>}
  BY <1>1 DEF HunkMoves
<1>3. ASSUME NEW p, HasPlusHeader(p)'
      PROVE  HasPlusHeader(p)
  BY <1>2, <1>3 DEF HasPlusHeader
<1>4. ASSUME HasPlusHeader(f)'
      PROVE  context.file = File(f) /\ context'.starts = context.starts \cup {<<File(f), n>>}
  <2>1. f \notin Quoted /\ n # 0
    BY <1>2, <1>4 DEF HasPlusHeader
  <2>2. section.change # "deleted"
    BY <2>1 DEF HunkMoves, CursorKnown
  <2>3. context.file = File(f)
    BY <1>1, <2>1, <2>2 DEF ReadersInv, FileRead, HunkMoves
  <2>4. File(f) # None
    BY <1>1, NamesAreNames, DiffMappingAssumption
  <2> QED
    BY <2>3, <2>4 DEF HunkMoves
<1>5. ASSUME NEW x \in hunks', HasPlusHeader(x[1])'
      PROVE  <<File(x[1]), x[2]>> \in context'.starts
  <2>1. CASE x \in hunks
    <3>1. <<File(x[1]), x[2]>> \in context.starts
      BY <1>3, <1>5, <2>1 DEF ContextShowsTheHunks
    <3> QED
      BY <3>1 DEF HunkMoves
  <2>2. CASE x = <<f, n>>
    BY <1>4, <1>5, <2>2
  <2> QED
    BY <1>2, <2>1, <2>2
<1>6. ASSUME NEW c \in context'.starts
      PROVE  \E x \in hunks' : c[2] = x[2] /\ (HasPlusHeader(x[1])' => c[1] = File(x[1]))
  <2>1. CASE c \in context.starts
    <3>1. PICK x \in hunks : c[2] = x[2] /\ (HasPlusHeader(x[1]) => c[1] = File(x[1]))
      BY <2>1 DEF ContextShowsTheHunks
    <3> QED
      BY <1>2, <1>3, <3>1
  <2>2. CASE c = <<context.file, n>>
    <3>1. <<f, n>> \in hunks' /\ c[1] = context.file /\ c[2] = n
      BY <1>2, <2>2
    <3>2. HasPlusHeader(f)' => c[1] = File(f)
      BY <1>4, <3>1
    <3> QED
      BY <3>1, <3>2
  <2> QED
    BY <2>1, <2>2 DEF HunkMoves
<1> QED
  BY <1>5, <1>6 DEF ContextShowsTheHunks

\* A prompt shows the surroundings of every hunk under its own file: only a file
\* without a "+++ b/" line lends its hunks to the file before it.
THEOREM HunksShown == Spec => []ContextShowsTheHunks
<1>1. Init => ContextShowsTheHunks
  BY DEF Init, ContextShowsTheHunks
<1>2. ReadersInv /\ ContextShowsTheHunks /\ [Next]_vars => ContextShowsTheHunks'
  <2> SUFFICES ASSUME ReadersInv, ContextShowsTheHunks, [Next]_vars PROVE ContextShowsTheHunks'
    OBVIOUS
  <2>1. ASSUME hunks' = hunks, context'.starts = context.starts
        PROVE  ContextShowsTheHunks'
    BY <2>1 DEF ContextShowsTheHunks, HasPlusHeader
  <2>2. ASSUME NEW p \in Paths, NEW before \in Paths, NEW change \in Changes, PrintFile(p, before, change)
        PROVE  ContextShowsTheHunks'
    BY <2>1, <2>2, FileHeaders DEF ReadersInv, FileMoves
  <2>3. ASSUME NEW skip \in 0..MaxSkip, PrintHunk(skip)
        PROVE  ContextShowsTheHunks'
    BY <2>3, HunkHeaders, HunkIsShown
  <2>4. CASE LineOfHunk
    BY <2>1, <2>4, LinesMove DEF LineMoves
  <2>5. CASE UNCHANGED vars
    BY <2>1, <2>5 DEF vars, gitVars
  <2> QED
    BY <2>2, <2>3, <2>4, <2>5 DEF Next, LineOfHunk
<1> QED
  BY <1>1, <1>2, ReadersStart, ReadersStep, PTL DEF Spec

-----------------------------------------------------------------------------
(***************************************************************************)
(* Induction, by least counterexamples, and what FlattenSeq returns.       *)
(***************************************************************************)
LEMMA LeastNumber ==
  ASSUME NEW S \in SUBSET Nat, S # {}
  PROVE  \E n \in S : \A m \in S : n <= m
<1>1. IsWellFoundedOn(OpToRel(<, Nat), Nat)
  BY NatLessThanWellFounded
<1>2. PICK n \in S : \A m \in S : ~ (<<m, n>> \in OpToRel(<, Nat))
  BY <1>1, WFMin, Zenon
<1>3. \A m \in S : ~(m < n)
  BY <1>2 DEF OpToRel
<1>. QED
  BY <1>3

\* A set that has 1 and with a number the next one has all of them.
LEMMA InductionOnSets ==
  ASSUME NEW S, 1 \in S, \A n \in Nat \ {0} : n \in S => n + 1 \in S
  PROVE  Nat \ {0} \subseteq S
<1>. DEFINE missing == {n \in Nat \ {0} : n \notin S}
<1>. SUFFICES ASSUME missing # {} PROVE FALSE
  OBVIOUS
<1>1. PICK n \in missing : \A m \in missing : n <= m
  <2>1. missing \in SUBSET Nat
    OBVIOUS
  <2>. HIDE DEF missing
  <2>. QED
    BY <2>1, LeastNumber
<1>2. n - 1 \in Nat \ {0}
  BY <1>1
<1>3. n - 1 \in S
  BY <1>1, <1>2
<1>4. (n - 1) + 1 \in S
  BY <1>2, <1>3
<1>. QED
  BY <1>1, <1>4

\* f[i] is what the first i parts make together.
Joins(parts, S, n, f) ==
  /\ f \in [1..n -> Seq(S)]
  /\ \A i \in 1..n : f[i] = IF i = 1 THEN parts[i] ELSE f[i - 1] \o parts[i]

LEMMA OneMore ==
  ASSUME NEW S, NEW parts \in Seq(Seq(S)), NEW n \in Nat \ {0}, n + 1 <= Len(parts),
         NEW f, Joins(parts, S, n, f)
  PROVE  \E g : Joins(parts, S, n + 1, g)
<1>. DEFINE last == f[n] \o parts[n + 1]
            g == [i \in 1..(n + 1) |-> IF i = n + 1 THEN last ELSE f[i]]
<1>1. parts[n + 1] \in Seq(S) /\ f[n] \in Seq(S) /\ \A i \in 1..n : f[i] \in Seq(S)
  BY DEF Joins
<1>2. last \in Seq(S)
  BY <1>1
<1>3. ASSUME NEW i \in 1..(n + 1)
      PROVE  g[i] = IF i = 1 THEN parts[i] ELSE g[i - 1] \o parts[i]
  <2>1. CASE i = n + 1
    <3>1. i # 1 /\ i - 1 = n /\ n \in 1..(n + 1) /\ n # n + 1
      BY <2>1
    <3>. HIDE DEF last
    <3>2. g[i] = last /\ g[i - 1] = f[n]
      BY <2>1, <3>1
    <3>. QED
      BY <2>1, <3>1, <3>2 DEF last
  <2>2. CASE i \in 1..n
    <3>1. g[i] = f[i] /\ (i # 1 => g[i - 1] = f[i - 1])
      BY <2>2
    <3>2. f[i] = IF i = 1 THEN parts[i] ELSE f[i - 1] \o parts[i]
      BY <2>2 DEF Joins
    <3>. QED
      BY <3>1, <3>2
  <2>. QED
    BY <2>1, <2>2
<1>4. g \in [1..(n + 1) -> Seq(S)]
  <2>. HIDE DEF last
  <2>. QED
    BY <1>1, <1>2
<1>. HIDE DEF g
<1>5. Joins(parts, S, n + 1, g)
  BY <1>3, <1>4 DEF Joins
<1>. QED
  BY <1>5

LEMMA JoinedExists ==
  ASSUME NEW S, NEW parts \in Seq(Seq(S)), parts # <<>>
  PROVE  \E f : Joins(parts, S, Len(parts), f)
<1>. DEFINE Lengths == {n \in Nat \ {0} : n <= Len(parts) => \E f : Joins(parts, S, n, f)}
<1>1. Len(parts) \in Nat \ {0} /\ parts[1] \in Seq(S)
  OBVIOUS
<1>2. 1 \in Lengths
  <2>1. Joins(parts, S, 1, [i \in 1..1 |-> parts[1]])
    BY <1>1 DEF Joins
  <2>. QED
    BY <2>1
<1>3. ASSUME NEW n \in Nat \ {0}, n \in Lengths PROVE n + 1 \in Lengths
  BY <1>3, OneMore
<1>4. Nat \ {0} \subseteq Lengths
  <2>. HIDE DEF Lengths
  <2>. QED
    BY <1>2, <1>3, InductionOnSets
<1>. QED
  BY <1>1, <1>4

LEMMA FlattenIsJoined ==
  ASSUME NEW S, NEW parts \in Seq(Seq(S)), parts # <<>>
  PROVE  \E f : Joins(parts, S, Len(parts), f) /\ FlattenSeq(parts) = f[Len(parts)]
<1>. DEFINE n == Len(parts)
            Fix(f) == f = [i \in 1..n |-> IF i = 1 THEN parts[i] ELSE f[i - 1] \o parts[i]]
<1>1. n \in Nat \ {0}
  OBVIOUS
<1>2. PICK f : Joins(parts, S, n, f)
  BY JoinedExists
<1>3. Fix(f)
  BY <1>2 DEF Joins
<1>4. ASSUME NEW g, Fix(g) PROVE g = f
  <2>. DEFINE Same == {i \in Nat \ {0} : i <= n => g[i] = f[i]}
  <2>1. DOMAIN g = 1..n /\ DOMAIN f = 1..n
    BY <1>3, <1>4
  <2>2. \A i \in 1..n : /\ g[i] = IF i = 1 THEN parts[i] ELSE g[i - 1] \o parts[i]
                        /\ f[i] = IF i = 1 THEN parts[i] ELSE f[i - 1] \o parts[i]
    BY <1>3, <1>4
  <2>3. 1 \in Same
    BY <1>1, <2>2
  <2>4. ASSUME NEW i \in Nat \ {0}, i \in Same PROVE i + 1 \in Same
    <3>1. CASE i + 1 <= n
      <4>1. i + 1 \in 1..n /\ i + 1 # 1 /\ (i + 1) - 1 = i /\ g[i] = f[i]
        BY <1>1, <2>4, <3>1
      <4>2. ASSUME NEW j \in 1..n, j # 1 PROVE g[j] = g[j - 1] \o parts[j] /\ f[j] = f[j - 1] \o parts[j]
        BY <2>2, <4>2
      <4>3. g[i + 1] = g[i] \o parts[i + 1] /\ f[i + 1] = f[i] \o parts[i + 1]
        <5>. HIDE DEF Fix, n
        <5>1. g[i + 1] = g[(i + 1) - 1] \o parts[i + 1] /\ f[i + 1] = f[(i + 1) - 1] \o parts[i + 1]
          BY <4>1, <4>2, Zenon
        <5>. QED
          BY <4>1, <5>1
      <4>4. g[i + 1] = f[i + 1]
        BY <4>1, <4>3, Zenon
      <4>. QED
        BY <4>4
    <3>. QED
      BY <3>1
  <2>5. Nat \ {0} \subseteq Same
    <3>. HIDE DEF Same
    <3>. QED
      BY <2>3, <2>4, InductionOnSets
  <2>6. \A i \in 1..n : g[i] = f[i]
    BY <1>1, <2>5
  <2>7. f = [i \in 1..n |-> f[i]] /\ g = [i \in 1..n |-> g[i]]
    BY <1>3, <1>4, <2>1
  <2>. QED
    BY <2>6, <2>7
<1>5. FlattenSeq(parts) = (CHOOSE g : Fix(g))[n]
  BY <1>1 DEF FlattenSeq
<1>. HIDE DEF Fix
<1>6. (CHOOSE g : Fix(g)) = f
  BY <1>3, <1>4
<1>. QED
  BY <1>2, <1>5, <1>6

LEMMA LengthsAdd ==
  ASSUME NEW S, NEW s \in Seq(S), NEW t \in Seq(S)
  PROVE  /\ s \o t \in Seq(S) /\ Len(s \o t) = Len(s) + Len(t)
         /\ \A i \in 1..Len(s) : (s \o t)[i] = s[i]
         /\ \A i \in 1..Len(t) : (s \o t)[Len(s) + i] = t[i]
OBVIOUS

\* Each of the first n parts stands in whole, from its start, and nothing else does.
Holds(whole, parts, start, n) ==
  /\ \A k \in 1..n :
       /\ start[k] + Len(parts[k]) <= Len(whole)
       /\ \A j \in 1..Len(parts[k]) : whole[start[k] + j] = parts[k][j]
  /\ \A i \in 1..Len(whole) : \E k \in 1..n : \E j \in 1..Len(parts[k]) : i = start[k] + j

LEMMA JoinedHolds ==
  ASSUME NEW S, NEW parts \in Seq(Seq(S)), parts # <<>>, NEW f, Joins(parts, S, Len(parts), f),
         NEW start \in [1..Len(parts) -> Nat], start[1] = 0,
         \A k \in 2..Len(parts) : start[k] = Len(f[k - 1])
  PROVE  Holds(f[Len(parts)], parts, start, Len(parts))
<1>. DEFINE good == {n \in Nat \ {0} : n <= Len(parts) => Holds(f[n], parts, start, n)}
<1>1. Len(parts) \in Nat \ {0} /\ \A k \in 1..Len(parts) : parts[k] \in Seq(S) /\ f[k] \in Seq(S)
  BY DEF Joins
<1>2. 1 \in good
  <2>1. f[1] = parts[1]
    <3>1. 1 \in 1..Len(parts)
      BY <1>1
    <3>. QED
      BY <3>1 DEF Joins
  <2>2. Holds(f[1], parts, start, 1)
    BY <1>1, <2>1 DEF Holds
  <2>. QED
    BY <2>2
<1>3. ASSUME NEW n \in Nat \ {0}, n \in good PROVE n + 1 \in good
  <2>. SUFFICES ASSUME n + 1 <= Len(parts) PROVE Holds(f[n + 1], parts, start, n + 1)
    OBVIOUS
  <2>1. Holds(f[n], parts, start, n)
    BY <1>1, <1>3
  <2>2. f[n + 1] = f[n] \o parts[n + 1] /\ start[n + 1] = Len(f[n])
    <3>. DEFINE m == n + 1
    <3>1. m \in 2..Len(parts) /\ m - 1 = n /\ m # 1 /\ m \in 1..Len(parts)
      BY <1>1
    <3>. HIDE DEF m
    <3>2. f[m] = f[m - 1] \o parts[m] /\ start[m] = Len(f[m - 1])
      BY <3>1 DEF Joins
    <3>. QED
      BY <3>1, <3>2, Zenon DEF m
  <2>. DEFINE s == f[n]
              t == parts[n + 1]
              whole == f[n + 1]
  <2>3. s \in Seq(S) /\ t \in Seq(S) /\ whole = s \o t
    <3>1. n \in 1..Len(parts) /\ n + 1 \in 1..Len(parts)
      BY <1>1
    <3>2. f[n] \in Seq(S) /\ parts[n + 1] \in Seq(S)
      BY <1>1, <3>1, Zenon
    <3>. QED
      BY <2>2, <3>2, Zenon
  <2>5. Len(s) \in Nat /\ Len(t) \in Nat /\ start[n + 1] = Len(s)
    BY <2>2, <2>3
  <2>6. ASSUME NEW k \in 1..n PROVE start[k] \in Nat /\ Len(parts[k]) \in Nat
    <3>1. k \in 1..Len(parts)
      BY <1>1
    <3>2. parts[k] \in Seq(S) /\ start[k] \in Nat
      BY <1>1, <3>1, Zenon
    <3>. QED
      BY <3>2
  <2>. HIDE DEF s, t, whole
  <2>4. /\ Len(whole) = Len(s) + Len(t) /\ \A i \in 1..Len(s) : whole[i] = s[i]
        /\ \A i \in 1..Len(t) : whole[Len(s) + i] = t[i]
    BY <2>3, LengthsAdd
  <2>7. ASSUME NEW k \in 1..(n + 1)
        PROVE  /\ start[k] + Len(parts[k]) <= Len(whole)
               /\ \A j \in 1..Len(parts[k]) : whole[start[k] + j] = parts[k][j]
    <3>1. CASE k = n + 1
      <4>1. parts[k] = t /\ start[k] = Len(s)
        BY <2>5, <3>1 DEF t
      <4>. QED
        BY <2>4, <2>5, <4>1
    <3>2. CASE k \in 1..n
      <4>1. /\ start[k] + Len(parts[k]) <= Len(s)
            /\ \A j \in 1..Len(parts[k]) : s[start[k] + j] = parts[k][j]
        BY <2>1, <3>2 DEF Holds, s
      <4>2. start[k] \in Nat /\ Len(parts[k]) \in Nat
        BY <2>6, <3>2
      <4>3. \A j \in 1..Len(parts[k]) : start[k] + j \in 1..Len(s)
        BY <2>5, <4>1, <4>2
      <4>4. start[k] + Len(parts[k]) <= Len(whole)
        BY <2>4, <2>5, <4>1, <4>2
      <4>5. ASSUME NEW j \in 1..Len(parts[k]) PROVE whole[start[k] + j] = parts[k][j]
        <5>1. whole[start[k] + j] = s[start[k] + j]
          BY <2>4, <4>3
        <5>2. s[start[k] + j] = parts[k][j]
          BY <4>1
        <5>. QED
          BY <5>1, <5>2, Zenon
      <4>. QED
        BY <4>4, <4>5
    <3>. QED
      BY <3>1, <3>2
  <2>8. ASSUME NEW i \in 1..Len(whole)
        PROVE  \E k \in 1..(n + 1) : \E j \in 1..Len(parts[k]) : i = start[k] + j
    <3>1. CASE i \in 1..Len(s)
      <4>1. \E k \in 1..n : \E j \in 1..Len(parts[k]) : i = start[k] + j
        BY <2>1, <3>1 DEF Holds, s
      <4>. QED
        BY <4>1
    <3>2. CASE i > Len(s)
      <4>1. i - Len(s) \in 1..Len(t) /\ i = start[n + 1] + (i - Len(s))
        BY <2>4, <2>5, <3>2
      <4>. QED
        BY <4>1 DEF t
    <3>. QED
      BY <2>4, <2>5, <3>1, <3>2
  <2>. QED
    BY <2>7, <2>8 DEF Holds, whole
<1>4. Nat \ {0} \subseteq good
  <2>. HIDE DEF good
  <2>. QED
    BY <1>2, <1>3, InductionOnSets
<1>. QED
  BY <1>1, <1>4

\* What FlattenSeq returns: the parts, one behind the other.
LEMMA Flattened ==
  ASSUME NEW S, NEW parts \in Seq(Seq(S)), parts # <<>>
  PROVE  /\ FlattenSeq(parts) \in Seq(S)
         /\ \E start \in [1..Len(parts) -> Nat] :
              start[1] = 0 /\ Holds(FlattenSeq(parts), parts, start, Len(parts))
<1>1. PICK f : Joins(parts, S, Len(parts), f) /\ FlattenSeq(parts) = f[Len(parts)]
  BY FlattenIsJoined
<1>. DEFINE start == [k \in 1..Len(parts) |-> IF k = 1 THEN 0 ELSE Len(f[k - 1])]
<1>2. Len(parts) \in Nat \ {0} /\ \A k \in 1..Len(parts) : f[k] \in Seq(S)
  <2>1. f \in [1..Len(parts) -> Seq(S)]
    BY <1>1 DEF Joins
  <2>2. \A k \in 1..Len(parts) : f[k] \in Seq(S)
    BY <2>1, Zenon
  <2>3. Len(parts) \in Nat /\ Len(parts) # 0
    OBVIOUS
  <2>. QED
    BY <2>2, <2>3
<1>3. start \in [1..Len(parts) -> Nat] /\ start[1] = 0
  BY <1>2
<1>4. \A k \in 2..Len(parts) : start[k] = Len(f[k - 1])
  BY <1>2
<1>. HIDE DEF start
<1>5. Holds(FlattenSeq(parts), parts, start, Len(parts))
  BY <1>1, <1>3, <1>4, JoinedHolds
<1>. QED
  BY <1>1, <1>2, <1>3, <1>5

-----------------------------------------------------------------------------
(* The text git prints.                                                    *)

TextLines == [of: Paths, shows: Paths \cup {None}]

\* The lines of a file stand together, in the order in which git prints files.
FilesTogether ==
  /\ \A i, j \in DOMAIN text : \A k \in i..j : text[i].of = text[j].of => text[k].of = text[i].of
  /\ text # <<>> => text[Len(text)].of = section.path
  /\ section.change # "bare" => text # <<>>

\* A file is in the text when it is in the diff; the line that shows its path is
\* its first one, and there is one unless git quotes one of its names.
HeadersShown ==
  /\ \A i \in DOMAIN text : origin[text[i].of] # None
  /\ \A i \in DOMAIN text : text[i].shows # None =>
       /\ text[i].shows = text[i].of
       /\ HasGitHeader(text[i].of)
       /\ \A j \in DOMAIN text : text[j].of = text[i].of => i <= j
  /\ \A p \in Paths : HasGitHeader(p) => \E i \in DOMAIN text : text[i].shows = p

TextInv == FilesTogether /\ HeadersShown

\* The text goes on with lines of p; only the first of them, h, may show a path.
GoesOn(p, h) ==
  /\ text' \in Seq(TextLines) /\ section'.path = p /\ h.of = p
  /\ Len(text') > Len(text)
  /\ \A i \in 1..Len(text) : text'[i] = text[i]
  /\ text'[Len(text) + 1] = h
  /\ \A i \in (Len(text) + 2)..Len(text') : text'[i] = Line(p)

LEMMA TextType ==
  ASSUME TypeOK
  PROVE  /\ text \in Seq(TextLines) /\ Len(text) \in Nat /\ DOMAIN text = 1..Len(text)
         /\ \A i \in 1..Len(text) : text[i] \in TextLines /\ text[i].of \in Paths
<1>1. text \in Seq(TextLines)
  BY DEF TypeOK, TextLines
<1>2. \A i \in 1..Len(text) : text[i] \in TextLines
  <2>. HIDE DEF TextLines
  <2>. QED
    BY <1>1
<1>3. \A line \in TextLines : line.of \in Paths
  BY DEF TextLines
<1>. QED
  BY <1>1, <1>2, <1>3

LEMMA HeaderGoesOn ==
  ASSUME TypeOK, NEW p \in Paths, NEW before \in Paths, NEW change \in Changes,
         PrintFile(p, before, change)
  PROVE  GoesOn(p, DiffHeader(before, p))
<1>. DEFINE h == DiffHeader(before, p)
            l == Line(p)
<1>1. h \in TextLines /\ l \in TextLines /\ h.of = p
  BY DEF DiffHeader, Line, TextLines
<1>2. section'.path = p /\ (text' = text \o <<h>> \/ text' = text \o <<h, l, l>>)
  BY DEF PrintFile
<1>3. l = Line(p)
  OBVIOUS
<1>. HIDE DEF h, l
<1>4. text \in Seq(TextLines)
  BY TextType
<1>5. CASE text' = text \o <<h>>
  <2>. HIDE DEF TextLines
  <2>. QED
    BY <1>1, <1>2, <1>4, <1>5 DEF GoesOn, h
<1>6. CASE text' = text \o <<h, l, l>>
  <2>. HIDE DEF TextLines
  <2>1. /\ text' \in Seq(TextLines) /\ Len(text') = Len(text) + 3 /\ Len(text) \in Nat
        /\ \A i \in 1..Len(text) : text'[i] = text[i]
        /\ text'[Len(text) + 1] = h
        /\ text'[Len(text) + 2] = l /\ text'[Len(text) + 3] = l
    BY <1>1, <1>4, <1>6
  <2>2. \A i \in (Len(text) + 2)..Len(text') : text'[i] = l
    BY <2>1
  <2>. QED
    BY <1>1, <1>2, <1>3, <2>1, <2>2 DEF GoesOn, h
<1>. QED
  BY <1>2, <1>5, <1>6

LEMMA LineGoesOn ==
  ASSUME TypeOK, section.path \in Paths, section'.path = section.path, NEW line, Emit(line)
  PROVE  GoesOn(section.path, Line(section.path))
<1>. DEFINE h == Line(section.path)
<1>1. h \in TextLines /\ h.of = section.path
  BY DEF Line, TextLines
<1>2. text' = Append(text, h)
  BY DEF Emit
<1>3. text \in Seq(TextLines)
  BY TextType
<1>. HIDE DEF h, TextLines
<1>4. /\ text' \in Seq(TextLines) /\ Len(text') = Len(text) + 1 /\ Len(text) \in Nat
      /\ \A i \in 1..Len(text) : text'[i] = text[i]
      /\ text'[Len(text) + 1] = h
  BY <1>1, <1>2, <1>3
<1>. QED
  BY <1>1, <1>4 DEF GoesOn, h

\* A file that is new in the text, or the one printed last.
NewOrLast(p) ==
  \/ \A i \in DOMAIN text : text[i].of # p
  \/ text # <<>> /\ section.path = p

LEMMA StaysTogether ==
  ASSUME TypeOK, FilesTogether, NEW p, NEW h, GoesOn(p, h), NewOrLast(p)
  PROVE  FilesTogether'
<1>. DEFINE n == Len(text)
            m == Len(text')
<1>1. n \in Nat /\ m \in Nat /\ n < m /\ DOMAIN text = 1..n /\ DOMAIN text' = 1..m
  BY TextType DEF GoesOn
<1>2. /\ \A i \in 1..n : text'[i].of = text[i].of
      /\ \A i \in (n + 1)..m : text'[i].of = p
  <2>1. \A i \in (n + 1)..m : i = n + 1 \/ i \in (n + 2)..m
    BY <1>1
  <2>. QED
    BY <1>1, <2>1 DEF GoesOn, Line
<1>. HIDE DEF n, m
<1>3. ASSUME NEW i \in 1..n, text[i].of = p
      PROVE  text[n].of = p /\ n \in 1..n
  <2>1. text # <<>> /\ section.path = p
    BY <1>1, <1>3 DEF NewOrLast
  <2>. QED
    BY <1>1, <1>3, <2>1 DEF FilesTogether, n
<1>4. ASSUME NEW i \in 1..m, NEW j \in 1..m, NEW k \in i..j, text'[i].of = text'[j].of
      PROVE  text'[k].of = text'[i].of
  <2>1. CASE j <= n
    <3>1. i \in 1..n /\ j \in 1..n /\ k \in 1..n
      BY <1>1, <2>1
    <3>. QED
      BY <1>1, <1>2, <1>4, <3>1 DEF FilesTogether
  <2>2. CASE i > n
    <3>1. i \in (n + 1)..m /\ k \in (n + 1)..m
      BY <1>1, <2>2
    <3>. QED
      BY <1>2, <3>1
  <2>3. CASE i <= n /\ n < j
    <3>1. i \in 1..n /\ j \in (n + 1)..m
      BY <1>1, <2>3
    <3>2. text'[i].of = p /\ text[i].of = p
      BY <1>2, <1>4, <3>1
    <3>3. text[n].of = p /\ n \in 1..n
      BY <1>3, <3>1, <3>2
    <3>4. CASE k <= n
      <4>1. k \in i..n /\ k \in 1..n
        BY <1>1, <3>1, <3>4
      <4>. QED
        BY <1>1, <1>2, <3>1, <3>2, <3>3, <4>1 DEF FilesTogether
    <3>5. CASE k > n
      <4>1. k \in (n + 1)..m
        BY <1>1, <3>5
      <4>. QED
        BY <1>2, <3>2, <4>1
    <3>. QED
      BY <1>1, <3>4, <3>5
  <2>. QED
    BY <1>1, <2>1, <2>2, <2>3
<1>5. text'[m].of = p /\ text' # <<>>
  <2>1. m \in (n + 1)..m /\ Len(text') # 0
    BY <1>1 DEF m
  <2>. QED
    BY <1>2, <2>1
<1>. QED
  BY <1>1, <1>4, <1>5 DEF FilesTogether, GoesOn, m

\* The header of a file that is new in the diff, or a line of one that is not.
HeaderOrLine(p, h) ==
  /\ origin'[p] # None
  /\ \A q \in Paths : q # p => origin'[q] = origin[q]
  /\ \/ origin[p] = None /\ h.shows = IF {p, origin'[p]} \cap Quoted = {} THEN p ELSE None
     \/ origin'[p] = origin[p] /\ h.shows = None

LEMMA StaysShown ==
  ASSUME TypeOK, HeadersShown, NEW p \in Paths, NEW h, GoesOn(p, h), HeaderOrLine(p, h)
  PROVE  HeadersShown'
<1>. DEFINE n == Len(text)
            m == Len(text')
            Unquoted(q) == origin'[q] # None /\ {q, origin'[q]} \cap Quoted = {}
<1>1. n \in Nat /\ m \in Nat /\ n < m /\ DOMAIN text = 1..n /\ DOMAIN text' = 1..m
  BY TextType DEF GoesOn
<1>2. /\ \A i \in 1..n : text'[i] = text[i] /\ text[i].of \in Paths
      /\ text'[n + 1] = h /\ h.of = p
      /\ \A i \in (n + 2)..m : text'[i].of = p /\ text'[i].shows = None
  BY TextType DEF GoesOn, Line
<1>. HIDE DEF n, m
<1>3. \A i \in 1..m : i \in 1..n \/ i = n + 1 \/ i \in (n + 2)..m
  BY <1>1
<1>4. \A q \in Paths : q # p => (Unquoted(q) <=> HasGitHeader(q))
  BY DEF HasGitHeader, HeaderOrLine
<1>5. \A i \in 1..n : origin[text[i].of] # None
  BY <1>1 DEF HeadersShown
<1>6. ASSUME NEW i \in 1..m PROVE origin'[text'[i].of] # None
  BY <1>2, <1>3, <1>5 DEF HeaderOrLine
<1>7. ASSUME NEW i \in 1..m, text'[i].shows # None
      PROVE  /\ text'[i].shows = text'[i].of
             /\ Unquoted(text'[i].of)
             /\ \A j \in 1..m : text'[j].of = text'[i].of => i <= j
  <2>1. CASE i \in 1..n
    <3>1. /\ text[i].shows = text[i].of /\ HasGitHeader(text[i].of)
          /\ \A j \in 1..n : text[j].of = text[i].of => i <= j
      BY <1>1, <1>2, <1>7, <2>1 DEF HeadersShown
    <3>2. Unquoted(text'[i].of)
      <4>1. CASE text[i].of # p
        BY <1>2, <1>4, <2>1, <3>1, <4>1
      <4>2. CASE text[i].of = p
        <5>1. origin'[p] = origin[p]
          BY <1>5, <2>1, <4>2 DEF HeaderOrLine
        <5>. QED
          BY <1>2, <2>1, <3>1, <4>2, <5>1 DEF HasGitHeader
      <4>. QED
        BY <4>1, <4>2
    <3>3. ASSUME NEW j \in 1..m, text'[j].of = text'[i].of PROVE i <= j
      <4>1. CASE j \in 1..n
        BY <1>2, <2>1, <3>1, <3>3, <4>1
      <4>2. CASE j > n
        BY <1>1, <2>1, <4>2
      <4>. QED
        BY <1>1, <4>1, <4>2
    <3>. QED
      BY <1>2, <2>1, <3>1, <3>2, <3>3
  <2>2. CASE i = n + 1
    <3>1. origin[p] = None /\ h.shows = p /\ Unquoted(p)
      BY <1>2, <1>7, <2>2 DEF HeaderOrLine
    <3>2. \A j \in 1..n : text'[j].of # p
      BY <1>2, <1>5, <3>1
    <3>3. \A j \in 1..m : text'[j].of = p => i <= j
      BY <1>1, <2>2, <3>2
    <3>. QED
      BY <1>2, <2>2, <3>1, <3>3
  <2>. QED
    BY <1>2, <1>3, <1>7, <2>1, <2>2
<1>8. ASSUME NEW q \in Paths, Unquoted(q) PROVE \E i \in 1..m : text'[i].shows = q
  <2>1. CASE HasGitHeader(q)
    <3>1. PICK i \in 1..n : text[i].shows = q
      BY <1>1, <2>1 DEF HeadersShown
    <3>. QED
      BY <1>1, <1>2, <3>1
  <2>2. CASE ~HasGitHeader(q)
    <3>1. q = p /\ origin'[p] # origin[p]
      BY <1>4, <1>8, <2>2 DEF HasGitHeader
    <3>2. h.shows = p /\ n + 1 \in 1..m
      BY <1>1, <1>8, <3>1 DEF HeaderOrLine
    <3>. QED
      BY <1>2, <3>1, <3>2
  <2>. QED
    BY <2>1, <2>2
<1>. QED
  BY <1>1, <1>6, <1>7, <1>8 DEF HeadersShown, HasGitHeader

LEMMA TextStart == Init => TextInv
<1>. SUFFICES ASSUME Init PROVE TextInv
  OBVIOUS
<1>1. DOMAIN text = {} /\ text = <<>> /\ section.change = "bare" /\ \A p \in Paths : origin[p] = None
  BY DEF Init
<1>. QED
  BY <1>1 DEF TextInv, FilesTogether, HeadersShown, HasGitHeader

LEMMA FileKeepsText ==
  ASSUME TypeOK, TextInv, NEW p \in Paths, NEW before \in Paths, NEW change \in Changes,
         PrintFile(p, before, change)
  PROVE  TextInv'
<1>. DEFINE h == DiffHeader(before, p)
<1>1. origin[p] = None /\ origin' = [origin EXCEPT ![p] = before] /\ origin \in [Paths -> Paths \cup {None}]
  BY DEF PrintFile, TypeOK
<1>2. p # None /\ before # None
  BY DiffMappingAssumption
<1>3. GoesOn(p, h)
  BY HeaderGoesOn
<1>4. NewOrLast(p)
  BY <1>1 DEF NewOrLast, TextInv, HeadersShown
<1>5. HeaderOrLine(p, h)
  BY <1>1, <1>2 DEF HeaderOrLine, HasGitHeader, DiffHeader
<1>. QED
  BY <1>3, <1>4, <1>5, StaysTogether, StaysShown DEF TextInv

LEMMA LineKeepsText ==
  ASSUME ReadersInv, TextInv, section.change # "bare", section'.path = section.path,
         origin' = origin, NEW line, Emit(line)
  PROVE  TextInv'
<1>1. PICK p \in Paths : p = section.path
  BY DEF ReadersInv, HeadersRead
<1>. DEFINE h == Line(p)
<1>2. TypeOK /\ text # <<>>
  BY DEF ReadersInv, TextInv, FilesTogether
<1>3. GoesOn(p, h)
  BY <1>1, <1>2, LineGoesOn
<1>4. NewOrLast(p)
  BY <1>1, <1>2 DEF NewOrLast
<1>5. origin[p] # None
  <2>1. Len(text) \in DOMAIN text /\ text[Len(text)].of = p
    BY <1>1, <1>2, TextType DEF TextInv, FilesTogether
  <2>. QED
    BY <2>1 DEF TextInv, HeadersShown
<1>6. HeaderOrLine(p, h)
  BY <1>5 DEF HeaderOrLine, Line
<1>. HIDE DEF h
<1>. QED
  BY <1>2, <1>3, <1>4, <1>6, StaysTogether, StaysShown DEF TextInv

LEMMA TextStep == ReadersInv /\ TextInv /\ [Next]_vars => TextInv'
<1>. SUFFICES ASSUME ReadersInv, TextInv, [Next]_vars PROVE TextInv'
  OBVIOUS
<1>1. ASSUME NEW p \in Paths, NEW before \in Paths, NEW change \in Changes, PrintFile(p, before, change)
      PROVE  TextInv'
  BY <1>1, FileKeepsText DEF ReadersInv
<1>2. ASSUME NEW skip \in 0..MaxSkip, PrintHunk(skip)
      PROVE  TextInv'
  <2>1. section.change # "bare" /\ section'.path = section.path /\ origin' = origin
    BY <1>2, HunkHeaders DEF HunkMoves
  <2>2. \E line : Emit(line)
    BY <1>2 DEF PrintHunk
  <2>. QED
    BY <2>1, <2>2, LineKeepsText
<1>3. CASE LineOfHunk
  <2>1. section.change # "bare" /\ section'.path = section.path /\ origin' = origin
    BY <1>3, LinesMove DEF LineMoves, ReadersInv, HunkRead
  <2>2. \E line : Emit(line)
    BY <1>3 DEF LineOfHunk, PrintContext, PrintAdded, PrintRemoved, PrintMarker, PrintPiece
  <2>. QED
    BY <2>1, <2>2, LineKeepsText
<1>4. CASE UNCHANGED vars
  <2>1. text' = text /\ section' = section /\ origin' = origin
    BY <1>4 DEF vars, gitVars
  <2>. QED
    BY <2>1 DEF TextInv, FilesTogether, HeadersShown, HasGitHeader
<1>. QED
  BY <1>1, <1>2, <1>3, <1>4 DEF Next, LineOfHunk

-----------------------------------------------------------------------------
(* The part of a file.                                                     *)

LEMMA SmallestIs ==
  ASSUME NEW S \in SUBSET Nat, NEW n \in S, \A m \in S : n <= m
  PROVE  Min(S) = n
<1>1. Min(S) \in S /\ \A m \in S : Min(S) <= m
  BY DEF Min
<1>2. Min(S) \in Nat /\ n \in Nat /\ n <= Min(S) /\ Min(S) <= n
  BY <1>1, Zenon
<1>. QED
  BY <1>2

LEMMA LargestIs ==
  ASSUME NEW S \in SUBSET Nat, NEW n \in S, \A m \in S : m <= n
  PROVE  Max(S) = n
<1>1. Max(S) \in S /\ \A m \in S : Max(S) >= m
  BY DEF Max
<1>2. Max(S) \in Nat /\ n \in Nat /\ Max(S) <= n /\ Max(S) >= n
  BY <1>1, Zenon
<1>. QED
  BY <1>2

LEMMA LargestNumber ==
  ASSUME NEW k \in Nat, NEW S \in SUBSET (0..k), S # {}
  PROVE  \E n \in S : \A m \in S : m <= n
<1>. DEFINE T == {i \in Nat : k - i \in S}
<1>1. T # {}
  <2>1. PICK n \in S : TRUE
    OBVIOUS
  <2>2. k - n \in Nat /\ k - (k - n) = n
    BY <2>1
  <2>. QED
    BY <2>2
<1>2. PICK i \in T : \A j \in T : i <= j
  <2>. HIDE DEF T
  <2>1. T \in SUBSET Nat
    BY DEF T
  <2>. QED
    BY <1>1, <2>1, LeastNumber
<1>3. ASSUME NEW m \in S PROVE m <= k - i
  <2>1. k - m \in Nat /\ k - (k - m) = m /\ m \in Nat
    OBVIOUS
  <2>2. i <= k - m
    BY <1>2, <2>1
  <2>. QED
    BY <1>2, <2>1, <2>2
<1>. QED
  BY <1>2, <1>3

LEMMA PieceIs ==
  ASSUME NEW S, NEW s \in Seq(S), NEW a \in 1..Len(s), NEW e \in a..Len(s)
  PROVE  /\ SubSeq(s, a, e) \in Seq(S) /\ Len(SubSeq(s, a, e)) = e - a + 1
         /\ \A i \in 1..(e - a + 1) : SubSeq(s, a, e)[i] = s[a + i - 1]
OBVIOUS

\* The part of p starts with the lines of p, its own; what follows them are lines
\* of files that show no path.
PartOf(p, part, own) ==
  /\ part \in Seq(TextLines) /\ own \in Seq(TextLines)
  /\ 0 < Len(own) /\ Len(own) <= Len(part)
  /\ \A i \in 1..Len(own) : part[i] = own[i] /\ own[i].of = p
  /\ \A i \in 1..Len(part) : i > Len(own) => ~HasGitHeader(part[i].of)

LEMMA NoPart ==
  ASSUME TypeOK, TextInv, NEW p \in Paths, ~HasGitHeader(p)
  PROVE  FileDiff(p) = <<>>
<1>1. {i \in DOMAIN text : text[i].shows = p} = {}
  BY DiffMappingAssumption DEF TextInv, HeadersShown
<1>. QED
  BY <1>1 DEF FileDiff

LEMMA FilePart ==
  ASSUME TypeOK, TextInv, NEW p \in Paths, HasGitHeader(p)
  PROVE  PartOf(p, FileDiff(p), OwnLines(text, p))
<1>. DEFINE n == Len(text)
            own == {i \in DOMAIN text : text[i].of = p}
            headers == {i \in DOMAIN text : text[i].shows = p}
<1>1. text \in Seq(TextLines) /\ n \in Nat /\ DOMAIN text = 1..n
  BY TextType
<1>2. p # None
  BY DiffMappingAssumption
<1>3. PICK a \in 1..n : text[a].shows = p /\ text[a].of = p /\ \A i \in own : a <= i
  BY <1>1, <1>2 DEF TextInv, HeadersShown
<1>4. \A i \in headers : i = a
  <2>1. ASSUME NEW i \in headers PROVE i = a
    <3>1. i \in 1..n /\ text[i].of = p /\ \A j \in own : i <= j
      BY <1>1, <1>2, <2>1 DEF TextInv, HeadersShown
    <3>2. i <= a /\ a <= i
      BY <1>1, <1>3, <3>1
    <3>. QED
      BY <1>3, <3>1, <3>2
  <2>. QED
    BY <2>1
<1>5. Min(headers) = a /\ headers # {}
  BY <1>1, <1>3, <1>4, SmallestIs
<1>6. PICK b \in own : \A i \in own : i <= b
  <2>1. own \in SUBSET (0..n) /\ own # {}
    BY <1>1, <1>3
  <2>. HIDE DEF own, n
  <2>. QED
    BY <1>1, <2>1, LargestNumber
<1>7. Min(own) = a /\ Max(own) = b /\ own # {} /\ b \in 1..n /\ a <= b
  <2>1. own \in SUBSET Nat /\ a \in own
    BY <1>1, <1>3
  <2>2. b \in 1..n
    BY <1>1, <1>6
  <2>. HIDE DEF own
  <2>. QED
    BY <1>3, <1>6, <2>1, <2>2, SmallestIs, LargestIs
<1>8. OwnLines(text, p) = SubSeq(text, a, b)
  BY <1>7 DEF OwnLines
<1>. DEFINE later == {i \in DOMAIN text : i > a /\ text[i].shows # None}
            ends == later \cup {n + 1}
<1>9. PICK e \in ends : \A i \in ends : e <= i
  <2>1. ends \in SUBSET Nat /\ ends # {}
    BY <1>1
  <2>. HIDE DEF ends
  <2>. QED
    BY <2>1, LeastNumber
<1>10. Min(ends) = e /\ e \in Nat /\ e <= n + 1
  <2>1. ends \in SUBSET Nat /\ n + 1 \in ends
    BY <1>1
  <2>. HIDE DEF ends
  <2>. QED
    BY <1>9, <2>1, SmallestIs
<1>11. FileDiff(p) = SubSeq(text, a, e - 1)
  BY <1>5, <1>10 DEF FileDiff
<1>12. \A i \in a..b : text[i].of = p
  BY <1>1, <1>3, <1>6, <1>7 DEF TextInv, FilesTogether
<1>13. b < e
  <2>1. CASE e = n + 1
    BY <1>1, <1>7, <2>1
  <2>2. CASE e \in later
    <3>1. e \in 1..n /\ e > a /\ \A i \in 1..n : text[i].of = text[e].of => e <= i
      BY <1>1, <2>2 DEF TextInv, HeadersShown
    <3>2. text[e].of # p
      BY <1>3, <3>1
    <3>. QED
      BY <1>3, <1>7, <1>12, <3>1, <3>2
  <2>. QED
    BY <1>9, <2>1, <2>2
<1>14. ASSUME NEW i \in 1..n, i > b, i < e
       PROVE  ~HasGitHeader(text[i].of)
  <2>1. SUFFICES ASSUME HasGitHeader(text[i].of) PROVE FALSE
    OBVIOUS
  <2>2. PICK h \in 1..n : /\ text[h].shows = text[i].of /\ text[h].of = text[i].of
                          /\ \A j \in 1..n : text[j].of = text[h].of => h <= j
    <3>1. text[i].of \in Paths /\ text[i].of # None
      BY TextType, DiffMappingAssumption
    <3>2. PICK h \in 1..n : text[h].shows = text[i].of
      BY <1>1, <2>1, <3>1 DEF TextInv, HeadersShown
    <3>3. text[h].shows = text[h].of /\ \A j \in 1..n : text[j].of = text[h].of => h <= j
      BY <1>1, <3>1, <3>2 DEF TextInv, HeadersShown
    <3>. QED
      BY <3>2, <3>3
  <2>3. h <= i /\ text[i].of # p /\ text[h].shows # None
    <3>1. i \notin own
      BY <1>6, <1>7, <1>14
    <3>2. text[i].of \in Paths
      BY TextType
    <3>. QED
      BY <1>1, <2>2, <3>1, <3>2, DiffMappingAssumption
  <2>4. CASE h > a
    <3>1. h \in ends
      BY <1>1, <2>3, <2>4
    <3>. QED
      BY <1>9, <1>10, <1>14, <2>2, <2>3, <3>1
  <2>5. CASE h <= a
    <3>1. a \in h..i
      BY <1>3, <1>7, <1>14, <2>2, <2>5
    <3>. QED
      BY <1>1, <1>3, <2>2, <2>3, <3>1 DEF TextInv, FilesTogether
  <2>. QED
    BY <2>2, <1>3, <2>4, <2>5
<1>. HIDE DEF n, own, headers, later, ends
<1>15. e - 1 \in a..n /\ b \in a..n
  BY <1>1, <1>3, <1>7, <1>10, <1>13
<1>. DEFINE part == SubSeq(text, a, e - 1)
            mine == SubSeq(text, a, b)
<1>16. /\ part \in Seq(TextLines) /\ Len(part) = e - a
       /\ \A i \in 1..(e - a) : part[i] = text[a + i - 1]
  <2>1. (e - 1) - a + 1 = e - a
    BY <1>3, <1>10
  <2>. QED
    BY <1>1, <1>15, <2>1, PieceIs DEF n
<1>17. /\ mine \in Seq(TextLines) /\ Len(mine) = b - a + 1
       /\ \A i \in 1..(b - a + 1) : mine[i] = text[a + i - 1]
  BY <1>1, <1>15, PieceIs DEF n
<1>. HIDE DEF part, mine
<1>18. PartOf(p, part, mine)
  <2>1. 0 < Len(mine) /\ Len(mine) <= Len(part)
    BY <1>3, <1>7, <1>10, <1>13, <1>16, <1>17
  <2>2. ASSUME NEW i \in 1..Len(mine) PROVE part[i] = mine[i] /\ mine[i].of = p
    <3>1. i \in 1..(e - a) /\ i \in 1..(b - a + 1) /\ a + i - 1 \in a..b
      BY <1>3, <1>7, <1>10, <1>13, <1>17
    <3>2. part[i] = text[a + i - 1] /\ mine[i] = text[a + i - 1]
      BY <1>16, <1>17, <3>1
    <3>3. text[a + i - 1].of = p
      BY <1>12, <3>1, Zenon
    <3>. QED
      BY <3>2, <3>3
  <2>3. ASSUME NEW i \in 1..Len(part), i > Len(mine) PROVE ~HasGitHeader(part[i].of)
    <3>1. i \in 1..(e - a) /\ a + i - 1 \in 1..n /\ a + i - 1 > b /\ a + i - 1 < e
      <4>1. a \in Nat /\ b \in Nat /\ e \in Nat /\ n \in Nat /\ 1 <= a /\ e <= n + 1
        BY <1>1, <1>3, <1>7, <1>10
      <4>2. i \in Nat /\ 1 <= i /\ i <= e - a /\ i > b - a + 1
        BY <1>16, <1>17, <2>3
      <4>. QED
        BY <4>1, <4>2
    <3>2. part[i] = text[a + i - 1]
      BY <1>16, <3>1
    <3>. QED
      BY <1>14, <3>1, <3>2
  <2>. QED
    BY <1>16, <1>17, <2>1, <2>2, <2>3 DEF PartOf
<1>. QED
  BY <1>8, <1>11, <1>18 DEF part, mine

-----------------------------------------------------------------------------
(* What an excerpt shows.                                                  *)

LEMMA SameSequence ==
  ASSUME NEW S, NEW s \in Seq(S), NEW t \in Seq(S), Len(s) = Len(t),
         \A i \in 1..Len(s) : s[i] = t[i]
  PROVE  s = t
OBVIOUS

LEMMA FirstOnes ==
  ASSUME NEW S, NEW s \in Seq(S), NEW k \in Nat, k <= Len(s)
  PROVE  SubSeq(s, 1, k) \in Seq(S) /\ Len(SubSeq(s, 1, k)) = k /\ \A i \in 1..k : SubSeq(s, 1, k)[i] = s[i]
OBVIOUS

\* The beginning of s, at most m long: Looked and CutOff are of this form.
Beginning(s, m) == SubSeq(s, 1, Min({m, Len(s)}))

LEMMA BeginningIs ==
  ASSUME NEW S, NEW s \in Seq(S), NEW m \in Nat
  PROVE  /\ Beginning(s, m) \in Seq(S)
         /\ Len(Beginning(s, m)) <= m /\ Len(Beginning(s, m)) <= Len(s)
         /\ Len(Beginning(s, m)) = m \/ Beginning(s, m) = s
         /\ \A i \in 1..Len(Beginning(s, m)) : i \in 1..Len(s) /\ Beginning(s, m)[i] = s[i]
<1>. DEFINE t == Beginning(s, m)
<1>1. Len(s) \in Nat
  OBVIOUS
<1>2. PICK k \in {m, Len(s)} : k <= m /\ k <= Len(s)
  BY <1>1
<1>3. k \in Nat /\ Min({m, Len(s)}) = k
  <2>1. {m, Len(s)} \in SUBSET Nat
    BY <1>1
  <2>2. \A i \in {m, Len(s)} : k <= i
    BY <1>2
  <2>. QED
    BY <1>2, <2>1, <2>2, SmallestIs
<1>4. t = SubSeq(s, 1, k)
  BY <1>3 DEF Beginning
<1>. HIDE DEF t
<1>5. t \in Seq(S) /\ Len(t) = k /\ \A i \in 1..k : t[i] = s[i]
  <2>1. k \in Nat /\ k <= Len(s)
    BY <1>2, <1>3
  <2>2. SubSeq(s, 1, k) \in Seq(S) /\ Len(SubSeq(s, 1, k)) = k /\ \A i \in 1..k : SubSeq(s, 1, k)[i] = s[i]
    BY <2>1, FirstOnes
  <2>. QED
    BY <1>4, <2>2, Zenon
<1>6. ASSUME NEW i \in 1..Len(t) PROVE i \in 1..Len(s) /\ t[i] = s[i]
  <2>1. i \in 1..k
    BY <1>5
  <2>. QED
    BY <1>1, <1>2, <1>3, <1>5, <2>1
<1>7. Len(t) = m \/ t = s
  <2>1. CASE k = m
    BY <1>5, <2>1
  <2>2. CASE k = Len(s)
    BY <1>1, <1>5, <2>2, SameSequence
  <2>. QED
    BY <1>2, <2>1, <2>2
<1>8. Len(t) <= m /\ Len(t) <= Len(s)
  BY <1>2, <1>5
<1>. QED
  BY <1>5, <1>6, <1>7, <1>8 DEF t

LEMMA LookedUp ==
  ASSUME NEW candidates \in CandidatePaths
  PROVE  /\ candidates \in Seq(Paths)
         /\ Looked(candidates) \in Seq(Paths) /\ Len(Looked(candidates)) <= Len(candidates)
         /\ \A i \in 1..Len(Looked(candidates)) :
              i \in 1..Len(candidates) /\ Looked(candidates)[i] = candidates[i]
         /\ \A i, j \in 1..Len(Looked(candidates)) :
              Looked(candidates)[i] = Looked(candidates)[j] => i = j
<1>1. candidates \in Seq(Paths) /\ IsInjective(candidates)
  <2>1. candidates \in BoundedSeq(Paths, Cardinality(Paths)) /\ IsInjective(candidates)
    BY DEF CandidatePaths, Orders
  <2>2. PICK n \in 0..Cardinality(Paths) : candidates \in [1..n -> Paths]
    BY <2>1 DEF BoundedSeq, SeqOf
  <2>. QED
    BY <2>1, <2>2
<1>2. MaxShown \in Nat
  BY DiffMappingAssumption
<1>. DEFINE looked == Looked(candidates)
<1>3. /\ looked \in Seq(Paths) /\ Len(looked) <= Len(candidates)
      /\ \A i \in 1..Len(looked) : i \in 1..Len(candidates) /\ looked[i] = candidates[i]
  <2>1. looked = Beginning(candidates, MaxShown)
    BY DEF Looked, Beginning
  <2>. HIDE DEF looked
  <2>. QED
    BY <1>1, <1>2, <2>1, BeginningIs
<1>. HIDE DEF looked
<1>4. \A i, j \in 1..Len(looked) : looked[i] = looked[j] => i = j
  BY <1>1, <1>3 DEF IsInjective
<1>. QED
  BY <1>1, <1>3, <1>4 DEF looked

LEMMA OwnLinesStand ==
  ASSUME NEW whole \in Seq(TextLines), NEW own \in Seq(TextLines), 0 < Len(own), NEW p,
         NEW at \in Nat, at + Len(own) <= Len(whole),
         \A j \in 1..Len(own) : whole[at + j] = own[j] /\ own[j].of = p,
         \A i \in 1..Len(whole) : whole[i].of = p => \E j \in 1..Len(own) : i = at + j
  PROVE  OwnLines(whole, p) = own
<1>. DEFINE rows == {i \in DOMAIN whole : whole[i].of = p}
            n == Len(own)
<1>1. n \in Nat /\ n > 0 /\ Len(whole) \in Nat /\ DOMAIN whole = 1..Len(whole)
  OBVIOUS
<1>. HIDE DEF n
<1>2. \A j \in 1..n : at + j \in 1..Len(whole) /\ at + j \in rows
  BY <1>1 DEF n
<1>3. \A i \in rows : i \in Nat /\ at + 1 <= i /\ i <= at + n
  <2>1. ASSUME NEW i \in rows PROVE i \in Nat /\ at + 1 <= i /\ i <= at + n
    <3>1. PICK j \in 1..n : i = at + j
      BY <1>1, <2>1 DEF n
    <3>. QED
      BY <1>1, <3>1
  <2>. QED
    BY <2>1
<1>4. at + 1 \in rows /\ at + n \in rows /\ rows \in SUBSET Nat
  <2>1. 1 \in 1..n /\ n \in 1..n
    BY <1>1
  <2>2. at + 1 \in rows /\ at + n \in rows
    BY <1>2, <2>1, Zenon
  <2>3. rows \in SUBSET Nat
    BY <1>1
  <2>. QED
    BY <2>2, <2>3
<1>. HIDE DEF rows
<1>5. Min(rows) = at + 1 /\ Max(rows) = at + n /\ rows # {}
  BY <1>3, <1>4, SmallestIs, LargestIs
<1>6. OwnLines(whole, p) = SubSeq(whole, at + 1, at + n)
  BY <1>5 DEF OwnLines, rows
<1>. DEFINE piece == SubSeq(whole, at + 1, at + n)
<1>7. at + 1 \in 1..Len(whole) /\ at + n \in (at + 1)..Len(whole) /\ (at + n) - (at + 1) + 1 = n
  <2>1. 1 \in 1..n /\ n \in 1..n
    BY <1>1
  <2>2. at + 1 \in 1..Len(whole) /\ at + n \in 1..Len(whole)
    BY <1>2, <2>1, Zenon
  <2>. QED
    BY <1>1, <2>2
<1>8. piece \in Seq(TextLines) /\ Len(piece) = n /\ \A j \in 1..n : piece[j] = whole[(at + 1) + j - 1]
  <2>. HIDE DEF TextLines
  <2>. QED
    BY <1>7, PieceIs
<1>9. \A j \in 1..n : (at + 1) + j - 1 = at + j
  BY <1>1
<1>10. \A j \in 1..n : piece[j] = own[j]
  BY <1>8, <1>9 DEF n
<1>. HIDE DEF piece
<1>11. piece = own
  BY <1>8, <1>10, SameSequence DEF n
<1>. QED
  BY <1>6, <1>11 DEF piece

\* The parts of the files looked up, one behind the other: each file that shows
\* its path stands there whole, and no line is of a file that was not asked for
\* unless it shows no path.
Shows(whole, looked, start) ==
  /\ whole \in Seq(TextLines)
  /\ start \in [1..Len(looked) -> Nat] /\ start[1] = 0
  /\ \A k \in 1..Len(looked) : HasGitHeader(looked[k]) =>
       LET own == OwnLines(text, looked[k])
       IN /\ own \in Seq(TextLines) /\ 0 < Len(own) /\ start[k] + Len(own) <= Len(whole)
          /\ \A j \in 1..Len(own) : whole[start[k] + j] = own[j] /\ own[j].of = looked[k]
  /\ \A i \in 1..Len(whole) : HasGitHeader(whole[i].of) =>
       \E k \in 1..Len(looked) :
         /\ HasGitHeader(looked[k]) /\ whole[i].of = looked[k]
         /\ \E j \in 1..Len(OwnLines(text, looked[k])) : i = start[k] + j

LEMMA PartsShow ==
  ASSUME TypeOK, TextInv, NEW looked \in Seq(Paths), looked # <<>>
  PROVE  \E start : Shows(FlattenSeq([i \in DOMAIN looked |-> FileDiff(looked[i])]), looked, start)
<1>. DEFINE n == Len(looked)
            parts == [i \in DOMAIN looked |-> FileDiff(looked[i])]
            whole == FlattenSeq(parts)
<1>1. n \in Nat \ {0} /\ DOMAIN looked = 1..n /\ \A k \in 1..n : looked[k] \in Paths
  OBVIOUS
<1>. HIDE DEF n
<1>2. ASSUME NEW k \in 1..n
      PROVE  /\ parts[k] = FileDiff(looked[k]) /\ parts[k] \in Seq(TextLines)
             /\ HasGitHeader(looked[k]) => PartOf(looked[k], parts[k], OwnLines(text, looked[k]))
             /\ ~HasGitHeader(looked[k]) => parts[k] = <<>>
  <2>1. parts[k] = FileDiff(looked[k]) /\ looked[k] \in Paths
    BY <1>1
  <2>. HIDE DEF parts
  <2>2. CASE HasGitHeader(looked[k])
    <3>1. PartOf(looked[k], parts[k], OwnLines(text, looked[k]))
      BY <2>1, <2>2, FilePart
    <3>. QED
      BY <2>1, <2>2, <3>1 DEF PartOf
  <2>3. CASE ~HasGitHeader(looked[k])
    <3>1. parts[k] = <<>>
      BY <2>1, <2>3, NoPart
    <3>2. <<>> \in Seq(TextLines)
      OBVIOUS
    <3>. QED
      BY <2>1, <2>3, <3>1, <3>2, Zenon
  <2>. QED
    BY <2>2, <2>3
<1>3. parts \in Seq(Seq(TextLines)) /\ Len(parts) = n /\ parts # <<>>
  <2>1. parts \in [1..n -> Seq(TextLines)] /\ DOMAIN parts = 1..n
    BY <1>1, <1>2
  <2>. HIDE DEF parts, TextLines
  <2>. QED
    BY <1>1, <2>1
<1>. HIDE DEF parts
<1>4. PICK start \in [1..n -> Nat] :
        start[1] = 0 /\ Holds(whole, parts, start, n) /\ whole \in Seq(TextLines)
  BY <1>3, Flattened
<1>. HIDE DEF whole
<1>5. ASSUME NEW k \in 1..n, HasGitHeader(looked[k])
      PROVE  LET own == OwnLines(text, looked[k])
             IN /\ own \in Seq(TextLines) /\ 0 < Len(own) /\ start[k] + Len(own) <= Len(whole)
                /\ \A j \in 1..Len(own) : whole[start[k] + j] = own[j] /\ own[j].of = looked[k]
  <2>. DEFINE own == OwnLines(text, looked[k])
  <2>1. PartOf(looked[k], parts[k], own)
    BY <1>2, <1>5
  <2>2. start[k] + Len(parts[k]) <= Len(whole) /\ \A j \in 1..Len(parts[k]) : whole[start[k] + j] = parts[k][j]
    BY <1>4 DEF Holds
  <2>. HIDE DEF own
  <2>3. own \in Seq(TextLines) /\ parts[k] \in Seq(TextLines) /\ 0 < Len(own) /\ Len(own) <= Len(parts[k])
    BY <2>1 DEF PartOf
  <2>4. start[k] \in Nat /\ Len(own) \in Nat /\ Len(parts[k]) \in Nat /\ Len(whole) \in Nat
    <3>. HIDE DEF TextLines
    <3>. QED
      BY <1>4, <2>3
  <2>5. ASSUME NEW j \in 1..Len(own) PROVE whole[start[k] + j] = own[j] /\ own[j].of = looked[k]
    <3>1. j \in 1..Len(parts[k])
      BY <2>3, <2>4
    <3>2. parts[k][j] = own[j] /\ own[j].of = looked[k]
      BY <2>1 DEF PartOf
    <3>3. whole[start[k] + j] = parts[k][j]
      BY <2>2, <3>1
    <3>. QED
      BY <3>2, <3>3
  <2>6. start[k] + Len(own) <= Len(whole)
    BY <2>2, <2>3, <2>4
  <2>. QED
    BY <2>3, <2>5, <2>6 DEF own
<1>6. ASSUME NEW i \in 1..Len(whole), HasGitHeader(whole[i].of)
      PROVE  \E k \in 1..n : /\ HasGitHeader(looked[k]) /\ whole[i].of = looked[k]
                             /\ \E j \in 1..Len(OwnLines(text, looked[k])) : i = start[k] + j
  <2>1. PICK k \in 1..n : \E j \in 1..Len(parts[k]) : i = start[k] + j
    BY <1>4 DEF Holds
  <2>2. PICK j \in 1..Len(parts[k]) : i = start[k] + j
    BY <2>1
  <2>. DEFINE own == OwnLines(text, looked[k])
  <2>3. whole[i] = parts[k][j]
    BY <1>4, <2>2 DEF Holds
  <2>4. PartOf(looked[k], parts[k], own) /\ HasGitHeader(looked[k])
    <3>1. parts[k] # <<>>
      BY <2>2
    <3>. QED
      BY <1>2, <3>1
  <2>. HIDE DEF own
  <2>5. j \in Nat /\ Len(own) \in Nat
    <3>1. own \in Seq(TextLines)
      BY <2>4 DEF PartOf
    <3>2. Len(own) \in Nat
      BY <3>1
    <3>. QED
      BY <3>2
  <2>6. j <= Len(own)
    BY <1>6, <2>3, <2>4, <2>5 DEF PartOf
  <2>7. j \in 1..Len(own) /\ whole[i].of = looked[k]
    <3>1. j \in 1..Len(own)
      BY <2>5, <2>6
    <3>2. parts[k][j] = own[j] /\ own[j].of = looked[k]
      BY <2>4, <3>1 DEF PartOf
    <3>. QED
      BY <2>3, <3>1, <3>2
  <2>. QED
    BY <2>2, <2>4, <2>7 DEF own
<1>7. Shows(whole, looked, start)
  BY <1>4, <1>5, <1>6 DEF Shows, n
<1>. QED
  BY <1>7 DEF whole, parts

\* CutOff keeps the beginning of what it is given, at most Room lines of it.
LEMMA CutOffIs ==
  ASSUME NEW s \in Seq(TextLines)
  PROVE  /\ CutOff(s) \in Seq(TextLines)
         /\ Len(CutOff(s)) <= Room /\ Len(CutOff(s)) <= Len(s)
         /\ Len(CutOff(s)) = Room \/ CutOff(s) = s
         /\ \A i \in 1..Len(CutOff(s)) : i \in 1..Len(s) /\ CutOff(s)[i] = s[i]
<1>1. CutOff(s) = Beginning(s, Room) /\ Room \in Nat
  BY DiffMappingAssumption DEF CutOff, Beginning
<1>. HIDE DEF TextLines
<1>. QED
  BY <1>1, BeginningIs

LEMMA StartsWith ==
  ASSUME NEW own \in Seq(TextLines), NEW whole \in Seq(TextLines), Len(own) <= Len(whole),
         \A j \in 1..Len(own) : whole[j] = own[j]
  PROVE  IsPrefix(CutOff(own), CutOff(whole))
<1>. DEFINE s == CutOff(own)
            t == CutOff(whole)
<1>1. /\ s \in Seq(TextLines) /\ Len(s) <= Room /\ Len(s) <= Len(own)
      /\ Len(s) = Room \/ s = own
      /\ \A i \in 1..Len(s) : i \in 1..Len(own) /\ s[i] = own[i]
  BY CutOffIs
<1>2. /\ t \in Seq(TextLines) /\ Len(t) <= Room /\ Len(t) <= Len(whole)
      /\ Len(t) = Room \/ t = whole
      /\ \A i \in 1..Len(t) : i \in 1..Len(whole) /\ t[i] = whole[i]
  BY CutOffIs
<1>. HIDE DEF s, t
<1>3. Len(s) \in Nat /\ Len(t) \in Nat /\ Len(own) \in Nat /\ Len(whole) \in Nat /\ Room \in Nat
  <2>1. Room \in Nat
    BY DiffMappingAssumption
  <2>. HIDE DEF TextLines
  <2>. QED
    BY <1>1, <1>2, <2>1
<1>4. Len(s) <= Len(t)
  BY <1>1, <1>2, <1>3
<1>5. ASSUME NEW i \in 1..Len(s) PROVE s[i] = t[i]
  <2>1. i \in 1..Len(t)
    BY <1>3, <1>4
  <2>. QED
    BY <1>1, <1>2, <2>1
<1>. DEFINE a == SubSeq(s, 1, Len(s))
            b == SubSeq(t, 1, Len(s))
<1>6. /\ a \in Seq(TextLines) /\ Len(a) = Len(s) /\ \A i \in 1..Len(s) : a[i] = s[i]
      /\ b \in Seq(TextLines) /\ Len(b) = Len(s) /\ \A i \in 1..Len(s) : b[i] = t[i]
  <2>. HIDE DEF TextLines
  <2>. QED
    BY <1>1, <1>2, <1>3, <1>4, FirstOnes
<1>. HIDE DEF a, b
<1>7. a = b
  BY <1>5, <1>6, SameSequence
<1>. QED
  BY <1>4, <1>7 DEF a, b, s, t, IsPrefix

LEMMA ExcerptsShow ==
  ASSUME TypeOK, TextInv
  PROVE  ExcerptShowsTheFiles
<1>. SUFFICES ASSUME NEW candidates \in CandidatePaths,
                     {p \in ToSet(Looked(candidates)) : HasGitHeader(p)} # {}
              PROVE  LET excerpt == Excerpt(candidates)
                         visible == {p \in ToSet(Looked(candidates)) : HasGitHeader(p)}
                     IN /\ HasGitHeader(candidates[1]) =>
                             IsPrefix(CutOff(OwnLines(text, candidates[1])), excerpt)
                        /\ \A i \in DOMAIN excerpt :
                             excerpt[i].of \in visible \/ ~HasGitHeader(excerpt[i].of)
                        /\ Len(excerpt) < Room =>
                             \A p \in visible : OwnLines(excerpt, p) = OwnLines(text, p)
  BY DEF ExcerptShowsTheFiles
<1>. DEFINE looked == Looked(candidates)
            visible == {p \in ToSet(looked) : HasGitHeader(p)}
            n == Len(looked)
            whole == FlattenSeq([i \in DOMAIN looked |-> FileDiff(looked[i])])
            excerpt == Excerpt(candidates)
<1>1. /\ looked \in Seq(Paths) /\ n \in Nat /\ DOMAIN looked = 1..n
      /\ \A k \in 1..n : k \in 1..Len(candidates) /\ looked[k] = candidates[k]
      /\ \A i, j \in 1..n : looked[i] = looked[j] => i = j
  BY LookedUp
<1>2. /\ visible # {}
      /\ \A p : p \in visible <=> HasGitHeader(p) /\ \E k \in 1..n : looked[k] = p
  BY <1>1 DEF ToSet
<1>3. excerpt = CutOff(IF whole = <<>> THEN text ELSE whole)
  BY DEF Excerpt
<1>. HIDE DEF looked, visible, n
<1>4. PICK start : Shows(whole, looked, start)
  <2>1. looked # <<>>
    BY <1>1, <1>2
  <2>. QED
    BY <1>1, <2>1, PartsShow
<1>. HIDE DEF whole, excerpt
<1>5. whole \in Seq(TextLines) /\ Len(whole) \in Nat
  <2>1. whole \in Seq(TextLines)
    BY <1>4 DEF Shows
  <2>. HIDE DEF TextLines
  <2>. QED
    BY <2>1
<1>6. ASSUME NEW k \in 1..n, HasGitHeader(looked[k])
      PROVE  LET own == OwnLines(text, looked[k])
             IN /\ own \in Seq(TextLines) /\ 0 < Len(own) /\ Len(own) \in Nat
                /\ start[k] \in Nat /\ start[k] + Len(own) <= Len(whole)
                /\ \A j \in 1..Len(own) : whole[start[k] + j] = own[j] /\ own[j].of = looked[k]
  <2>. DEFINE own == OwnLines(text, looked[k])
  <2>1. /\ own \in Seq(TextLines) /\ 0 < Len(own)
        /\ start[k] \in Nat /\ start[k] + Len(own) <= Len(whole)
        /\ \A j \in 1..Len(own) : whole[start[k] + j] = own[j] /\ own[j].of = looked[k]
    BY <1>4, <1>6 DEF Shows, n
  <2>. HIDE DEF own, TextLines
  <2>2. Len(own) \in Nat
    BY <2>1
  <2>. QED
    BY <2>1, <2>2 DEF own
<1>7. PICK k0 \in 1..n : HasGitHeader(looked[k0])
  BY <1>2
<1>8. excerpt = CutOff(whole)
  <2>1. 0 < Len(whole)
    BY <1>5, <1>6, <1>7
  <2>2. whole # <<>>
    BY <2>1
  <2>. QED
    BY <1>3, <2>2
<1>9. /\ Len(excerpt) <= Room
      /\ Len(excerpt) = Room \/ excerpt = whole
      /\ \A i \in DOMAIN excerpt : i \in 1..Len(whole) /\ excerpt[i] = whole[i]
  BY <1>5, <1>8, CutOffIs
<1>10. ASSUME HasGitHeader(candidates[1])
       PROVE  IsPrefix(CutOff(OwnLines(text, candidates[1])), excerpt)
  <2>1. 1 \in 1..n /\ looked[1] = candidates[1]
    BY <1>1, <1>7
  <2>. DEFINE own == OwnLines(text, candidates[1])
  <2>2. start[1] = 0
    BY <1>4 DEF Shows
  <2>3. /\ own \in Seq(TextLines) /\ Len(own) \in Nat /\ 0 + Len(own) <= Len(whole)
        /\ \A j \in 1..Len(own) : whole[0 + j] = own[j]
    BY <1>6, <1>10, <2>1, <2>2
  <2>. HIDE DEF own
  <2>4. Len(own) <= Len(whole) /\ \A j \in 1..Len(own) : whole[j] = own[j]
    <3>1. ASSUME NEW j \in 1..Len(own) PROVE whole[j] = own[j]
      <4>1. 0 + j = j
        BY <2>3
      <4>. QED
        BY <2>3, <4>1
    <3>2. Len(own) <= Len(whole)
      BY <1>5, <2>3
    <3>. QED
      BY <3>1, <3>2
  <2>5. IsPrefix(CutOff(own), CutOff(whole))
    BY <1>5, <2>3, <2>4, StartsWith
  <2>. QED
    BY <1>8, <2>5 DEF own
<1>11. ASSUME NEW i \in DOMAIN excerpt
       PROVE  excerpt[i].of \in visible \/ ~HasGitHeader(excerpt[i].of)
  <2>1. i \in 1..Len(whole) /\ excerpt[i] = whole[i]
    BY <1>9
  <2>2. HasGitHeader(whole[i].of) => \E k \in 1..n : HasGitHeader(looked[k]) /\ whole[i].of = looked[k]
    BY <1>4, <2>1 DEF Shows, n
  <2>. QED
    BY <1>2, <2>1, <2>2
<1>12. ASSUME Len(excerpt) < Room, NEW p \in visible
       PROVE  OwnLines(excerpt, p) = OwnLines(text, p)
  <2>1. excerpt = whole
    <3>1. Room \in Nat
      BY DiffMappingAssumption
    <3>. QED
      BY <1>9, <1>12, <3>1
  <2>2. PICK k \in 1..n : looked[k] = p
    BY <1>2
  <2>3. HasGitHeader(p)
    BY <1>2
  <2>. DEFINE own == OwnLines(text, p)
  <2>4. /\ own \in Seq(TextLines) /\ 0 < Len(own)
        /\ start[k] \in Nat /\ start[k] + Len(own) <= Len(whole)
        /\ \A j \in 1..Len(own) : whole[start[k] + j] = own[j] /\ own[j].of = p
    BY <1>6, <2>2, <2>3
  <2>5. ASSUME NEW i \in 1..Len(whole), whole[i].of = p
        PROVE  \E j \in 1..Len(own) : i = start[k] + j
    <3>1. PICK l \in 1..n : /\ looked[l] = p
                            /\ \E j \in 1..Len(OwnLines(text, looked[l])) : i = start[l] + j
      BY <1>4, <2>3, <2>5 DEF Shows, n
    <3>2. l = k
      BY <1>1, <2>2, <3>1
    <3>. QED
      BY <3>1, <3>2
  <2>. HIDE DEF own
  <2>6. OwnLines(whole, p) = own
    BY <1>5, <2>4, <2>5, OwnLinesStand
  <2>. QED
    BY <2>1, <2>6 DEF own
<1>. QED
  BY <1>10, <1>11, <1>12 DEF excerpt, visible, looked

\* A prompt shows each part of the diff as a part of its own file: the hunks by
\* the file they stand in, and an excerpt the files it was made for, each of them
\* whole when there is room, with no line of a file that was not asked for but
\* those that "diff --git" does not tell apart.
THEOREM PromptsShown == Spec => []PromptsShowTheDiff
<1>1. Init => ReadersInv /\ TextInv
  BY ReadersStart, TextStart
<1>2. (ReadersInv /\ TextInv) /\ [Next]_vars => (ReadersInv /\ TextInv)'
  BY ReadersStep, TextStep
<1>3. ReadersInv /\ TextInv => ExcerptShowsTheFiles
  BY ExcerptsShow DEF ReadersInv
<1>4. Spec => []ExcerptShowsTheFiles
  BY <1>1, <1>2, <1>3, PTL DEF Spec
<1>5. ContextShowsTheHunks /\ ExcerptShowsTheFiles => PromptsShowTheDiff
  BY DEF PromptsShowTheDiff
<1>. QED
  BY <1>4, <1>5, HunksShown, PTL
=============================================================================
