-------------------------- MODULE PublicationProofs --------------------------
(***************************************************************************)
(* Publication proved: its types and that a row names the thread the bot   *)
(* opened for it, whatever overlaps and fails, and that a run respects the *)
(* dismissals it has read; for one worker that the bot does not repeat     *)
(* itself; and for findings that are told apart, that rows are what was    *)
(* reported, one thread serves a finding, rows and threads agree, and the  *)
(* whole implements FindingLifecycle.                                      *)
(***************************************************************************)
EXTENDS Publication, TLAPS

\* Thread t of th is the one the bot opened for f.
Leads(th, f, t) == t \in DOMAIN th /\ th[t].author = "bot" /\ th[t].about = f

\* What a run in state s may rely on: the rows it read name their threads, the
\* finding at hand exists, and so does the row it is about to write.
Knows(th, s) ==
  /\ \A f \in Findings : HasRow(s.rows, f) => Leads(th, f, s.rows[f].thread)
  /\ s.pc \in {"place", "create_plain", "save", "remark"} => s.place \in DOMAIN s.report
  /\ s.pc \in {"save", "remark"} => s.row \in Findings /\ Leads(th, s.row, s.thread)
  /\ s.pc \in {"reconcile", "reply", "save_decision"} =>
       s.row \in Findings /\ HasRow(s.rows, s.row)

WritersKnow == \A w \in Writers : Knows(threads, writer[w])

PublicationInv == TypeOK /\ RowsNameTheirThread /\ WritersKnow

\* A thread keeps its author and its finding, and none disappears.
Kept(th1, th2) == \A f \in Findings, t \in Nat : Leads(th1, f, t) => Leads(th2, f, t)

-----------------------------------------------------------------------------
\* A new thread and a change of resolved, deleted or notes keep the others.
LEMMA AppendKeeps ==
  ASSUME NEW th \in Seq(Thread), NEW f \in Findings
  PROVE  LET next == Append(th, NewThread("bot", f))
         IN /\ next \in Seq(Thread)
            /\ Kept(th, next)
            /\ Leads(next, f, Len(th) + 1)
<1>. DEFINE new == NewThread("bot", f)
<1>1. new \in Thread /\ new.author = "bot" /\ new.about = f
  <2>1. <<>> \in Seq(Note)
    OBVIOUS
  <2>. QED
    BY <2>1 DEF NewThread, Thread
<1>. HIDE DEF new
<1>2. Append(th, new) \in Seq(Thread)
  BY <1>1
<1>3. /\ DOMAIN Append(th, new) = 1..(Len(th) + 1)
      /\ \A t \in DOMAIN th : Append(th, new)[t] = th[t] /\ t \in 1..(Len(th) + 1)
      /\ Append(th, new)[Len(th) + 1] = new
  BY <1>1
<1>4. Kept(th, Append(th, new))
  BY <1>3 DEF Kept, Leads
<1>5. Leads(Append(th, new), f, Len(th) + 1)
  BY <1>1, <1>3 DEF Leads
<1>. QED
  BY <1>2, <1>4, <1>5 DEF new

LEMMA HumanAppendKeeps ==
  ASSUME NEW th \in Seq(Thread)
  PROVE  LET next == Append(th, NewThread("human", None))
         IN next \in Seq(Thread) /\ Kept(th, next)
<1>. DEFINE new == NewThread("human", None)
<1>1. new \in Thread
  <2>1. <<>> \in Seq(Note)
    OBVIOUS
  <2>. QED
    BY <2>1 DEF NewThread, Thread
<1>. HIDE DEF new
<1>2. Append(th, new) \in Seq(Thread)
  BY <1>1
<1>3. /\ DOMAIN Append(th, new) = 1..(Len(th) + 1)
      /\ \A t \in DOMAIN th : Append(th, new)[t] = th[t] /\ t \in 1..(Len(th) + 1)
  BY <1>1
<1>4. Kept(th, Append(th, new))
  BY <1>3 DEF Kept, Leads
<1>. QED
  BY <1>2, <1>4 DEF new

LEMMA EditKeeps ==
  ASSUME NEW th \in Seq(Thread), NEW t \in DOMAIN th, NEW new \in Thread,
         new.author = th[t].author, new.about = th[t].about
  PROVE  [th EXCEPT ![t] = new] \in Seq(Thread) /\ Kept(th, [th EXCEPT ![t] = new])
<1>1. /\ DOMAIN [th EXCEPT ![t] = new] = DOMAIN th
      /\ \A u \in DOMAIN th : [th EXCEPT ![t] = new][u] = IF u = t THEN new ELSE th[u]
  OBVIOUS
<1>2. [th EXCEPT ![t] = new] \in Seq(Thread)
  OBVIOUS
<1>3. Kept(th, [th EXCEPT ![t] = new])
  BY <1>1 DEF Kept, Leads
<1>. QED
  BY <1>2, <1>3

\* Writing to a discussion that is not there changes nothing.
LEMMA ResolvedKeeps ==
  ASSUME NEW th \in Seq(Thread), NEW t \in Nat, NEW b \in BOOLEAN
  PROVE  /\ [th EXCEPT ![t].resolved = b] \in Seq(Thread)
         /\ Kept(th, [th EXCEPT ![t].resolved = b])
<1>1. CASE t \in DOMAIN th
  <2>1. th[t] \in Thread
    BY <1>1
  <2>2. /\ [th[t] EXCEPT !.resolved = b] \in Thread
        /\ [th[t] EXCEPT !.resolved = b].author = th[t].author
        /\ [th[t] EXCEPT !.resolved = b].about = th[t].about
    BY <2>1 DEF Thread
  <2>3. [th EXCEPT ![t].resolved = b] = [th EXCEPT ![t] = [th[t] EXCEPT !.resolved = b]]
    OBVIOUS
  <2>. QED
    BY <1>1, <2>2, <2>3, EditKeeps
<1>2. CASE t \notin DOMAIN th
  <2>1. [th EXCEPT ![t].resolved = b] = th
    BY <1>2
  <2>. QED
    BY <2>1 DEF Kept
<1>. QED
  BY <1>1, <1>2

LEMMA DeletedKeeps ==
  ASSUME NEW th \in Seq(Thread), NEW t \in DOMAIN th
  PROVE  /\ [th EXCEPT ![t].deleted = TRUE] \in Seq(Thread)
         /\ Kept(th, [th EXCEPT ![t].deleted = TRUE])
<1>1. th[t] \in Thread
  OBVIOUS
<1>2. /\ [th[t] EXCEPT !.deleted = TRUE] \in Thread
      /\ [th[t] EXCEPT !.deleted = TRUE].author = th[t].author
      /\ [th[t] EXCEPT !.deleted = TRUE].about = th[t].about
  BY <1>1 DEF Thread
<1>3. [th EXCEPT ![t].deleted = TRUE] = [th EXCEPT ![t] = [th[t] EXCEPT !.deleted = TRUE]]
  OBVIOUS
<1>. QED
  BY <1>2, <1>3, EditKeeps

LEMMA NoteKeeps ==
  ASSUME NEW th \in Seq(Thread), NEW t \in Nat, NEW note \in Note
  PROVE  /\ [th EXCEPT ![t].notes = Append(@, note)] \in Seq(Thread)
         /\ Kept(th, [th EXCEPT ![t].notes = Append(@, note)])
<1>1. CASE t \in DOMAIN th
  <2>1. th[t] \in Thread
    BY <1>1
  <2>2. Append(th[t].notes, note) \in Seq(Note)
    BY <2>1 DEF Thread
  <2>. DEFINE new == [th[t] EXCEPT !.notes = Append(@, note)]
  <2>3. new \in Thread /\ new.author = th[t].author /\ new.about = th[t].about
    BY <2>1, <2>2 DEF Thread
  <2>4. [th EXCEPT ![t].notes = Append(@, note)] = [th EXCEPT ![t] = new]
    OBVIOUS
  <2>. QED
    BY <1>1, <2>3, <2>4, EditKeeps
<1>2. CASE t \notin DOMAIN th
  <2>1. [th EXCEPT ![t].notes = Append(@, note)] = th
    BY <1>2
  <2>. QED
    BY <2>1 DEF Kept
<1>. QED
  BY <1>1, <1>2

\* What a run knows survives when threads are kept.
LEMMA KnowsKept ==
  ASSUME NEW th1, NEW th2, Kept(th1, th2), NEW s \in WriterState, Knows(th1, s)
  PROVE  Knows(th2, s)
<1>1. ASSUME NEW f \in Findings, HasRow(s.rows, f)
      PROVE  Leads(th2, f, s.rows[f].thread)
  <2>1. s.rows[f].thread \in Nat
    BY <1>1 DEF WriterState, HasRow, Row
  <2>. QED
    BY <1>1, <2>1 DEF Knows, Kept
<1>2. s.thread \in Nat
  BY DEF WriterState
<1>. QED
  BY <1>1, <1>2 DEF Knows, Kept

\* A state of a run with one local variable assigned.
LEMMA FieldUpdate ==
  ASSUME NEW s \in WriterState
  PROVE  /\ \A x \in Kinds \cup {None} : [s EXCEPT !.kind = x] \in WriterState
         /\ \A x \in Pcs : [s EXCEPT !.pc = x] \in WriterState
         /\ \A x \in BOOLEAN : [s EXCEPT !.live = x] \in WriterState
         /\ \A x \in Nat : [s EXCEPT !.sha = x] \in WriterState
         /\ \A x \in Seq(Findings) \cup {None} : [s EXCEPT !.previous = x] \in WriterState
         /\ \A x \in SUBSET Findings : [s EXCEPT !.near = x] \in WriterState
         /\ \A x \in [Findings -> Row \cup {None}] : [s EXCEPT !.rows = x] \in WriterState
         /\ \A x \in Seq(Thread) : [s EXCEPT !.listing = x] \in WriterState
         /\ \A x \in Seq(Findings) : [s EXCEPT !.report = x] \in WriterState
         /\ \A x \in SUBSET Nat : [s EXCEPT !.still = x] \in WriterState
         /\ \A x \in BOOLEAN : [s EXCEPT !.stale = x] \in WriterState
         /\ \A x \in Nat : [s EXCEPT !.place = x] \in WriterState
         /\ \A x \in SUBSET Findings : [s EXCEPT !.used = x] \in WriterState
         /\ \A x \in Findings \cup {None} : [s EXCEPT !.row = x] \in WriterState
         /\ \A x \in Nat : [s EXCEPT !.thread = x] \in WriterState
<1>1. \A x \in Kinds \cup {None} : [s EXCEPT !.kind = x] \in WriterState
  BY DEF WriterState
<1>2. \A x \in Pcs : [s EXCEPT !.pc = x] \in WriterState
  BY DEF WriterState
<1>3. \A x \in BOOLEAN : [s EXCEPT !.live = x] \in WriterState
  BY DEF WriterState
<1>4. \A x \in Nat : [s EXCEPT !.sha = x] \in WriterState
  BY DEF WriterState
<1>5. \A x \in Seq(Findings) \cup {None} : [s EXCEPT !.previous = x] \in WriterState
  BY DEF WriterState
<1>6. \A x \in SUBSET Findings : [s EXCEPT !.near = x] \in WriterState
  BY DEF WriterState
<1>7. \A x \in [Findings -> Row \cup {None}] : [s EXCEPT !.rows = x] \in WriterState
  BY DEF WriterState
<1>8. \A x \in Seq(Thread) : [s EXCEPT !.listing = x] \in WriterState
  BY DEF WriterState
<1>9. \A x \in Seq(Findings) : [s EXCEPT !.report = x] \in WriterState
  BY DEF WriterState
<1>10. \A x \in SUBSET Nat : [s EXCEPT !.still = x] \in WriterState
  BY DEF WriterState
<1>11. \A x \in BOOLEAN : [s EXCEPT !.stale = x] \in WriterState
  BY DEF WriterState
<1>12. \A x \in Nat : [s EXCEPT !.place = x] \in WriterState
  BY DEF WriterState
<1>13. \A x \in SUBSET Findings : [s EXCEPT !.used = x] \in WriterState
  BY DEF WriterState
<1>14. \A x \in Findings \cup {None} : [s EXCEPT !.row = x] \in WriterState
  BY DEF WriterState
<1>15. \A x \in Nat : [s EXCEPT !.thread = x] \in WriterState
  BY DEF WriterState
<1>. QED
  BY <1>1, <1>2, <1>3, <1>4, <1>5, <1>6, <1>7, <1>8, <1>9, <1>10, <1>11, <1>12, <1>13, <1>14, <1>15

\* ... and with the ones assigned that a step changes together.
LEMMA FieldsUpdate ==
  ASSUME NEW s \in WriterState
  PROVE  /\ \A x1 \in Pcs, x2 \in Findings \cup {None} :
              [s EXCEPT !.pc = x1, !.row = x2] \in WriterState
         /\ \A x1 \in Pcs, x2 \in Findings \cup {None}, x3 \in Nat :
              [s EXCEPT !.pc = x1, !.row = x2, !.thread = x3] \in WriterState
         /\ \A x1 \in Pcs, x2 \in Findings \cup {None}, x3 \in SUBSET Findings :
              [s EXCEPT !.pc = x1, !.row = x2, !.used = x3] \in WriterState
         /\ \A x1 \in Pcs, x2 \in [Findings -> Row \cup {None}] :
              [s EXCEPT !.pc = x1, !.rows = x2] \in WriterState
         /\ \A x1 \in Pcs, x2 \in [Findings -> Row \cup {None}], x3 \in Findings \cup {None} :
              [s EXCEPT !.pc = x1, !.rows = x2, !.row = x3] \in WriterState
         /\ \A x1 \in Pcs, x2 \in Seq(Thread) :
              [s EXCEPT !.pc = x1, !.listing = x2] \in WriterState
         /\ \A x1 \in Pcs, x2 \in BOOLEAN :
              [s EXCEPT !.pc = x1, !.stale = x2] \in WriterState
         /\ \A x1 \in Pcs, x2 \in Seq(Findings), x3 \in SUBSET Nat, x4 \in Seq(Findings) \cup {None} :
              [s EXCEPT !.pc = x1, !.report = x2, !.still = x3, !.previous = x4] \in WriterState
<1>1. ASSUME NEW x1 \in Pcs, NEW x2 \in Findings \cup {None}
      PROVE  [s EXCEPT !.pc = x1, !.row = x2] \in WriterState
  <2>1. [s EXCEPT !.pc = x1] \in WriterState
    BY FieldUpdate
  <2>2. [[s EXCEPT !.pc = x1] EXCEPT !.row = x2] \in WriterState
    BY <2>1, FieldUpdate
  <2>3. [s EXCEPT !.pc = x1, !.row = x2]
         = [[s EXCEPT !.pc = x1] EXCEPT !.row = x2]
    OBVIOUS
  <2>. QED
    BY <2>2, <2>3
<1>2. ASSUME NEW x1 \in Pcs, NEW x2 \in Findings \cup {None}, NEW x3 \in Nat
      PROVE  [s EXCEPT !.pc = x1, !.row = x2, !.thread = x3] \in WriterState
  <2>1. [s EXCEPT !.pc = x1] \in WriterState
    BY FieldUpdate
  <2>2. [[s EXCEPT !.pc = x1] EXCEPT !.row = x2] \in WriterState
    BY <2>1, FieldUpdate
  <2>3. [[[s EXCEPT !.pc = x1] EXCEPT !.row = x2] EXCEPT !.thread = x3] \in WriterState
    BY <2>2, FieldUpdate
  <2>4. [s EXCEPT !.pc = x1, !.row = x2, !.thread = x3]
         = [[[s EXCEPT !.pc = x1] EXCEPT !.row = x2] EXCEPT !.thread = x3]
    OBVIOUS
  <2>. QED
    BY <2>3, <2>4
<1>3. ASSUME NEW x1 \in Pcs, NEW x2 \in Findings \cup {None}, NEW x3 \in SUBSET Findings
      PROVE  [s EXCEPT !.pc = x1, !.row = x2, !.used = x3] \in WriterState
  <2>1. [s EXCEPT !.pc = x1] \in WriterState
    BY FieldUpdate
  <2>2. [[s EXCEPT !.pc = x1] EXCEPT !.row = x2] \in WriterState
    BY <2>1, FieldUpdate
  <2>3. [[[s EXCEPT !.pc = x1] EXCEPT !.row = x2] EXCEPT !.used = x3] \in WriterState
    BY <2>2, FieldUpdate
  <2>4. [s EXCEPT !.pc = x1, !.row = x2, !.used = x3]
         = [[[s EXCEPT !.pc = x1] EXCEPT !.row = x2] EXCEPT !.used = x3]
    OBVIOUS
  <2>. QED
    BY <2>3, <2>4
<1>4. ASSUME NEW x1 \in Pcs, NEW x2 \in [Findings -> Row \cup {None}]
      PROVE  [s EXCEPT !.pc = x1, !.rows = x2] \in WriterState
  <2>1. [s EXCEPT !.pc = x1] \in WriterState
    BY FieldUpdate
  <2>2. [[s EXCEPT !.pc = x1] EXCEPT !.rows = x2] \in WriterState
    BY <2>1, FieldUpdate
  <2>3. [s EXCEPT !.pc = x1, !.rows = x2]
         = [[s EXCEPT !.pc = x1] EXCEPT !.rows = x2]
    OBVIOUS
  <2>. QED
    BY <2>2, <2>3
<1>5. ASSUME NEW x1 \in Pcs, NEW x2 \in [Findings -> Row \cup {None}], NEW x3 \in Findings \cup {None}
      PROVE  [s EXCEPT !.pc = x1, !.rows = x2, !.row = x3] \in WriterState
  <2>1. [s EXCEPT !.pc = x1] \in WriterState
    BY FieldUpdate
  <2>2. [[s EXCEPT !.pc = x1] EXCEPT !.rows = x2] \in WriterState
    BY <2>1, FieldUpdate
  <2>3. [[[s EXCEPT !.pc = x1] EXCEPT !.rows = x2] EXCEPT !.row = x3] \in WriterState
    BY <2>2, FieldUpdate
  <2>4. [s EXCEPT !.pc = x1, !.rows = x2, !.row = x3]
         = [[[s EXCEPT !.pc = x1] EXCEPT !.rows = x2] EXCEPT !.row = x3]
    OBVIOUS
  <2>. QED
    BY <2>3, <2>4
<1>6. ASSUME NEW x1 \in Pcs, NEW x2 \in Seq(Thread)
      PROVE  [s EXCEPT !.pc = x1, !.listing = x2] \in WriterState
  <2>1. [s EXCEPT !.pc = x1] \in WriterState
    BY FieldUpdate
  <2>2. [[s EXCEPT !.pc = x1] EXCEPT !.listing = x2] \in WriterState
    BY <2>1, FieldUpdate
  <2>3. [s EXCEPT !.pc = x1, !.listing = x2]
         = [[s EXCEPT !.pc = x1] EXCEPT !.listing = x2]
    OBVIOUS
  <2>. QED
    BY <2>2, <2>3
<1>7. ASSUME NEW x1 \in Pcs, NEW x2 \in BOOLEAN
      PROVE  [s EXCEPT !.pc = x1, !.stale = x2] \in WriterState
  <2>1. [s EXCEPT !.pc = x1] \in WriterState
    BY FieldUpdate
  <2>2. [[s EXCEPT !.pc = x1] EXCEPT !.stale = x2] \in WriterState
    BY <2>1, FieldUpdate
  <2>3. [s EXCEPT !.pc = x1, !.stale = x2]
         = [[s EXCEPT !.pc = x1] EXCEPT !.stale = x2]
    OBVIOUS
  <2>. QED
    BY <2>2, <2>3
<1>8. ASSUME NEW x1 \in Pcs, NEW x2 \in Seq(Findings), NEW x3 \in SUBSET Nat, NEW x4 \in Seq(Findings) \cup {None}
      PROVE  [s EXCEPT !.pc = x1, !.report = x2, !.still = x3, !.previous = x4] \in WriterState
  <2>1. [s EXCEPT !.pc = x1] \in WriterState
    BY FieldUpdate
  <2>2. [[s EXCEPT !.pc = x1] EXCEPT !.report = x2] \in WriterState
    BY <2>1, FieldUpdate
  <2>3. [[[s EXCEPT !.pc = x1] EXCEPT !.report = x2] EXCEPT !.still = x3] \in WriterState
    BY <2>2, FieldUpdate
  <2>4. [[[[s EXCEPT !.pc = x1] EXCEPT !.report = x2] EXCEPT !.still = x3] EXCEPT !.previous = x4] \in WriterState
    BY <2>3, FieldUpdate
  <2>5. [s EXCEPT !.pc = x1, !.report = x2, !.still = x3, !.previous = x4]
         = [[[[s EXCEPT !.pc = x1] EXCEPT !.report = x2] EXCEPT !.still = x3] EXCEPT !.previous = x4]
    OBVIOUS
  <2>. QED
    BY <2>4, <2>5
<1>. QED
  BY <1>1, <1>2, <1>3, <1>4, <1>5, <1>6, <1>7, <1>8

\* The place after a finding.
LEMMA NextFindingKnows ==
  ASSUME NEW th, NEW s \in WriterState,
         \A f \in Findings : HasRow(s.rows, f) => Leads(th, f, s.rows[f].thread)
  PROVE  NextFinding(s) \in WriterState /\ Knows(th, NextFinding(s))
<1>1. CASE s.place < Len(s.report)
  <2>1. s.place + 1 \in DOMAIN s.report
    BY <1>1 DEF WriterState
  <2>. DEFINE n == NextFinding(s)
  <2>2. n = [s EXCEPT !.pc = "place", !.place = s.place + 1, !.row = None, !.thread = 0]
    BY <1>1 DEF NextFinding
  <2>3. "place" \in Pcs /\ s.place + 1 \in Nat
    BY DEF WriterState, Pcs
  <2>4. n \in WriterState
    <3>. DEFINE s1 == [s EXCEPT !.pc = "place"]
                s2 == [s1 EXCEPT !.place = s.place + 1]
                s3 == [s2 EXCEPT !.row = None]
    <3>1. s1 \in WriterState
      BY <2>3, FieldUpdate
    <3>. HIDE DEF s1
    <3>2. s2 \in WriterState
      BY <2>3, <3>1, FieldUpdate
    <3>. HIDE DEF s2
    <3>3. s3 \in WriterState
      BY <3>2, FieldUpdate
    <3>. HIDE DEF s3
    <3>4. [s3 EXCEPT !.thread = 0] \in WriterState
      BY <3>3, FieldUpdate
    <3>5. n = [s3 EXCEPT !.thread = 0]
      BY <2>2 DEF s1, s2, s3
    <3>. QED
      BY <3>4, <3>5
  <2>5. n.rows = s.rows /\ n.report = s.report /\ n.pc = "place" /\ n.place = s.place + 1
    BY <2>2 DEF WriterState
  <2>. HIDE DEF n
  <2>6. Knows(th, n)
    BY <2>1, <2>5 DEF Knows
  <2>. QED
    BY <2>4, <2>6 DEF n
<1>2. CASE ~(s.place < Len(s.report))
  <2>. DEFINE n == NextFinding(s)
  <2>1. n = [s EXCEPT !.pc = "retire", !.place = 0, !.row = None, !.thread = 0]
    BY <1>2 DEF NextFinding
  <2>2. "retire" \in Pcs
    BY DEF Pcs
  <2>3. n \in WriterState
    <3>. DEFINE s1 == [s EXCEPT !.pc = "retire"]
                s2 == [s1 EXCEPT !.place = 0]
                s3 == [s2 EXCEPT !.row = None]
    <3>1. s1 \in WriterState
      BY <2>2, FieldUpdate
    <3>. HIDE DEF s1
    <3>2. s2 \in WriterState
      BY <3>1, FieldUpdate
    <3>. HIDE DEF s2
    <3>3. s3 \in WriterState
      BY <3>2, FieldUpdate
    <3>. HIDE DEF s3
    <3>4. [s3 EXCEPT !.thread = 0] \in WriterState
      BY <3>3, FieldUpdate
    <3>5. n = [s3 EXCEPT !.thread = 0]
      BY <2>1 DEF s1, s2, s3
    <3>. QED
      BY <3>4, <3>5
  <2>4. n.rows = s.rows /\ n.pc = "retire"
    BY <2>1 DEF WriterState
  <2>. HIDE DEF n
  <2>5. Knows(th, n)
    BY <2>4 DEF Knows
  <2>. QED
    BY <2>3, <2>5 DEF n
<1>. QED
  BY <1>1, <1>2

LEMMA IdleKnows ==
  ASSUME NEW th
  PROVE  IdleWriter \in WriterState /\ Knows(th, IdleWriter)
<1>1. <<>> \in Seq(Thread) /\ <<>> \in Seq(Findings)
  OBVIOUS
<1>2. NoRows \in [Findings -> Row \cup {None}]
  BY DEF NoRows
<1>3. IdleWriter \in WriterState
  BY <1>1, <1>2 DEF IdleWriter, WriterState, Pcs
<1>4. Knows(th, IdleWriter)
  BY DEF Knows, IdleWriter, NoRows, HasRow
<1>. QED
  BY <1>3, <1>4
-----------------------------------------------------------------------------
(***************************************************************************)
(* A step of a writer preserves the invariant if the state it takes the    *)
(* writer to is well typed and knows what it has to.                       *)
(***************************************************************************)
\* The variables the invariant only gives types.
OthersTyped ==
  /\ head \in Nat
  /\ edited \subseteq Findings
  /\ queue \in [review: BOOLEAN, replies: SUBSET Nat]
  /\ lastDone \in Seq(Findings) \cup {None}
  /\ reviewed \subseteq Nat
  /\ budget \in [{"pushes", "replies", "humanThreads", "resolves", "deletions", "failures"} -> Nat]

LEMMA Typed ==
  /\ TypeOK <=> /\ tracked \in [Findings -> Row \cup {None}]
                /\ threads \in Seq(Thread)
                /\ writer \in [Writers -> WriterState]
                /\ OthersTyped
  /\ (TypeOK <=> /\ tracked \in [Findings -> Row \cup {None}]
                 /\ threads \in Seq(Thread)
                 /\ writer \in [Writers -> WriterState]
                 /\ OthersTyped)'
<1>1. TypeOK <=> /\ tracked \in [Findings -> Row \cup {None}]
                /\ threads \in Seq(Thread)
                /\ writer \in [Writers -> WriterState]
                /\ OthersTyped
  BY DEF TypeOK, OthersTyped
<1>2. (TypeOK <=> /\ tracked \in [Findings -> Row \cup {None}]
                 /\ threads \in Seq(Thread)
                 /\ writer \in [Writers -> WriterState]
                 /\ OthersTyped)'
  BY DEF TypeOK, OthersTyped
<1>. QED
  BY <1>1, <1>2

LEMMA BudgetTyped ==
  ASSUME TypeOK,
         NEW what \in {"pushes", "replies", "humanThreads", "resolves", "deletions", "failures"},
         Spend(what)
  PROVE  budget' \in [{"pushes", "replies", "humanThreads", "resolves", "deletions", "failures"} -> Nat]
BY DEF TypeOK, Spend

LEMMA WriterMoves ==
  ASSUME PublicationInv, OthersTyped', NEW w \in Writers, NEW s \in WriterState,
         writer' = [writer EXCEPT ![w] = s],
         threads' \in Seq(Thread), Kept(threads, threads'), Knows(threads', s),
         tracked' \in [Findings -> Row \cup {None}],
         \A f \in Findings : HasRow(tracked', f) => Leads(threads', f, tracked'[f].thread)
  PROVE  PublicationInv'
<1>1. TypeOK'
  <2>1. writer' \in [Writers -> WriterState]
    BY DEF PublicationInv, TypeOK
  <2>. QED
    BY <2>1, Typed
<1>2. RowsNameTheirThread'
  BY DEF RowsNameTheirThread, Leads
<1>3. ASSUME NEW v \in Writers
      PROVE  Knows(threads', writer'[v])
  <2>1. writer \in [Writers -> WriterState]
    BY DEF PublicationInv, TypeOK
  <2>2. CASE v = w
    BY <2>1, <2>2
  <2>3. CASE v # w
    <3>1. writer'[v] = writer[v] /\ writer[v] \in WriterState
      BY <2>1, <2>3
    <3>2. Knows(threads, writer[v])
      BY DEF PublicationInv, WritersKnow
    <3>3. Knows(threads', writer[v])
      BY <3>1, <3>2, KnowsKept
    <3>. QED
      BY <3>1, <3>3
  <2>. QED
    BY <2>2, <2>3
<1>4. WritersKnow'
  BY <1>3 DEF WritersKnow
<1>. QED
  BY <1>1, <1>2, <1>4 DEF PublicationInv

\* The same when the table is left alone.
LEMMA RowsStay ==
  ASSUME PublicationInv, OthersTyped', NEW w \in Writers, NEW s \in WriterState,
         writer' = [writer EXCEPT ![w] = s],
         threads' \in Seq(Thread), Kept(threads, threads'), Knows(threads', s),
         tracked' = tracked
  PROVE  PublicationInv'
<1>1. tracked \in [Findings -> Row \cup {None}]
  BY DEF PublicationInv, TypeOK
<1>2. ASSUME NEW f \in Findings, HasRow(tracked, f)
      PROVE  Leads(threads', f, tracked[f].thread)
  <2>1. Leads(threads, f, tracked[f].thread) /\ tracked[f].thread \in Nat
    BY <1>1, <1>2 DEF PublicationInv, RowsNameTheirThread, Leads, HasRow, Row
  <2>. QED
    BY <2>1 DEF Kept
<1>. QED
  BY <1>1, <1>2, WriterMoves

\* A step that only changes the local state of w.
LEMMA LocalStep ==
  ASSUME PublicationInv, NEW w \in Writers, NEW pc, NEW s \in WriterState,
         Knows(threads, s), Local(w, pc, s)
  PROVE  PublicationInv'
<1>1. /\ writer' = [writer EXCEPT ![w] = s]
      /\ tracked' = tracked /\ threads' = threads
      /\ OthersTyped'
  BY Typed DEF Local, envVars, PublicationInv, OthersTyped
<1>2. threads \in Seq(Thread) /\ Kept(threads, threads)
  BY Typed DEF PublicationInv, Kept
<1>. QED
  BY <1>1, <1>2, RowsStay

\* A run that ends, whatever it wrote to GitLab.
LEMMA RunEnds ==
  ASSUME PublicationInv, OthersTyped', NEW w \in Writers, Leave(w), tracked' = tracked,
         threads' \in Seq(Thread), Kept(threads, threads')
  PROVE  PublicationInv'
<1>1. IdleWriter \in WriterState /\ Knows(threads', IdleWriter)
  BY IdleKnows
<1>2. writer' = [writer EXCEPT ![w] = IdleWriter]
  BY DEF Leave
<1>. QED
  BY <1>1, <1>2, RowsStay
-----------------------------------------------------------------------------
(***************************************************************************)
(* The steps of GitLab and of humans.                                      *)
(***************************************************************************)
LEMMA EnqueueKeeps ==
  ASSUME PublicationInv, EnqueueReview, UNCHANGED <<tracked, threads, lastDone, reviewed>>,
         head' \in Nat, edited' \subseteq Findings,
         budget' \in [{"pushes", "replies", "humanThreads", "resolves", "deletions", "failures"} -> Nat]
  PROVE  PublicationInv'
<1>1. TypeOK /\ writer \in [Writers -> WriterState]
  BY DEF PublicationInv, TypeOK
<1>2. ASSUME NEW w \in Writers
      PROVE  writer'[w] \in WriterState /\ Knows(threads, writer'[w])
  <2>1. writer'[w] = [writer[w] EXCEPT !.live = FALSE]
    BY <1>1, <1>2 DEF EnqueueReview
  <2>2. writer[w] \in WriterState /\ Knows(threads, writer[w])
    BY <1>1, <1>2 DEF PublicationInv, WritersKnow
  <2>3. writer'[w] \in WriterState
    BY <2>1, <2>2, FieldUpdate
  <2>4. /\ writer'[w].rows = writer[w].rows /\ writer'[w].pc = writer[w].pc
        /\ writer'[w].place = writer[w].place /\ writer'[w].report = writer[w].report
        /\ writer'[w].row = writer[w].row /\ writer'[w].thread = writer[w].thread
    BY <2>1, <2>2 DEF WriterState
  <2>5. Knows(threads, writer'[w])
    BY <2>2, <2>4 DEF Knows
  <2>. QED
    BY <2>3, <2>5
<1>3. writer' \in [Writers -> WriterState]
  <2>1. writer' = [w \in Writers |-> writer'[w]]
    BY DEF EnqueueReview
  <2>. QED
    BY <1>2, <2>1
<1>4. OthersTyped'
  <2>1. queue' \in [review: BOOLEAN, replies: SUBSET Nat]
    BY DEF EnqueueReview
  <2>. QED
    BY <1>1, <2>1 DEF OthersTyped, TypeOK
<1>5. TypeOK'
  BY <1>1, <1>3, <1>4, Typed
<1>6. WritersKnow'
  BY <1>2 DEF WritersKnow
<1>7. RowsNameTheirThread'
  BY DEF PublicationInv, RowsNameTheirThread
<1>. QED
  BY <1>5, <1>6, <1>7 DEF PublicationInv

\* Humans change threads without disturbing what rows and writers rely on.
LEMMA HumansKeep ==
  ASSUME PublicationInv, UNCHANGED <<tracked, writer>>, OthersTyped',
         threads' \in Seq(Thread), Kept(threads, threads')
  PROVE  PublicationInv'
<1>1. TypeOK'
  BY Typed DEF PublicationInv
<1>2. RowsNameTheirThread'
  <2>1. ASSUME NEW f \in Findings, HasRow(tracked, f)
        PROVE  Leads(threads', f, tracked[f].thread)
    <3>1. Leads(threads, f, tracked[f].thread) /\ tracked[f].thread \in Nat
      BY <2>1 DEF PublicationInv, TypeOK, RowsNameTheirThread, Leads, HasRow, Row
    <3>. QED
      BY <3>1 DEF Kept
  <2>. QED
    BY <2>1 DEF RowsNameTheirThread, Leads
<1>3. ASSUME NEW w \in Writers
      PROVE  Knows(threads', writer[w])
  BY KnowsKept DEF PublicationInv, TypeOK, WritersKnow
<1>4. WritersKnow'
  BY <1>3 DEF WritersKnow
<1>. QED
  BY <1>1, <1>2, <1>4 DEF PublicationInv

LEMMA GitLabKeeps == PublicationInv /\ GitLabStep => PublicationInv'
<1>. SUFFICES ASSUME PublicationInv, GitLabStep PROVE PublicationInv'
  OBVIOUS
<1>. USE DEF PublicationInv
<1>1. TypeOK /\ threads \in Seq(Thread)
  BY DEF TypeOK
<1>2. CASE Push
  <2>1. budget' \in [{"pushes", "replies", "humanThreads", "resolves", "deletions", "failures"} -> Nat]
    BY <1>1, <1>2, BudgetTyped DEF Push
  <2>2. head' \in Nat
    BY <1>1, <1>2 DEF Push, TypeOK
  <2>3. edited' \subseteq Findings
    BY <1>2, PublicationAssumption DEF Push
  <2>. QED
    BY <1>2, <2>1, <2>2, <2>3, EnqueueKeeps DEF Push
<1>3. CASE RequestAgain
  <2>1. head' \in Nat /\ edited' \subseteq Findings
    BY <1>1, <1>3 DEF RequestAgain, TypeOK
  <2>2. budget' \in [{"pushes", "replies", "humanThreads", "resolves", "deletions", "failures"} -> Nat]
    BY <1>1, <1>3 DEF RequestAgain, TypeOK
  <2>. QED
    BY <1>3, <2>1, <2>2, EnqueueKeeps DEF RequestAgain
<1>4. ASSUME NEW what \in {"pushes", "replies", "humanThreads", "resolves", "deletions", "failures"},
             Spend(what), UNCHANGED <<head, edited, lastDone, reviewed>>,
             queue' \in [review: BOOLEAN, replies: SUBSET Nat]
      PROVE  OthersTyped'
  BY <1>1, <1>4, BudgetTyped DEF OthersTyped, TypeOK
<1>5. ASSUME NEW t \in Nat, EnqueueReply(t)
      PROVE  queue' \in [review: BOOLEAN, replies: SUBSET Nat]
  BY <1>1, <1>5 DEF EnqueueReply, TypeOK
<1>6. CASE OpenThread
  <2>1. OthersTyped'
    BY <1>1, <1>4, <1>5, <1>6 DEF OpenThread
  <2>2. threads' \in Seq(Thread) /\ Kept(threads, threads')
    BY <1>1, <1>6, HumanAppendKeeps DEF OpenThread
  <2>. QED
    BY <1>6, <2>1, <2>2, HumansKeep DEF OpenThread
<1>7. ASSUME NEW t \in DOMAIN threads, PostReply(t)
      PROVE  PublicationInv'
  <2>1. t \in Nat /\ HumanNote \in Note
    BY <1>1 DEF HumanNote, Note
  <2>2. OthersTyped'
    BY <1>4, <1>5, <1>7, <2>1 DEF PostReply
  <2>3. threads' \in Seq(Thread) /\ Kept(threads, threads')
    BY <1>1, <1>7, <2>1, NoteKeeps DEF PostReply
  <2>. QED
    BY <1>7, <2>2, <2>3, HumansKeep DEF PostReply
<1>8. ASSUME NEW t \in DOMAIN threads, ResolveByHuman(t)
      PROVE  PublicationInv'
  <2>1. t \in Nat
    BY <1>1
  <2>2. OthersTyped'
    BY <1>1, <1>4, <1>8 DEF ResolveByHuman, TypeOK
  <2>3. threads' \in Seq(Thread) /\ Kept(threads, threads')
    BY <1>1, <1>8, <2>1, ResolvedKeeps DEF ResolveByHuman
  <2>. QED
    BY <1>8, <2>2, <2>3, HumansKeep DEF ResolveByHuman
<1>9. ASSUME NEW t \in DOMAIN threads, DeleteThread(t)
      PROVE  PublicationInv'
  <2>1. OthersTyped'
    BY <1>1, <1>4, <1>9 DEF DeleteThread, TypeOK
  <2>2. threads' \in Seq(Thread) /\ Kept(threads, threads')
    BY <1>1, <1>9, DeletedKeeps DEF DeleteThread
  <2>. QED
    BY <1>9, <2>1, <2>2, HumansKeep DEF DeleteThread
<1>. QED
  BY <1>2, <1>3, <1>6, <1>7, <1>8, <1>9 DEF GitLabStep
-----------------------------------------------------------------------------
(***************************************************************************)
(* The steps of a full review.                                             *)
(***************************************************************************)
\* What the invariant says of one writer.
LEMMA AboutWriter ==
  ASSUME PublicationInv, NEW w \in Writers
  PROVE  /\ writer[w] \in WriterState
         /\ Knows(threads, writer[w])
         /\ \A f \in Findings : HasRow(writer[w].rows, f) =>
              Leads(threads, f, writer[w].rows[f].thread)
         /\ threads \in Seq(Thread)
         /\ Kept(threads, threads)
BY DEF PublicationInv, TypeOK, WritersKnow, Knows, Kept

\* A local state that is only at another point, where nothing more is known.
LEMMA MovesOn ==
  ASSUME NEW th, NEW s \in WriterState, NEW n \in WriterState, Knows(th, s),
         n.rows = s.rows,
         n.pc \notin {"place", "create_plain", "save", "remark",
                     "reconcile", "reply", "save_decision"}
  PROVE  Knows(th, n)
BY DEF Knows

LEMMA StartReviewKeeps ==
  ASSUME PublicationInv, NEW w \in Writers, StartReview(w)
  PROVE  PublicationInv'
<1>. DEFINE near == edited
            n == [IdleWriter EXCEPT !.kind = "full_review", !.pc = "list_rows", !.live = TRUE,
                                    !.sha = head, !.previous = lastDone, !.near = near]
<1>1. /\ writer' = [writer EXCEPT ![w] = n]
      /\ tracked' = tracked /\ threads' = threads
  BY DEF StartReview
<1>2. OthersTyped'
  BY DEF StartReview, envVars, PublicationInv, TypeOK, OthersTyped
<1>3. /\ n.kind = "full_review" /\ n.pc = "list_rows" /\ n.live = TRUE /\ n.sha = head
      /\ n.previous = lastDone /\ n.near = near /\ n.rows = NoRows
  BY DEF IdleWriter
<1>4. n \in WriterState
  <2>. DEFINE s1 == [IdleWriter EXCEPT !.kind = "full_review"]
              s2 == [s1 EXCEPT !.pc = "list_rows"]
              s3 == [s2 EXCEPT !.live = TRUE]
              s4 == [s3 EXCEPT !.sha = head]
              s5 == [s4 EXCEPT !.previous = lastDone]
              s6 == [s5 EXCEPT !.near = near]
  <2>1. /\ head \in Nat /\ lastDone \in Seq(Findings) \cup {None}
        /\ near \in SUBSET Findings /\ "list_rows" \in Pcs
        /\ "full_review" \in Kinds \cup {None}
    BY DEF PublicationInv, TypeOK, Pcs, Kinds
  <2>2. n = s6
    BY DEF IdleWriter
  <2>. HIDE DEF near, n
  <2>3. s1 \in WriterState
    BY <2>1, IdleKnows, FieldUpdate
  <2>. HIDE DEF s1
  <2>4. s2 \in WriterState
    BY <2>1, <2>3, FieldUpdate
  <2>. HIDE DEF s2
  <2>5. s3 \in WriterState
    BY <2>4, FieldUpdate
  <2>. HIDE DEF s3
  <2>6. s4 \in WriterState
    BY <2>1, <2>5, FieldUpdate
  <2>. HIDE DEF s4
  <2>7. s5 \in WriterState
    BY <2>1, <2>6, FieldUpdate
  <2>. HIDE DEF s5
  <2>8. s6 \in WriterState
    BY <2>1, <2>7, FieldUpdate
  <2>. QED
    BY <2>2, <2>8
<1>. HIDE DEF n
<1>5. Knows(threads, n)
  BY <1>3 DEF Knows, NoRows, HasRow
<1>. QED
  BY <1>1, <1>2, <1>4, <1>5, AboutWriter, RowsStay

LEMMA ListRowsKeeps ==
  ASSUME PublicationInv, NEW w \in Writers, ListRows(w)
  PROVE  PublicationInv'
<1>. DEFINE n == [writer[w] EXCEPT !.pc = "run_agent", !.rows = tracked]
<1>1. writer[w] \in WriterState /\ tracked \in [Findings -> Row \cup {None}]
  BY DEF PublicationInv, TypeOK
<1>2. n \in WriterState
  BY <1>1, FieldsUpdate DEF Pcs
<1>3. n.pc = "run_agent" /\ n.rows = tracked
  BY <1>1 DEF WriterState
<1>4. Local(w, "list_rows", n)
  BY DEF ListRows
<1>. HIDE DEF n
<1>5. Knows(threads, n)
  BY <1>3 DEF Knows, PublicationInv, RowsNameTheirThread, Leads
<1>. QED
  BY <1>2, <1>4, <1>5, LocalStep

LEMMA StillPresentType ==
  ASSUME NEW previous, NEW report \in Seq(Findings)
  PROVE  StillPresent(previous, report) \in SUBSET Nat
<1>1. StillPresent(previous, report) \subseteq DOMAIN report
  BY DEF StillPresent
<1>. QED
  BY <1>1

LEMMA RunAgentKeeps ==
  ASSUME PublicationInv, NEW w \in Writers, RunAgent(w)
  PROVE  PublicationInv'
<1>1. PICK report \in Reports :
        Local(w, "run_agent",
              [writer[w] EXCEPT !.pc = "check_status", !.report = report,
                                !.still = StillPresent(writer[w].previous, report),
                                !.previous = None])
  BY DEF RunAgent
<1>. DEFINE still == StillPresent(writer[w].previous, report)
            n == [writer[w] EXCEPT !.pc = "check_status", !.report = report,
                                   !.still = still, !.previous = None]
<1>2. report \in Seq(Findings)
  BY PublicationAssumption
<1>3. still \in SUBSET Nat
  BY <1>2, StillPresentType
<1>. HIDE DEF still
<1>4. writer[w] \in WriterState /\ Knows(threads, writer[w])
  BY AboutWriter
<1>5. n \in WriterState
  BY <1>2, <1>3, <1>4, FieldsUpdate DEF Pcs
<1>6. n.rows = writer[w].rows /\ n.pc = "check_status"
  BY <1>4 DEF WriterState
<1>7. Local(w, "run_agent", n)
  BY <1>1 DEF still
<1>. HIDE DEF n
<1>8. Knows(threads, n)
  BY <1>4, <1>5, <1>6, MovesOn
<1>. QED
  BY <1>5, <1>7, <1>8, LocalStep

LEMMA CheckStatusKeeps ==
  ASSUME PublicationInv, NEW w \in Writers, CheckStatus(w)
  PROVE  PublicationInv'
<1>. DEFINE n == IF LiveReview(w) THEN [writer[w] EXCEPT !.pc = "check_head"] ELSE IdleWriter
<1>1. writer[w] \in WriterState /\ Knows(threads, writer[w])
  BY AboutWriter
<1>2. CASE LiveReview(w)
  <2>1. n \in WriterState
    BY <1>1, <1>2, FieldUpdate DEF Pcs
  <2>2. n.rows = writer[w].rows /\ n.pc = "check_head"
    BY <1>1, <1>2 DEF WriterState
  <2>3. Local(w, "check_status", n)
    BY DEF CheckStatus
  <2>. HIDE DEF n
  <2>4. Knows(threads, n)
    BY <1>1, <2>1, <2>2, MovesOn
  <2>. QED
    BY <2>1, <2>3, <2>4, LocalStep
<1>3. CASE ~LiveReview(w)
  BY <1>3, IdleKnows, LocalStep DEF CheckStatus
<1>. QED
  BY <1>2, <1>3

LEMMA CheckHeadKeeps ==
  ASSUME PublicationInv, NEW w \in Writers, CheckHead(w)
  PROVE  PublicationInv'
<1>. DEFINE stale == head # writer[w].sha
            n == [writer[w] EXCEPT !.pc = "list_threads", !.stale = stale]
<1>1. writer[w] \in WriterState /\ Knows(threads, writer[w]) /\ stale \in BOOLEAN
  BY AboutWriter
<1>. HIDE DEF stale
<1>2. n \in WriterState
  BY <1>1, FieldsUpdate DEF Pcs
<1>3. n.rows = writer[w].rows /\ n.pc = "list_threads"
  BY <1>1 DEF WriterState
<1>4. Local(w, "check_head", n)
  BY DEF CheckHead, stale
<1>. HIDE DEF n
<1>5. Knows(threads, n)
  BY <1>1, <1>2, <1>3, MovesOn
<1>. QED
  BY <1>2, <1>4, <1>5, LocalStep

LEMMA ListThreadsKeeps ==
  ASSUME PublicationInv, NEW w \in Writers, ListThreads(w)
  PROVE  PublicationInv'
<1>. DEFINE s == [writer[w] EXCEPT !.listing = threads]
<1>1. s \in WriterState
  BY AboutWriter, FieldUpdate
<1>2. s.rows = writer[w].rows
  BY AboutWriter DEF WriterState
<1>3. Local(w, "list_threads", NextFinding(s))
  BY DEF ListThreads
<1>. HIDE DEF s
<1>4. NextFinding(s) \in WriterState /\ Knows(threads, NextFinding(s))
  BY <1>1, <1>2, AboutWriter, NextFindingKnows
<1>. QED
  BY <1>3, <1>4, LocalStep

LEMMA FindingAtHand ==
  ASSUME PublicationInv, NEW w \in Writers,
         writer[w].pc \in {"place", "create_plain", "save", "remark"}
  PROVE  Finding(w) \in Findings
<1>1. writer[w].report \in Seq(Findings) /\ writer[w].place \in DOMAIN writer[w].report
  BY AboutWriter DEF WriterState, Knows
<1>. QED
  BY <1>1 DEF Finding

\* A row that may be matched is one of the snapshot.
LEMMA MatchedRowExists ==
  ASSUME NEW w \in Writers, NEW f \in RowsForFinding(w), Finding(w) \in Findings
  PROVE  f \in Findings /\ HasRow(writer[w].rows, f)
BY DEF RowsForFinding, MatchingRows

\* w is about to save the row f for thread t.
LEMMA ReadyToSave ==
  ASSUME NEW th, NEW s \in WriterState, Knows(th, s),
         NEW f \in Findings, NEW t \in Nat, Leads(th, f, t),
         s.place \in DOMAIN s.report
  PROVE  LET n == [s EXCEPT !.pc = "save", !.row = f, !.thread = t]
         IN n \in WriterState /\ Knows(th, n)
<1>. DEFINE n == [s EXCEPT !.pc = "save", !.row = f, !.thread = t]
<1>1. n \in WriterState
  BY FieldsUpdate DEF Pcs
<1>2. /\ n.rows = s.rows /\ n.pc = "save" /\ n.row = f /\ n.thread = t
      /\ n.place = s.place /\ n.report = s.report
  BY DEF WriterState
<1>. HIDE DEF n
<1>3. Knows(th, n)
  BY <1>2 DEF Knows
<1>. QED
  BY <1>1, <1>3 DEF n

LEMMA PlaceInThreadKeeps ==
  ASSUME PublicationInv, NEW w \in Writers, PlaceInThread(w)
  PROVE  PublicationInv'
<1>1. PICK f \in RowsForFinding(w) :
        /\ \/ threads' = [threads EXCEPT ![writer[w].rows[f].thread].resolved = FALSE]
           \/ threads' = threads
        /\ writer' = [writer EXCEPT ![w].pc = "save", ![w].row = f,
                                    ![w].thread = writer[w].rows[f].thread]
  BY DEF PlaceInThread
<1>. DEFINE t == writer[w].rows[f].thread
<1>2. writer[w] \in WriterState /\ Knows(threads, writer[w]) /\ threads \in Seq(Thread)
  BY AboutWriter
<1>3. writer[w].pc = "place" /\ writer[w].place \in DOMAIN writer[w].report
  BY <1>2 DEF PlaceInThread, At, Knows
<1>4. f \in Findings /\ HasRow(writer[w].rows, f)
  BY <1>3, FindingAtHand, MatchedRowExists
<1>5. t \in Nat
  BY <1>2, <1>4 DEF WriterState, HasRow, Row
<1>6. threads' \in Seq(Thread) /\ Kept(threads, threads')
  BY <1>1, <1>2, <1>5, AboutWriter, ResolvedKeeps
<1>7. Knows(threads', writer[w]) /\ Leads(threads', f, t)
  BY <1>2, <1>4, <1>6, KnowsKept DEF Knows
<1>. DEFINE n == [writer[w] EXCEPT !.pc = "save", !.row = f, !.thread = t]
<1>8. n \in WriterState /\ Knows(threads', n)
  BY <1>2, <1>3, <1>4, <1>5, <1>7, ReadyToSave
<1>9. writer' = [writer EXCEPT ![w] = n]
  BY <1>1
<1>10. tracked' = tracked /\ OthersTyped'
  BY DEF PlaceInThread, envVars, PublicationInv, TypeOK, OthersTyped
<1>. HIDE DEF n, t
<1>. QED
  BY <1>6, <1>8, <1>9, <1>10, RowsStay

LEMMA CreateThreadKeeps ==
  ASSUME PublicationInv, NEW w \in Writers, CreateThread(w)
  PROVE  PublicationInv'
<1>. DEFINE f == Finding(w)
            t == Len(threads) + 1
            n == [writer[w] EXCEPT !.pc = "save", !.row = f, !.thread = t]
<1>1. writer[w] \in WriterState /\ Knows(threads, writer[w]) /\ threads \in Seq(Thread)
  BY AboutWriter
<1>2. writer[w].pc \in {"place", "create_plain"}
  BY DEF CreateThread, NeedsThread, At
<1>3. f \in Findings /\ writer[w].place \in DOMAIN writer[w].report
  BY <1>1, <1>2, FindingAtHand DEF Knows
<1>4. threads' = Append(threads, NewThread("bot", f))
  BY DEF CreateThread
<1>5. writer' = [writer EXCEPT ![w] = n]
  BY DEF CreateThread
<1>6. tracked' = tracked /\ OthersTyped'
  BY DEF CreateThread, envVars, PublicationInv, TypeOK, OthersTyped
<1>. HIDE DEF f
<1>7. threads' \in Seq(Thread) /\ Kept(threads, threads') /\ Leads(threads', f, t)
  BY <1>1, <1>3, <1>4, AppendKeeps
<1>8. Knows(threads', writer[w]) /\ t \in Nat
  BY <1>1, <1>7, KnowsKept
<1>9. n \in WriterState /\ Knows(threads', n)
  BY <1>1, <1>3, <1>7, <1>8, ReadyToSave
<1>. HIDE DEF n, t
<1>. QED
  BY <1>5, <1>6, <1>7, <1>9, RowsStay

LEMMA InlineFailsKeeps ==
  ASSUME PublicationInv, NEW w \in Writers, InlineFails(w)
  PROVE  PublicationInv'
<1>1. writer[w] \in WriterState /\ Knows(threads, writer[w]) /\ threads \in Seq(Thread)
  BY AboutWriter
<1>2. writer[w].pc = "place" /\ Finding(w) \in Findings
      /\ writer[w].place \in DOMAIN writer[w].report
  BY <1>1, FindingAtHand DEF InlineFails, At, Knows
<1>3. tracked' = tracked /\ OthersTyped'
  BY BudgetTyped DEF InlineFails, PublicationInv, TypeOK, OthersTyped
<1>4. threads' \in Seq(Thread) /\ Kept(threads, threads')
  BY <1>1, <1>2, AppendKeeps, AboutWriter DEF InlineFails
<1>5. CASE Leave(w)
  BY <1>3, <1>4, <1>5, RunEnds
<1>6. CASE writer' = [writer EXCEPT ![w].pc = "create_plain"]
  <2>. DEFINE n == [writer[w] EXCEPT !.pc = "create_plain"]
  <2>1. n \in WriterState
    BY <1>1, FieldUpdate DEF Pcs
  <2>2. /\ n.rows = writer[w].rows /\ n.pc = "create_plain"
        /\ n.place = writer[w].place /\ n.report = writer[w].report
    BY <1>1 DEF WriterState
  <2>3. writer' = [writer EXCEPT ![w] = n]
    BY <1>6
  <2>. HIDE DEF n
  <2>4. Knows(threads', writer[w])
    BY <1>1, <1>4, KnowsKept
  <2>5. Knows(threads', n)
    BY <1>2, <2>2, <2>4 DEF Knows
  <2>. QED
    BY <1>3, <1>4, <2>1, <2>3, <2>5, RowsStay
<1>. QED
  BY <1>5, <1>6 DEF InlineFails

\* Saving a row that leads to its thread.
LEMMA UpsertKeeps ==
  ASSUME PublicationInv, NEW f \in Findings, NEW row \in Row, Leads(threads, f, row.thread),
         Upsert(f, row)
  PROVE  /\ tracked' \in [Findings -> Row \cup {None}]
         /\ \A g \in Findings : HasRow(tracked', g) => Leads(threads, g, tracked'[g].thread)
<1>1. tracked \in [Findings -> Row \cup {None}] /\ tracked' = [tracked EXCEPT ![f] = row]
  BY DEF PublicationInv, TypeOK, Upsert
<1>2. tracked' \in [Findings -> Row \cup {None}]
  BY <1>1
<1>3. ASSUME NEW g \in Findings, HasRow(tracked', g)
      PROVE  Leads(threads, g, tracked'[g].thread)
  <2>1. CASE g = f
    BY <1>1, <2>1
  <2>2. CASE g # f
    BY <1>1, <1>3, <2>2 DEF PublicationInv, RowsNameTheirThread, Leads, HasRow
  <2>. QED
    BY <2>1, <2>2
<1>. QED
  BY <1>2, <1>3

LEMMA SaveFindingKeeps ==
  ASSUME PublicationInv, NEW w \in Writers, SaveFinding(w)
  PROVE  PublicationInv'
<1>. DEFINE s == [writer[w] EXCEPT !.used = @ \cup {writer[w].row}]
            row == PublishedRow(w)
<1>1. writer[w] \in WriterState /\ Knows(threads, writer[w]) /\ threads \in Seq(Thread)
      /\ Kept(threads, threads)
  BY AboutWriter
<1>2. /\ writer[w].pc = "save" /\ Finding(w) \in Findings /\ writer[w].row \in Findings
      /\ Leads(threads, writer[w].row, writer[w].thread)
      /\ writer[w].place \in DOMAIN writer[w].report
  BY <1>1, FindingAtHand DEF SaveFinding, At, Knows
<1>3. row \in Row /\ row.thread = writer[w].thread
  <2>. DEFINE f == writer[w].row
              known == HasRow(writer[w].rows, f) /\ writer[w].rows[f].thread = writer[w].thread
              dismissed == IF known THEN writer[w].rows[f].dismissed ELSE 0
  <2>1. dismissed \in Nat
    BY <1>1, <1>2 DEF WriterState, HasRow, Row
  <2>2. row = [status |-> "open", about |-> Finding(w), thread |-> writer[w].thread,
               dismissed |-> dismissed]
    BY DEF PublishedRow
  <2>. HIDE DEF dismissed, row
  <2>3. writer[w].thread \in Nat
    BY <1>1 DEF WriterState
  <2>. QED
    BY <1>2, <2>1, <2>2, <2>3 DEF Row, Statuses
<1>4. /\ Upsert(writer[w].row, row) /\ threads' = threads
      /\ writer' = [writer EXCEPT ![w] =
           IF RemarkIsDue(w) THEN [s EXCEPT !.pc = "remark"] ELSE NextFinding(s)]
  BY DEF SaveFinding
<1>. HIDE DEF row
<1>5. /\ tracked' \in [Findings -> Row \cup {None}]
      /\ \A g \in Findings : HasRow(tracked', g) => Leads(threads, g, tracked'[g].thread)
  BY <1>2, <1>3, <1>4, UpsertKeeps
<1>6. OthersTyped'
  BY DEF SaveFinding, envVars, PublicationInv, TypeOK, OthersTyped
<1>7. s \in WriterState
  <2>1. writer[w].used \cup {writer[w].row} \in SUBSET Findings
    BY <1>1, <1>2 DEF WriterState
  <2>. QED
    BY <1>1, <2>1, FieldUpdate
<1>8. /\ s.rows = writer[w].rows /\ s.pc = "save" /\ s.place = writer[w].place
      /\ s.report = writer[w].report /\ s.row = writer[w].row /\ s.thread = writer[w].thread
  BY <1>1, <1>2 DEF WriterState
<1>9. CASE RemarkIsDue(w)
  <2>. DEFINE n == [s EXCEPT !.pc = "remark"]
  <2>1. writer' = [writer EXCEPT ![w] = n]
    BY <1>4, <1>9
  <2>. HIDE DEF s
  <2>2. n \in WriterState
    BY <1>7, FieldUpdate DEF Pcs
  <2>3. /\ n.rows = s.rows /\ n.pc = "remark" /\ n.place = s.place
        /\ n.report = s.report /\ n.row = s.row /\ n.thread = s.thread
    BY <1>7 DEF WriterState
  <2>. HIDE DEF n
  <2>4. Knows(threads, n)
    BY <1>1, <1>2, <1>8, <2>3 DEF Knows
  <2>. QED
    BY <1>1, <1>4, <1>5, <1>6, <2>1, <2>2, <2>4, WriterMoves
<1>10. CASE ~RemarkIsDue(w)
  <2>1. writer' = [writer EXCEPT ![w] = NextFinding(s)]
    BY <1>4, <1>10
  <2>. HIDE DEF s
  <2>2. NextFinding(s) \in WriterState /\ Knows(threads, NextFinding(s))
    BY <1>1, <1>7, <1>8, NextFindingKnows DEF Knows
  <2>. QED
    BY <1>1, <1>4, <1>5, <1>6, <2>1, <2>2, WriterMoves
<1>. QED
  BY <1>9, <1>10

LEMMA AddStillPresentReplyKeeps ==
  ASSUME PublicationInv, NEW w \in Writers, AddStillPresentReply(w)
  PROVE  PublicationInv'
<1>. DEFINE note == StillPresentReply(writer[w].row, writer[w].sha)
<1>1. writer[w] \in WriterState /\ Knows(threads, writer[w]) /\ threads \in Seq(Thread)
  BY AboutWriter
<1>2. writer[w].row \in Findings /\ writer[w].thread \in Nat
  BY <1>1 DEF AddStillPresentReply, At, Knows, WriterState
<1>3. note \in Note
  BY <1>1, <1>2 DEF StillPresentReply, Note, Markers, WriterState
<1>4. threads' = [threads EXCEPT ![writer[w].thread].notes = Append(@, note)]
  BY DEF AddStillPresentReply
<1>. HIDE DEF note
<1>5. threads' \in Seq(Thread) /\ Kept(threads, threads')
  BY <1>1, <1>2, <1>3, <1>4, NoteKeeps
<1>6. Knows(threads', writer[w])
  BY <1>1, <1>5, KnowsKept
<1>7. NextFinding(writer[w]) \in WriterState /\ Knows(threads', NextFinding(writer[w]))
  BY <1>1, <1>6, NextFindingKnows DEF Knows
<1>8. tracked' = tracked /\ OthersTyped'
      /\ writer' = [writer EXCEPT ![w] = NextFinding(writer[w])]
  BY DEF AddStillPresentReply, envVars, PublicationInv, TypeOK, OthersTyped
<1>. QED
  BY <1>5, <1>7, <1>8, RowsStay

\* A row that is retired is one of the snapshot.
LEMMA RetiringRow ==
  ASSUME PublicationInv, NEW w \in Writers, NEW f \in Retiring(w)
  PROVE  /\ f \in Findings /\ HasRow(writer[w].rows, f)
         /\ writer[w].rows[f] \in Row
         /\ Leads(threads, f, writer[w].rows[f].thread)
<1>1. f \in Findings /\ HasRow(writer[w].rows, f)
  BY DEF Retiring, InStatus
<1>2. writer[w].rows[f] \in Row
  BY <1>1, AboutWriter DEF WriterState, HasRow
<1>. QED
  BY <1>1, <1>2, AboutWriter

LEMMA ResolveThreadKeeps ==
  ASSUME PublicationInv, NEW w \in Writers, ResolveThread(w)
  PROVE  PublicationInv'
<1>1. PICK f \in Retiring(w) :
        /\ threads' = [threads EXCEPT ![writer[w].rows[f].thread].resolved = TRUE]
        /\ writer' = [writer EXCEPT ![w].pc = "save_resolved", ![w].row = f]
  BY DEF ResolveThread
<1>2. writer[w] \in WriterState /\ Knows(threads, writer[w]) /\ threads \in Seq(Thread)
  BY AboutWriter
<1>3. f \in Findings /\ writer[w].rows[f].thread \in Nat
  BY RetiringRow DEF Row
<1>4. threads' \in Seq(Thread) /\ Kept(threads, threads')
  BY <1>1, <1>2, <1>3, ResolvedKeeps
<1>. DEFINE n == [writer[w] EXCEPT !.pc = "save_resolved", !.row = f]
<1>5. n \in WriterState
  BY <1>2, <1>3, FieldsUpdate DEF Pcs
<1>6. n.rows = writer[w].rows /\ n.pc = "save_resolved"
  BY <1>2 DEF WriterState
<1>7. writer' = [writer EXCEPT ![w] = n]
  BY <1>1
<1>. HIDE DEF n
<1>8. Knows(threads', n)
  BY <1>2, <1>4, <1>5, <1>6, KnowsKept, MovesOn
<1>9. tracked' = tracked /\ OthersTyped'
  BY DEF ResolveThread, envVars, PublicationInv, TypeOK, OthersTyped
<1>. QED
  BY <1>4, <1>5, <1>7, <1>8, <1>9, RowsStay

LEMMA SaveResolvedKeeps ==
  ASSUME PublicationInv, NEW w \in Writers, SaveResolved(w)
  PROVE  PublicationInv'
<1>1. PICK f \in Retiring(w) :
        /\ Upsert(f, RetiredRow(w, f))
        /\ writer' = [writer EXCEPT ![w].pc = "retire", ![w].row = None,
                                    ![w].used = @ \cup {f}]
  BY DEF SaveResolved
<1>. DEFINE row == RetiredRow(w, f)
            used == writer[w].used \cup {f}
            n == [writer[w] EXCEPT !.pc = "retire", !.row = None, !.used = used]
<1>2. writer[w] \in WriterState /\ Knows(threads, writer[w]) /\ threads \in Seq(Thread)
      /\ Kept(threads, threads)
  BY AboutWriter
<1>3. /\ f \in Findings /\ writer[w].rows[f] \in Row
      /\ Leads(threads, f, writer[w].rows[f].thread)
  BY RetiringRow
<1>4. row \in Row /\ row.thread = writer[w].rows[f].thread
  BY <1>3 DEF RetiredRow, Row, Statuses
<1>5. /\ tracked' \in [Findings -> Row \cup {None}]
      /\ \A g \in Findings : HasRow(tracked', g) => Leads(threads, g, tracked'[g].thread)
  <2>. HIDE DEF row
  <2>. QED
    BY <1>1, <1>3, <1>4, UpsertKeeps DEF row
<1>6. used \in SUBSET Findings /\ "retire" \in Pcs
  BY <1>2, <1>3 DEF WriterState, Pcs
<1>7. writer' = [writer EXCEPT ![w] = n]
  BY <1>1
<1>8. n.rows = writer[w].rows /\ n.pc = "retire"
  BY <1>2 DEF WriterState
<1>. HIDE DEF used
<1>9. n \in WriterState
  BY <1>2, <1>6, FieldsUpdate
<1>. HIDE DEF n
<1>10. Knows(threads, n)
  BY <1>2, <1>8, <1>9, MovesOn
<1>11. threads' = threads /\ OthersTyped'
  BY DEF SaveResolved, envVars, PublicationInv, TypeOK, OthersTyped
<1>. QED
  BY <1>2, <1>5, <1>7, <1>9, <1>10, <1>11, WriterMoves

LEMMA MarkDoneKeeps ==
  ASSUME PublicationInv, NEW w \in Writers, MarkDone(w)
  PROVE  PublicationInv'
<1>1. writer[w].report \in Seq(Findings) /\ writer[w].sha \in Nat
  BY AboutWriter DEF WriterState
<1>2. OthersTyped'
  BY <1>1 DEF MarkDone, PublicationInv, TypeOK, OthersTyped
<1>3. Leave(w) /\ tracked' = tracked /\ threads' = threads
  BY DEF MarkDone
<1>. QED
  BY <1>2, <1>3, AboutWriter, RunEnds

LEMMA ReviewKeeps ==
  ASSUME PublicationInv, NEW w \in Writers, ReviewStep(w)
  PROVE  PublicationInv'
BY StartReviewKeeps, ListRowsKeeps, RunAgentKeeps, CheckStatusKeeps, CheckHeadKeeps,
   ListThreadsKeeps, PlaceInThreadKeeps, CreateThreadKeeps, InlineFailsKeeps, SaveFindingKeeps,
   AddStillPresentReplyKeeps, ResolveThreadKeeps, SaveResolvedKeeps, MarkDoneKeeps
   DEF ReviewStep
-----------------------------------------------------------------------------
(***************************************************************************)
(* The steps of a reconcile run.                                           *)
(***************************************************************************)
LEMMA StartReconcileKeeps ==
  ASSUME PublicationInv, NEW w \in Writers, StartReconcile(w)
  PROVE  PublicationInv'
<1>1. PICK t \in queue.replies :
        /\ queue' = [queue EXCEPT !.replies = @ \ {t}]
        /\ writer' = [writer EXCEPT ![w] =
             [IdleWriter EXCEPT !.kind = "discussion_reconcile", !.pc = "find_thread",
                                !.sha = head, !.thread = t]]
  BY DEF StartReconcile
<1>2. tracked' = tracked /\ threads' = threads /\ OthersTyped'
  BY <1>1 DEF StartReconcile, envVars, PublicationInv, TypeOK, OthersTyped
<1>3. t \in Nat /\ head \in Nat
  BY DEF PublicationInv, TypeOK
<1>. DEFINE s1 == [IdleWriter EXCEPT !.kind = "discussion_reconcile"]
            s2 == [s1 EXCEPT !.pc = "find_thread"]
            s3 == [s2 EXCEPT !.sha = head]
            n == [s3 EXCEPT !.thread = t]
<1>4. writer' = [writer EXCEPT ![w] = n]
  BY <1>1 DEF IdleWriter
<1>5. n.rows = NoRows /\ n.pc = "find_thread"
  BY DEF IdleWriter
<1>6. n \in WriterState
  <2>1. "discussion_reconcile" \in Kinds \cup {None} /\ "find_thread" \in Pcs
    BY DEF Kinds, Pcs
  <2>2. s1 \in WriterState
    BY <2>1, IdleKnows, FieldUpdate
  <2>. HIDE DEF s1
  <2>3. s2 \in WriterState
    BY <2>1, <2>2, FieldUpdate
  <2>. HIDE DEF s2
  <2>4. s3 \in WriterState
    BY <1>3, <2>3, FieldUpdate
  <2>. HIDE DEF s3
  <2>. QED
    BY <1>3, <2>4, FieldUpdate
<1>. HIDE DEF n
<1>7. Knows(threads, n)
  BY <1>5 DEF Knows, NoRows, HasRow
<1>. QED
  BY <1>2, <1>4, <1>6, <1>7, AboutWriter, RowsStay

LEMMA FindThreadKeeps ==
  ASSUME PublicationInv, NEW w \in Writers, FindThread(w)
  PROVE  PublicationInv'
<1>. DEFINE n == [writer[w] EXCEPT !.pc = "find_row", !.listing = threads]
<1>1. writer[w] \in WriterState /\ Knows(threads, writer[w]) /\ threads \in Seq(Thread)
  BY AboutWriter
<1>2. n \in WriterState
  BY <1>1, FieldsUpdate DEF Pcs
<1>3. n.rows = writer[w].rows /\ n.pc = "find_row"
  BY <1>1 DEF WriterState
<1>4. Local(w, "find_thread", n) \/ Local(w, "find_thread", IdleWriter)
  BY DEF FindThread
<1>. HIDE DEF n
<1>5. Knows(threads, n)
  BY <1>1, <1>2, <1>3, MovesOn
<1>. QED
  BY <1>2, <1>4, <1>5, IdleKnows, LocalStep

LEMMA FindRowKeeps ==
  ASSUME PublicationInv, NEW w \in Writers, FindRow(w)
  PROVE  PublicationInv'
<1>1. PICK f \in RowsForThread(writer[w].thread) :
        Local(w, "find_row",
              IF f \in InStatus(tracked, "open")
              THEN [writer[w] EXCEPT !.pc = "reconcile", !.rows = tracked, !.row = f]
              ELSE IdleWriter)
  BY DEF FindRow
<1>2. CASE f \in InStatus(tracked, "open")
  <2>. DEFINE n == [writer[w] EXCEPT !.pc = "reconcile", !.rows = tracked, !.row = f]
  <2>1. f \in Findings /\ HasRow(tracked, f)
    BY <1>2 DEF InStatus
  <2>2. writer[w] \in WriterState /\ tracked \in [Findings -> Row \cup {None}]
    BY AboutWriter DEF PublicationInv, TypeOK
  <2>3. n \in WriterState
    BY <2>1, <2>2, FieldsUpdate DEF Pcs
  <2>4. n.rows = tracked /\ n.pc = "reconcile" /\ n.row = f
    BY <2>2 DEF WriterState
  <2>5. Local(w, "find_row", n)
    BY <1>1, <1>2
  <2>. HIDE DEF n
  <2>6. Knows(threads, n)
    BY <2>1, <2>4 DEF Knows, PublicationInv, RowsNameTheirThread, Leads
  <2>. QED
    BY <2>3, <2>5, <2>6, LocalStep
<1>3. CASE f \notin InStatus(tracked, "open")
  BY <1>1, <1>3, IdleKnows, LocalStep
<1>. QED
  BY <1>2, <1>3

\* A reconcile run goes on with the row it chose.
LEMMA StillReconciles ==
  ASSUME NEW th, NEW s \in WriterState, NEW n \in WriterState, Knows(th, s),
         s.pc \in {"reconcile", "reply"}, n.pc \in {"reply", "save_decision"},
         n.rows = s.rows, n.row = s.row
  PROVE  Knows(th, n)
BY DEF Knows

LEMMA ReconcileKeeps ==
  ASSUME PublicationInv, NEW w \in Writers, Reconcile(w)
  PROVE  PublicationInv'
<1>1. PICK dismissal \in BOOLEAN, replies \in BOOLEAN :
        Local(w, "reconcile",
              [writer[w] EXCEPT !.pc = IF replies THEN "reply" ELSE "save_decision",
                                !.stale = dismissal])
  BY DEF Reconcile
<1>. DEFINE pc == IF replies THEN "reply" ELSE "save_decision"
            n == [writer[w] EXCEPT !.pc = pc, !.stale = dismissal]
<1>2. writer[w] \in WriterState /\ Knows(threads, writer[w])
  BY AboutWriter
<1>3. pc \in {"reply", "save_decision"} /\ pc \in Pcs
  BY DEF Pcs
<1>4. writer[w].pc = "reconcile" /\ Local(w, "reconcile", n)
  BY <1>1 DEF Local, At
<1>. HIDE DEF pc
<1>5. n \in WriterState
  BY <1>2, <1>3, FieldsUpdate
<1>6. n.rows = writer[w].rows /\ n.row = writer[w].row /\ n.pc = pc
  BY <1>2 DEF WriterState
<1>. HIDE DEF n
<1>7. Knows(threads, n)
  BY <1>2, <1>3, <1>4, <1>5, <1>6, StillReconciles
<1>. QED
  BY <1>4, <1>5, <1>7, LocalStep

LEMMA ReplyKeeps ==
  ASSUME PublicationInv, NEW w \in Writers, Reply(w)
  PROVE  PublicationInv'
<1>. DEFINE n == [writer[w] EXCEPT !.pc = "save_decision"]
<1>1. writer[w] \in WriterState /\ Knows(threads, writer[w]) /\ threads \in Seq(Thread)
  BY AboutWriter
<1>2. BotReply \in Note /\ writer[w].thread \in Nat
  BY <1>1 DEF BotReply, Note, WriterState
<1>3. threads' \in Seq(Thread) /\ Kept(threads, threads')
  BY <1>1, <1>2, NoteKeeps DEF Reply
<1>4. n \in WriterState
  BY <1>1, FieldUpdate DEF Pcs
<1>5. n.rows = writer[w].rows /\ n.row = writer[w].row /\ n.pc = "save_decision"
  BY <1>1 DEF WriterState
<1>6. /\ writer[w].pc = "reply"
      /\ writer' = [writer EXCEPT ![w] = n] \/ Leave(w)
  BY DEF Reply, At
<1>. HIDE DEF n
<1>7. Knows(threads', n)
  BY <1>1, <1>3, <1>4, <1>5, <1>6, KnowsKept, StillReconciles
<1>8. tracked' = tracked /\ OthersTyped'
  BY DEF Reply, envVars, PublicationInv, TypeOK, OthersTyped
<1>9. CASE writer' = [writer EXCEPT ![w] = n]
  BY <1>3, <1>4, <1>7, <1>8, <1>9, RowsStay
<1>10. CASE Leave(w)
  BY <1>3, <1>8, <1>10, RunEnds
<1>. QED
  BY <1>6, <1>9, <1>10

LEMMA SaveDecisionKeeps ==
  ASSUME PublicationInv, NEW w \in Writers, SaveDecision(w)
  PROVE  PublicationInv'
<1>. DEFINE f == writer[w].row
            read == writer[w].rows[f]
<1>1. writer[w] \in WriterState /\ Knows(threads, writer[w]) /\ threads \in Seq(Thread)
      /\ Kept(threads, threads)
  BY AboutWriter
<1>2. f \in Findings /\ HasRow(writer[w].rows, f)
  BY <1>1 DEF SaveDecision, At, Knows
<1>3. read \in Row /\ Leads(threads, f, read.thread)
  BY <1>1, <1>2 DEF WriterState, HasRow, Knows
<1>4. Dismissed(w) \in Row /\ Dismissed(w).thread = read.thread
  BY <1>1, <1>3 DEF Dismissed, Row, Statuses, WriterState
<1>5. Upsert(f, Dismissed(w)) \/ Upsert(f, read)
  BY DEF SaveDecision
<1>. HIDE DEF f, read
<1>6. /\ tracked' \in [Findings -> Row \cup {None}]
      /\ \A g \in Findings : HasRow(tracked', g) => Leads(threads, g, tracked'[g].thread)
  BY <1>2, <1>3, <1>4, <1>5, UpsertKeeps
<1>7. threads' = threads /\ OthersTyped'
  BY DEF SaveDecision, envVars, PublicationInv, TypeOK, OthersTyped
<1>8. CASE Leave(w)
  BY <1>1, <1>6, <1>7, <1>8, IdleKnows, WriterMoves DEF Leave
<1>9. CASE writer' = [writer EXCEPT ![w].pc = "resolve"]
  <2>. DEFINE n == [writer[w] EXCEPT !.pc = "resolve"]
  <2>1. n \in WriterState
    BY <1>1, FieldUpdate DEF Pcs
  <2>2. n.rows = writer[w].rows /\ n.pc = "resolve"
    BY <1>1 DEF WriterState
  <2>3. writer' = [writer EXCEPT ![w] = n]
    BY <1>9
  <2>. HIDE DEF n
  <2>4. Knows(threads, n)
    BY <1>1, <2>1, <2>2, MovesOn
  <2>. QED
    BY <1>1, <1>6, <1>7, <2>1, <2>3, <2>4, WriterMoves
<1>. QED
  BY <1>8, <1>9 DEF SaveDecision

LEMMA ResolveDismissedKeeps ==
  ASSUME PublicationInv, NEW w \in Writers, ResolveDismissed(w)
  PROVE  PublicationInv'
<1>1. threads \in Seq(Thread) /\ writer[w].thread \in Nat
  BY AboutWriter DEF WriterState
<1>2. threads' \in Seq(Thread) /\ Kept(threads, threads')
  BY <1>1, ResolvedKeeps DEF ResolveDismissed
<1>3. tracked' = tracked /\ OthersTyped' /\ Leave(w)
  BY DEF ResolveDismissed, envVars, PublicationInv, TypeOK, OthersTyped
<1>. QED
  BY <1>2, <1>3, RunEnds

LEMMA ReconcileRunKeeps ==
  ASSUME PublicationInv, NEW w \in Writers, ReconcileStep(w)
  PROVE  PublicationInv'
<1>1. CASE NoAction(w)
  BY <1>1, IdleKnows, LocalStep DEF NoAction
<1>. QED
  BY <1>1, StartReconcileKeeps, FindThreadKeeps, FindRowKeeps, ReconcileKeeps, ReplyKeeps,
     SaveDecisionKeeps, ResolveDismissedKeeps DEF ReconcileStep
-----------------------------------------------------------------------------
(***************************************************************************)
(* Failures, and the theorems.                                             *)
(***************************************************************************)
LEMMA RaiseKeeps ==
  ASSUME PublicationInv, NEW w \in Writers, Raise(w)
  PROVE  PublicationInv'
<1>1. tracked' = tracked /\ threads' = threads /\ OthersTyped' /\ Leave(w)
  BY BudgetTyped DEF Raise, PublicationInv, TypeOK, OthersTyped
<1>. QED
  BY <1>1, AboutWriter, RunEnds

LEMMA RaiseAfterCreateKeeps ==
  ASSUME PublicationInv, NEW w \in Writers, RaiseAfterCreate(w)
  PROVE  PublicationInv'
<1>1. Finding(w) \in Findings
  BY FindingAtHand DEF RaiseAfterCreate, NeedsThread, At
<1>2. threads' \in Seq(Thread) /\ Kept(threads, threads')
  BY <1>1, AboutWriter, AppendKeeps DEF RaiseAfterCreate
<1>3. tracked' = tracked /\ OthersTyped' /\ Leave(w)
  BY BudgetTyped DEF RaiseAfterCreate, PublicationInv, TypeOK, OthersTyped
<1>. QED
  BY <1>2, <1>3, RunEnds

LEMMA PublicationInit == Init => PublicationInv
<1>. SUFFICES ASSUME Init PROVE PublicationInv
  OBVIOUS
<1>1. TypeOK
  <2>1. threads \in Seq(Thread) /\ tracked \in [Findings -> Row \cup {None}]
    BY DEF Init, NoRows
  <2>2. writer \in [Writers -> WriterState]
    BY IdleKnows DEF Init
  <2>3. edited \subseteq Findings
    BY PublicationAssumption DEF Init
  <2>4. budget \in [{"pushes", "replies", "humanThreads", "resolves", "deletions", "failures"} -> Nat]
    BY PublicationAssumption DEF Init
  <2>. QED
    BY <2>1, <2>2, <2>3, <2>4 DEF Init, TypeOK
<1>2. RowsNameTheirThread
  BY DEF Init, RowsNameTheirThread, NoRows, HasRow
<1>3. WritersKnow
  BY IdleKnows DEF Init, WritersKnow
<1>. QED
  BY <1>1, <1>2, <1>3 DEF PublicationInv

LEMMA PublicationStep == PublicationInv /\ [Next]_vars => PublicationInv'
<1>. SUFFICES ASSUME PublicationInv, [Next]_vars PROVE PublicationInv'
  OBVIOUS
<1>1. CASE Next
  BY <1>1, GitLabKeeps, ReviewKeeps, ReconcileRunKeeps, RaiseKeeps, RaiseAfterCreateKeeps
     DEF Next, WriterStep
<1>2. CASE UNCHANGED vars
  BY <1>2 DEF vars, PublicationInv, TypeOK, RowsNameTheirThread, WritersKnow
<1>. QED
  BY <1>1, <1>2

LEMMA PublicationInvariant == Spec => []PublicationInv
<1>. QED
  BY PublicationInit, PublicationStep, PTL DEF Spec

\* Every variable of Publication always has its type.
THEOREM PublicationTypeCorrect == Spec => []TypeOK
<1>1. PublicationInv => TypeOK
  BY DEF PublicationInv
<1>. QED
  BY <1>1, PublicationInvariant, PTL

\* For any number of workers, runs that overlap or fail half-way and humans who
\* delete threads: a row of tracked_finding names the thread that the bot opened
\* for its fingerprint (_publish_review_findings, upsert_tracked_finding).
THEOREM RowsAlwaysNameTheirThread == Spec => []RowsNameTheirThread
<1>1. PublicationInv => RowsNameTheirThread
  BY DEF PublicationInv
<1>. QED
  BY <1>1, PublicationInvariant, PTL
-----------------------------------------------------------------------------
(***************************************************************************)
(* What each step does to the run of its worker, to rows and to threads.   *)
(***************************************************************************)
\* A run goes on with what it has read.
SameWork(n, s) ==
  /\ n.rows = s.rows /\ n.listing = s.listing /\ n.report = s.report
  /\ n.near = s.near /\ n.sha = s.sha
SamePlace(n, s) == n.used = s.used /\ n.place = s.place

LEMMA NextFindingFields ==
  ASSUME NEW s \in WriterState
  PROVE  LET n == NextFinding(s)
         IN /\ SameWork(n, s) /\ n.used = s.used /\ n.stale = s.stale
            /\ \/ n.pc = "place" /\ s.place < Len(s.report) /\ n.place = s.place + 1
               \/ n.pc = "retire" /\ ~(s.place < Len(s.report)) /\ n.place = 0
<1>1. CASE s.place < Len(s.report)
  BY <1>1 DEF NextFinding, SameWork, WriterState
<1>2. CASE ~(s.place < Len(s.report))
  BY <1>2 DEF NextFinding, SameWork, WriterState
<1>. QED
  BY <1>1, <1>2

\* A run that is over, for whatever reason.
Idles(w) ==
  /\ writer'[w] = IdleWriter
  /\ writer'[w].pc = "idle" /\ writer'[w].rows = NoRows
  /\ writer'[w].used = {} /\ writer'[w].place = 0

LEMMA LeaveMoves ==
  ASSUME PublicationInv, NEW w \in Writers, Leave(w)
  PROVE  Idles(w)
<1>1. writer \in [Writers -> WriterState]
  BY DEF PublicationInv, TypeOK
<1>. QED
  BY <1>1 DEF Leave, Idles, IdleWriter

LEMMA StartMoves ==
  ASSUME PublicationInv, NEW w \in Writers, StartReview(w) \/ StartReconcile(w)
  PROVE  /\ writer[w].pc = "idle"
         /\ writer'[w].pc \in {"list_rows", "find_thread"} /\ writer'[w].rows = NoRows
         /\ writer'[w].used = {} /\ writer'[w].place = 0
         /\ UNCHANGED <<tracked, threads, budget, reviewed>>
<1>1. writer \in [Writers -> WriterState]
  BY DEF PublicationInv, TypeOK
<1>2. CASE StartReview(w)
  BY <1>1, <1>2 DEF StartReview, At, envVars, IdleWriter
<1>3. CASE StartReconcile(w)
  <2>1. PICK t \in queue.replies :
          writer' = [writer EXCEPT ![w] =
             [IdleWriter EXCEPT !.kind = "discussion_reconcile", !.pc = "find_thread",
                                !.sha = head, !.thread = t]]
    BY <1>3 DEF StartReconcile
  <2>2. UNCHANGED <<tracked, threads, budget, reviewed>> /\ writer[w].pc = "idle"
    BY <1>3 DEF StartReconcile, envVars, At
  <2>. QED
    BY <1>1, <2>1, <2>2 DEF IdleWriter
<1>. QED
  BY <1>2, <1>3

\* A local step leaves the rest alone.
LEMMA LocalMoves ==
  ASSUME PublicationInv, NEW w \in Writers, NEW pc, NEW s, Local(w, pc, s)
  PROVE  /\ writer[w].pc = pc /\ writer'[w] = s
         /\ UNCHANGED <<tracked, threads, budget, reviewed>>
<1>1. writer \in [Writers -> WriterState]
  BY DEF PublicationInv, TypeOK
<1>. QED
  BY <1>1 DEF Local, At, envVars

LEMMA ListRowsMoves ==
  ASSUME PublicationInv, NEW w \in Writers, ListRows(w)
  PROVE  /\ writer[w].pc = "list_rows" /\ writer'[w].pc = "run_agent"
         /\ writer'[w].rows = tracked /\ writer'[w].near = writer[w].near
         /\ SamePlace(writer'[w], writer[w])
         /\ UNCHANGED <<tracked, threads, budget, reviewed>>
<1>1. /\ writer'[w] = [writer[w] EXCEPT !.pc = "run_agent", !.rows = tracked]
      /\ writer[w].pc = "list_rows" /\ UNCHANGED <<tracked, threads, budget, reviewed>>
  BY LocalMoves DEF ListRows
<1>. QED
  BY <1>1, AboutWriter DEF WriterState, SamePlace

LEMMA RunAgentMoves ==
  ASSUME PublicationInv, NEW w \in Writers, RunAgent(w)
  PROVE  /\ writer[w].pc = "run_agent" /\ writer'[w].pc = "check_status"
         /\ writer'[w].report \in Reports
         /\ \A i \in DOMAIN writer'[w].report :
              MayBeKept(writer'[w].report[i], writer[w].rows, writer[w].near)
         /\ writer'[w].rows = writer[w].rows /\ writer'[w].near = writer[w].near
         /\ SamePlace(writer'[w], writer[w])
         /\ UNCHANGED <<tracked, threads, budget, reviewed>>
<1>1. PICK report \in Reports :
        /\ \A i \in DOMAIN report : MayBeKept(report[i], writer[w].rows, writer[w].near)
        /\ Local(w, "run_agent",
              [writer[w] EXCEPT !.pc = "check_status", !.report = report,
                                !.still = StillPresent(writer[w].previous, report),
                                !.previous = None])
  BY DEF RunAgent
<1>. DEFINE still == StillPresent(writer[w].previous, report)
<1>2. /\ writer'[w] = [writer[w] EXCEPT !.pc = "check_status", !.report = report,
                                       !.still = still, !.previous = None]
      /\ writer[w].pc = "run_agent" /\ UNCHANGED <<tracked, threads, budget, reviewed>>
  BY <1>1, LocalMoves
<1>. HIDE DEF still
<1>3. /\ writer'[w].pc = "check_status" /\ writer'[w].report = report
      /\ writer'[w].rows = writer[w].rows /\ writer'[w].near = writer[w].near
      /\ SamePlace(writer'[w], writer[w])
  BY <1>2, AboutWriter DEF WriterState, SamePlace
<1>. QED
  BY <1>1, <1>2, <1>3

LEMMA ChecksMove ==
  ASSUME PublicationInv, NEW w \in Writers, CheckStatus(w) \/ CheckHead(w)
  PROVE  /\ UNCHANGED <<tracked, threads, budget, reviewed>>
         /\ \/ /\ writer[w].pc \in {"check_status", "check_head"}
               /\ writer'[w].pc \in {"check_head", "list_threads"}
               /\ SameWork(writer'[w], writer[w]) /\ SamePlace(writer'[w], writer[w])
            \/ Idles(w)
<1>1. CASE CheckStatus(w) /\ LiveReview(w)
  <2>1. /\ writer'[w] = [writer[w] EXCEPT !.pc = "check_head"] /\ writer[w].pc = "check_status"
        /\ UNCHANGED <<tracked, threads, budget, reviewed>>
    BY <1>1, LocalMoves DEF CheckStatus
  <2>. QED
    BY <2>1, AboutWriter DEF WriterState, SameWork, SamePlace
<1>2. CASE CheckStatus(w) /\ ~LiveReview(w)
  <2>1. writer'[w] = IdleWriter /\ UNCHANGED <<tracked, threads, budget, reviewed>>
    BY <1>2, LocalMoves DEF CheckStatus
  <2>. QED
    BY <2>1 DEF Idles, IdleWriter
<1>3. CASE CheckHead(w)
  <2>. DEFINE stale == head # writer[w].sha
  <2>1. /\ writer'[w] = [writer[w] EXCEPT !.pc = "list_threads", !.stale = stale]
        /\ writer[w].pc = "check_head"
        /\ UNCHANGED <<tracked, threads, budget, reviewed>>
    BY <1>3, LocalMoves DEF CheckHead
  <2>. HIDE DEF stale
  <2>. QED
    BY <2>1, AboutWriter DEF WriterState, SameWork, SamePlace
<1>. QED
  BY <1>1, <1>2, <1>3

\* The step after which the next finding is placed, or the rest retired.
Advances(n, place, s) ==
  \/ n.pc = "place" /\ place < Len(s.report) /\ n.place = place + 1
  \/ n.pc = "retire" /\ ~(place < Len(s.report)) /\ n.place = 0

LEMMA ListThreadsMoves ==
  ASSUME PublicationInv, NEW w \in Writers, ListThreads(w)
  PROVE  LET s == writer[w]  n == writer'[w]
         IN /\ s.pc = "list_threads" /\ n.listing = threads
            /\ n.rows = s.rows /\ n.report = s.report /\ n.near = s.near /\ n.used = s.used
            /\ Advances(n, s.place, s)
            /\ UNCHANGED <<tracked, threads, budget, reviewed>>
<1>. DEFINE l == [writer[w] EXCEPT !.listing = threads]
<1>1. /\ writer'[w] = NextFinding(l) /\ writer[w].pc = "list_threads"
      /\ UNCHANGED <<tracked, threads, budget, reviewed>>
  BY LocalMoves DEF ListThreads
<1>2. l \in WriterState
  BY AboutWriter, FieldUpdate
<1>3. /\ l.listing = threads /\ l.rows = writer[w].rows /\ l.report = writer[w].report
      /\ l.near = writer[w].near /\ l.used = writer[w].used /\ l.place = writer[w].place
  BY AboutWriter DEF WriterState
<1>. HIDE DEF l
<1>. QED
  BY <1>1, <1>2, <1>3, NextFindingFields DEF SameWork, Advances

LEMMA PlaceInThreadMoves ==
  ASSUME PublicationInv, NEW w \in Writers, PlaceInThread(w)
  PROVE  LET s == writer[w]  n == writer'[w]
         IN /\ s.pc = "place" /\ n.pc = "save" /\ SameWork(n, s) /\ SamePlace(n, s)
            /\ n.row \in RowsForFinding(w) /\ n.thread = s.rows[n.row].thread
            /\ threads' = IF ListedResolved(w, n.thread)
                          THEN [threads EXCEPT ![n.thread].resolved = FALSE] ELSE threads
            /\ UNCHANGED <<tracked, budget, reviewed>>
<1>1. PICK f \in RowsForFinding(w) :
        LET t == writer[w].rows[f].thread
        IN /\ threads' = IF ListedResolved(w, t) THEN [threads EXCEPT ![t].resolved = FALSE]
                         ELSE threads
           /\ writer' = [writer EXCEPT ![w].pc = "save", ![w].row = f, ![w].thread = t]
  BY DEF PlaceInThread
<1>2. writer[w].pc = "place" /\ UNCHANGED <<tracked, budget, reviewed>>
  BY DEF PlaceInThread, At, envVars
<1>. DEFINE t == writer[w].rows[f].thread
<1>3. writer'[w] = [writer[w] EXCEPT !.pc = "save", !.row = f, !.thread = t]
  BY <1>1 DEF PublicationInv, TypeOK
<1>4. /\ writer'[w].pc = "save" /\ writer'[w].row = f /\ writer'[w].thread = t
      /\ SameWork(writer'[w], writer[w]) /\ SamePlace(writer'[w], writer[w])
  <2>. HIDE DEF t
  <2>. QED
    BY <1>3, AboutWriter DEF WriterState, SameWork, SamePlace
<1>. QED
  BY <1>1, <1>2, <1>4

LEMMA CreateThreadMoves ==
  ASSUME PublicationInv, NEW w \in Writers, CreateThread(w)
  PROVE  LET s == writer[w]  n == writer'[w]
         IN /\ \/ s.pc = "create_plain"
               \/ s.pc = "place" /\ RowsForFinding(w) = {}
            /\ n.pc = "save" /\ SameWork(n, s) /\ SamePlace(n, s)
            /\ n.row = Finding(w) /\ n.thread = Len(threads) + 1
            /\ threads' = Append(threads, NewThread("bot", Finding(w)))
            /\ UNCHANGED <<tracked, budget, reviewed>>
<1>. DEFINE f == Finding(w)
            t == Len(threads) + 1
<1>1. /\ writer' = [writer EXCEPT ![w].pc = "save", ![w].row = f, ![w].thread = t]
      /\ threads' = Append(threads, NewThread("bot", f))
      /\ UNCHANGED <<tracked, budget, reviewed>>
      /\ \/ writer[w].pc = "create_plain"
         \/ writer[w].pc = "place" /\ RowsForFinding(w) = {}
  BY DEF CreateThread, NeedsThread, At, envVars
<1>2. writer'[w] = [writer[w] EXCEPT !.pc = "save", !.row = f, !.thread = t]
  BY <1>1 DEF PublicationInv, TypeOK
<1>3. /\ writer'[w].pc = "save" /\ writer'[w].row = f /\ writer'[w].thread = t
      /\ SameWork(writer'[w], writer[w]) /\ SamePlace(writer'[w], writer[w])
  <2>. HIDE DEF f, t
  <2>. QED
    BY <1>2, AboutWriter DEF WriterState, SameWork, SamePlace
<1>. QED
  BY <1>1, <1>3

LEMMA InlineFailsMoves ==
  ASSUME PublicationInv, NEW w \in Writers, InlineFails(w)
  PROVE  LET s == writer[w]  n == writer'[w]
         IN /\ s.pc = "place" /\ RowsForFinding(w) = {}
            /\ \/ n.pc = "create_plain" /\ SameWork(n, s) /\ SamePlace(n, s)
               \/ Idles(w)
            /\ \/ threads' = threads
               \/ threads' = Append(threads, NewThread("bot", Finding(w)))
            /\ Spend("failures") /\ UNCHANGED <<tracked, reviewed>>
<1>1. /\ writer[w].pc = "place" /\ RowsForFinding(w) = {}
      /\ \/ threads' = threads
         \/ threads' = Append(threads, NewThread("bot", Finding(w)))
      /\ Spend("failures") /\ UNCHANGED <<tracked, reviewed>>
  BY DEF InlineFails, At
<1>2. CASE Leave(w)
  BY <1>1, <1>2, LeaveMoves
<1>3. CASE writer' = [writer EXCEPT ![w].pc = "create_plain"]
  <2>1. writer'[w] = [writer[w] EXCEPT !.pc = "create_plain"]
    BY <1>3 DEF PublicationInv, TypeOK
  <2>2. /\ writer'[w].pc = "create_plain"
        /\ SameWork(writer'[w], writer[w]) /\ SamePlace(writer'[w], writer[w])
    BY <2>1, AboutWriter DEF WriterState, SameWork, SamePlace
  <2>. QED
    BY <1>1, <2>2
<1>. QED
  BY <1>2, <1>3 DEF InlineFails

LEMMA SaveFindingMoves ==
  ASSUME PublicationInv, NEW w \in Writers, SaveFinding(w)
  PROVE  LET s == writer[w]  n == writer'[w]
         IN /\ s.pc = "save" /\ SameWork(n, s) /\ n.used = s.used \cup {s.row}
            /\ \/ /\ n.pc = "remark" /\ RemarkIsDue(w)
                  /\ n.row = s.row /\ n.thread = s.thread /\ n.place = s.place
               \/ Advances(n, s.place, s)
            /\ tracked' = [tracked EXCEPT ![s.row] = PublishedRow(w)]
            /\ UNCHANGED <<threads, budget, reviewed>>
<1>. DEFINE l == [writer[w] EXCEPT !.used = @ \cup {writer[w].row}]
            next == IF RemarkIsDue(w) THEN [l EXCEPT !.pc = "remark"] ELSE NextFinding(l)
<1>1. /\ writer' = [writer EXCEPT ![w] = next] /\ writer[w].pc = "save"
      /\ tracked' = [tracked EXCEPT ![writer[w].row] = PublishedRow(w)]
      /\ UNCHANGED <<threads, budget, reviewed>>
  BY DEF SaveFinding, At, Upsert, envVars
<1>2. writer'[w] = next
  BY <1>1 DEF PublicationInv, TypeOK
<1>3. writer[w] \in WriterState /\ writer[w].used \cup {writer[w].row} \in SUBSET Findings
  BY <1>1, AboutWriter DEF WriterState, Knows
<1>4. l \in WriterState
  BY <1>3, FieldUpdate
<1>5. /\ SameWork(l, writer[w]) /\ l.used = writer[w].used \cup {writer[w].row}
      /\ l.row = writer[w].row /\ l.thread = writer[w].thread /\ l.place = writer[w].place
  BY <1>3 DEF WriterState, SameWork
<1>. HIDE DEF l
<1>6. CASE RemarkIsDue(w)
  <2>1. next = [l EXCEPT !.pc = "remark"]
    BY <1>6
  <2>2. /\ next.pc = "remark" /\ SameWork(next, l) /\ next.used = l.used
        /\ next.row = l.row /\ next.thread = l.thread /\ next.place = l.place
    BY <1>4, <2>1 DEF WriterState, SameWork
  <2>. HIDE DEF next
  <2>. QED
    BY <1>1, <1>2, <1>5, <1>6, <2>2 DEF SameWork
<1>7. CASE ~RemarkIsDue(w)
  <2>1. next = NextFinding(l)
    BY <1>7
  <2>2. SameWork(next, l) /\ next.used = l.used /\ Advances(next, l.place, l)
    BY <1>4, <2>1, NextFindingFields DEF Advances
  <2>. HIDE DEF next
  <2>. QED
    BY <1>1, <1>2, <1>5, <2>2 DEF SameWork, Advances
<1>. QED
  BY <1>6, <1>7

LEMMA AddStillPresentReplyMoves ==
  ASSUME PublicationInv, NEW w \in Writers, AddStillPresentReply(w)
  PROVE  LET s == writer[w]  n == writer'[w]
         IN /\ s.pc = "remark" /\ SameWork(n, s) /\ n.used = s.used
            /\ Advances(n, s.place, s)
            /\ threads' = [threads EXCEPT ![s.thread].notes =
                             Append(@, StillPresentReply(s.row, s.sha))]
            /\ UNCHANGED <<tracked, budget, reviewed>>
<1>1. /\ writer' = [writer EXCEPT ![w] = NextFinding(writer[w])] /\ writer[w].pc = "remark"
      /\ threads' = [threads EXCEPT ![writer[w].thread].notes =
                       Append(@, StillPresentReply(writer[w].row, writer[w].sha))]
      /\ UNCHANGED <<tracked, budget, reviewed>>
  BY DEF AddStillPresentReply, At, envVars
<1>2. writer'[w] = NextFinding(writer[w])
  BY <1>1 DEF PublicationInv, TypeOK
<1>. QED
  BY <1>1, <1>2, AboutWriter, NextFindingFields DEF Advances

LEMMA ResolveThreadMoves ==
  ASSUME PublicationInv, NEW w \in Writers, ResolveThread(w)
  PROVE  LET s == writer[w]  n == writer'[w]
         IN /\ s.pc = "retire" /\ n.pc = "save_resolved" /\ SameWork(n, s) /\ SamePlace(n, s)
            /\ n.row \in Retiring(w) /\ ListedUnresolved(w, s.rows[n.row].thread)
            /\ threads' = [threads EXCEPT ![s.rows[n.row].thread].resolved = TRUE]
            /\ UNCHANGED <<tracked, budget, reviewed>>
<1>1. PICK f \in Retiring(w) :
        /\ ListedUnresolved(w, writer[w].rows[f].thread)
        /\ threads' = [threads EXCEPT ![writer[w].rows[f].thread].resolved = TRUE]
        /\ writer' = [writer EXCEPT ![w].pc = "save_resolved", ![w].row = f]
  BY DEF ResolveThread
<1>2. writer[w].pc = "retire" /\ UNCHANGED <<tracked, budget, reviewed>>
  BY DEF ResolveThread, At, envVars
<1>3. writer'[w] = [writer[w] EXCEPT !.pc = "save_resolved", !.row = f]
  BY <1>1 DEF PublicationInv, TypeOK
<1>4. /\ writer'[w].pc = "save_resolved" /\ writer'[w].row = f
      /\ SameWork(writer'[w], writer[w]) /\ SamePlace(writer'[w], writer[w])
  BY <1>3, AboutWriter DEF WriterState, SameWork, SamePlace
<1>. QED
  BY <1>1, <1>2, <1>4

LEMMA SaveResolvedMoves ==
  ASSUME PublicationInv, NEW w \in Writers, SaveResolved(w)
  PROVE  \E f \in Retiring(w) :
           LET s == writer[w]  n == writer'[w]
           IN /\ \/ s.pc = "save_resolved" /\ f = s.row
                 \/ s.pc = "retire" /\ ~ListedUnresolved(w, s.rows[f].thread)
              /\ n.pc = "retire" /\ SameWork(n, s) /\ n.place = s.place
              /\ n.used = s.used \cup {f}
              /\ tracked' = [tracked EXCEPT ![f] = RetiredRow(w, f)]
              /\ UNCHANGED <<threads, budget, reviewed>>
<1>1. PICK f \in Retiring(w) :
        /\ \/ writer[w].pc = "save_resolved" /\ f = writer[w].row
           \/ writer[w].pc = "retire" /\ ~ListedUnresolved(w, writer[w].rows[f].thread)
        /\ tracked' = [tracked EXCEPT ![f] = RetiredRow(w, f)]
        /\ writer' = [writer EXCEPT ![w].pc = "retire", ![w].row = None,
                                    ![w].used = @ \cup {f}]
  BY DEF SaveResolved, Upsert, At
<1>2. UNCHANGED <<threads, budget, reviewed>>
  BY DEF SaveResolved, envVars
<1>. DEFINE used == writer[w].used \cup {f}
<1>3. writer'[w] = [writer[w] EXCEPT !.pc = "retire", !.row = None, !.used = used]
  BY <1>1 DEF PublicationInv, TypeOK
<1>4. /\ writer'[w].pc = "retire" /\ SameWork(writer'[w], writer[w])
      /\ writer'[w].place = writer[w].place /\ writer'[w].used = used
  <2>. HIDE DEF used
  <2>. QED
    BY <1>3, AboutWriter DEF WriterState, SameWork
<1>. QED
  BY <1>1, <1>2, <1>4

LEMMA MarkDoneMoves ==
  ASSUME PublicationInv, NEW w \in Writers, MarkDone(w)
  PROVE  /\ writer[w].pc = "retire" /\ Retiring(w) = {} /\ Idles(w)
         /\ reviewed' # reviewed => lastDone' = writer[w].report
         /\ UNCHANGED <<tracked, threads, budget>>
BY LeaveMoves DEF MarkDone, At

LEMMA FindThreadMoves ==
  ASSUME PublicationInv, NEW w \in Writers, FindThread(w)
  PROVE  LET s == writer[w]  n == writer'[w]
         IN /\ s.pc = "find_thread"
            /\ \/ /\ n.pc = "find_row" /\ n.listing = threads /\ Listed(threads, n.thread)
                  /\ n.thread = s.thread /\ n.rows = s.rows /\ SamePlace(n, s)
               \/ Idles(w)
            /\ UNCHANGED <<tracked, threads, budget, reviewed>>
<1>1. CASE Listed(threads, writer[w].thread)
  <2>1. /\ writer'[w] = [writer[w] EXCEPT !.pc = "find_row", !.listing = threads]
        /\ writer[w].pc = "find_thread" /\ UNCHANGED <<tracked, threads, budget, reviewed>>
    BY <1>1, LocalMoves DEF FindThread
  <2>2. /\ writer'[w].pc = "find_row" /\ writer'[w].listing = threads
        /\ writer'[w].thread = writer[w].thread /\ writer'[w].rows = writer[w].rows
        /\ SamePlace(writer'[w], writer[w])
    BY <2>1, AboutWriter DEF WriterState, SamePlace
  <2>. QED
    BY <1>1, <2>1, <2>2
<1>2. CASE ~Listed(threads, writer[w].thread)
  <2>1. /\ writer'[w] = IdleWriter /\ writer[w].pc = "find_thread"
        /\ UNCHANGED <<tracked, threads, budget, reviewed>>
    BY <1>2, LocalMoves DEF FindThread
  <2>. QED
    BY <2>1 DEF Idles, IdleWriter
<1>. QED
  BY <1>1, <1>2

LEMMA FindRowMoves ==
  ASSUME PublicationInv, NEW w \in Writers, FindRow(w)
  PROVE  LET s == writer[w]  n == writer'[w]
         IN /\ s.pc = "find_row"
            /\ \/ /\ n.pc = "reconcile" /\ n.rows = tracked
                  /\ n.row \in RowsForThread(s.thread) /\ n.row \in InStatus(tracked, "open")
                  /\ n.thread = s.thread /\ n.listing = s.listing /\ SamePlace(n, s)
               \/ Idles(w)
            /\ UNCHANGED <<tracked, threads, budget, reviewed>>
<1>1. PICK f \in RowsForThread(writer[w].thread) :
        Local(w, "find_row",
              IF f \in InStatus(tracked, "open")
              THEN [writer[w] EXCEPT !.pc = "reconcile", !.rows = tracked, !.row = f]
              ELSE IdleWriter)
  BY DEF FindRow
<1>2. CASE f \in InStatus(tracked, "open")
  <2>1. /\ writer'[w] = [writer[w] EXCEPT !.pc = "reconcile", !.rows = tracked, !.row = f]
        /\ writer[w].pc = "find_row" /\ UNCHANGED <<tracked, threads, budget, reviewed>>
    BY <1>1, <1>2, LocalMoves
  <2>2. /\ writer'[w].pc = "reconcile" /\ writer'[w].rows = tracked /\ writer'[w].row = f
        /\ writer'[w].thread = writer[w].thread /\ writer'[w].listing = writer[w].listing
        /\ SamePlace(writer'[w], writer[w])
    BY <2>1, AboutWriter DEF WriterState, SamePlace
  <2>. QED
    BY <1>2, <2>1, <2>2
<1>3. CASE f \notin InStatus(tracked, "open")
  <2>1. /\ writer'[w] = IdleWriter /\ writer[w].pc = "find_row"
        /\ UNCHANGED <<tracked, threads, budget, reviewed>>
    BY <1>1, <1>3, LocalMoves
  <2>. QED
    BY <2>1 DEF Idles, IdleWriter
<1>. QED
  BY <1>2, <1>3

\* A reconcile run goes on with its row and its thread.
SameReply(n, s) ==
  n.rows = s.rows /\ n.listing = s.listing /\ n.row = s.row /\ n.thread = s.thread

LEMMA ReconcileMoves ==
  ASSUME PublicationInv, NEW w \in Writers, Reconcile(w) \/ NoAction(w)
  PROVE  LET s == writer[w]  n == writer'[w]
         IN /\ s.pc = "reconcile"
            /\ \/ /\ n.pc \in {"reply", "save_decision"}
                  /\ SameReply(n, s) /\ SamePlace(n, s)
               \/ Idles(w)
            /\ UNCHANGED <<tracked, threads, budget, reviewed>>
<1>1. CASE Reconcile(w)
  <2>1. PICK dismissal \in BOOLEAN, replies \in BOOLEAN :
          Local(w, "reconcile",
                [writer[w] EXCEPT !.pc = IF replies THEN "reply" ELSE "save_decision",
                                  !.stale = dismissal])
    BY <1>1 DEF Reconcile
  <2>. DEFINE pc == IF replies THEN "reply" ELSE "save_decision"
  <2>2. /\ writer'[w] = [writer[w] EXCEPT !.pc = pc, !.stale = dismissal]
        /\ writer[w].pc = "reconcile" /\ UNCHANGED <<tracked, threads, budget, reviewed>>
    BY <2>1, LocalMoves
  <2>3. pc \in {"reply", "save_decision"}
    OBVIOUS
  <2>. HIDE DEF pc
  <2>4. /\ writer'[w].pc = pc /\ SameReply(writer'[w], writer[w])
        /\ SamePlace(writer'[w], writer[w])
    BY <2>2, AboutWriter DEF WriterState, SamePlace, SameReply
  <2>. QED
    BY <2>2, <2>3, <2>4
<1>2. CASE NoAction(w)
  <2>1. /\ writer'[w] = IdleWriter /\ writer[w].pc = "reconcile"
        /\ UNCHANGED <<tracked, threads, budget, reviewed>>
    BY <1>2, LocalMoves DEF NoAction
  <2>. QED
    BY <2>1 DEF Idles, IdleWriter
<1>. QED
  BY <1>1, <1>2

LEMMA ReplyMoves ==
  ASSUME PublicationInv, NEW w \in Writers, Reply(w)
  PROVE  LET s == writer[w]  n == writer'[w]
         IN /\ s.pc = "reply"
            /\ \/ n.pc = "save_decision" /\ SameReply(n, s) /\ SamePlace(n, s)
               \/ Idles(w)
            /\ threads' = [threads EXCEPT ![s.thread].notes = Append(@, BotReply)]
            /\ UNCHANGED <<tracked, budget, reviewed>>
<1>1. /\ writer[w].pc = "reply" /\ UNCHANGED <<tracked, budget, reviewed>>
      /\ threads' = [threads EXCEPT ![writer[w].thread].notes = Append(@, BotReply)]
  BY DEF Reply, At, envVars
<1>2. CASE Leave(w)
  BY <1>1, <1>2, LeaveMoves
<1>3. CASE writer' = [writer EXCEPT ![w].pc = "save_decision"]
  <2>1. writer'[w] = [writer[w] EXCEPT !.pc = "save_decision"]
    BY <1>3 DEF PublicationInv, TypeOK
  <2>2. /\ writer'[w].pc = "save_decision" /\ SameReply(writer'[w], writer[w])
        /\ SamePlace(writer'[w], writer[w])
    BY <2>1, AboutWriter DEF WriterState, SameReply, SamePlace
  <2>. QED
    BY <1>1, <2>2
<1>. QED
  BY <1>2, <1>3 DEF Reply

LEMMA SaveDecisionMoves ==
  ASSUME PublicationInv, NEW w \in Writers, SaveDecision(w)
  PROVE  LET s == writer[w]  n == writer'[w]
         IN /\ s.pc = "save_decision"
            /\ \/ /\ tracked' = [tracked EXCEPT ![s.row] = Dismissed(w)]
                  /\ \/ s.listing[s.thread].resolved /\ Idles(w)
                     \/ n.pc = "resolve" /\ SameReply(n, s) /\ SamePlace(n, s)
               \/ tracked' = [tracked EXCEPT ![s.row] = s.rows[s.row]] /\ Idles(w)
            /\ UNCHANGED <<threads, budget, reviewed>>
<1>1. writer[w].pc = "save_decision" /\ UNCHANGED <<threads, budget, reviewed>>
  BY DEF SaveDecision, At, envVars
<1>2. CASE writer[w].stale /\ writer[w].listing[writer[w].thread].resolved
  <2>1. tracked' = [tracked EXCEPT ![writer[w].row] = Dismissed(w)] /\ Leave(w)
    BY <1>2 DEF SaveDecision, Upsert
  <2>. QED
    BY <1>1, <1>2, <2>1, LeaveMoves
<1>3. CASE writer[w].stale /\ ~writer[w].listing[writer[w].thread].resolved
  <2>1. /\ tracked' = [tracked EXCEPT ![writer[w].row] = Dismissed(w)]
        /\ writer' = [writer EXCEPT ![w].pc = "resolve"]
    BY <1>3 DEF SaveDecision, Upsert
  <2>2. writer'[w] = [writer[w] EXCEPT !.pc = "resolve"]
    BY <2>1 DEF PublicationInv, TypeOK
  <2>3. /\ writer'[w].pc = "resolve" /\ SameReply(writer'[w], writer[w])
        /\ SamePlace(writer'[w], writer[w])
    BY <2>2, AboutWriter DEF WriterState, SameReply, SamePlace
  <2>. QED
    BY <1>1, <2>1, <2>3
<1>4. CASE ~writer[w].stale
  <2>1. tracked' = [tracked EXCEPT ![writer[w].row] = writer[w].rows[writer[w].row]] /\ Leave(w)
    BY <1>4 DEF SaveDecision, Upsert
  <2>. QED
    BY <1>1, <2>1, LeaveMoves
<1>. QED
  BY <1>2, <1>3, <1>4

LEMMA ResolveDismissedMoves ==
  ASSUME PublicationInv, NEW w \in Writers, ResolveDismissed(w)
  PROVE  /\ writer[w].pc = "resolve" /\ Idles(w)
         /\ threads' = [threads EXCEPT ![writer[w].thread].resolved = TRUE]
         /\ UNCHANGED <<tracked, budget, reviewed>>
BY LeaveMoves DEF ResolveDismissed, At, envVars

LEMMA RaisesMove ==
  ASSUME PublicationInv, NEW w \in Writers, Raise(w) \/ RaiseAfterCreate(w)
  PROVE  /\ Idles(w) /\ writer[w].pc \notin {"idle", "save", "save_resolved", "save_decision"}
         /\ \/ Raise(w) /\ threads' = threads /\ ((TargetDeleted(w) /\ budget' = budget) \/ Spend("failures"))
            \/ /\ NeedsThread(w) /\ threads' = Append(threads, NewThread("bot", Finding(w)))
               /\ Spend("failures")
         /\ UNCHANGED <<tracked, reviewed>>
<1>1. CASE Raise(w)
  BY <1>1, LeaveMoves DEF Raise, Fallible
<1>2. CASE RaiseAfterCreate(w)
  BY <1>2, LeaveMoves DEF RaiseAfterCreate, NeedsThread, At
<1>. QED
  BY <1>1, <1>2

-----------------------------------------------------------------------------
(***************************************************************************)
(* One worker, the default of MAX_CONCURRENT_REVIEWS: nobody else writes   *)
(* between the moment a run reads threads and rows and the moment it       *)
(* writes them.  First: the bot does not repeat itself.                    *)
(***************************************************************************)
OneWorker == \A v, w \in Writers : v = w

\* A review that writes its findings.
Publishing == {"place", "create_plain", "save", "remark", "retire", "save_resolved"}

\* Notes written since have no marker.
Unspoken(before, now) ==
  /\ Len(before) <= Len(now)
  /\ \A i \in DOMAIN before : now[i] = before[i]
  /\ \A i \in DOMAIN now : i > Len(before) => now[i].marker = None

\* One thread of OneReplyPerSilence.
SpokenOnce(notes) ==
  \A i, j \in DOMAIN notes :
    i < j /\ notes[i].marker # None /\ notes[j].marker # None =>
      /\ notes[i].marker # notes[j].marker
      /\ \E k \in i..j : notes[k].author = "human"

\* A finding went to thread t.
Answered(s, t) == \E f \in s.used : HasRow(s.rows, f) /\ s.rows[f].thread = t

\* The run knows what was said in the threads it has yet to come to.
Hears(th, s) ==
  /\ s.pc \in Publishing =>
       /\ Len(s.listing) <= Len(th)
       /\ \A t \in DOMAIN s.listing :
            Unspoken(s.listing[t].notes, th[t].notes) \/ Answered(s, t)
  /\ s.pc = "save" /\ s.thread \in DOMAIN s.listing =>
       s.row \notin s.used /\ HasRow(s.rows, s.row) /\ s.rows[s.row].thread = s.thread
  /\ s.pc = "remark" =>
       /\ s.row \in s.used /\ HasRow(s.rows, s.row) /\ s.rows[s.row].thread = s.thread
       /\ s.thread \in DOMAIN s.listing
       /\ Unspoken(s.listing[s.thread].notes, th[s.thread].notes)
       /\ ShouldAddStillPresentReply(s.listing[s.thread], s.sha, s.row)

AllSpokenOnce(th) == \A t \in DOMAIN th : SpokenOnce(th[t].notes)

SilenceInv ==
  /\ PublicationInv
  /\ AllSpokenOnce(threads)
  /\ \A w \in Writers : Hears(threads, writer[w])

LEMMA UnspokenSame ==
  ASSUME NEW a \in Seq(Note)
  PROVE  Unspoken(a, a)
BY DEF Unspoken

LEMMA UnspokenMore ==
  ASSUME NEW a \in Seq(Note), NEW note \in Note, note.marker = None
  PROVE  Unspoken(a, Append(a, note))
BY DEF Unspoken

LEMMA UnspokenTwice ==
  ASSUME NEW a \in Seq(Note), NEW b \in Seq(Note), NEW c \in Seq(Note),
         Unspoken(a, b), Unspoken(b, c)
  PROVE  Unspoken(a, c)
<1>1. ASSUME NEW i \in DOMAIN a PROVE c[i] = a[i]
  <2>1. i \in DOMAIN b
    BY DEF Unspoken
  <2>. QED
    BY <2>1 DEF Unspoken
<1>2. ASSUME NEW i \in DOMAIN c, i > Len(a) PROVE c[i].marker = None
  <2>1. CASE i \in DOMAIN b
    BY <1>2, <2>1 DEF Unspoken
  <2>2. CASE i \notin DOMAIN b
    <3>1. i > Len(b)
      BY <2>2
    <3>. QED
      BY <3>1 DEF Unspoken
  <2>. QED
    BY <2>1, <2>2
<1>3. Len(a) <= Len(c)
  BY DEF Unspoken
<1>. QED
  BY <1>1, <1>2, <1>3 DEF Unspoken

LEMMA UnspokenIsQuiet ==
  ASSUME NEW a \in Seq(Note), NEW b \in Seq(Note), Unspoken(a, b), SpokenOnce(a)
  PROVE  SpokenOnce(b)
<1>1. ASSUME NEW i \in DOMAIN b, b[i].marker # None PROVE i \in DOMAIN a
  <2>1. i \in 1..Len(b) /\ ~(i > Len(a))
    BY <1>1 DEF Unspoken
  <2>. QED
    BY <2>1
<1>2. ASSUME NEW i \in DOMAIN b, NEW j \in DOMAIN b, i < j, b[i].marker # None, b[j].marker # None
      PROVE  b[i].marker # b[j].marker /\ \E k \in i..j : b[k].author = "human"
  <2>1. i \in DOMAIN a /\ j \in DOMAIN a /\ b[i] = a[i] /\ b[j] = a[j]
    BY <1>1, <1>2 DEF Unspoken
  <2>2. a[i].marker # a[j].marker /\ \E k \in i..j : a[k].author = "human"
    BY <1>2, <2>1 DEF SpokenOnce
  <2>3. PICK k \in i..j : a[k].author = "human"
    BY <2>2
  <2>4. k \in DOMAIN a
    BY <2>1, <2>3
  <2>. QED
    BY <2>1, <2>2, <2>3, <2>4 DEF Unspoken
<1>. QED
  BY <1>2 DEF SpokenOnce

\* The reply that a finding is still present: nothing with a marker was said since the
\* listing, in which a human had the last word and this reply is missing.
LEMMA RemarkIsQuiet ==
  ASSUME NEW thread \in Thread, NEW now \in Seq(Note), NEW sha \in Nat, NEW f \in Findings,
         Unspoken(thread.notes, now), SpokenOnce(now),
         ShouldAddStillPresentReply(thread, sha, f)
  PROVE  SpokenOnce(Append(now, StillPresentReply(f, sha)))
<1>. DEFINE before == thread.notes
            note == StillPresentReply(f, sha)
            b == Append(now, note)
<1>1. note \in Note /\ note.marker = [fingerprint |-> f, sha |-> sha]
  BY DEF StillPresentReply, Note, Markers
<1>2. before \in Seq(Note)
  BY DEF Thread
<1>. HIDE DEF note
<1>3. /\ DOMAIN b = 1..(Len(now) + 1) /\ b[Len(now) + 1] = note
      /\ \A i \in DOMAIN now : b[i] = now[i] /\ i \in DOMAIN b
  BY <1>1
<1>. HIDE DEF before, b
<1>4. ASSUME NEW i \in DOMAIN b, NEW j \in DOMAIN b, i < j, b[i].marker # None, b[j].marker # None
      PROVE  b[i].marker # b[j].marker /\ \E k \in i..j : b[k].author = "human"
  <2>1. i \in DOMAIN now /\ b[i] = now[i]
    BY <1>3, <1>4
  <2>2. CASE j \in DOMAIN now
    <3>1. b[j] = now[j]
      BY <1>3, <2>2
    <3>2. now[i].marker # now[j].marker /\ \E k \in i..j : now[k].author = "human"
      BY <1>4, <2>1, <2>2, <3>1 DEF SpokenOnce
    <3>3. PICK k \in i..j : now[k].author = "human"
      BY <3>2
    <3>4. k \in DOMAIN now
      BY <2>1, <2>2, <3>3
    <3>5. b[k].author = "human"
      BY <1>3, <3>3, <3>4
    <3>. QED
      BY <2>1, <3>1, <3>2, <3>5
  <2>3. CASE j \notin DOMAIN now
    <3>1. j = Len(now) + 1 /\ b[j] = note
      BY <1>3, <2>3
    <3>2. i \in DOMAIN before /\ now[i] = before[i]
      <4>1. ~(i > Len(before))
        BY <1>4, <2>1 DEF Unspoken, before
      <4>2. i \in DOMAIN before
        BY <1>2, <2>1, <4>1
      <4>. QED
        BY <4>2 DEF Unspoken, before
    <3>3. before[i].marker # note.marker
      BY <1>1, <3>2 DEF ShouldAddStillPresentReply, before
    <3>. DEFINE k == Len(before)
    <3>4. k \in i..j /\ k \in DOMAIN before /\ k \in DOMAIN now
      BY <1>2, <2>1, <3>1, <3>2 DEF Unspoken, before
    <3>5. before[k].author # "bot"
      BY <1>2, <3>2 DEF ShouldAddStillPresentReply, before
    <3>6. before[k] \in Note
      BY <1>2, <3>4
    <3>7. before[k].author = "human"
      BY <3>5, <3>6 DEF Note
    <3>8. b[k] = before[k]
      BY <1>3, <3>4 DEF Unspoken, before
    <3>. HIDE DEF k
    <3>. QED
      BY <2>1, <3>1, <3>2, <3>3, <3>4, <3>7, <3>8
  <2>. QED
    BY <2>2, <2>3
<1>5. SpokenOnce(b)
  BY <1>4 DEF SpokenOnce
<1>. QED
  BY <1>5 DEF b, note

\* What every step but that reply does to the threads.
Quietly(th1, th2) ==
  /\ Len(th1) <= Len(th2)
  /\ \A t \in DOMAIN th1 : Unspoken(th1[t].notes, th2[t].notes)
  /\ \A t \in DOMAIN th2 : t \in DOMAIN th1 \/ th2[t].notes = <<>>

LEMMA NotesTyped ==
  ASSUME NEW th \in Seq(Thread), NEW t \in DOMAIN th
  PROVE  th[t] \in Thread /\ th[t].notes \in Seq(Note)
<1>1. th[t] \in Thread
  OBVIOUS
<1>. QED
  BY <1>1 DEF Thread

LEMMA QuietSpeech ==
  ASSUME NEW th1 \in Seq(Thread), NEW th2 \in Seq(Thread), Quietly(th1, th2), AllSpokenOnce(th1)
  PROVE  AllSpokenOnce(th2)
<1>1. ASSUME NEW t \in DOMAIN th2 PROVE SpokenOnce(th2[t].notes)
  <2>1. CASE t \in DOMAIN th1
    BY <2>1, NotesTyped, UnspokenIsQuiet DEF Quietly, AllSpokenOnce
  <2>2. CASE t \notin DOMAIN th1
    BY <2>2 DEF Quietly, SpokenOnce
  <2>. QED
    BY <2>1, <2>2
<1>. QED
  BY <1>1 DEF AllSpokenOnce

\* Threads may change while a run is at work.
LEMMA HearsOn ==
  ASSUME NEW th1 \in Seq(Thread), NEW th2 \in Seq(Thread), Quietly(th1, th2),
         NEW s \in WriterState, Hears(th1, s)
  PROVE  Hears(th2, s)
<1>1. s.listing \in Seq(Thread)
  BY DEF WriterState
<1>2. ASSUME NEW t \in DOMAIN s.listing, Len(s.listing) <= Len(th1),
             Unspoken(s.listing[t].notes, th1[t].notes)
      PROVE  Unspoken(s.listing[t].notes, th2[t].notes)
  <2>1. t \in DOMAIN th1 /\ t \in DOMAIN th2
    BY <1>1, <1>2 DEF Quietly
  <2>. QED
    BY <1>1, <1>2, <2>1, NotesTyped, UnspokenTwice DEF Quietly
<1>3. s.pc \in Publishing => Len(s.listing) <= Len(th1)
  BY DEF Hears
<1>4. s.pc = "remark" => s.pc \in Publishing
  BY DEF Publishing
<1>5. s.pc \in Publishing => Len(s.listing) <= Len(th2)
  BY <1>1, <1>3 DEF Quietly
<1>. QED
  BY <1>2, <1>3, <1>4, <1>5 DEF Hears

LEMMA QuietSame ==
  ASSUME NEW th \in Seq(Thread)
  PROVE  Quietly(th, th)
BY NotesTyped, UnspokenSame DEF Quietly

LEMMA QuietNewThread ==
  ASSUME NEW th \in Seq(Thread), NEW author \in {"bot", "human"}, NEW about \in Findings \cup {None}
  PROVE  Quietly(th, Append(th, NewThread(author, about)))
<1>. DEFINE new == NewThread(author, about)
<1>1. new.notes = <<>>
  BY DEF NewThread
<1>. HIDE DEF new
<1>2. /\ DOMAIN Append(th, new) = 1..(Len(th) + 1) /\ Len(Append(th, new)) = Len(th) + 1
      /\ \A t \in DOMAIN th : Append(th, new)[t] = th[t]
      /\ Append(th, new)[Len(th) + 1] = new
  OBVIOUS
<1>3. Quietly(th, Append(th, new))
  BY <1>1, <1>2, NotesTyped, UnspokenSame DEF Quietly
<1>. QED
  BY <1>3 DEF new

LEMMA QuietEdit ==
  ASSUME NEW th \in Seq(Thread), NEW t \in Nat, NEW b \in BOOLEAN
  PROVE  /\ Quietly(th, [th EXCEPT ![t].resolved = b])
         /\ Quietly(th, [th EXCEPT ![t].deleted = b])
<1>1. ASSUME NEW u \in DOMAIN th
      PROVE  /\ [th EXCEPT ![t].resolved = b][u].notes = th[u].notes
             /\ [th EXCEPT ![t].deleted = b][u].notes = th[u].notes
  BY NotesTyped DEF Thread
<1>2. /\ DOMAIN [th EXCEPT ![t].resolved = b] = DOMAIN th
      /\ DOMAIN [th EXCEPT ![t].deleted = b] = DOMAIN th
      /\ Len([th EXCEPT ![t].resolved = b]) = Len(th)
      /\ Len([th EXCEPT ![t].deleted = b]) = Len(th)
  OBVIOUS
<1>. QED
  BY <1>1, <1>2, NotesTyped, UnspokenSame DEF Quietly

LEMMA QuietNote ==
  ASSUME NEW th \in Seq(Thread), NEW t \in Nat, NEW note \in Note, note.marker = None
  PROVE  Quietly(th, [th EXCEPT ![t].notes = Append(@, note)])
<1>. DEFINE th2 == [th EXCEPT ![t].notes = Append(@, note)]
<1>1. DOMAIN th2 = DOMAIN th /\ Len(th2) = Len(th)
  OBVIOUS
<1>2. ASSUME NEW u \in DOMAIN th PROVE Unspoken(th[u].notes, th2[u].notes)
  <2>1. th2[u].notes = IF u = t THEN Append(th[u].notes, note) ELSE th[u].notes
    BY NotesTyped DEF Thread
  <2>. QED
    BY <2>1, NotesTyped, UnspokenSame, UnspokenMore
<1>. HIDE DEF th2
<1>3. Quietly(th, th2)
  BY <1>1, <1>2 DEF Quietly
<1>. QED
  BY <1>3 DEF th2

\* Nothing of a run but live, which a superseding request takes away.
SameRun(n, s) ==
  SameWork(n, s) /\ SamePlace(n, s) /\ n.pc = s.pc /\ n.row = s.row /\ n.thread = s.thread

LEMMA GitLabMoves ==
  ASSUME PublicationInv, GitLabStep
  PROVE  /\ UNCHANGED <<tracked, lastDone, reviewed>>
         /\ \A w \in Writers : SameRun(writer'[w], writer[w])
         /\ \/ threads' = threads
            \/ Spend("humanThreads") /\ threads' = Append(threads, NewThread("human", None))
            \/ \E t \in DOMAIN threads :
                 \/ threads' = [threads EXCEPT ![t].notes = Append(@, HumanNote)]
                    /\ Spend("replies")
                 \/ Spend("resolves") /\ threads' = [threads EXCEPT ![t].resolved = TRUE]
                 \/ Spend("deletions") /\ threads' = [threads EXCEPT ![t].deleted = TRUE]
         /\ budget' = budget \/ \E what \in {"pushes", "replies", "humanThreads", "resolves", "deletions"} : Spend(what)
<1>1. writer \in [Writers -> WriterState]
  BY DEF PublicationInv, TypeOK
<1>2. ASSUME EnqueueReview, NEW w \in Writers PROVE SameRun(writer'[w], writer[w])
  <2>1. writer'[w] = [writer[w] EXCEPT !.live = FALSE] /\ writer[w] \in WriterState
    BY <1>1, <1>2 DEF EnqueueReview
  <2>. QED
    BY <2>1 DEF WriterState, SameRun, SameWork, SamePlace
<1>3. ASSUME writer' = writer, NEW w \in Writers PROVE SameRun(writer'[w], writer[w])
  BY <1>3 DEF SameRun, SameWork, SamePlace
<1>4. CASE Push \/ RequestAgain
  BY <1>2, <1>4 DEF Push, RequestAgain
<1>5. CASE OpenThread
  BY <1>3, <1>5 DEF OpenThread
<1>6. ASSUME NEW t \in DOMAIN threads, PostReply(t) \/ ResolveByHuman(t) \/ DeleteThread(t)
      PROVE  /\ UNCHANGED <<tracked, lastDone, reviewed, writer>>
             /\ \/ threads' = [threads EXCEPT ![t].notes = Append(@, HumanNote)]
                   /\ Spend("replies")
                \/ Spend("resolves") /\ threads' = [threads EXCEPT ![t].resolved = TRUE]
                \/ Spend("deletions") /\ threads' = [threads EXCEPT ![t].deleted = TRUE]
  BY <1>6 DEF PostReply, ResolveByHuman, DeleteThread
<1>. QED
  BY <1>3, <1>4, <1>5, <1>6 DEF GitLabStep

LEMMA GitLabQuiet ==
  ASSUME PublicationInv, GitLabStep
  PROVE  Quietly(threads, threads')
<1>1. threads \in Seq(Thread)
  BY DEF PublicationInv, TypeOK
<1>2. HumanNote \in Note /\ HumanNote.marker = None
  BY DEF HumanNote, Note
<1>3. CASE threads' = threads
  BY <1>1, <1>3, QuietSame
<1>4. CASE threads' = Append(threads, NewThread("human", None))
  BY <1>1, <1>4, QuietNewThread
<1>5. ASSUME NEW t \in DOMAIN threads,
             \/ threads' = [threads EXCEPT ![t].notes = Append(@, HumanNote)]
             \/ threads' = [threads EXCEPT ![t].resolved = TRUE]
             \/ threads' = [threads EXCEPT ![t].deleted = TRUE]
      PROVE  Quietly(threads, threads')
  <2>1. t \in Nat
    BY <1>1
  <2>2. Quietly(threads, [threads EXCEPT ![t].notes = Append(@, HumanNote)])
    BY <1>1, <1>2, <2>1, QuietNote
  <2>3. /\ Quietly(threads, [threads EXCEPT ![t].resolved = TRUE])
        /\ Quietly(threads, [threads EXCEPT ![t].deleted = TRUE])
    BY <1>1, <2>1, QuietEdit
  <2>. QED
    BY <1>5, <2>2, <2>3
<1>. QED
  BY <1>3, <1>4, <1>5, GitLabMoves

LEMMA WriterQuiet ==
  ASSUME PublicationInv, NEW w \in Writers, WriterStep(w)
  PROVE  Quietly(threads, threads') \/ AddStillPresentReply(w)
<1>1. threads \in Seq(Thread) /\ writer[w].thread \in Nat
  BY AboutWriter DEF WriterState
<1>2. CASE threads' = threads
  BY <1>1, <1>2, QuietSame
<1>3. CASE /\ threads' = Append(threads, NewThread("bot", Finding(w)))
           /\ writer[w].pc \in {"place", "create_plain"}
  BY <1>1, <1>3, FindingAtHand, QuietNewThread
<1>4. ASSUME NEW t \in Nat, NEW b \in BOOLEAN, threads' = [threads EXCEPT ![t].resolved = b]
      PROVE  Quietly(threads, threads')
  BY <1>1, <1>4, QuietEdit
<1>5. CASE Reply(w)
  <2>1. BotReply \in Note /\ BotReply.marker = None
    BY DEF BotReply, Note
  <2>2. threads' = [threads EXCEPT ![writer[w].thread].notes = Append(@, BotReply)]
    BY <1>5, ReplyMoves
  <2>3. Quietly(threads, [threads EXCEPT ![writer[w].thread].notes = Append(@, BotReply)])
    BY <1>1, <2>1, QuietNote
  <2>. QED
    BY <2>2, <2>3
<1>6. CASE PlaceInThread(w)
  <2>1. writer[w].pc = "place" /\ writer'[w].row \in RowsForFinding(w)
        /\ writer'[w].thread = writer[w].rows[writer'[w].row].thread
        /\ \/ threads' = threads
           \/ threads' = [threads EXCEPT ![writer'[w].thread].resolved = FALSE]
    BY <1>6, PlaceInThreadMoves
  <2>2. writer'[w].thread \in Nat
    BY <2>1, FindingAtHand, MatchedRowExists, AboutWriter DEF WriterState, HasRow, Row
  <2>. QED
    BY <1>2, <1>4, <2>1, <2>2
<1>7. CASE ResolveThread(w)
  <2>1. /\ writer'[w].row \in Retiring(w)
        /\ threads' = [threads EXCEPT ![writer[w].rows[writer'[w].row].thread].resolved = TRUE]
    BY <1>7, ResolveThreadMoves
  <2>2. writer[w].rows[writer'[w].row].thread \in Nat
    BY <2>1, RetiringRow DEF Row
  <2>. QED
    BY <1>4, <2>1, <2>2
<1>8. CASE ResolveDismissed(w)
  BY <1>1, <1>4, <1>8, ResolveDismissedMoves
<1>9. CASE SaveResolved(w)
  BY <1>2, <1>9, SaveResolvedMoves
<1>10. CASE Raise(w) \/ RaiseAfterCreate(w)
  BY <1>2, <1>3, <1>10, RaisesMove DEF NeedsThread, At
<1>11. CASE InlineFails(w)
  BY <1>2, <1>3, <1>11, InlineFailsMoves
<1>12. CASE CreateThread(w)
  BY <1>3, <1>12, CreateThreadMoves
<1>13. CASE \/ StartReview(w) \/ ListRows(w) \/ RunAgent(w) \/ CheckStatus(w) \/ CheckHead(w)
            \/ ListThreads(w) \/ SaveFinding(w) \/ MarkDone(w)
  BY <1>2, <1>13, StartMoves, ListRowsMoves, RunAgentMoves, ChecksMove, ListThreadsMoves,
     SaveFindingMoves, MarkDoneMoves
<1>14. CASE \/ StartReconcile(w) \/ FindThread(w) \/ FindRow(w) \/ Reconcile(w) \/ NoAction(w)
            \/ SaveDecision(w)
  BY <1>2, <1>14, StartMoves, FindThreadMoves, FindRowMoves, ReconcileMoves, SaveDecisionMoves
<1>. QED
  BY <1>5, <1>6, <1>7, <1>8, <1>9, <1>10, <1>11, <1>12, <1>13, <1>14
     DEF WriterStep, ReviewStep, ReconcileStep

LEMMA HearsElsewhere ==
  ASSUME NEW th, NEW n, n.pc \notin Publishing
  PROVE  Hears(th, n)
BY DEF Hears, Publishing

\* A publication goes on between two places where it waits for nothing.
LEMMA HearsAtRest ==
  ASSUME NEW th, NEW s, NEW n, s.pc \in Publishing, Hears(th, s),
         n.pc \in {"place", "create_plain", "retire", "save_resolved"},
         n.listing = s.listing, n.rows = s.rows, s.used \subseteq n.used
  PROVE  Hears(th, n)
BY DEF Hears, Publishing, Answered

LEMMA PlaceInThreadHears ==
  ASSUME SilenceInv, NEW w \in Writers, PlaceInThread(w)
  PROVE  Hears(threads', writer'[w])
<1>. DEFINE s == writer[w]
            n == writer'[w]
<1>1. PublicationInv /\ s \in WriterState /\ threads \in Seq(Thread) /\ Hears(threads, s)
  BY AboutWriter DEF SilenceInv
<1>2. /\ s.pc = "place" /\ n.pc = "save" /\ SameWork(n, s) /\ SamePlace(n, s)
      /\ n.row \in RowsForFinding(w) /\ n.thread = s.rows[n.row].thread
  BY <1>1, PlaceInThreadMoves
<1>3. threads' \in Seq(Thread) /\ Quietly(threads, threads')
  <2>1. PublicationInv'
    BY <1>1, PlaceInThreadKeeps
  <2>2. ~AddStillPresentReply(w)
    BY <1>2 DEF AddStillPresentReply, At
  <2>3. WriterStep(w)
    BY DEF WriterStep, ReviewStep
  <2>. QED
    BY <1>1, <2>1, <2>2, <2>3, WriterQuiet DEF PublicationInv, TypeOK
<1>4. Hears(threads', s)
  BY <1>1, <1>3, HearsOn
<1>5. n.row \notin s.used /\ HasRow(s.rows, n.row)
  BY <1>2 DEF RowsForFinding, MatchingRows
<1>. HIDE DEF s, n
<1>6. Hears(threads', n)
  BY <1>2, <1>4, <1>5 DEF Hears, Publishing, Answered, SameWork, SamePlace
<1>. QED
  BY <1>6 DEF n

LEMMA CreateThreadHears ==
  ASSUME SilenceInv, NEW w \in Writers, CreateThread(w)
  PROVE  Hears(threads', writer'[w])
<1>. DEFINE s == writer[w]
            n == writer'[w]
<1>1. /\ PublicationInv /\ s \in WriterState /\ threads \in Seq(Thread) /\ Hears(threads, s)
      /\ s.listing \in Seq(Thread)
  BY AboutWriter DEF SilenceInv, WriterState
<1>2. /\ s.pc \in {"place", "create_plain"} /\ n.pc = "save" /\ SameWork(n, s) /\ SamePlace(n, s)
      /\ n.thread = Len(threads) + 1
  BY <1>1, CreateThreadMoves
<1>3. threads' \in Seq(Thread) /\ Quietly(threads, threads')
  <2>1. PublicationInv'
    BY <1>1, CreateThreadKeeps
  <2>2. ~AddStillPresentReply(w)
    BY <1>2 DEF AddStillPresentReply, At
  <2>3. WriterStep(w)
    BY DEF WriterStep, ReviewStep
  <2>. QED
    BY <1>1, <2>1, <2>2, <2>3, WriterQuiet DEF PublicationInv, TypeOK
<1>4. Hears(threads', s)
  BY <1>1, <1>3, HearsOn
<1>5. Len(s.listing) <= Len(threads)
  BY <1>1, <1>2 DEF Hears, Publishing
<1>6. n.thread \notin DOMAIN s.listing
  BY <1>1, <1>2, <1>5
<1>. HIDE DEF s, n
<1>7. Hears(threads', n)
  BY <1>2, <1>4, <1>6 DEF Hears, Publishing, Answered, SameWork, SamePlace
<1>. QED
  BY <1>7 DEF n

LEMMA InlineFailsHears ==
  ASSUME SilenceInv, NEW w \in Writers, InlineFails(w)
  PROVE  Hears(threads', writer'[w])
<1>. DEFINE s == writer[w]
            n == writer'[w]
<1>1. PublicationInv /\ s \in WriterState /\ threads \in Seq(Thread) /\ Hears(threads, s)
  BY AboutWriter DEF SilenceInv
<1>2. /\ s.pc = "place"
      /\ \/ n.pc = "create_plain" /\ SameWork(n, s) /\ SamePlace(n, s)
         \/ n.pc = "idle"
  BY <1>1, InlineFailsMoves DEF Idles
<1>3. threads' \in Seq(Thread) /\ Quietly(threads, threads')
  <2>1. PublicationInv'
    BY <1>1, InlineFailsKeeps
  <2>2. ~AddStillPresentReply(w)
    BY <1>2 DEF AddStillPresentReply, At
  <2>3. WriterStep(w)
    BY DEF WriterStep, ReviewStep
  <2>. QED
    BY <1>1, <2>1, <2>2, <2>3, WriterQuiet DEF PublicationInv, TypeOK
<1>4. Hears(threads', s)
  BY <1>1, <1>3, HearsOn
<1>. HIDE DEF s, n
<1>5. Hears(threads', n)
  BY <1>2, <1>4, HearsAtRest, HearsElsewhere DEF Publishing, SameWork, SamePlace
<1>. QED
  BY <1>5 DEF n

LEMMA SaveFindingHears ==
  ASSUME SilenceInv, NEW w \in Writers, SaveFinding(w)
  PROVE  Hears(threads', writer'[w])
<1>. DEFINE s == writer[w]
            n == writer'[w]
<1>1. PublicationInv /\ s \in WriterState /\ Knows(threads, s) /\ Hears(threads, s)
  BY AboutWriter DEF SilenceInv
<1>2. /\ s.pc = "save" /\ SameWork(n, s) /\ n.used = s.used \cup {s.row} /\ threads' = threads
      /\ \/ n.pc = "remark" /\ RemarkIsDue(w) /\ n.row = s.row /\ n.thread = s.thread
         \/ n.pc \in {"place", "retire"}
  BY <1>1, SaveFindingMoves DEF Advances
<1>3. CASE n.pc \in {"place", "retire"}
  <2>. HIDE DEF s, n
  <2>1. Hears(threads, n)
    BY <1>1, <1>2, <1>3, HearsAtRest DEF Publishing, SameWork
  <2>. QED
    BY <1>2, <2>1 DEF n
<1>4. CASE n.pc = "remark"
  <2>1. /\ s.thread \in DOMAIN s.listing
        /\ ShouldAddStillPresentReply(s.listing[s.thread], s.sha, s.row)
        /\ n.row = s.row /\ n.thread = s.thread
    BY <1>2, <1>4 DEF RemarkIsDue, Listed
  <2>2. s.row \notin s.used /\ HasRow(s.rows, s.row) /\ s.rows[s.row].thread = s.thread
    BY <1>1, <1>2, <2>1 DEF Hears
  <2>3. Leads(threads, s.row, s.thread) /\ s.row \in Findings
    BY <1>1, <1>2 DEF Knows
  <2>. HIDE DEF s, n
  <2>4. ~Answered(s, s.thread)
    <3>1. ASSUME NEW f \in s.used, HasRow(s.rows, f), s.rows[f].thread = s.thread PROVE FALSE
      <4>1. f \in Findings
        BY <1>1, <3>1 DEF WriterState
      <4>2. Leads(threads, f, s.thread)
        BY <1>1, <3>1, <4>1 DEF Knows
      <4>. QED
        BY <2>2, <2>3, <3>1, <4>2 DEF Leads
    <3>. QED
      BY <3>1 DEF Answered
  <2>5. Unspoken(s.listing[s.thread].notes, threads[s.thread].notes)
    BY <1>1, <1>2, <2>1, <2>4 DEF Hears, Publishing
  <2>6. /\ Len(s.listing) <= Len(threads)
        /\ \A t \in DOMAIN s.listing :
             Unspoken(s.listing[t].notes, threads[t].notes) \/ Answered(n, t)
    BY <1>1, <1>2 DEF Hears, Publishing, Answered, SameWork
  <2>7. Hears(threads, n)
    BY <1>2, <1>4, <2>1, <2>2, <2>5, <2>6 DEF Hears, SameWork
  <2>. QED
    BY <1>2, <2>7 DEF n
<1>. QED
  BY <1>2, <1>3, <1>4

\* The only step that writes a marker.
LEMMA AddStillPresentReplyHears ==
  ASSUME SilenceInv, NEW w \in Writers, AddStillPresentReply(w)
  PROVE  AllSpokenOnce(threads') /\ Hears(threads', writer'[w])
<1>. DEFINE s == writer[w]
            n == writer'[w]
            t == s.thread
            note == StillPresentReply(s.row, s.sha)
<1>1. /\ PublicationInv /\ s \in WriterState /\ Knows(threads, s) /\ Hears(threads, s)
      /\ threads \in Seq(Thread) /\ AllSpokenOnce(threads)
  BY AboutWriter DEF SilenceInv
<1>2. /\ s.pc = "remark" /\ SameWork(n, s) /\ n.used = s.used /\ n.pc \in {"place", "retire"}
      /\ threads' = [threads EXCEPT ![t].notes = Append(@, note)]
  BY <1>1, AddStillPresentReplyMoves DEF Advances
<1>3. /\ s.row \in s.used /\ HasRow(s.rows, s.row) /\ s.rows[s.row].thread = t
      /\ t \in DOMAIN s.listing
      /\ Unspoken(s.listing[t].notes, threads[t].notes)
      /\ ShouldAddStillPresentReply(s.listing[t], s.sha, s.row)
      /\ Len(s.listing) <= Len(threads)
      /\ \A u \in DOMAIN s.listing :
           Unspoken(s.listing[u].notes, threads[u].notes) \/ Answered(s, u)
  BY <1>1, <1>2 DEF Hears, Publishing
<1>4. /\ s.listing \in Seq(Thread) /\ s.sha \in Nat /\ s.row \in Findings
  BY <1>1, <1>2 DEF WriterState, Knows
<1>5. t \in DOMAIN threads /\ threads[t].notes \in Seq(Note) /\ s.listing[t] \in Thread
  <2>1. t \in DOMAIN threads
    BY <1>1, <1>3, <1>4
  <2>. QED
    BY <1>1, <1>3, <1>4, <2>1, NotesTyped
<1>6. SpokenOnce(Append(threads[t].notes, note))
  <2>1. SpokenOnce(threads[t].notes)
    BY <1>1, <1>5 DEF AllSpokenOnce
  <2>. QED
    BY <1>3, <1>4, <1>5, <2>1, RemarkIsQuiet
<1>. HIDE DEF note
<1>7. /\ DOMAIN threads' = DOMAIN threads /\ Len(threads') = Len(threads)
      /\ threads'[t].notes = Append(threads[t].notes, note)
      /\ \A u \in DOMAIN threads : u # t => threads'[u] = threads[u]
  <2>1. threads[t] \in Thread
    BY <1>1, <1>5
  <2>. QED
    BY <1>1, <1>2, <1>5, <2>1 DEF Thread
<1>8. AllSpokenOnce(threads')
  BY <1>1, <1>6, <1>7 DEF AllSpokenOnce
<1>9. Answered(n, t)
  BY <1>2, <1>3 DEF Answered, SameWork
<1>10. ASSUME NEW u \in DOMAIN s.listing
       PROVE  Unspoken(s.listing[u].notes, threads'[u].notes) \/ Answered(n, u)
  <2>1. u \in DOMAIN threads
    BY <1>1, <1>3, <1>4
  <2>2. CASE u = t
    BY <1>9, <2>2
  <2>3. CASE u # t
    BY <1>2, <1>3, <1>7, <2>1, <2>3 DEF Answered, SameWork
  <2>. QED
    BY <2>2, <2>3
<1>. HIDE DEF s, n, t
<1>11. Hears(threads', n)
  BY <1>2, <1>3, <1>7, <1>10 DEF Hears, SameWork
<1>. QED
  BY <1>8, <1>11 DEF n

LEMMA ResolvesHear ==
  ASSUME SilenceInv, NEW w \in Writers, ResolveThread(w) \/ SaveResolved(w)
  PROVE  Hears(threads', writer'[w])
<1>. DEFINE s == writer[w]
            n == writer'[w]
<1>1. PublicationInv /\ s \in WriterState /\ threads \in Seq(Thread) /\ Hears(threads, s)
  BY AboutWriter DEF SilenceInv
<1>3. /\ s.pc \in {"retire", "save_resolved"} /\ n.pc \in {"retire", "save_resolved"}
      /\ n.listing = s.listing /\ n.rows = s.rows /\ s.used \subseteq n.used
  <2>1. CASE ResolveThread(w)
    BY <1>1, <2>1, ResolveThreadMoves DEF SameWork, SamePlace
  <2>2. CASE SaveResolved(w)
    BY <1>1, <2>2, SaveResolvedMoves DEF SameWork
  <2>. QED
    BY <2>1, <2>2
<1>4. threads' \in Seq(Thread) /\ Quietly(threads, threads')
  <2>1. PublicationInv'
    BY <1>1, ResolveThreadKeeps, SaveResolvedKeeps
  <2>2. ~AddStillPresentReply(w)
    BY <1>3 DEF AddStillPresentReply, At
  <2>3. WriterStep(w)
    BY DEF WriterStep, ReviewStep
  <2>. QED
    BY <1>1, <2>1, <2>2, <2>3, WriterQuiet DEF PublicationInv, TypeOK
<1>5. Hears(threads', s)
  BY <1>1, <1>4, HearsOn
<1>. HIDE DEF s, n
<1>. QED
  BY <1>3, <1>5, HearsAtRest DEF Publishing, n

LEMMA ListThreadsHears ==
  ASSUME SilenceInv, NEW w \in Writers, ListThreads(w)
  PROVE  Hears(threads', writer'[w])
<1>1. /\ threads' = threads /\ writer'[w].listing = threads
      /\ writer'[w].pc \in {"place", "retire"} /\ threads \in Seq(Thread)
  BY ListThreadsMoves, AboutWriter DEF SilenceInv, Advances
<1>2. \A t \in DOMAIN threads : Unspoken(threads[t].notes, threads[t].notes)
  BY <1>1, NotesTyped, UnspokenSame
<1>. QED
  BY <1>1, <1>2 DEF Hears

LEMMA WriterHears ==
  ASSUME SilenceInv, NEW w \in Writers, WriterStep(w)
  PROVE  Hears(threads', writer'[w])
<1>1. PublicationInv
  BY DEF SilenceInv
<1>2. ASSUME writer'[w].pc \notin Publishing PROVE Hears(threads', writer'[w])
  BY <1>2, HearsElsewhere
<1>3. CASE StartReview(w) \/ StartReconcile(w)
  BY <1>1, <1>2, <1>3, StartMoves DEF Publishing
<1>4. CASE ListRows(w) \/ RunAgent(w)
  BY <1>1, <1>2, <1>4, ListRowsMoves, RunAgentMoves DEF Publishing
<1>5. CASE CheckStatus(w) \/ CheckHead(w) \/ MarkDone(w)
  BY <1>1, <1>2, <1>5, ChecksMove, MarkDoneMoves DEF Idles, Publishing
<1>6. CASE FindThread(w) \/ FindRow(w)
  BY <1>1, <1>2, <1>6, FindThreadMoves, FindRowMoves DEF Idles, Publishing
<1>7. CASE Reconcile(w) \/ NoAction(w) \/ Reply(w)
  BY <1>1, <1>2, <1>7, ReconcileMoves, ReplyMoves DEF Idles, Publishing
<1>8. CASE SaveDecision(w) \/ ResolveDismissed(w)
  BY <1>1, <1>2, <1>8, SaveDecisionMoves, ResolveDismissedMoves DEF Idles, Publishing
<1>9. CASE Raise(w) \/ RaiseAfterCreate(w)
  BY <1>1, <1>2, <1>9, RaisesMove DEF Idles, Publishing
<1>. QED
  BY <1>3, <1>4, <1>5, <1>6, <1>7, <1>8, <1>9, ListThreadsHears, PlaceInThreadHears,
     CreateThreadHears, InlineFailsHears, SaveFindingHears, AddStillPresentReplyHears, ResolvesHear
     DEF WriterStep, ReviewStep, ReconcileStep

LEMMA SilenceStep == OneWorker /\ SilenceInv /\ [Next]_vars => SilenceInv'
<1>. SUFFICES ASSUME OneWorker, SilenceInv, [Next]_vars PROVE SilenceInv'
  OBVIOUS
<1>1. PublicationInv /\ PublicationInv' /\ threads \in Seq(Thread) /\ threads' \in Seq(Thread)
  BY PublicationStep DEF SilenceInv, PublicationInv, TypeOK
<1>2. CASE GitLabStep
  <2>1. Quietly(threads, threads') /\ AllSpokenOnce(threads')
    BY <1>1, <1>2, GitLabQuiet, QuietSpeech DEF SilenceInv
  <2>2. ASSUME NEW w \in Writers PROVE Hears(threads', writer'[w])
    <3>1. SameRun(writer'[w], writer[w])
      BY <1>1, <1>2, GitLabMoves
    <3>2. Hears(threads', writer[w])
      BY <1>1, <2>1, AboutWriter, HearsOn DEF SilenceInv
    <3>. QED
      BY <3>1, <3>2 DEF Hears, Answered, SameRun, SameWork, SamePlace
  <2>. QED
    BY <1>1, <2>1, <2>2 DEF SilenceInv
<1>3. ASSUME NEW w \in Writers, WriterStep(w) PROVE SilenceInv'
  <2>1. Hears(threads', writer'[w])
    BY <1>3, WriterHears
  <2>2. \A v \in Writers : Hears(threads', writer'[v])
    BY <2>1 DEF OneWorker
  <2>3. AllSpokenOnce(threads')
    BY <1>1, <1>3, WriterQuiet, QuietSpeech, AddStillPresentReplyHears DEF SilenceInv
  <2>. QED
    BY <1>1, <2>2, <2>3 DEF SilenceInv
<1>4. CASE UNCHANGED vars
  BY <1>1, <1>4 DEF vars, SilenceInv
<1>. QED
  BY <1>2, <1>3, <1>4 DEF Next

LEMMA SilenceInit == Init => SilenceInv
<1>. SUFFICES ASSUME Init PROVE SilenceInv
  OBVIOUS
<1>1. AllSpokenOnce(threads)
  BY DEF Init, AllSpokenOnce
<1>2. \A w \in Writers : Hears(threads, writer[w])
  BY HearsElsewhere DEF Init, IdleWriter, Publishing
<1>. QED
  BY <1>1, <1>2, PublicationInit DEF SilenceInv

\* With one worker, whatever is pushed, posted, resolved, deleted or fails: between two
\* "still present" replies in a thread a human spoke, and they are for different commits
\* or findings (_should_add_still_present_reply looks at a listing that may be minutes old).
THEOREM OneReplyInSilence == OneWorker => (Spec => []OneReplyPerSilence)
<1>. SUFFICES ASSUME OneWorker PROVE Spec => []OneReplyPerSilence
  OBVIOUS
<1>1. SilenceInv /\ [Next]_vars => SilenceInv'
  BY SilenceStep
<1>2. SilenceInv => OneReplyPerSilence
  BY DEF SilenceInv, AllSpokenOnce, SpokenOnce, OneReplyPerSilence
<1>. QED
  BY <1>1, <1>2, SilenceInit, PTL DEF Spec

-----------------------------------------------------------------------------
(***************************************************************************)
(* One worker, and findings that are told apart: resembling is transitive, *)
(* and no report says the same thing twice.  Then a row stands for the     *)
(* findings its key resembles, whatever comes and goes.                    *)
(***************************************************************************)
\* What findings_match would have to be, and a report to be free of, for rows to
\* stand for findings; the theorems that assume it fail without it.
TellsApart ==
  /\ \A f, g, h \in Findings : findings_match(f, g) /\ findings_match(g, h) => findings_match(f, h)
  /\ \A report \in Reports : \A i, j \in DOMAIN report :
       findings_match(report[i], report[j]) => i = j

\* A review that has read the rows, and a reconcile run that has.
Reviewing == {"run_agent", "check_status", "check_head", "list_threads"} \cup Publishing
Answering == {"reconcile", "reply", "save_decision"}

\* A row resembles what it describes, and no two rows resemble each other.
RowsApart(rows) ==
  /\ \A f \in Findings : HasRow(rows, f) => findings_match(f, rows[f].about)
  /\ \A f, g \in Findings : HasRow(rows, f) /\ HasRow(rows, g) /\ findings_match(f, g) => f = g

\* The findings of the report whose rows are written.
Saved(s) ==
  IF s.pc \in {"place", "create_plain", "save"} THEN 1..(s.place - 1)
  ELSE IF s.pc = "remark" THEN 1..s.place ELSE DOMAIN s.report

\* The copy of the rows is good where the run has not written.
Copied(tr, s) ==
  /\ s.pc \in Reviewing \cup Answering => \A f \in Findings \ s.used : tr[f] = s.rows[f]
  /\ s.pc \notin Publishing => s.used = {} /\ s.place = 0
  /\ RowsApart(s.rows)

\* What is reported was not suppressed.
NotSuppressed(s) ==
  s.pc \in Reviewing \ {"run_agent"} =>
    /\ s.report \in Reports
    /\ \A i \in DOMAIN s.report : MayBeKept(s.report[i], s.rows, s.near)

\* The rows the run has written are those of the findings it has saved, and
\* those it retired.
IsOpen(tr, f) == HasRow(tr, f) /\ tr[f].status = "open"
Written(tr, s) ==
  s.pc \in Publishing =>
    /\ \A i \in Saved(s) : \E f \in s.used : IsOpen(tr, f) /\ tr[f].about = s.report[i]
    /\ \A f \in s.used :
         \/ IsOpen(tr, f) /\ \E i \in Saved(s) : tr[f].about = s.report[i]
         \/ /\ HasRow(tr, f) /\ tr[f].status = "resolved"
            /\ s.pc \in {"retire", "save_resolved"}

\* The row at hand: nobody else's, and one the finding may go to.
Unmatched(rows, f) == \A g \in Findings : HasRow(rows, g) => ~findings_match(g, f)
Chosen(s) ==
  LET f == s.report[s.place]
  IN /\ s.row \notin s.used
     /\ findings_match(f, s.row)
     /\ IF HasRow(s.rows, s.row)
        THEN /\ s.rows[s.row].thread = s.thread
             /\ s.rows[s.row].status = "dismissed_by_discussion" =>
                  s.rows[s.row].about \in s.near
        ELSE s.row = f /\ Unmatched(s.rows, s.row)
AtHand(s) ==
  /\ s.pc = "create_plain" => MatchingRows(s.report[s.place], s.rows, s.used, s.near) = {}
  /\ s.pc = "save" => Chosen(s)
  /\ s.pc = "save_resolved" => s.row \in InStatus(s.rows, "open") \ s.used
  /\ s.pc \in Answering => s.row \in InStatus(s.rows, "open")

Tidy(tr, s) == Copied(tr, s) /\ NotSuppressed(s) /\ Written(tr, s) /\ AtHand(s)

TidyInv ==
  /\ PublicationInv
  /\ RowsApart(tracked)
  /\ \A w \in Writers : Tidy(tracked, writer[w])

LEMMA MatchIsSymmetric ==
  ASSUME NEW f, NEW g, findings_match(f, g)
  PROVE  findings_match(g, f)
<1>1. {f, g} = {g, f}
  OBVIOUS
<1>. QED
  BY <1>1 DEF findings_match

\* Two rows that resemble one finding are the same.
LEMMA OneRowForAFinding ==
  ASSUME TellsApart, NEW rows, RowsApart(rows), NEW f \in Findings,
         NEW g \in Findings, HasRow(rows, g), findings_match(g, f),
         NEW h \in Findings, HasRow(rows, h), findings_match(h, f)
  PROVE  g = h
<1>1. findings_match(g, h)
  BY MatchIsSymmetric DEF TellsApart
<1>. QED
  BY <1>1 DEF RowsApart

\* A row that resembles a reported finding was not dismissed, or the diff has changes near it.
LEMMA KeptMeansNear ==
  ASSUME TellsApart, NEW rows \in [Findings -> Row \cup {None}], RowsApart(rows), NEW near,
         NEW f \in Findings, MayBeKept(f, rows, near),
         NEW g \in Findings, HasRow(rows, g), findings_match(g, f),
         rows[g].status = "dismissed_by_discussion"
  PROVE  rows[g].about \in near
<1>1. rows[g] \in Row /\ rows[g].about \in Findings
  BY DEF HasRow, Row
<1>2. findings_match(f, rows[g].about)
  BY <1>1, MatchIsSymmetric DEF TellsApart, RowsApart
<1>3. g \in DismissedMatches(f, rows)
  BY <1>2 DEF DismissedMatches, InStatus
<1>4. PICK h \in DismissedMatches(f, rows) : rows[h].about \in near
  BY <1>3 DEF MayBeKept
<1>5. h \in Findings /\ HasRow(rows, h) /\ findings_match(f, rows[h].about)
  BY <1>4 DEF DismissedMatches, InStatus
<1>6. rows[h].about \in Findings
  BY <1>5 DEF HasRow, Row
<1>7. findings_match(h, f)
  BY <1>5, <1>6, MatchIsSymmetric DEF TellsApart, RowsApart
<1>8. g = h
  BY <1>5, <1>7, OneRowForAFinding
<1>. QED
  BY <1>4, <1>8

\* The best of some rows.
LEMMA BestRow ==
  ASSUME NEW rows \in [Findings -> Row \cup {None}], NEW S \in SUBSET Findings,
         \A f \in S : HasRow(rows, f), S # {}
  PROVE  \E f \in S : \A g \in S : Priority(rows[f]) <= Priority(rows[g])
<1>1. \A f \in S : Priority(rows[f]) \in 0..2
  BY DEF Priority
<1>2. CASE \E f \in S : Priority(rows[f]) = 0
  BY <1>1, <1>2
<1>3. CASE (\A f \in S : Priority(rows[f]) # 0) /\ \E f \in S : Priority(rows[f]) = 1
  BY <1>1, <1>3
<1>4. CASE \A f \in S : Priority(rows[f]) # 0 /\ Priority(rows[f]) # 1
  BY <1>1, <1>4
<1>. QED
  BY <1>2, <1>3, <1>4

\* The row a finding goes to resembles it.
LEMMA MatchingRowFits ==
  ASSUME TellsApart, NEW rows \in [Findings -> Row \cup {None}], RowsApart(rows), NEW near,
         NEW used, NEW f \in Findings, MayBeKept(f, rows, near),
         NEW g \in MatchingRows(f, rows, used, near)
  PROVE  /\ g \in Findings \ used /\ HasRow(rows, g) /\ findings_match(g, f)
         /\ rows[g].status = "dismissed_by_discussion" => rows[g].about \in near
<1>1. g \in Findings \ used /\ HasRow(rows, g)
  BY DEF MatchingRows
<1>2. g = f \/ findings_match(f, rows[g].about)
  BY DEF MatchingRows, MatchesRow
<1>3. rows[g].about \in Findings
  BY <1>1 DEF HasRow, Row
<1>4. findings_match(g, f)
  <2>1. CASE g = f
    BY <2>1 DEF findings_match
  <2>2. CASE findings_match(f, rows[g].about)
    BY <1>1, <1>3, <2>2, MatchIsSymmetric DEF TellsApart, RowsApart
  <2>. QED
    BY <1>2, <2>1, <2>2
<1>. QED
  BY <1>1, <1>4, KeptMeansNear

\* Where no row is found for a finding, none of the unused ones resembles it.
LEMMA NoRowFits ==
  ASSUME TellsApart, NEW rows \in [Findings -> Row \cup {None}], RowsApart(rows), NEW near,
         NEW used, NEW f \in Findings, MayBeKept(f, rows, near),
         MatchingRows(f, rows, used, near) = {},
         NEW g \in Findings \ used, HasRow(rows, g)
  PROVE  ~findings_match(g, f)
<1>. SUFFICES ASSUME findings_match(g, f) PROVE FALSE
  OBVIOUS
<1>. DEFINE free == {h \in Findings \ used : HasRow(rows, h)}
            similar == {h \in free : MatchesRow(f, rows[h], near)}
<1>1. f \notin free
  BY DEF MatchingRows
<1>2. rows[g].about \in Findings
  BY DEF HasRow, Row
<1>3. findings_match(f, rows[g].about)
  BY <1>2, MatchIsSymmetric DEF TellsApart, RowsApart
<1>4. g \in similar
  BY <1>3, KeptMeansNear DEF MatchesRow
<1>5. \E h \in similar : \A k \in similar : Priority(rows[h]) <= Priority(rows[k])
  <2>1. similar \in SUBSET Findings /\ \A h \in similar : HasRow(rows, h)
    OBVIOUS
  <2>. HIDE DEF similar
  <2>. QED
    BY <1>4, <2>1, BestRow
<1>. QED
  BY <1>1, <1>5 DEF MatchingRows

-----------------------------------------------------------------------------
\* What is known of a run by name.
LEMMA TidyRun ==
  ASSUME TidyInv, NEW w \in Writers
  PROVE  /\ PublicationInv /\ RowsApart(tracked) /\ tracked \in [Findings -> Row \cup {None}]
         /\ writer[w] \in WriterState /\ Knows(threads, writer[w]) /\ Tidy(tracked, writer[w])
         /\ writer[w].rows \in [Findings -> Row \cup {None}] /\ RowsApart(writer[w].rows)
         /\ writer[w].used \in SUBSET Findings /\ writer[w].report \in Seq(Findings)
         /\ writer[w].place \in Nat
BY AboutWriter DEF TidyInv, Tidy, Copied, PublicationInv, TypeOK, WriterState

\* No row the run has written resembles the finding at hand: each is a finding
\* of the same report.
LEMMA UsedAreOthers ==
  ASSUME TellsApart, TidyInv, NEW w \in Writers,
         writer[w].pc \in {"place", "create_plain", "save"},
         NEW g \in writer[w].used
  PROVE  HasRow(tracked, g) /\ ~findings_match(g, Finding(w))
<1>. DEFINE s == writer[w]
<1>1. /\ g \in Findings /\ RowsApart(tracked) /\ s.report \in Seq(Findings) /\ s.place \in DOMAIN s.report
      /\ s.report \in Reports
  BY TidyRun DEF Knows, Tidy, NotSuppressed, Reviewing, Publishing
<1>2. PICK i \in 1..(s.place - 1) : IsOpen(tracked, g) /\ tracked[g].about = s.report[i]
  BY TidyRun DEF Tidy, Written, Saved, Publishing
<1>3. i \in DOMAIN s.report /\ i # s.place
  BY <1>1, <1>2
<1>4. findings_match(g, s.report[i]) /\ s.report[i] \in Findings /\ s.report[s.place] \in Findings
  BY <1>1, <1>2, <1>3 DEF RowsApart, IsOpen
<1>5. ~findings_match(s.report[i], s.report[s.place])
  BY <1>1, <1>3 DEF TellsApart
<1>6. ~findings_match(g, s.report[s.place])
  BY <1>1, <1>4, <1>5, MatchIsSymmetric DEF TellsApart
<1>. QED
  BY <1>2, <1>6 DEF IsOpen, Finding

LEMMA PlaceInThreadChooses ==
  ASSUME TellsApart, TidyInv, NEW w \in Writers, PlaceInThread(w)
  PROVE  Chosen(writer'[w])
<1>. DEFINE s == writer[w]
            n == writer'[w]
<1>1. /\ s.pc = "place" /\ n.pc = "save" /\ SameWork(n, s) /\ SamePlace(n, s)
      /\ n.row \in MatchingRows(Finding(w), s.rows, s.used, s.near)
      /\ n.thread = s.rows[n.row].thread
  BY TidyRun, PlaceInThreadMoves DEF RowsForFinding
<1>2. /\ s.rows \in [Findings -> Row \cup {None}] /\ RowsApart(s.rows)
      /\ Finding(w) \in Findings /\ MayBeKept(Finding(w), s.rows, s.near)
  BY <1>1, TidyRun, FindingAtHand
     DEF Knows, Tidy, NotSuppressed, Reviewing, Publishing, Finding
<1>3. /\ n.row \notin s.used /\ HasRow(s.rows, n.row) /\ findings_match(n.row, Finding(w))
      /\ s.rows[n.row].status = "dismissed_by_discussion" => s.rows[n.row].about \in s.near
  BY <1>1, <1>2, MatchingRowFits
<1>4. findings_match(Finding(w), n.row)
  BY <1>3, MatchIsSymmetric
<1>. QED
  BY <1>1, <1>3, <1>4 DEF Chosen, SameWork, SamePlace, Finding

\* A thread is opened only for a finding that no row resembles.
LEMMA NothingResembles ==
  ASSUME TellsApart, TidyInv, NEW w \in Writers, CreateThread(w)
  PROVE  Unmatched(writer[w].rows, Finding(w)) /\ Finding(w) \in Findings \ writer[w].used
<1>. DEFINE s == writer[w]
<1>1. /\ s.pc \in {"place", "create_plain"}
      /\ MatchingRows(Finding(w), s.rows, s.used, s.near) = {}
  BY TidyRun, CreateThreadMoves DEF Tidy, AtHand, Finding, RowsForFinding
<1>2. /\ s.rows \in [Findings -> Row \cup {None}] /\ RowsApart(s.rows)
      /\ Finding(w) \in Findings /\ MayBeKept(Finding(w), s.rows, s.near)
  BY <1>1, TidyRun, FindingAtHand
     DEF Knows, Tidy, NotSuppressed, Reviewing, Publishing, Finding
<1>3. ASSUME NEW g \in Findings, HasRow(s.rows, g) PROVE ~findings_match(g, Finding(w))
  <2>1. CASE g \in s.used
    BY <1>1, <2>1, UsedAreOthers
  <2>2. CASE g \notin s.used
    BY <1>1, <1>2, <1>3, <2>2, NoRowFits
  <2>. QED
    BY <2>1, <2>2
<1>4. findings_match(Finding(w), Finding(w))
  BY DEF findings_match
<1>5. Finding(w) \notin s.used
  BY <1>1, <1>4, UsedAreOthers
<1>. QED
  BY <1>2, <1>3, <1>5 DEF Unmatched

LEMMA CreateThreadChooses ==
  ASSUME TellsApart, TidyInv, NEW w \in Writers, CreateThread(w)
  PROVE  Chosen(writer'[w]) /\ ~HasRow(writer[w].rows, Finding(w))
<1>1. /\ SameWork(writer'[w], writer[w]) /\ SamePlace(writer'[w], writer[w])
      /\ writer'[w].row = Finding(w)
  BY TidyRun, CreateThreadMoves
<1>2. findings_match(Finding(w), Finding(w))
  BY DEF findings_match
<1>3. ~HasRow(writer[w].rows, Finding(w))
  BY <1>2, NothingResembles DEF Unmatched
<1>. QED
  BY <1>1, <1>2, <1>3, NothingResembles DEF Chosen, SameWork, SamePlace, Finding

\* Rows are as far apart as before if none is added and none describes another finding.
LEMMA StillApart ==
  ASSUME NEW tr1, NEW tr2, RowsApart(tr1),
         \A f \in Findings : HasRow(tr2, f) => HasRow(tr1, f) /\ tr2[f].about = tr1[f].about
  PROVE  RowsApart(tr2)
BY DEF RowsApart

\* A saved finding takes no other row's place.
LEMMA SaveFindingApart ==
  ASSUME TellsApart, TidyInv, NEW w \in Writers, SaveFinding(w)
  PROVE  RowsApart(tracked')
<1>. DEFINE s == writer[w]
            f == Finding(w)
<1>1. s.pc = "save" /\ tracked' = [tracked EXCEPT ![s.row] = PublishedRow(w)]
  BY TidyRun, SaveFindingMoves
<1>2. /\ s.row \in Findings \ s.used /\ f \in Findings /\ findings_match(f, s.row)
      /\ ~HasRow(s.rows, s.row) => Unmatched(s.rows, s.row)
  BY <1>1, TidyRun, FindingAtHand DEF Knows, Tidy, AtHand, Chosen, Finding
<1>3. /\ RowsApart(tracked) /\ tracked \in [Findings -> Row \cup {None}] /\ RowsApart(s.rows)
      /\ \A g \in Findings \ s.used : tracked[g] = s.rows[g]
  BY <1>1, TidyRun DEF Tidy, Copied, Reviewing, Publishing
<1>4. /\ \A g \in Findings : g # s.row => tracked'[g] = tracked[g]
      /\ tracked'[s.row].about = f
  BY <1>1, <1>2, <1>3 DEF PublishedRow
<1>5. ASSUME NEW g \in Findings, g # s.row, HasRow(tracked, g)
      PROVE  ~findings_match(g, s.row)
  <2>1. CASE g \in s.used
    <3>1. ~findings_match(g, f)
      BY <1>1, <2>1, UsedAreOthers
    <3>. QED
      BY <1>2, <3>1, MatchIsSymmetric DEF TellsApart
  <2>2. CASE g \notin s.used
    <3>1. HasRow(s.rows, g)
      BY <1>3, <1>5, <2>2 DEF HasRow
    <3>. QED
      BY <1>2, <1>3, <1>5, <3>1 DEF RowsApart, Unmatched
  <2>. QED
    BY <2>1, <2>2
<1>6. findings_match(s.row, f)
  BY <1>2, MatchIsSymmetric
<1>. HIDE DEF s, f
<1>7. ASSUME NEW g \in Findings, HasRow(tracked', g) PROVE findings_match(g, tracked'[g].about)
  BY <1>3, <1>4, <1>6, <1>7 DEF RowsApart, HasRow
<1>8. ASSUME NEW g \in Findings, NEW h \in Findings, HasRow(tracked', g), HasRow(tracked', h),
             findings_match(g, h)
      PROVE  g = h
  <2>1. CASE g = s.row
    BY <1>4, <1>5, <1>8, <2>1, MatchIsSymmetric DEF HasRow
  <2>2. CASE g # s.row /\ h = s.row
    BY <1>4, <1>5, <1>8, <2>2 DEF HasRow
  <2>3. CASE g # s.row /\ h # s.row
    BY <1>3, <1>4, <1>8, <2>3 DEF HasRow, RowsApart
  <2>. QED
    BY <2>1, <2>2, <2>3
<1>. QED
  BY <1>7, <1>8 DEF RowsApart

-----------------------------------------------------------------------------
\* A run that has read nothing, or has nothing left to rely on.
LEMMA TidyElsewhere ==
  ASSUME NEW tr, NEW n, n.pc \notin Reviewing \cup Answering, n.used = {}, n.place = 0,
         RowsApart(n.rows)
  PROVE  Tidy(tr, n)
BY DEF Tidy, Copied, NotSuppressed, Written, AtHand, Reviewing, Publishing, Answering

LEMMA IdleIsTidy ==
  ASSUME NEW tr, NEW w \in Writers, Idles(w)
  PROVE  Tidy(tr, writer'[w])
<1>1. RowsApart(NoRows)
  BY DEF RowsApart, NoRows, HasRow
<1>2. writer'[w].pc \notin Reviewing \cup Answering
  BY DEF Idles, Reviewing, Publishing, Answering
<1>. QED
  BY <1>1, <1>2, TidyElsewhere DEF Idles

\* The steps before the first finding is placed.
LEMMA EarlyStepsTidy ==
  ASSUME TidyInv, NEW w \in Writers,
         \/ StartReview(w) \/ ListRows(w) \/ RunAgent(w) \/ CheckStatus(w) \/ CheckHead(w)
         \/ StartReconcile(w) \/ FindThread(w)
  PROVE  UNCHANGED tracked /\ Tidy(tracked, writer'[w])
<1>. DEFINE s == writer[w]
            n == writer'[w]
<1>1. PublicationInv /\ RowsApart(tracked) /\ Tidy(tracked, s) /\ RowsApart(s.rows)
  BY TidyRun
<1>2. RowsApart(NoRows)
  BY DEF RowsApart, NoRows, HasRow
<1>3. CASE StartReview(w) \/ StartReconcile(w)
  <2>1. /\ n.pc \in {"list_rows", "find_thread"} /\ n.rows = NoRows /\ n.used = {} /\ n.place = 0
        /\ UNCHANGED tracked
    BY <1>1, <1>3, StartMoves
  <2>2. n.pc \notin Reviewing \cup Answering
    BY <2>1 DEF Reviewing, Publishing, Answering
  <2>. QED
    BY <1>2, <2>1, <2>2, TidyElsewhere
<1>4. CASE ListRows(w)
  <2>1. /\ s.pc = "list_rows" /\ n.pc = "run_agent" /\ n.rows = tracked /\ SamePlace(n, s)
        /\ UNCHANGED tracked
    BY <1>1, <1>4, ListRowsMoves
  <2>2. s.used = {} /\ s.place = 0
    BY <1>1, <2>1 DEF Tidy, Copied, Publishing
  <2>. HIDE DEF s, n
  <2>3. Tidy(tracked, n)
    BY <1>1, <2>1, <2>2
       DEF Tidy, Copied, NotSuppressed, Written, AtHand, Publishing, Answering, SamePlace
  <2>. QED
    BY <2>1, <2>3 DEF n
<1>5. CASE RunAgent(w)
  <2>1. /\ s.pc = "run_agent" /\ n.pc = "check_status" /\ n.report \in Reports
        /\ \A i \in DOMAIN n.report : MayBeKept(n.report[i], s.rows, s.near)
        /\ n.rows = s.rows /\ n.near = s.near /\ SamePlace(n, s) /\ UNCHANGED tracked
    BY <1>1, <1>5, RunAgentMoves
  <2>. HIDE DEF s, n
  <2>2. Copied(tracked, n)
    BY <1>1, <2>1 DEF Tidy, Copied, Reviewing, Publishing, Answering, SamePlace
  <2>3. NotSuppressed(n)
    BY <2>1 DEF NotSuppressed
  <2>4. Written(tracked, n) /\ AtHand(n)
    BY <2>1 DEF Written, AtHand, Publishing, Answering
  <2>. QED
    BY <2>1, <2>2, <2>3, <2>4 DEF Tidy, n
<1>6. CASE CheckStatus(w) \/ CheckHead(w)
  <2>1. CASE Idles(w)
    BY <1>1, <1>6, <2>1, ChecksMove, IdleIsTidy
  <2>2. CASE ~Idles(w)
    <3>1. /\ s.pc \in {"check_status", "check_head"} /\ n.pc \in {"check_head", "list_threads"}
          /\ SameWork(n, s) /\ SamePlace(n, s) /\ UNCHANGED tracked
      BY <1>1, <1>6, <2>2, ChecksMove
    <3>. HIDE DEF s, n
    <3>2. Copied(tracked, n)
      BY <1>1, <3>1 DEF Tidy, Copied, Reviewing, Publishing, Answering, SameWork, SamePlace
    <3>3. NotSuppressed(n)
      BY <1>1, <3>1 DEF Tidy, NotSuppressed, Reviewing, SameWork
    <3>4. Written(tracked, n) /\ AtHand(n)
      BY <3>1 DEF Written, AtHand, Publishing, Answering
    <3>. QED
      BY <3>1, <3>2, <3>3, <3>4 DEF Tidy, n
  <2>. QED
    BY <2>1, <2>2
<1>7. CASE FindThread(w)
  <2>1. CASE Idles(w)
    BY <1>1, <1>7, <2>1, FindThreadMoves, IdleIsTidy
  <2>2. CASE ~Idles(w)
    <3>1. /\ s.pc = "find_thread" /\ n.pc = "find_row" /\ n.rows = s.rows /\ SamePlace(n, s)
          /\ UNCHANGED tracked
      BY <1>1, <1>7, <2>2, FindThreadMoves
    <3>2. n.used = {} /\ n.place = 0
      BY <1>1, <3>1 DEF Tidy, Copied, Publishing, SamePlace
    <3>3. n.pc \notin Reviewing \cup Answering
      BY <3>1 DEF Reviewing, Publishing, Answering
    <3>. QED
      BY <1>1, <3>1, <3>2, <3>3, TidyElsewhere
  <2>. QED
    BY <2>1, <2>2
<1>. QED
  BY <1>3, <1>4, <1>5, <1>6, <1>7

\* A publication goes on with what it has.
LEMMA CopiedOn ==
  ASSUME NEW tr, NEW s, NEW n, Copied(tr, s), s.pc \in Reviewing,
         n.pc \in Publishing, n.rows = s.rows, n.used = s.used
  PROVE  Copied(tr, n)
BY DEF Copied, Reviewing

LEMMA NotSuppressedOn ==
  ASSUME NEW s, NEW n, NotSuppressed(s), s.pc \in Reviewing \ {"run_agent"},
         n.pc \in Publishing, SameWork(n, s)
  PROVE  NotSuppressed(n)
BY DEF NotSuppressed, SameWork

LEMMA ListThreadsTidy ==
  ASSUME TidyInv, NEW w \in Writers, ListThreads(w)
  PROVE  UNCHANGED tracked /\ Tidy(tracked, writer'[w])
<1>. DEFINE s == writer[w]
            n == writer'[w]
<1>1. PublicationInv /\ Tidy(tracked, s) /\ s.report \in Seq(Findings)
  BY TidyRun
<1>2. /\ s.pc = "list_threads" /\ n.rows = s.rows /\ n.report = s.report /\ n.near = s.near
      /\ n.used = s.used /\ Advances(n, s.place, s) /\ UNCHANGED tracked
  BY <1>1, ListThreadsMoves
<1>3. s.used = {} /\ s.place = 0
  BY <1>1, <1>2 DEF Tidy, Copied, Publishing
<1>. HIDE DEF s, n
<1>4. \/ n.pc = "place" /\ n.place = 1
      \/ n.pc = "retire" /\ n.report = <<>>
  BY <1>1, <1>2, <1>3 DEF Advances
<1>5. Copied(tracked, n) /\ NotSuppressed(n)
  BY <1>1, <1>2, <1>4 DEF Tidy, Copied, NotSuppressed, Reviewing, Publishing
<1>6. Saved(n) = {}
  BY <1>4 DEF Saved
<1>7. Written(tracked, n)
  BY <1>2, <1>3, <1>6 DEF Written
<1>8. AtHand(n)
  BY <1>4 DEF AtHand, Answering
<1>. QED
  BY <1>2, <1>5, <1>7, <1>8 DEF Tidy, n

\* A finding gets its row or its thread.
LEMMA PlacesTidy ==
  ASSUME TellsApart, TidyInv, NEW w \in Writers,
         PlaceInThread(w) \/ CreateThread(w) \/ InlineFails(w)
  PROVE  UNCHANGED tracked /\ Tidy(tracked, writer'[w])
<1>. DEFINE s == writer[w]
            n == writer'[w]
<1>1. PublicationInv /\ Tidy(tracked, s)
  BY TidyRun
<1>2. CASE Idles(w) /\ InlineFails(w)
  BY <1>1, <1>2, InlineFailsMoves, IdleIsTidy
<1>3. CASE ~Idles(w) \/ ~InlineFails(w)
  <2>1. /\ s.pc \in {"place", "create_plain"} /\ SameWork(n, s) /\ SamePlace(n, s)
        /\ UNCHANGED tracked
        /\ \/ n.pc = "save" /\ Chosen(n)
           \/ n.pc = "create_plain" /\ MatchingRows(Finding(w), s.rows, s.used, s.near) = {}
    BY <1>1, <1>3, PlaceInThreadMoves, CreateThreadMoves, InlineFailsMoves,
       PlaceInThreadChooses, CreateThreadChooses DEF RowsForFinding
  <2>2. n.pc = "create_plain" => MatchingRows(n.report[n.place], n.rows, n.used, n.near) = {}
    BY <2>1 DEF SameWork, SamePlace, Finding
  <2>. HIDE DEF s, n
  <2>3. Copied(tracked, n) /\ NotSuppressed(n)
    BY <1>1, <2>1, CopiedOn, NotSuppressedOn
       DEF Tidy, Reviewing, Publishing, SameWork, SamePlace
  <2>4. Saved(n) = Saved(s)
    BY <2>1 DEF Saved, SamePlace
  <2>5. Written(tracked, n)
    BY <1>1, <2>1, <2>4 DEF Tidy, Written, Publishing, SameWork, SamePlace
  <2>6. AtHand(n)
    BY <2>1, <2>2 DEF AtHand, Answering
  <2>. QED
    BY <2>1, <2>3, <2>5, <2>6 DEF Tidy, n
<1>. QED
  BY <1>2, <1>3

\* The findings saved once the one at hand is.
LEMMA SavedAndNext ==
  ASSUME NEW s \in WriterState, NEW n, s.place \in DOMAIN s.report, n.report = s.report,
         Advances(n, s.place, s) \/ (n.pc = "remark" /\ n.place = s.place)
  PROVE  Saved(n) = 1..s.place
<1>1. s.report \in Seq(Findings) /\ s.place \in Nat
  BY DEF WriterState
<1>. QED
  BY <1>1 DEF Saved, Advances

\* The row a run saves and the finding it saves it for.
LEMMA SavedRow ==
  ASSUME PublicationInv, NEW w \in Writers, SaveFinding(w)
  PROVE  LET s == writer[w]
         IN /\ s.row \in Findings /\ s.place \in DOMAIN s.report
            /\ IsOpen(tracked', s.row) /\ tracked'[s.row].about = s.report[s.place]
            /\ tracked'[s.row].thread = s.thread
            /\ \A g \in Findings : g # s.row => tracked'[g] = tracked[g]
<1>. DEFINE s == writer[w]
            row == PublishedRow(w)
<1>1. /\ s.row \in Findings /\ s.place \in DOMAIN s.report
      /\ tracked' = [tracked EXCEPT ![s.row] = row]
      /\ tracked \in [Findings -> Row \cup {None}]
  BY SaveFindingMoves, AboutWriter DEF Knows, PublicationInv, TypeOK
<1>2. row.status = "open" /\ row.about = s.report[s.place] /\ row.thread = s.thread
  BY DEF PublishedRow, Finding
<1>3. row \in Row
  <2>1. s.thread \in Nat /\ Finding(w) \in Findings /\ s.rows \in [Findings -> Row \cup {None}]
    BY AboutWriter, SaveFindingMoves, FindingAtHand DEF WriterState
  <2>. DEFINE known == HasRow(s.rows, s.row) /\ s.rows[s.row].thread = s.thread
              dismissed == IF known THEN s.rows[s.row].dismissed ELSE 0
  <2>2. dismissed \in Nat
    BY <1>1, <2>1 DEF HasRow, Row
  <2>3. row = [status |-> "open", about |-> Finding(w), thread |-> s.thread,
               dismissed |-> dismissed]
    BY DEF PublishedRow
  <2>. HIDE DEF dismissed, row, s
  <2>. QED
    BY <2>1, <2>2, <2>3 DEF Row, Statuses
<1>. HIDE DEF row
<1>4. tracked'[s.row] = row /\ \A g \in Findings : g # s.row => tracked'[g] = tracked[g]
  BY <1>1
<1>. QED
  BY <1>1, <1>2, <1>3, <1>4, NoneIsNoRow DEF IsOpen, HasRow

LEMMA SaveFindingTidy ==
  ASSUME TellsApart, TidyInv, NEW w \in Writers, SaveFinding(w)
  PROVE  Tidy(tracked', writer'[w])
<1>. DEFINE s == writer[w]
            n == writer'[w]
<1>1. PublicationInv /\ Tidy(tracked, s) /\ s \in WriterState
  BY TidyRun
<1>2. /\ s.pc = "save" /\ SameWork(n, s) /\ n.used = s.used \cup {s.row}
      /\ \/ n.pc = "remark" /\ n.place = s.place
         \/ Advances(n, s.place, s)
  BY <1>1, SaveFindingMoves
<1>3. /\ s.row \in Findings /\ s.place \in DOMAIN s.report
      /\ IsOpen(tracked', s.row) /\ tracked'[s.row].about = s.report[s.place]
      /\ \A g \in Findings : g # s.row => tracked'[g] = tracked[g]
  BY <1>1, SavedRow
<1>4. s.row \notin s.used /\ s.used \subseteq Findings /\ s.place \in Nat
  BY <1>1, <1>2 DEF Tidy, AtHand, Chosen, WriterState
<1>5. Saved(n) = 1..s.place /\ Saved(s) = 1..(s.place - 1)
  BY <1>1, <1>2, <1>3, SavedAndNext DEF Saved, SameWork
<1>6. n.pc \in {"place", "remark", "retire"}
  BY <1>2 DEF Advances
<1>. HIDE DEF s, n
<1>7. Copied(tracked', n)
  BY <1>1, <1>2, <1>3, <1>4, <1>6 DEF Tidy, Copied, Reviewing, Publishing, Answering, SameWork
<1>8. NotSuppressed(n)
  BY <1>1, <1>2, <1>6, NotSuppressedOn DEF Tidy, Reviewing, Publishing
<1>9. \A f \in s.used : IsOpen(tracked', f) <=> IsOpen(tracked, f)
  BY <1>3, <1>4 DEF IsOpen, HasRow
<1>10. ASSUME NEW i \in Saved(n)
       PROVE  \E f \in n.used : IsOpen(tracked', f) /\ tracked'[f].about = n.report[i]
  <2>1. CASE i = s.place
    BY <1>2, <1>3, <2>1 DEF SameWork
  <2>2. CASE i # s.place
    <3>1. i \in Saved(s)
      BY <1>4, <1>5, <2>2
    <3>2. PICK f \in s.used : IsOpen(tracked, f) /\ tracked[f].about = s.report[i]
      BY <1>1, <1>2, <3>1 DEF Tidy, Written, Publishing
    <3>. QED
      BY <1>2, <1>3, <1>4, <1>9, <3>2 DEF SameWork
  <2>. QED
    BY <2>1, <2>2
<1>11. ASSUME NEW f \in n.used
       PROVE  IsOpen(tracked', f) /\ \E i \in Saved(n) : tracked'[f].about = n.report[i]
  <2>1. CASE f = s.row
    <3>1. s.place \in Saved(n)
      BY <1>1, <1>3, <1>4, <1>5 DEF WriterState
    <3>. QED
      BY <1>2, <1>3, <2>1, <3>1 DEF SameWork
  <2>2. CASE f # s.row
    <3>1. f \in s.used
      BY <1>2, <2>2
    <3>2. IsOpen(tracked, f) /\ \E i \in Saved(s) : tracked[f].about = s.report[i]
      BY <1>1, <1>2, <3>1 DEF Tidy, Written, Publishing
    <3>3. Saved(s) \subseteq Saved(n)
      BY <1>4, <1>5
    <3>. QED
      BY <1>2, <1>3, <1>4, <1>9, <2>2, <3>1, <3>2, <3>3 DEF SameWork
  <2>. QED
    BY <2>1, <2>2
<1>12. Written(tracked', n)
  BY <1>10, <1>11 DEF Written
<1>13. AtHand(n)
  BY <1>6 DEF AtHand, Answering
<1>. QED
  BY <1>7, <1>8, <1>12, <1>13 DEF Tidy, n

LEMMA RemarkTidy ==
  ASSUME TidyInv, NEW w \in Writers, AddStillPresentReply(w)
  PROVE  UNCHANGED tracked /\ Tidy(tracked, writer'[w])
<1>. DEFINE s == writer[w]
            n == writer'[w]
<1>1. PublicationInv /\ Tidy(tracked, s) /\ s \in WriterState /\ Knows(threads, s)
  BY TidyRun
<1>2. /\ s.pc = "remark" /\ SameWork(n, s) /\ n.used = s.used /\ Advances(n, s.place, s)
      /\ UNCHANGED tracked
  BY <1>1, AddStillPresentReplyMoves
<1>3. s.place \in DOMAIN s.report
  BY <1>1, <1>2 DEF Knows
<1>4. n.pc \in {"place", "retire"}
  BY <1>2 DEF Advances
<1>. HIDE DEF s, n
<1>5. Saved(n) = 1..s.place /\ Saved(s) = 1..s.place
  BY <1>1, <1>2, <1>3, SavedAndNext DEF Saved, SameWork
<1>6. Copied(tracked, n) /\ NotSuppressed(n)
  BY <1>1, <1>2, <1>4, CopiedOn, NotSuppressedOn DEF Tidy, Reviewing, Publishing, SameWork
<1>7. Written(tracked, n)
  BY <1>1, <1>2, <1>5 DEF Tidy, Written, Publishing, SameWork
<1>8. AtHand(n)
  BY <1>4 DEF AtHand, Answering
<1>. QED
  BY <1>2, <1>6, <1>7, <1>8 DEF Tidy, n

LEMMA ResolveThreadTidy ==
  ASSUME TidyInv, NEW w \in Writers, ResolveThread(w)
  PROVE  UNCHANGED tracked /\ Tidy(tracked, writer'[w])
<1>. DEFINE s == writer[w]
            n == writer'[w]
<1>1. PublicationInv /\ Tidy(tracked, s)
  BY TidyRun
<1>2. /\ s.pc = "retire" /\ n.pc = "save_resolved" /\ SameWork(n, s) /\ SamePlace(n, s)
      /\ n.row \in InStatus(s.rows, "open") \ s.used /\ UNCHANGED tracked
  BY <1>1, ResolveThreadMoves DEF Retiring
<1>. HIDE DEF s, n
<1>3. Copied(tracked, n) /\ NotSuppressed(n)
  BY <1>1, <1>2, CopiedOn, NotSuppressedOn
     DEF Tidy, Reviewing, Publishing, SameWork, SamePlace
<1>4. Saved(n) = Saved(s)
  BY <1>2 DEF Saved, SameWork
<1>5. Written(tracked, n)
  BY <1>1, <1>2, <1>4 DEF Tidy, Written, Publishing, SameWork, SamePlace
<1>6. AtHand(n)
  BY <1>2 DEF AtHand, Answering, SameWork, SamePlace
<1>. QED
  BY <1>2, <1>3, <1>5, <1>6 DEF Tidy, n

\* The row a run retires.
LEMMA RetiredRowWritten ==
  ASSUME TidyInv, NEW w \in Writers, NEW f \in Retiring(w), writer[w].pc \in Publishing,
         tracked' = [tracked EXCEPT ![f] = RetiredRow(w, f)]
  PROVE  /\ f \in Findings \ writer[w].used /\ IsOpen(tracked, f) /\ tracked[f] = writer[w].rows[f]
         /\ HasRow(tracked', f) /\ tracked'[f].status = "resolved"
         /\ tracked'[f].about = tracked[f].about /\ tracked'[f].thread = tracked[f].thread
         /\ \A g \in Findings : g # f => tracked'[g] = tracked[g]
<1>1. /\ f \in Findings \ writer[w].used /\ HasRow(writer[w].rows, f)
      /\ writer[w].rows[f].status = "open" /\ tracked[f] = writer[w].rows[f]
  BY TidyRun DEF Retiring, InStatus, Tidy, Copied, Reviewing
<1>2. tracked \in [Findings -> Row \cup {None}] /\ tracked[f] \in Row
  BY <1>1, TidyRun DEF HasRow
<1>3. /\ RetiredRow(w, f).status = "resolved" /\ RetiredRow(w, f).about = tracked[f].about
      /\ RetiredRow(w, f).thread = tracked[f].thread /\ RetiredRow(w, f) \in Row
  BY <1>1, <1>2 DEF RetiredRow, Row, Statuses
<1>4. tracked'[f] = RetiredRow(w, f) /\ \A g \in Findings : g # f => tracked'[g] = tracked[g]
  BY <1>1, <1>2
<1>. QED
  BY <1>1, <1>3, <1>4, NoneIsNoRow DEF HasRow, IsOpen

LEMMA SaveResolvedTidy ==
  ASSUME TidyInv, NEW w \in Writers, SaveResolved(w)
  PROVE  RowsApart(tracked') /\ Tidy(tracked', writer'[w])
<1>. DEFINE s == writer[w]
            n == writer'[w]
<1>1. PublicationInv /\ Tidy(tracked, s) /\ s.used \in SUBSET Findings /\ RowsApart(tracked)
  BY TidyRun
<1>2. PICK f \in Retiring(w) :
        /\ s.pc \in {"retire", "save_resolved"} /\ n.pc = "retire" /\ SameWork(n, s)
        /\ n.used = s.used \cup {f} /\ tracked' = [tracked EXCEPT ![f] = RetiredRow(w, f)]
  BY <1>1, SaveResolvedMoves
<1>3. /\ f \in Findings \ s.used /\ IsOpen(tracked, f)
      /\ HasRow(tracked', f) /\ tracked'[f].status = "resolved"
      /\ tracked'[f].about = tracked[f].about
      /\ \A g \in Findings : g # f => tracked'[g] = tracked[g]
  BY <1>2, RetiredRowWritten DEF Publishing
<1>4. RowsApart(tracked')
  <2>1. \A g \in Findings : HasRow(tracked', g) =>
          HasRow(tracked, g) /\ tracked'[g].about = tracked[g].about
    BY <1>3 DEF HasRow, IsOpen
  <2>. QED
    BY <1>1, <2>1, StillApart
<1>. HIDE DEF s, n
<1>5. Copied(tracked', n)
  BY <1>1, <1>2, <1>3 DEF Tidy, Copied, Reviewing, Publishing, Answering, SameWork
<1>6. NotSuppressed(n)
  BY <1>1, <1>2, NotSuppressedOn DEF Tidy, Reviewing, Publishing
<1>7. Saved(n) = DOMAIN s.report /\ Saved(s) = DOMAIN s.report
  BY <1>2 DEF Saved, SameWork
<1>8. \A g \in s.used : tracked'[g] = tracked[g] /\ (IsOpen(tracked', g) <=> IsOpen(tracked, g))
  BY <1>1, <1>3 DEF IsOpen, HasRow
<1>9. ASSUME NEW i \in Saved(n)
      PROVE  \E g \in n.used : IsOpen(tracked', g) /\ tracked'[g].about = n.report[i]
  <2>1. PICK g \in s.used : IsOpen(tracked, g) /\ tracked[g].about = s.report[i]
    BY <1>1, <1>2, <1>7 DEF Tidy, Written, Publishing
  <2>. QED
    BY <1>2, <1>8, <2>1 DEF SameWork
<1>10. ASSUME NEW g \in n.used
       PROVE  \/ IsOpen(tracked', g) /\ \E i \in Saved(n) : tracked'[g].about = n.report[i]
              \/ HasRow(tracked', g) /\ tracked'[g].status = "resolved"
  <2>1. CASE g = f
    BY <1>3, <2>1
  <2>2. CASE g # f
    <3>1. g \in s.used
      BY <1>2, <2>2
    <3>2. \/ IsOpen(tracked, g) /\ \E i \in Saved(s) : tracked[g].about = s.report[i]
          \/ HasRow(tracked, g) /\ tracked[g].status = "resolved"
      BY <1>1, <1>2, <3>1 DEF Tidy, Written, Publishing
    <3>. QED
      BY <1>2, <1>7, <1>8, <3>1, <3>2 DEF HasRow, SameWork
  <2>. QED
    BY <2>1, <2>2
<1>11. Written(tracked', n)
  BY <1>2, <1>9, <1>10 DEF Written
<1>12. AtHand(n)
  BY <1>2 DEF AtHand, Answering
<1>. QED
  BY <1>4, <1>5, <1>6, <1>11, <1>12 DEF Tidy, n

\* A reconcile run up to its decision.
LEMMA ReplyStepsTidy ==
  ASSUME TidyInv, NEW w \in Writers, FindRow(w) \/ Reconcile(w) \/ NoAction(w) \/ Reply(w)
  PROVE  UNCHANGED tracked /\ Tidy(tracked, writer'[w])
<1>. DEFINE s == writer[w]
            n == writer'[w]
<1>1. PublicationInv /\ Tidy(tracked, s) /\ RowsApart(tracked)
  BY TidyRun
<1>2. UNCHANGED tracked
  BY <1>1, FindRowMoves, ReconcileMoves, ReplyMoves
<1>3. CASE Idles(w)
  BY <1>2, <1>3, IdleIsTidy
<1>4. CASE FindRow(w) /\ ~Idles(w)
  <2>1. /\ s.pc = "find_row" /\ n.pc = "reconcile" /\ n.rows = tracked
        /\ n.row \in InStatus(tracked, "open") /\ SamePlace(n, s)
    BY <1>1, <1>4, FindRowMoves
  <2>. HIDE DEF s, n
  <2>2. Copied(tracked, n)
    BY <1>1, <2>1 DEF Tidy, Copied, Publishing, SamePlace
  <2>3. NotSuppressed(n) /\ Written(tracked, n) /\ AtHand(n)
    BY <2>1 DEF NotSuppressed, Written, AtHand, Reviewing, Publishing, Answering
  <2>. QED
    BY <1>2, <2>2, <2>3 DEF Tidy, n
<1>5. CASE (Reconcile(w) \/ NoAction(w) \/ Reply(w)) /\ ~Idles(w)
  <2>1. /\ s.pc \in {"reconcile", "reply"} /\ n.pc \in {"reply", "save_decision"}
        /\ SameReply(n, s) /\ SamePlace(n, s)
    BY <1>1, <1>5, ReconcileMoves, ReplyMoves
  <2>. HIDE DEF s, n
  <2>2. Copied(tracked, n)
    BY <1>1, <2>1 DEF Tidy, Copied, Publishing, Reviewing, Answering, SamePlace, SameReply
  <2>3. NotSuppressed(n) /\ Written(tracked, n)
    BY <2>1 DEF NotSuppressed, Written, Reviewing, Publishing
  <2>4. AtHand(n)
    BY <1>1, <2>1 DEF Tidy, AtHand, Answering, SameReply
  <2>. QED
    BY <1>2, <2>2, <2>3, <2>4 DEF Tidy, n
<1>. QED
  BY <1>3, <1>4, <1>5

\* The row of a decision is the open one that was read: it is written as it was, or dismissed.
LEMMA DecidedRow ==
  ASSUME TidyInv, NEW w \in Writers, SaveDecision(w)
  PROVE  LET f == writer[w].row
         IN /\ f \in Findings /\ IsOpen(tracked, f) /\ tracked[f] = writer[w].rows[f]
            /\ \A g \in Findings : g # f => tracked'[g] = tracked[g]
            /\ tracked' = tracked \/ tracked' = [tracked EXCEPT ![f] = Dismissed(w)]
            /\ tracked' = [tracked EXCEPT ![f] = Dismissed(w)] =>
                 /\ HasRow(tracked', f) /\ tracked'[f].status = "dismissed_by_discussion"
                 /\ tracked'[f].about = tracked[f].about
                 /\ tracked'[f].thread = tracked[f].thread
<1>. DEFINE s == writer[w]
            f == s.row
<1>1. /\ s.pc = "save_decision"
      /\ \/ tracked' = [tracked EXCEPT ![f] = Dismissed(w)]
         \/ tracked' = [tracked EXCEPT ![f] = s.rows[f]]
  BY TidyRun, SaveDecisionMoves
<1>2. /\ f \in Findings /\ HasRow(s.rows, f) /\ s.rows[f].status = "open" /\ tracked[f] = s.rows[f]
  <2>1. f \in InStatus(s.rows, "open")
    BY <1>1, TidyRun DEF Tidy, AtHand, Answering
  <2>2. s.used = {} /\ \A g \in Findings \ s.used : tracked[g] = s.rows[g]
    BY <1>1, TidyRun DEF Tidy, Copied, Answering, Publishing
  <2>. QED
    BY <2>1, <2>2 DEF InStatus
<1>3. tracked \in [Findings -> Row \cup {None}] /\ tracked[f] \in Row /\ IsOpen(tracked, f)
  BY <1>2, TidyRun DEF HasRow, IsOpen
<1>4. ASSUME tracked' = [tracked EXCEPT ![f] = s.rows[f]] PROVE tracked' = tracked
  BY <1>2, <1>3, <1>4
<1>5. ASSUME tracked' = [tracked EXCEPT ![f] = Dismissed(w)]
      PROVE  /\ HasRow(tracked', f) /\ tracked'[f].status = "dismissed_by_discussion"
             /\ tracked'[f].about = tracked[f].about
             /\ tracked'[f].thread = tracked[f].thread
  <2>1. s.sha \in Nat
    BY TidyRun DEF WriterState
  <2>. DEFINE sha == s.sha
              row == s.rows[f]
  <2>2. Dismissed(w) = [row EXCEPT !.status = "dismissed_by_discussion", !.dismissed = sha]
    BY DEF Dismissed
  <2>. HIDE DEF sha
  <2>3. sha \in Nat /\ row \in Row
    BY <1>2, <1>3, <2>1 DEF sha
  <2>. HIDE DEF row
  <2>4. /\ Dismissed(w).status = "dismissed_by_discussion" /\ Dismissed(w).about = row.about
        /\ Dismissed(w).thread = row.thread /\ Dismissed(w) \in Row
    BY <2>2, <2>3 DEF Row, Statuses
  <2>5. tracked'[f] = Dismissed(w)
    BY <1>2, <1>3, <1>5
  <2>6. row = tracked[f]
    BY <1>2 DEF row
  <2>. QED
    BY <1>2, <1>3, <1>5, <2>4, <2>5, <2>6, NoneIsNoRow DEF HasRow
<1>6. \A g \in Findings : g # f => tracked'[g] = tracked[g]
  BY <1>1, <1>2, <1>3
<1>. QED
  BY <1>1, <1>2, <1>3, <1>4, <1>5, <1>6

LEMMA SaveDecisionTidy ==
  ASSUME TidyInv, NEW w \in Writers, SaveDecision(w)
  PROVE  RowsApart(tracked') /\ Tidy(tracked', writer'[w])
<1>. DEFINE s == writer[w]
            n == writer'[w]
<1>1. PublicationInv /\ Tidy(tracked, s) /\ RowsApart(tracked) /\ RowsApart(s.rows)
  BY TidyRun
<1>2. RowsApart(tracked')
  <2>1. \A g \in Findings : HasRow(tracked', g) =>
          HasRow(tracked, g) /\ tracked'[g].about = tracked[g].about
    BY DecidedRow DEF HasRow, IsOpen
  <2>. QED
    BY <1>1, <2>1, StillApart
<1>3. CASE Idles(w)
  BY <1>2, <1>3, IdleIsTidy
<1>4. CASE ~Idles(w)
  <2>1. s.pc = "save_decision" /\ n.pc = "resolve" /\ SameReply(n, s) /\ SamePlace(n, s)
    BY <1>1, <1>4, SaveDecisionMoves
  <2>2. /\ n.pc \notin Reviewing \cup Answering /\ n.used = {} /\ n.place = 0
        /\ RowsApart(n.rows)
    BY <1>1, <2>1
       DEF Tidy, Copied, Reviewing, Publishing, Answering, SamePlace, SameReply
  <2>. QED
    BY <1>2, <2>2, TidyElsewhere
<1>. QED
  BY <1>3, <1>4

LEMMA EndsTidy ==
  ASSUME TidyInv, NEW w \in Writers,
         MarkDone(w) \/ ResolveDismissed(w) \/ Raise(w) \/ RaiseAfterCreate(w)
  PROVE  UNCHANGED tracked /\ Tidy(tracked, writer'[w])
BY TidyRun, MarkDoneMoves, ResolveDismissedMoves, RaisesMove, IdleIsTidy

LEMMA TidyStep == OneWorker /\ TellsApart /\ TidyInv /\ [Next]_vars => TidyInv'
<1>. SUFFICES ASSUME OneWorker, TellsApart, TidyInv, [Next]_vars PROVE TidyInv'
  OBVIOUS
<1>1. PublicationInv /\ PublicationInv' /\ RowsApart(tracked)
  BY PublicationStep DEF TidyInv
<1>2. CASE GitLabStep
  <2>1. tracked' = tracked
    BY <1>1, <1>2, GitLabMoves
  <2>2. ASSUME NEW w \in Writers PROVE Tidy(tracked, writer'[w])
    <3>1. SameRun(writer'[w], writer[w]) /\ Tidy(tracked, writer[w])
      BY <1>1, <1>2, GitLabMoves, TidyRun
    <3>. QED
      BY <3>1 DEF Tidy, Copied, NotSuppressed, Written, Saved, AtHand, Chosen,
                  SameRun, SameWork, SamePlace
  <2>. QED
    BY <1>1, <2>1, <2>2 DEF TidyInv
<1>3. ASSUME NEW w \in Writers, WriterStep(w) PROVE TidyInv'
  <2>1. RowsApart(tracked') /\ Tidy(tracked', writer'[w])
    <3>1. CASE ReviewStep(w)
      BY <1>1, <3>1, EarlyStepsTidy, ListThreadsTidy, PlacesTidy, SaveFindingApart,
         SaveFindingTidy, RemarkTidy, ResolveThreadTidy, SaveResolvedTidy, EndsTidy
         DEF ReviewStep
    <3>2. CASE ReconcileStep(w)
      BY <1>1, <3>2, EarlyStepsTidy, ReplyStepsTidy, SaveDecisionTidy, EndsTidy
         DEF ReconcileStep
    <3>3. CASE Raise(w) \/ RaiseAfterCreate(w)
      BY <1>1, <3>3, EndsTidy
    <3>. QED
      BY <1>3, <3>1, <3>2, <3>3 DEF WriterStep
  <2>2. \A v \in Writers : Tidy(tracked', writer'[v])
    BY <2>1 DEF OneWorker
  <2>. QED
    BY <1>1, <2>1, <2>2 DEF TidyInv
<1>4. CASE UNCHANGED vars
  BY <1>1, <1>4 DEF vars, TidyInv
<1>. QED
  BY <1>2, <1>3, <1>4 DEF Next

LEMMA TidyInit == Init => TidyInv
<1>. SUFFICES ASSUME Init PROVE TidyInv
  OBVIOUS
<1>1. RowsApart(NoRows)
  BY DEF RowsApart, NoRows, HasRow
<1>2. ASSUME NEW w \in Writers PROVE Tidy(tracked, writer[w])
  <2>1. /\ writer[w].pc = "idle" /\ writer[w].used = {} /\ writer[w].place = 0
        /\ writer[w].rows = NoRows
    BY DEF Init, IdleWriter
  <2>2. writer[w].pc \notin Reviewing \cup Answering
    BY <2>1 DEF Reviewing, Publishing, Answering
  <2>. QED
    BY <1>1, <2>1, <2>2, TidyElsewhere
<1>. QED
  BY <1>1, <1>2, PublicationInit DEF TidyInv, Init

\* Where a review is done, the open rows are what it reported.
LEMMA DoneIsTracked ==
  ASSUME TidyInv, NEW w \in Writers, MarkDone(w)
  PROVE  {tracked[f].about : f \in InStatus(tracked, "open")}
           = {writer[w].report[i] : i \in DOMAIN writer[w].report}
<1>. DEFINE s == writer[w]
<1>1. s.pc = "retire" /\ Retiring(w) = {}
  BY TidyRun, MarkDoneMoves
<1>2. Tidy(tracked, s) /\ s.used \subseteq Findings
  BY TidyRun
<1>3. Saved(s) = DOMAIN s.report
  BY <1>1 DEF Saved
<1>4. ASSUME NEW f \in InStatus(tracked, "open")
      PROVE  \E i \in DOMAIN s.report : tracked[f].about = s.report[i]
  <2>1. f \in s.used
    BY <1>1, <1>2, <1>4
       DEF Tidy, Copied, Retiring, InStatus, HasRow, Reviewing, Publishing
  <2>. QED
    BY <1>1, <1>2, <1>3, <1>4, <2>1 DEF Tidy, Written, InStatus, Publishing
<1>5. ASSUME NEW i \in DOMAIN s.report
      PROVE  \E f \in InStatus(tracked, "open") : tracked[f].about = s.report[i]
  BY <1>1, <1>2, <1>3 DEF Tidy, Written, InStatus, IsOpen, Publishing
<1>. HIDE DEF s
<1>6. {tracked[f].about : f \in InStatus(tracked, "open")} = {s.report[i] : i \in DOMAIN s.report}
  BY <1>4, <1>5
<1>. QED
  BY <1>6 DEF s

\* With one worker and findings told apart, a review is marked done only when the open
\* rows are exactly the findings it reports, although rows and threads were written one
\* by one from copies read before the reviewers started (publish_review).
THEOREM DoneReviewsAreTracked == OneWorker /\ TellsApart => (Spec => ReportIsTracked)
<1>. DEFINE Tracked == {tracked[f].about : f \in InStatus(tracked, "open")}
                       = {lastDone'[i] : i \in DOMAIN lastDone'}
<1>. SUFFICES ASSUME OneWorker, TellsApart PROVE Spec => ReportIsTracked
  OBVIOUS
<1>1. TidyInv /\ [Next]_vars => TidyInv'
  BY TidyStep
<1>2. TidyInv /\ [Next]_vars => [ReviewCompletes => Tracked]_vars
  <2>. SUFFICES ASSUME TidyInv, Next, reviewed' # reviewed PROVE Tracked
    BY DEF ReviewCompletes, vars
  <2>1. PublicationInv
    BY DEF TidyInv
  <2>2. PICK w \in Writers : MarkDone(w)
    <3>1. ~GitLabStep
      BY <2>1, GitLabMoves
    <3>2. PICK w \in Writers : WriterStep(w)
      BY <3>1 DEF Next
    <3>3. CASE ReviewStep(w)
      BY <2>1, <3>3, StartMoves, ListRowsMoves, RunAgentMoves, ChecksMove, ListThreadsMoves,
         PlaceInThreadMoves, CreateThreadMoves, InlineFailsMoves, SaveFindingMoves,
         AddStillPresentReplyMoves, ResolveThreadMoves, SaveResolvedMoves DEF ReviewStep
    <3>4. ~ReconcileStep(w)
      BY <2>1, StartMoves, FindThreadMoves, FindRowMoves, ReconcileMoves, ReplyMoves,
         SaveDecisionMoves, ResolveDismissedMoves DEF ReconcileStep
    <3>5. ~Raise(w) /\ ~RaiseAfterCreate(w)
      BY <2>1, RaisesMove
    <3>. QED
      BY <3>2, <3>3, <3>4, <3>5 DEF WriterStep
  <2>3. lastDone' = writer[w].report
    BY <2>1, <2>2, MarkDoneMoves
  <2>. QED
    BY <2>2, <2>3, DoneIsTracked
<1>. QED
  BY <1>1, <1>2, TidyInit, PTL DEF Spec, ReportIsTracked

-----------------------------------------------------------------------------
(***************************************************************************)
(* Any number of workers, and findings that resemble each other in any     *)
(* way: what a run has read as dismissed stays so.  Only the run's own     *)
(* copy matters, which the others cannot touch.                            *)
(***************************************************************************)
\* The row at hand has the fingerprint of the finding, or is one that it may go to.
Fits(s) ==
  LET f == s.report[s.place]
  IN s.row = f \/ (HasRow(s.rows, s.row) /\ MatchesRow(f, s.rows[s.row], s.near))

\* A reply is reconciled with a row that was open when it was read.
Filtered(s) ==
  /\ NotSuppressed(s)
  /\ s.pc = "save" => Fits(s)
  /\ s.pc \in Answering => s.row \in InStatus(s.rows, "open")

FilteredInv == PublicationInv /\ \A w \in Writers : Filtered(writer[w])

\* A step of one worker is no step of another.
LEMMA OthersStand ==
  ASSUME PublicationInv, NEW w \in Writers, WriterStep(w), NEW v \in Writers, v # w
  PROVE  writer'[v] = writer[v]
<1>1. writer \in [Writers -> WriterState]
  BY DEF PublicationInv, TypeOK
<1>2. \A s : writer' = [writer EXCEPT ![w] = s] => writer'[v] = writer[v]
  BY <1>1
<1>3. Leave(w) => writer'[v] = writer[v]
  BY <1>2 DEF Leave
<1>4. \A pc, s : Local(w, pc, s) => writer'[v] = writer[v]
  BY <1>2 DEF Local
<1>5. CASE ReviewStep(w)
  <2>1. CASE StartReview(w)
    BY <1>2, <2>1 DEF StartReview
  <2>2. CASE ListRows(w) \/ RunAgent(w) \/ CheckStatus(w) \/ CheckHead(w) \/ ListThreads(w)
    BY <1>4, <2>2, Zenon DEF ListRows, RunAgent, CheckStatus, CheckHead, ListThreads
  <2>3. CASE PlaceInThread(w)
    BY <1>1, <2>3 DEF PlaceInThread
  <2>4. CASE CreateThread(w)
    BY <1>1, <2>4 DEF CreateThread
  <2>5. CASE InlineFails(w)
    BY <1>1, <1>3, <2>5 DEF InlineFails
  <2>6. CASE SaveFinding(w)
    BY <1>2, <2>6 DEF SaveFinding
  <2>7. CASE AddStillPresentReply(w)
    BY <1>2, <2>7 DEF AddStillPresentReply
  <2>8. CASE ResolveThread(w)
    BY <1>1, <2>8 DEF ResolveThread
  <2>9. CASE SaveResolved(w)
    BY <1>1, <2>9 DEF SaveResolved
  <2>10. CASE MarkDone(w)
    BY <1>3, <2>10 DEF MarkDone
  <2>. QED
    BY <1>5, <2>1, <2>2, <2>3, <2>4, <2>5, <2>6, <2>7, <2>8, <2>9, <2>10 DEF ReviewStep
<1>6. CASE ReconcileStep(w)
  <2>1. CASE StartReconcile(w)
    BY <1>2, <2>1 DEF StartReconcile
  <2>2. CASE FindThread(w) \/ FindRow(w) \/ Reconcile(w) \/ NoAction(w)
    BY <1>4, <2>2, Zenon DEF FindThread, FindRow, Reconcile, NoAction
  <2>3. CASE Reply(w)
    BY <1>1, <1>3, <2>3 DEF Reply
  <2>4. CASE SaveDecision(w)
    BY <1>1, <1>3, <2>4 DEF SaveDecision
  <2>5. CASE ResolveDismissed(w)
    BY <1>3, <2>5 DEF ResolveDismissed
  <2>. QED
    BY <1>6, <2>1, <2>2, <2>3, <2>4, <2>5 DEF ReconcileStep
<1>7. CASE Raise(w) \/ RaiseAfterCreate(w)
  BY <1>3, <1>7 DEF Raise, RaiseAfterCreate
<1>. QED
  BY <1>5, <1>6, <1>7 DEF WriterStep

\* A run at a point where nothing is asked of it.
LEMMA FilteredElsewhere ==
  ASSUME NEW n, n.pc \notin (Reviewing \ {"run_agent"}) \cup Answering
  PROVE  Filtered(n)
BY DEF Filtered, NotSuppressed, Reviewing, Publishing

\* A publication goes on with its report and with the rows it has read.
LEMMA FilteredOn ==
  ASSUME NEW s, NEW n, Filtered(s), s.pc \in Reviewing \ {"run_agent"},
         n.pc \in Reviewing \ {"run_agent", "save"},
         n.report = s.report, n.rows = s.rows, n.near = s.near
  PROVE  Filtered(n)
<1>1. n.pc \notin Answering
  BY DEF Reviewing, Publishing, Answering
<1>. QED
  BY <1>1 DEF Filtered, NotSuppressed

\* The row a finding is given fits it.
LEMMA PlacesFit ==
  ASSUME FilteredInv, NEW w \in Writers, PlaceInThread(w) \/ CreateThread(w)
  PROVE  Filtered(writer'[w])
<1>. DEFINE s == writer[w]
            n == writer'[w]
<1>1. PublicationInv /\ Filtered(s)
  BY DEF FilteredInv
<1>2. /\ s.pc \in {"place", "create_plain"} /\ n.pc = "save"
      /\ SameWork(n, s) /\ SamePlace(n, s)
      /\ n.row = Finding(w) \/ n.row \in RowsForFinding(w)
  BY <1>1, PlaceInThreadMoves, CreateThreadMoves
<1>3. n.row \in RowsForFinding(w) =>
        n.row = Finding(w) \/ (HasRow(s.rows, n.row) /\ MatchesRow(Finding(w), s.rows[n.row], s.near))
  BY DEF RowsForFinding, MatchingRows
<1>4. Fits(n)
  BY <1>2, <1>3 DEF Fits, Finding, SameWork, SamePlace
<1>5. NotSuppressed(n)
  BY <1>1, <1>2, NotSuppressedOn DEF Filtered, Reviewing, Publishing
<1>. QED
  BY <1>2, <1>4, <1>5 DEF Filtered, Answering

LEMMA ReviewFiltered ==
  ASSUME FilteredInv, NEW w \in Writers, ReviewStep(w)
  PROVE  Filtered(writer'[w])
<1>. DEFINE s == writer[w]
            n == writer'[w]
<1>1. PublicationInv /\ Filtered(s)
  BY DEF FilteredInv
<1>2. CASE n.pc \in {"idle", "list_rows", "find_thread", "run_agent"}
  BY <1>2, FilteredElsewhere DEF Reviewing, Publishing, Answering
<1>3. CASE RunAgent(w)
  <2>1. /\ n.pc = "check_status" /\ n.report \in Reports
        /\ \A i \in DOMAIN n.report : MayBeKept(n.report[i], n.rows, n.near)
    BY <1>1, <1>3, RunAgentMoves
  <2>. QED
    BY <2>1 DEF Filtered, NotSuppressed, Answering
<1>4. CASE PlaceInThread(w) \/ CreateThread(w)
  BY <1>4, PlacesFit
<1>5. CASE \/ CheckStatus(w) \/ CheckHead(w) \/ ListThreads(w) \/ InlineFails(w) \/ SaveFinding(w)
           \/ AddStillPresentReply(w) \/ ResolveThread(w) \/ SaveResolved(w)
  <2>1. \/ n.pc = "idle"
        \/ /\ s.pc \in Reviewing \ {"run_agent"} /\ n.pc \in Reviewing \ {"run_agent", "save"}
           /\ n.report = s.report /\ n.rows = s.rows /\ n.near = s.near
    <3>1. CASE CheckStatus(w) \/ CheckHead(w) \/ InlineFails(w)
      BY <1>1, <3>1, ChecksMove, InlineFailsMoves DEF Reviewing, Publishing, SameWork, Idles
    <3>2. CASE ListThreads(w) \/ AddStillPresentReply(w)
      BY <1>1, <3>2, ListThreadsMoves, AddStillPresentReplyMoves
         DEF Reviewing, Publishing, Advances, SameWork
    <3>3. CASE SaveFinding(w)
      BY <1>1, <3>3, SaveFindingMoves DEF Reviewing, Publishing, Advances, SameWork
    <3>4. CASE ResolveThread(w) \/ SaveResolved(w)
      BY <1>1, <3>4, ResolveThreadMoves, SaveResolvedMoves DEF Reviewing, Publishing, SameWork
    <3>. QED
      BY <1>5, <3>1, <3>2, <3>3, <3>4
  <2>. HIDE DEF s, n
  <2>2. n.pc = "idle" => Filtered(n)
    BY FilteredElsewhere DEF Reviewing, Publishing, Answering
  <2>. QED
    BY <1>1, <2>1, <2>2, FilteredOn DEF n
<1>6. CASE StartReview(w) \/ ListRows(w) \/ MarkDone(w)
  BY <1>1, <1>2, <1>6, StartMoves, ListRowsMoves, MarkDoneMoves DEF Idles
<1>. QED
  BY <1>3, <1>4, <1>5, <1>6 DEF ReviewStep

LEMMA ReplyFiltered ==
  ASSUME FilteredInv, NEW w \in Writers, ReconcileStep(w)
  PROVE  Filtered(writer'[w])
<1>. DEFINE s == writer[w]
            n == writer'[w]
<1>1. PublicationInv /\ Filtered(s)
  BY DEF FilteredInv
<1>2. \/ n.pc \in {"idle", "list_rows", "find_thread", "find_row", "resolve"}
      \/ n.pc = "reconcile" /\ n.rows = tracked /\ n.row \in InStatus(tracked, "open")
      \/ s.pc \in Answering /\ n.pc \in {"reply", "save_decision"} /\ SameReply(n, s)
  BY <1>1, StartMoves, FindThreadMoves, FindRowMoves, ReconcileMoves, ReplyMoves,
     SaveDecisionMoves, ResolveDismissedMoves DEF ReconcileStep, Idles, Answering
<1>. HIDE DEF s, n
<1>3. CASE n.pc \in {"idle", "list_rows", "find_thread", "find_row", "resolve"}
  BY <1>3, FilteredElsewhere DEF Reviewing, Publishing, Answering, n
<1>4. CASE n.pc \in Answering /\ n.row \in InStatus(n.rows, "open")
  BY <1>4 DEF Filtered, NotSuppressed, Reviewing, Publishing, Answering, n
<1>. QED
  BY <1>1, <1>2, <1>3, <1>4 DEF Filtered, SameReply, Answering

LEMMA FilteredStep == FilteredInv /\ [Next]_vars => FilteredInv'
<1>. SUFFICES ASSUME FilteredInv, [Next]_vars PROVE FilteredInv'
  OBVIOUS
<1>1. PublicationInv /\ PublicationInv'
  BY PublicationStep DEF FilteredInv
<1>. SUFFICES ASSUME NEW v \in Writers PROVE Filtered(writer'[v])
  BY <1>1 DEF FilteredInv
<1>2. Filtered(writer[v])
  BY DEF FilteredInv
<1>3. CASE GitLabStep
  <2>1. SameRun(writer'[v], writer[v])
    BY <1>1, <1>3, GitLabMoves
  <2>. QED
    BY <1>2, <2>1 DEF Filtered, NotSuppressed, Fits, SameRun, SameWork, SamePlace
<1>4. ASSUME NEW w \in Writers, WriterStep(w) PROVE Filtered(writer'[v])
  <2>1. CASE v = w
    <3>1. ASSUME Raise(w) \/ RaiseAfterCreate(w) PROVE writer'[w].pc = "idle"
      BY <1>1, <3>1, RaisesMove DEF Idles
    <3>. QED
      BY <1>4, <2>1, <3>1, ReviewFiltered, ReplyFiltered, FilteredElsewhere
         DEF WriterStep, Reviewing, Publishing, Answering
  <2>2. CASE v # w
    BY <1>1, <1>2, <1>4, <2>2, OthersStand
  <2>. QED
    BY <2>1, <2>2
<1>5. CASE UNCHANGED vars
  BY <1>2, <1>5 DEF vars
<1>. QED
  BY <1>3, <1>4, <1>5 DEF Next

LEMMA FilteredInit == Init => FilteredInv
<1>. SUFFICES ASSUME Init PROVE FilteredInv
  OBVIOUS
<1>1. ASSUME NEW w \in Writers PROVE writer[w].pc = "idle"
  BY DEF Init, IdleWriter
<1>. QED
  BY <1>1, PublicationInit, FilteredElsewhere
     DEF FilteredInv, Reviewing, Publishing, Answering

\* A row is opened again by the worker at hand of it, in a publication or in a reconcile run.
LEMMA ReopenerKnown ==
  ASSUME PublicationInv, Next, NEW f \in Findings, Reopens(f)
  PROVE  \E w \in Writers :
           /\ writer[w].row = f /\ writer'[w] # writer[w]
           /\ writer[w].pc \in {"save", "save_decision"}
<1>1. /\ f \in Findings /\ HasRow(tracked, f) /\ tracked[f].status = "dismissed_by_discussion"
      /\ HasRow(tracked', f) /\ tracked'[f].status = "open"
  BY DEF Reopens, InStatus
<1>2. tracked'[f] # tracked[f] /\ tracked' # tracked /\ tracked \in [Findings -> Row \cup {None}]
  BY <1>1 DEF PublicationInv, TypeOK
<1>3. PICK w \in Writers : WriterStep(w)
  BY <1>2, GitLabMoves DEF Next
<1>4. ~SaveResolved(w)
  <2>. SUFFICES ASSUME SaveResolved(w) PROVE FALSE
    OBVIOUS
  <2>1. PICK g \in Retiring(w) : tracked' = [tracked EXCEPT ![g] = RetiredRow(w, g)]
    BY SaveResolvedMoves
  <2>2. g = f /\ tracked'[f] = RetiredRow(w, f)
    BY <1>2, <2>1
  <2>3. RetiredRow(w, f).status = "resolved"
    <3>1. writer[w].rows[f] \in Row
      BY <2>2, RetiringRow
    <3>. QED
      BY <3>1 DEF RetiredRow, Row
  <2>. QED
    BY <1>1, <2>2, <2>3
<1>5. SaveFinding(w) \/ SaveDecision(w)
  <2>1. CASE ReviewStep(w)
    BY <1>2, <1>4, <2>1, StartMoves, ListRowsMoves, RunAgentMoves, ChecksMove, ListThreadsMoves,
       PlaceInThreadMoves, CreateThreadMoves, InlineFailsMoves, AddStillPresentReplyMoves,
       ResolveThreadMoves, MarkDoneMoves DEF ReviewStep
  <2>2. CASE ReconcileStep(w)
    BY <1>2, <2>2, StartMoves, FindThreadMoves, FindRowMoves, ReconcileMoves, ReplyMoves,
       ResolveDismissedMoves DEF ReconcileStep
  <2>3. ~Raise(w) /\ ~RaiseAfterCreate(w)
    BY <1>2, RaisesMove
  <2>. QED
    BY <1>3, <2>1, <2>2, <2>3 DEF WriterStep
<1>6. CASE SaveFinding(w)
  <2>1. /\ writer[w].pc = "save" /\ writer'[w].pc \in {"remark", "place", "retire"}
        /\ tracked' = [tracked EXCEPT ![writer[w].row] = PublishedRow(w)]
    BY <1>6, SaveFindingMoves DEF Advances
  <2>. QED
    BY <1>2, <2>1
<1>7. CASE SaveDecision(w)
  <2>1. /\ writer[w].pc = "save_decision" /\ writer'[w].pc \in {"idle", "resolve"}
        /\ \E row : tracked' = [tracked EXCEPT ![writer[w].row] = row]
    BY <1>7, SaveDecisionMoves DEF Idles
  <2>. QED
    BY <1>2, <2>1
<1>. QED
  BY <1>5, <1>6, <1>7

\* For any number of workers, and whatever findings resemble each other: a row that a run
\* read as dismissed is opened again only by a review, and only if the diff has changes
\* near what was dismissed, or the finding has the fingerprint of the row and either does not
\* resemble what the row was reworded to or resembles another dismissed finding with changes
\* near it (_suppress_dismissed_findings and _match_tracked_finding decide that apart).
THEOREM ReadDismissalsStand == Spec => ReadDismissalStands
<1>. DEFINE about(w, g) == writer[w].rows[g].about
            Allowed(w, f) ==
              /\ At(w, "save")
              /\ \/ about(w, f) \in writer[w].near
                 \/ /\ Finding(w) = f
                    /\ \/ ~findings_match(f, about(w, f))
                       \/ \E g \in ReadAsDismissed(w) \ {f} :
                            findings_match(f, about(w, g)) /\ about(w, g) \in writer[w].near
            Stand == \A f \in Findings : Reopens(f) =>
                       \E w \in Writers : /\ writer[w].row = f /\ writer'[w] # writer[w]
                                          /\ f \in ReadAsDismissed(w) => Allowed(w, f)
<1>1. FilteredInv /\ [Next]_vars => FilteredInv'
  BY FilteredStep
<1>2. FilteredInv /\ [Next]_vars => [Stand]_vars
  <2>. SUFFICES ASSUME FilteredInv, Next, NEW f \in Findings, Reopens(f)
                PROVE  \E w \in Writers : /\ writer[w].row = f /\ writer'[w] # writer[w]
                                          /\ f \in ReadAsDismissed(w) => Allowed(w, f)
    OBVIOUS
  <2>1. PublicationInv
    BY DEF FilteredInv
  <2>2. PICK w \in Writers : /\ writer[w].row = f /\ writer'[w] # writer[w]
                             /\ writer[w].pc \in {"save", "save_decision"}
    BY <2>1, ReopenerKnown
  <2>3. Filtered(writer[w])
    BY DEF FilteredInv
  <2>. SUFFICES ASSUME f \in ReadAsDismissed(w) PROVE Allowed(w, f)
    BY <2>2
  <2>4. /\ HasRow(writer[w].rows, f) /\ writer[w].rows[f].status = "dismissed_by_discussion"
    BY DEF ReadAsDismissed, InStatus
  <2>5. writer[w].pc = "save"
    BY <2>2, <2>3, <2>4 DEF Filtered, Answering, InStatus
  <2>6. CASE f = Finding(w)
    <3>1. MayBeKept(f, writer[w].rows, writer[w].near)
      <4>1. writer[w].place \in DOMAIN writer[w].report
        BY <2>1, <2>5, AboutWriter DEF Knows
      <4>. QED
        BY <2>3, <2>5, <2>6, <4>1 DEF Filtered, NotSuppressed, Reviewing, Publishing, Finding
    <3>2. CASE findings_match(f, about(w, f))
      <4>1. f \in DismissedMatches(f, writer[w].rows)
        BY <3>2 DEF DismissedMatches, ReadAsDismissed
      <4>2. PICK g \in DismissedMatches(f, writer[w].rows) : about(w, g) \in writer[w].near
        BY <3>1, <4>1 DEF MayBeKept
      <4>3. g \in ReadAsDismissed(w) /\ findings_match(f, about(w, g))
        BY DEF DismissedMatches, ReadAsDismissed
      <4>. QED
        BY <2>5, <2>6, <4>2, <4>3 DEF At
    <3>. QED
      BY <2>5, <2>6, <3>2 DEF At
  <2>7. CASE f # Finding(w)
    <3>1. MatchesRow(Finding(w), writer[w].rows[f], writer[w].near)
      BY <2>2, <2>3, <2>5, <2>7 DEF Filtered, Fits, Finding
    <3>. QED
      BY <2>4, <2>5, <3>1 DEF MatchesRow, At
  <2>. QED
    BY <2>6, <2>7
<1>. QED
  BY <1>1, <1>2, FilteredInit, PTL DEF Spec, ReadDismissalStands, ReadAsDismissed

-----------------------------------------------------------------------------
(***************************************************************************)
(* No second thread for a finding: every thread of the bot is named by the *)
(* row of its finding, or the run that opened it is about to write the row.*)
(***************************************************************************)
BudgetKept ==
  /\ budget.failures <= MaxFailures /\ budget.resolves <= MaxResolves
  /\ budget.deletions <= MaxDeletions /\ budget.humanThreads <= MaxHumanThreads

Named(tr, t, f) == HasRow(tr, f) /\ tr[f].thread = t
ToBeNamed(s, t, f) == s.pc = "save" /\ s.row = f /\ s.thread = t /\ ~HasRow(s.rows, f)
KnownAs(tr, wr, t, f) == Named(tr, t, f) \/ \E w \in Writers : ToBeNamed(wr[w], t, f)
ThreadsKnown ==
  NoCallFailed => \A t \in DOMAIN threads : threads[t].author = "bot" =>
    threads[t].about \in Findings /\ KnownAs(tracked, writer, t, threads[t].about)

ThreadInv == TidyInv /\ BudgetKept /\ ThreadsKnown

\* What is left of each budget after one is spent.
LEMMA SpendTakesOne ==
  ASSUME TypeOK, NEW what, Spend(what),
         what \in {"pushes", "replies", "humanThreads", "resolves", "deletions", "failures"}
  PROVE  /\ budget'[what] = budget[what] - 1 /\ budget[what] \in Nat
         /\ \A other : other # what => budget'[other] = budget[other]
BY DEF TypeOK, Spend

\* A budget that is full after a step was not touched by it.
LEMMA BudgetFull ==
  ASSUME PublicationInv, BudgetKept, [Next]_vars
  PROVE  /\ BudgetKept'
         /\ NoCallFailed' => NoCallFailed /\ ~Spend("failures")
         /\ NobodyInterfered' => /\ NobodyInterfered /\ ~Spend("resolves")
                                 /\ ~Spend("deletions") /\ ~Spend("humanThreads")
<1>. DEFINE Purses == {"pushes", "replies", "humanThreads", "resolves", "deletions", "failures"}
<1>1. TypeOK /\ budget.failures \in Nat /\ budget.resolves \in Nat
      /\ budget.deletions \in Nat /\ budget.humanThreads \in Nat
  BY DEF PublicationInv, TypeOK
<1>2. budget' = budget \/ \E what \in Purses : Spend(what)
  <2>1. CASE GitLabStep
    BY <2>1, GitLabMoves
  <2>2. ASSUME NEW w \in Writers, WriterStep(w)
        PROVE  budget' = budget \/ Spend("failures")
    <3>1. CASE ReviewStep(w)
      BY <3>1, StartMoves, ListRowsMoves, RunAgentMoves, ChecksMove, ListThreadsMoves,
         PlaceInThreadMoves, CreateThreadMoves, InlineFailsMoves, SaveFindingMoves,
         AddStillPresentReplyMoves, ResolveThreadMoves, SaveResolvedMoves, MarkDoneMoves
         DEF ReviewStep
    <3>2. CASE ReconcileStep(w)
      BY <3>2, StartMoves, FindThreadMoves, FindRowMoves, ReconcileMoves, ReplyMoves,
         SaveDecisionMoves, ResolveDismissedMoves DEF ReconcileStep
    <3>3. CASE Raise(w) \/ RaiseAfterCreate(w)
      BY <3>3, RaisesMove
    <3>. QED
      BY <2>2, <3>1, <3>2, <3>3 DEF WriterStep
  <2>3. CASE UNCHANGED vars
    BY <2>3 DEF vars
  <2>. QED
    BY <2>1, <2>2, <2>3 DEF Next
<1>3. /\ MaxFailures \in Nat /\ MaxResolves \in Nat /\ MaxDeletions \in Nat
      /\ MaxHumanThreads \in Nat
  BY PublicationAssumption
<1>4. CASE budget' = budget
  <2>1. ~Spend("failures") /\ ~Spend("resolves") /\ ~Spend("deletions") /\ ~Spend("humanThreads")
    BY <1>1, <1>4, SpendTakesOne
  <2>. QED
    BY <1>4, <2>1 DEF BudgetKept, NoCallFailed, NobodyInterfered
<1>5. ASSUME NEW what \in Purses, Spend(what)
      PROVE  /\ BudgetKept'
             /\ NoCallFailed' => NoCallFailed /\ what # "failures"
             /\ NobodyInterfered' =>
                  NobodyInterfered /\ what \notin {"resolves", "deletions", "humanThreads"}
  BY <1>1, <1>3, <1>5, SpendTakesOne DEF BudgetKept, NoCallFailed, NobodyInterfered
<1>. QED
  BY <1>2, <1>4, <1>5

\* The bot has opened no thread but those it had, and they are about the same findings.
SameRoots(th1, th2) ==
  \A t \in DOMAIN th2 : th2[t].author = "bot" =>
    t \in DOMAIN th1 /\ th1[t].author = "bot" /\ th1[t].about = th2[t].about

LEMMA EditedThread ==
  ASSUME NEW th \in Seq(Thread), NEW t, NEW b
  PROVE  LET th2 == [th EXCEPT ![t].resolved = b]
         IN /\ DOMAIN th2 = DOMAIN th
            /\ \A u \in DOMAIN th :
                 /\ th2[u].author = th[u].author /\ th2[u].about = th[u].about
                 /\ th2[u].deleted = th[u].deleted /\ (u # t => th2[u] = th[u])
            /\ t \in DOMAIN th => th2[t].resolved = b
<1>. DEFINE th2 == [th EXCEPT ![t].resolved = b]
<1>1. DOMAIN th2 = DOMAIN th /\ \A u \in DOMAIN th : u # t => th2[u] = th[u]
  OBVIOUS
<1>2. ASSUME t \in DOMAIN th
      PROVE  /\ th2[t].author = th[t].author /\ th2[t].about = th[t].about
             /\ th2[t].deleted = th[t].deleted /\ th2[t].resolved = b
  <2>1. th2[t] = [th[t] EXCEPT !.resolved = b] /\ th[t] \in Thread
    BY <1>2
  <2>. HIDE DEF th2
  <2>. QED
    BY <2>1 DEF Thread
<1>. QED
  BY <1>1, <1>2

LEMMA DeletedThread ==
  ASSUME NEW th \in Seq(Thread), NEW t \in DOMAIN th
  PROVE  SameRoots(th, [th EXCEPT ![t].deleted = TRUE])
<1>. DEFINE th2 == [th EXCEPT ![t].deleted = TRUE]
<1>1. DOMAIN th2 = DOMAIN th /\ \A u \in DOMAIN th : u # t => th2[u] = th[u]
  OBVIOUS
<1>2. th2[t].author = th[t].author /\ th2[t].about = th[t].about
  <2>1. th2[t] = [th[t] EXCEPT !.deleted = TRUE] /\ th[t] \in Thread
    OBVIOUS
  <2>. HIDE DEF th2
  <2>. QED
    BY <2>1 DEF Thread
<1>. QED
  BY <1>1, <1>2 DEF SameRoots

LEMMA NotedThread ==
  ASSUME NEW th \in Seq(Thread), NEW t, NEW note
  PROVE  LET th2 == [th EXCEPT ![t].notes = Append(@, note)]
         IN /\ DOMAIN th2 = DOMAIN th
            /\ \A u \in DOMAIN th :
                 /\ th2[u].author = th[u].author /\ th2[u].about = th[u].about
                 /\ th2[u].deleted = th[u].deleted /\ th2[u].resolved = th[u].resolved
<1>. DEFINE th2 == [th EXCEPT ![t].notes = Append(@, note)]
<1>1. DOMAIN th2 = DOMAIN th
  OBVIOUS
<1>2. ASSUME NEW u \in DOMAIN th
      PROVE  /\ th2[u].author = th[u].author /\ th2[u].about = th[u].about
             /\ th2[u].deleted = th[u].deleted /\ th2[u].resolved = th[u].resolved
  <2>. DEFINE notes == Append(th[u].notes, note)
  <2>1. th[u] \in Thread
    OBVIOUS
  <2>2. th2[u] = th[u] \/ th2[u] = [th[u] EXCEPT !.notes = notes]
    OBVIOUS
  <2>. HIDE DEF th2, notes
  <2>. QED
    BY <2>1, <2>2 DEF Thread
<1>. QED
  BY <1>1, <1>2

LEMMA AddedThread ==
  ASSUME NEW th \in Seq(Thread), NEW author, NEW about
  PROVE  LET th2 == Append(th, NewThread(author, about))
             t   == Len(th) + 1
         IN /\ DOMAIN th2 = DOMAIN th \cup {t} /\ t \notin DOMAIN th
            /\ \A u \in DOMAIN th : th2[u] = th[u]
            /\ th2[t].author = author /\ th2[t].about = about
            /\ ~th2[t].resolved /\ ~th2[t].deleted
<1>. DEFINE new == NewThread(author, about)
<1>1. /\ new.author = author /\ new.about = about /\ ~new.resolved /\ ~new.deleted
  BY DEF NewThread
<1>. HIDE DEF new
<1>2. /\ DOMAIN Append(th, new) = 1..(Len(th) + 1) /\ DOMAIN th = 1..Len(th) /\ Len(th) \in Nat
      /\ \A t \in DOMAIN th : Append(th, new)[t] = th[t]
      /\ Append(th, new)[Len(th) + 1] = new
  OBVIOUS
<1>3. 1..(Len(th) + 1) = (1..Len(th)) \cup {Len(th) + 1} /\ Len(th) + 1 \notin 1..Len(th)
  BY <1>2
<1>. QED
  BY <1>1, <1>2, <1>3 DEF new

\* Only these steps open a thread in the name of the bot.
LEMMA RootsStay ==
  ASSUME PublicationInv, GitLabStep \/ \E w \in Writers : WriterStep(w)
  PROVE  \/ SameRoots(threads, threads')
         \/ \E w \in Writers : CreateThread(w)
         \/ Spend("failures")
<1>1. threads \in Seq(Thread)
  BY DEF PublicationInv, TypeOK
<1>2. SameRoots(threads, threads)
  BY DEF SameRoots
<1>3. ASSUME NEW t, NEW b, threads' = [threads EXCEPT ![t].resolved = b]
      PROVE  SameRoots(threads, threads')
  BY <1>1, <1>3, EditedThread DEF SameRoots
<1>4. ASSUME NEW t, NEW note, threads' = [threads EXCEPT ![t].notes = Append(@, note)]
      PROVE  SameRoots(threads, threads')
  BY <1>1, <1>4, NotedThread DEF SameRoots
<1>5. CASE GitLabStep
  <2>1. CASE threads' = threads
    BY <1>2, <2>1
  <2>2. CASE threads' = Append(threads, NewThread("human", None))
    BY <1>1, <2>2, AddedThread DEF SameRoots
  <2>3. CASE threads' # threads /\ threads' # Append(threads, NewThread("human", None))
    <3>1. PICK t \in DOMAIN threads :
            \/ threads' = [threads EXCEPT ![t].notes = Append(@, HumanNote)]
            \/ threads' = [threads EXCEPT ![t].resolved = TRUE]
            \/ threads' = [threads EXCEPT ![t].deleted = TRUE]
      BY <1>5, <2>3, GitLabMoves
    <3>2. CASE threads' = [threads EXCEPT ![t].notes = Append(@, HumanNote)]
      BY <1>4, <3>2
    <3>3. CASE threads' = [threads EXCEPT ![t].resolved = TRUE]
      BY <1>3, <3>3
    <3>4. CASE threads' = [threads EXCEPT ![t].deleted = TRUE]
      BY <1>1, <3>4, DeletedThread
    <3>. QED
      BY <3>1, <3>2, <3>3, <3>4
  <2>. QED
    BY <2>1, <2>2, <2>3
<1>6. ASSUME NEW w \in Writers, WriterStep(w)
      PROVE  SameRoots(threads, threads') \/ CreateThread(w) \/ Spend("failures")
  <2>1. CASE \/ StartReview(w) \/ ListRows(w) \/ RunAgent(w) \/ CheckStatus(w) \/ CheckHead(w)
             \/ ListThreads(w) \/ SaveFinding(w) \/ MarkDone(w)
    BY <1>2, <2>1, StartMoves, ListRowsMoves, RunAgentMoves, ChecksMove, ListThreadsMoves,
       SaveFindingMoves, MarkDoneMoves
  <2>2. CASE \/ StartReconcile(w) \/ FindThread(w) \/ FindRow(w) \/ Reconcile(w) \/ NoAction(w)
             \/ SaveDecision(w) \/ SaveResolved(w)
    BY <1>2, <2>2, StartMoves, FindThreadMoves, FindRowMoves, ReconcileMoves,
       SaveDecisionMoves, SaveResolvedMoves
  <2>3. CASE PlaceInThread(w) \/ ResolveThread(w) \/ ResolveDismissed(w)
    <3>1. CASE PlaceInThread(w)
      <4>1. \/ threads' = threads
            \/ threads' = [threads EXCEPT ![writer'[w].thread].resolved = FALSE]
        BY <3>1, PlaceInThreadMoves
      <4>. QED
        BY <1>2, <1>3, <4>1
    <3>2. CASE ResolveThread(w)
      BY <1>3, <3>2, ResolveThreadMoves
    <3>3. CASE ResolveDismissed(w)
      BY <1>3, <3>3, ResolveDismissedMoves
    <3>. QED
      BY <2>3, <3>1, <3>2, <3>3
  <2>4. CASE AddStillPresentReply(w) \/ Reply(w)
    BY <1>4, <2>4, AddStillPresentReplyMoves, ReplyMoves
  <2>5. CASE InlineFails(w) \/ Raise(w) \/ RaiseAfterCreate(w)
    BY <1>2, <2>5, InlineFailsMoves, RaisesMove
  <2>. QED
    BY <1>6, <2>1, <2>2, <2>3, <2>4, <2>5 DEF WriterStep, ReviewStep, ReconcileStep
<1>. QED
  BY <1>5, <1>6

\* A row keeps its thread for good.
LEMMA NamesStay ==
  ASSUME TidyInv, NEW w \in Writers, WriterStep(w)
  PROVE  \A f \in Findings : HasRow(tracked, f) =>
           HasRow(tracked', f) /\ tracked'[f].thread = tracked[f].thread
<1>1. PublicationInv
  BY DEF TidyInv
<1>2. CASE tracked' = tracked
  BY <1>2
<1>3. CASE SaveFinding(w)
  <2>. DEFINE s == writer[w]
  <2>1. /\ s.row \in Findings /\ IsOpen(tracked', s.row) /\ tracked'[s.row].thread = s.thread
        /\ \A g \in Findings : g # s.row => tracked'[g] = tracked[g]
    BY <1>1, <1>3, SavedRow
  <2>2. s.pc = "save" /\ Tidy(tracked, s)
    BY <1>1, <1>3, SaveFindingMoves, TidyRun
  <2>3. Chosen(s) /\ tracked[s.row] = s.rows[s.row]
    <3>1. Chosen(s)
      BY <2>2 DEF Tidy, AtHand
    <3>. QED
      BY <2>1, <2>2, <3>1 DEF Tidy, Copied, Chosen, Reviewing, Publishing
  <2>. HIDE DEF s
  <2>. QED
    BY <2>1, <2>3 DEF Chosen, HasRow, IsOpen
<1>4. CASE SaveResolved(w)
  <2>1. PICK f \in Retiring(w) :
          writer[w].pc \in Publishing /\ tracked' = [tracked EXCEPT ![f] = RetiredRow(w, f)]
    BY <1>1, <1>4, SaveResolvedMoves DEF Publishing
  <2>2. /\ HasRow(tracked', f) /\ tracked'[f].thread = tracked[f].thread
        /\ \A g \in Findings : g # f => tracked'[g] = tracked[g]
    BY <2>1, RetiredRowWritten
  <2>. QED
    BY <2>2 DEF HasRow
<1>5. CASE SaveDecision(w)
  BY <1>5, DecidedRow DEF HasRow
<1>6. CASE /\ ReviewStep(w)
           /\ ~SaveFinding(w) /\ ~SaveResolved(w)
  BY <1>2, <1>6, EarlyStepsTidy, ListThreadsTidy, RemarkTidy, ResolveThreadTidy, EndsTidy,
     <1>1, PlaceInThreadMoves, CreateThreadMoves, InlineFailsMoves DEF ReviewStep
<1>7. CASE ReconcileStep(w) /\ ~SaveDecision(w)
  BY <1>2, <1>7, EarlyStepsTidy, ReplyStepsTidy, EndsTidy DEF ReconcileStep
<1>8. CASE Raise(w) \/ RaiseAfterCreate(w)
  BY <1>2, <1>8, EndsTidy
<1>. QED
  BY <1>3, <1>4, <1>5, <1>6, <1>7, <1>8 DEF WriterStep

\* Where the one worker saves no row, every thread of the bot is named.
LEMMA AllNamed ==
  ASSUME OneWorker, ThreadInv, NoCallFailed, NEW w \in Writers, writer[w].pc # "save",
         NEW t \in DOMAIN threads, threads[t].author = "bot"
  PROVE  threads[t].about \in Findings /\ Named(tracked, t, threads[t].about)
<1>1. \A v \in Writers : writer[v].pc # "save"
  BY DEF OneWorker
<1>. QED
  BY <1>1 DEF ThreadInv, ThreadsKnown, KnownAs, ToBeNamed

LEMMA ThreadsKnownStep ==
  ASSUME OneWorker, TellsApart, ThreadInv, [Next]_vars
  PROVE  ThreadsKnown'
<1>. DEFINE Goal == \A t \in DOMAIN threads' : threads'[t].author = "bot" =>
               /\ threads'[t].about \in Findings
               /\ KnownAs(tracked', writer', t, threads'[t].about)
<1>. SUFFICES ASSUME NoCallFailed' PROVE Goal
  BY DEF ThreadsKnown
<1>1. TidyInv /\ PublicationInv /\ threads \in Seq(Thread)
  BY DEF ThreadInv, TidyInv, PublicationInv, TypeOK
<1>2. NoCallFailed /\ ~Spend("failures")
  BY <1>1, BudgetFull DEF ThreadInv
<1>3. \A t \in DOMAIN threads : threads[t].author = "bot" =>
        threads[t].about \in Findings /\ KnownAs(tracked, writer, t, threads[t].about)
  BY <1>2 DEF ThreadInv, ThreadsKnown
<1>4. CASE GitLabStep
  <2>1. tracked' = tracked /\ \A v \in Writers : SameRun(writer'[v], writer[v])
    BY <1>1, <1>4, GitLabMoves
  <2>2. SameRoots(threads, threads')
    <3>1. ~\E w \in Writers : CreateThread(w)
      <4>. SUFFICES ASSUME NEW w \in Writers, CreateThread(w) PROVE FALSE
        OBVIOUS
      <4>1. writer[w].pc \in {"place", "create_plain"} /\ writer'[w].pc = "save"
        BY <1>1, CreateThreadMoves
      <4>. QED
        BY <2>1, <4>1 DEF SameRun
    <3>. QED
      BY <1>1, <1>2, <1>4, <3>1, RootsStay
  <2>3. ASSUME NEW t, NEW f, KnownAs(tracked, writer, t, f)
        PROVE  KnownAs(tracked', writer', t, f)
    BY <2>1, <2>3 DEF KnownAs, ToBeNamed, SameRun, SameWork
  <2>. QED
    BY <1>3, <2>2, <2>3 DEF SameRoots
<1>5. ASSUME NEW w \in Writers, CreateThread(w) PROVE Goal
  <2>. DEFINE n == writer'[w]
  <2>1. /\ writer[w].pc \in {"place", "create_plain"} /\ n.pc = "save"
        /\ n.rows = writer[w].rows /\ n.row = Finding(w) /\ n.thread = Len(threads) + 1
        /\ threads' = Append(threads, NewThread("bot", Finding(w))) /\ tracked' = tracked
    BY <1>1, <1>5, CreateThreadMoves DEF SameWork
  <2>2. Finding(w) \in Findings /\ ~HasRow(n.rows, Finding(w))
    BY <1>1, <1>5, <2>1, FindingAtHand, CreateThreadChooses
  <2>3. /\ DOMAIN threads' = DOMAIN threads \cup {Len(threads) + 1}
        /\ \A u \in DOMAIN threads : threads'[u] = threads[u]
        /\ threads'[Len(threads) + 1].about = Finding(w)
    BY <1>1, <2>1, AddedThread
  <2>4. ASSUME NEW t \in DOMAIN threads, threads[t].author = "bot"
        PROVE  threads[t].about \in Findings /\ Named(tracked, t, threads[t].about)
    BY <1>2, <2>1, <2>4, AllNamed
  <2>5. ToBeNamed(n, Len(threads) + 1, Finding(w))
    BY <2>1, <2>2 DEF ToBeNamed
  <2>. HIDE DEF n
  <2>6. ASSUME NEW t \in DOMAIN threads', threads'[t].author = "bot"
        PROVE  threads'[t].about \in Findings /\ KnownAs(tracked', writer', t, threads'[t].about)
    <3>1. CASE t \in DOMAIN threads
      BY <2>1, <2>3, <2>4, <2>6, <3>1 DEF KnownAs
    <3>2. CASE t = Len(threads) + 1
      BY <2>2, <2>3, <2>5, <3>2 DEF KnownAs, n
    <3>. QED
      BY <2>3, <2>6, <3>1, <3>2
  <2>. QED
    BY <2>6
<1>6. ASSUME NEW w \in Writers, WriterStep(w), \A v \in Writers : ~CreateThread(v)
      PROVE  Goal
  <2>1. SameRoots(threads, threads')
    BY <1>1, <1>2, <1>6, RootsStay
  <2>2. \A f \in Findings : HasRow(tracked, f) =>
          HasRow(tracked', f) /\ tracked'[f].thread = tracked[f].thread
    BY <1>1, <1>6, NamesStay
  <2>3. CASE writer[w].pc # "save"
    <3>1. ASSUME NEW t \in DOMAIN threads, threads[t].author = "bot"
          PROVE  threads[t].about \in Findings /\ Named(tracked', t, threads[t].about)
      BY <1>2, <2>2, <2>3, <3>1, AllNamed DEF Named
    <3>. QED
      BY <2>1, <3>1 DEF SameRoots, KnownAs
  <2>4. CASE writer[w].pc = "save"
    <3>1. SaveFinding(w)
      <4>1. ~ReconcileStep(w) /\ ~Raise(w) /\ ~RaiseAfterCreate(w)
        BY <1>1, <2>4, RaisesMove, StartMoves, FindThreadMoves, FindRowMoves, ReconcileMoves,
           ReplyMoves, SaveDecisionMoves, ResolveDismissedMoves DEF ReconcileStep
      <4>2. ReviewStep(w)
        BY <1>6, <4>1 DEF WriterStep
      <4>. QED
        BY <2>4, <4>2 DEF ReviewStep, StartReview, ListRows, RunAgent, CheckStatus, CheckHead,
           ListThreads, Local, PlaceInThread, CreateThread, NeedsThread, InlineFails,
           AddStillPresentReply, ResolveThread, SaveResolved, MarkDone, At
    <3>2. /\ IsOpen(tracked', writer[w].row)
          /\ tracked'[writer[w].row].thread = writer[w].thread
      BY <1>1, <3>1, SavedRow
    <3>3. ASSUME NEW t, NEW f \in Findings, KnownAs(tracked, writer, t, f)
          PROVE  Named(tracked', t, f)
      <4>1. CASE Named(tracked, t, f)
        BY <2>2, <4>1 DEF Named
      <4>2. CASE \E v \in Writers : ToBeNamed(writer[v], t, f)
        <5>1. ToBeNamed(writer[w], t, f)
          BY <4>2 DEF OneWorker
        <5>. QED
          BY <3>2, <5>1 DEF ToBeNamed, Named, IsOpen
      <4>. QED
        BY <3>3, <4>1, <4>2 DEF KnownAs
    <3>. QED
      BY <1>3, <2>1, <3>3 DEF SameRoots, KnownAs
  <2>. QED
    BY <2>3, <2>4
<1>7. CASE UNCHANGED vars
  BY <1>3, <1>7 DEF vars
<1>. QED
  BY <1>4, <1>5, <1>6, <1>7 DEF Next

LEMMA ThreadStep == OneWorker /\ TellsApart /\ ThreadInv /\ [Next]_vars => ThreadInv'
BY TidyStep, ThreadsKnownStep, BudgetFull DEF ThreadInv, TidyInv

LEMMA ThreadInit == Init => ThreadInv
<1>. SUFFICES ASSUME Init PROVE ThreadInv
  OBVIOUS
<1>1. BudgetKept
  BY PublicationAssumption DEF Init, BudgetKept
<1>2. ThreadsKnown
  BY DEF Init, ThreadsKnown
<1>. QED
  BY <1>1, <1>2, TidyInit DEF ThreadInv

\* With one worker and findings told apart, the bot opens at most one thread for a finding
\* as long as no call of GitLab loses its answer, however often the finding vanishes,
\* comes back and is dismissed, and whatever humans do to its thread.
THEOREM OneThreadForAFinding == OneWorker /\ TellsApart => (Spec => []OneThreadPerFinding)
<1>. SUFFICES ASSUME OneWorker, TellsApart PROVE Spec => []OneThreadPerFinding
  OBVIOUS
<1>1. ThreadInv /\ [Next]_vars => ThreadInv'
  BY ThreadStep
<1>2. ThreadInv => OneThreadPerFinding
  <2>. SUFFICES ASSUME ThreadInv, NoCallFailed,
                       NEW t \in DOMAIN threads, NEW u \in DOMAIN threads,
                       threads[t].author = "bot", threads[u].author = "bot",
                       threads[t].about = threads[u].about
                PROVE  t = u
    BY DEF OneThreadPerFinding
  <2>. DEFINE f == threads[t].about
  <2>1. f \in Findings /\ KnownAs(tracked, writer, t, f) /\ KnownAs(tracked, writer, u, f)
    BY DEF ThreadInv, ThreadsKnown
  <2>. HIDE DEF f
  <2>2. ASSUME NEW a, NEW w \in Writers, ToBeNamed(writer[w], a, f) PROVE ~HasRow(tracked, f)
    <3>1. writer[w].pc = "save" /\ writer[w].row = f /\ ~HasRow(writer[w].rows, f)
      BY <2>2 DEF ToBeNamed
    <3>2. Tidy(tracked, writer[w])
      BY TidyRun DEF ThreadInv
    <3>3. f \notin writer[w].used
      BY <3>1, <3>2 DEF Tidy, AtHand, Chosen
    <3>. QED
      BY <2>1, <3>1, <3>2, <3>3 DEF Tidy, Copied, HasRow, Reviewing, Publishing
  <2>3. CASE HasRow(tracked, f)
    BY <2>1, <2>2, <2>3 DEF KnownAs, Named
  <2>4. CASE ~HasRow(tracked, f)
    <3>1. PICK v \in Writers, w \in Writers :
            ToBeNamed(writer[v], t, f) /\ ToBeNamed(writer[w], u, f)
      BY <2>1, <2>4 DEF KnownAs, Named
    <3>2. v = w
      BY DEF OneWorker
    <3>. QED
      BY <3>1, <3>2 DEF ToBeNamed
  <2>. QED
    BY <2>3, <2>4
<1>. QED
  BY <1>1, <1>2, ThreadInit, PTL DEF Spec

-----------------------------------------------------------------------------
(***************************************************************************)
(* Rows and threads: where nobody interfered, each row is open exactly     *)
(* when its thread is unresolved, but for the one whose thread was written *)
(* and whose row is not, or the other way round.                           *)
(***************************************************************************)
Halfway == {"save", "save_resolved", "resolve"}
Between(s, f) == s.pc \in Halfway /\ s.row = f
Agrees(tr, th, f) == tr[f].status = "open" <=> ~th[tr[f].thread].resolved
RowsInStep(tr, th, s) == \A f \in Findings : HasRow(tr, f) => Agrees(tr, th, f) \/ Between(s, f)

BotOnly(th) == \A t \in DOMAIN th : th[t].author = "bot" /\ ~th[t].deleted

\* The listing is true of the rows a review has yet to come to, and of the
\* thread of a reconcile run.
AsListed(th, s, t) == s.listing[t].resolved <=> th[t].resolved
ListingHolds(th, s) ==
  \A f \in Findings \ s.used : HasRow(s.rows, f) =>
    /\ Listed(s.listing, s.rows[f].thread)
    /\ Between(s, f) \/ AsListed(th, s, s.rows[f].thread)

InStep(tr, th, s) ==
  /\ s.pc \in Publishing => ListingHolds(th, s)
  /\ s.pc = "save" => ~th[s.thread].resolved
  /\ s.pc = "save_resolved" => th[s.rows[s.row].thread].resolved
  /\ s.pc \in Answering \cup {"find_row"} => s.thread \in DOMAIN th /\ AsListed(th, s, s.thread)
  /\ s.pc \in Answering => s.rows[s.row].thread = s.thread
  /\ s.pc = "resolve" =>
       /\ s.row \in Findings /\ HasRow(tr, s.row) /\ tr[s.row].thread = s.thread
       /\ tr[s.row].status = "dismissed_by_discussion"

StepInv ==
  /\ ThreadInv
  /\ NobodyInterfered =>
       /\ BotOnly(threads)
       /\ \A f \in Findings : HasRow(tracked, f) =>
            Agrees(tracked, threads, f) \/ \E w \in Writers : Between(writer[w], f)
       /\ \A w \in Writers : InStep(tracked, threads, writer[w])

\* What a step of the only worker starts from.
LEMMA StepFrom ==
  ASSUME OneWorker, StepInv, NobodyInterfered, NEW w \in Writers
  PROVE  /\ ThreadInv /\ TidyInv /\ PublicationInv /\ Knows(threads, writer[w])
         /\ threads \in Seq(Thread) /\ writer[w] \in WriterState
         /\ BotOnly(threads) /\ RowsInStep(tracked, threads, writer[w])
         /\ InStep(tracked, threads, writer[w])
<1>1. ThreadInv /\ TidyInv /\ PublicationInv /\ threads \in Seq(Thread)
  BY DEF StepInv, ThreadInv, TidyInv, PublicationInv, TypeOK
<1>2. RowsInStep(tracked, threads, writer[w])
  BY DEF StepInv, RowsInStep, OneWorker
<1>. QED
  BY <1>1, <1>2, AboutWriter DEF StepInv

\* Threads are added, and none is resolved or reopened.
SameState(th1, th2) ==
  \A t \in DOMAIN th1 : t \in DOMAIN th2 /\ (th2[t].resolved <=> th1[t].resolved)

\* Rows stay in step while a run is between no two writes.
LEMMA RowsOn ==
  ASSUME PublicationInv, NEW th2, SameState(threads, th2),
         NEW s, s.pc \notin Halfway, RowsInStep(tracked, threads, s), NEW n
  PROVE  RowsInStep(tracked, th2, n)
<1>. SUFFICES ASSUME NEW f \in Findings, HasRow(tracked, f) PROVE Agrees(tracked, th2, f)
  BY DEF RowsInStep
<1>1. tracked[f].thread \in DOMAIN threads
  BY DEF PublicationInv, RowsNameTheirThread
<1>2. Agrees(tracked, threads, f)
  BY DEF RowsInStep, Between
<1>. QED
  BY <1>1, <1>2 DEF SameState, Agrees

LEMMA InStepElsewhere ==
  ASSUME NEW tr, NEW th, NEW n,
         n.pc \notin Publishing \cup Answering \cup {"find_row", "resolve"}
  PROVE  InStep(tr, th, n)
BY DEF InStep, Publishing

LEMMA IdleInStep ==
  ASSUME NEW tr, NEW th, NEW w, Idles(w)
  PROVE  InStep(tr, th, writer'[w])
BY InStepElsewhere DEF Idles, Publishing, Answering

\* The rows of a run lead to threads there are, and others than those of other rows.
LEMMA ThreadsApart ==
  ASSUME PublicationInv, NEW w \in Writers,
         NEW f \in Findings, HasRow(writer[w].rows, f)
  PROVE  LET t == writer[w].rows[f].thread
         IN /\ t \in DOMAIN threads
            /\ \A g \in Findings \ {f} : HasRow(writer[w].rows, g) =>
                 writer[w].rows[g].thread \in DOMAIN threads \ {t}
            /\ \A g \in Findings \ {f} : HasRow(tracked, g) =>
                 tracked[g].thread \in DOMAIN threads \ {t}
BY AboutWriter DEF Knows, Leads, PublicationInv, RowsNameTheirThread

\* A run turns to a row: the state of its thread changes, and no other's.
LEMMA TurnsTo ==
  ASSUME OneWorker, StepInv, NobodyInterfered, NEW w \in Writers, writer[w].pc \in Publishing,
         writer[w].pc \notin Halfway,
         NEW f \in Findings, HasRow(writer[w].rows, f),
         NEW n, SameWork(n, writer[w]), n.used = writer[w].used, n.pc \in Halfway, n.row = f,
         NEW th2, \A u \in DOMAIN threads : u # writer[w].rows[f].thread => th2[u] = threads[u]
  PROVE  RowsInStep(tracked, th2, n) /\ ListingHolds(th2, n)
<1>. DEFINE s == writer[w]
            t == s.rows[f].thread
<1>1. PublicationInv /\ RowsInStep(tracked, threads, s) /\ InStep(tracked, threads, s)
  BY StepFrom
<1>2. ASSUME NEW g \in Findings, HasRow(tracked, g), g # f PROVE Agrees(tracked, th2, g)
  <2>1. tracked[g].thread \in DOMAIN threads /\ tracked[g].thread # t
    BY <1>1, <1>2, ThreadsApart
  <2>2. Agrees(tracked, threads, g)
    BY <1>1, <1>2 DEF RowsInStep, Between
  <2>. QED
    BY <2>1, <2>2 DEF Agrees
<1>3. ASSUME NEW g \in Findings \ s.used, HasRow(s.rows, g), g # f
      PROVE  Listed(s.listing, s.rows[g].thread) /\ AsListed(th2, s, s.rows[g].thread)
  <2>1. s.rows[g].thread \in DOMAIN threads /\ s.rows[g].thread # t
    BY <1>1, <1>3, ThreadsApart
  <2>2. Listed(s.listing, s.rows[g].thread) /\ AsListed(threads, s, s.rows[g].thread)
    BY <1>1, <1>3 DEF InStep, ListingHolds, Between
  <2>. QED
    BY <2>1, <2>2 DEF AsListed
<1>4. f \notin s.used => Listed(s.listing, t)
  BY <1>1 DEF InStep, ListingHolds
<1>5. Between(n, f)
  BY DEF Between
<1>6. RowsInStep(tracked, th2, n)
  BY <1>2, <1>5 DEF RowsInStep
<1>. HIDE DEF s
<1>7. ListingHolds(th2, n)
  BY <1>3, <1>4, <1>5 DEF ListingHolds, AsListed, SameWork, s
<1>. QED
  BY <1>6, <1>7

\* Before a review writes, and in a reconcile run up to its decision.
LEMMA ReadStepsInStep ==
  ASSUME OneWorker, StepInv, NobodyInterfered, NEW w \in Writers,
         \/ StartReview(w) \/ ListRows(w) \/ RunAgent(w) \/ CheckStatus(w) \/ CheckHead(w)
         \/ ListThreads(w) \/ StartReconcile(w) \/ FindThread(w) \/ FindRow(w)
         \/ Reconcile(w) \/ NoAction(w)
  PROVE  /\ UNCHANGED <<tracked, threads>> /\ writer[w].pc \notin Halfway
         /\ InStep(tracked, threads, writer'[w])
<1>. DEFINE s == writer[w]
            n == writer'[w]
<1>1. /\ PublicationInv /\ TidyInv /\ ThreadInv /\ InStep(tracked, threads, s) /\ BotOnly(threads)
      /\ Knows(threads, s) /\ NoCallFailed
  BY StepFrom DEF NobodyInterfered
<1>2. CASE StartReview(w) \/ StartReconcile(w) \/ ListRows(w) \/ RunAgent(w)
  BY <1>1, <1>2, StartMoves, ListRowsMoves, RunAgentMoves, InStepElsewhere
     DEF Halfway, Publishing, Answering
<1>3. CASE CheckStatus(w) \/ CheckHead(w)
  <2>1. UNCHANGED <<tracked, threads>> /\ s.pc \notin Halfway
    BY <1>1, <1>3, ChecksMove DEF CheckStatus, CheckHead, Local, At, Halfway
  <2>2. Idles(w) \/ n.pc \in {"check_head", "list_threads"}
    BY <1>1, <1>3, ChecksMove
  <2>. QED
    BY <2>1, <2>2, IdleInStep, InStepElsewhere DEF Publishing, Answering
<1>4. CASE ListThreads(w)
  <2>1. /\ s.pc = "list_threads" /\ n.listing = threads /\ n.rows = s.rows
        /\ n.pc \in {"place", "retire"} /\ UNCHANGED <<tracked, threads>>
    BY <1>1, <1>4, ListThreadsMoves DEF Advances
  <2>2. \A f \in Findings : HasRow(s.rows, f) => Listed(threads, s.rows[f].thread)
    BY <1>1 DEF Knows, Leads, BotOnly, Listed
  <2>. HIDE DEF s, n
  <2>3. ListingHolds(threads, n)
    BY <2>1, <2>2 DEF ListingHolds, AsListed
  <2>4. InStep(tracked, threads, n)
    BY <2>1, <2>3 DEF InStep, Answering
  <2>. QED
    BY <2>1, <2>4 DEF Halfway, n, s
<1>5. CASE FindThread(w)
  <2>1. s.pc = "find_thread" /\ UNCHANGED <<tracked, threads>>
    BY <1>1, <1>5, FindThreadMoves
  <2>2. CASE ~Idles(w)
    <3>1. n.pc = "find_row" /\ n.listing = threads /\ Listed(threads, n.thread)
      BY <1>1, <1>5, <2>2, FindThreadMoves
    <3>. HIDE DEF n
    <3>2. InStep(tracked, threads, n)
      BY <3>1 DEF InStep, AsListed, Listed, Publishing, Answering
    <3>. QED
      BY <2>1, <3>2 DEF Halfway, n
  <2>. QED
    BY <2>1, <2>2, IdleInStep DEF Halfway
<1>6. CASE FindRow(w)
  <2>1. s.pc = "find_row" /\ UNCHANGED <<tracked, threads>>
    BY <1>1, <1>6, FindRowMoves
  <2>2. CASE ~Idles(w)
    <3>1. /\ n.pc = "reconcile" /\ n.rows = tracked /\ n.row \in RowsForThread(s.thread)
          /\ n.thread = s.thread /\ n.listing = s.listing
      BY <1>1, <1>6, <2>2, FindRowMoves
    <3>2. s.thread \in DOMAIN threads /\ AsListed(threads, s, s.thread)
      BY <1>1, <2>1 DEF InStep
    <3>3. Named(tracked, s.thread, threads[s.thread].about) /\ threads[s.thread].about \in Findings
      BY <1>1, <2>1, <3>2, AllNamed DEF BotOnly
    <3>4. tracked[n.row].thread = s.thread
      BY <3>1, <3>3 DEF RowsForThread, Named
    <3>. HIDE DEF s, n
    <3>5. InStep(tracked, threads, n)
      BY <3>1, <3>2, <3>4 DEF InStep, AsListed, Publishing, Answering
    <3>. QED
      BY <2>1, <3>5 DEF Halfway, n, s
  <2>. QED
    BY <2>1, <2>2, IdleInStep DEF Halfway
<1>7. CASE Reconcile(w) \/ NoAction(w)
  <2>1. s.pc = "reconcile" /\ UNCHANGED <<tracked, threads>>
    BY <1>1, <1>7, ReconcileMoves
  <2>2. CASE ~Idles(w)
    <3>1. n.pc \in {"reply", "save_decision"} /\ SameReply(n, s)
      BY <1>1, <1>7, <2>2, ReconcileMoves
    <3>. HIDE DEF s, n
    <3>2. InStep(tracked, threads, n)
      BY <1>1, <2>1, <3>1 DEF InStep, AsListed, Publishing, Answering, SameReply
    <3>. QED
      BY <2>1, <3>2 DEF Halfway, n, s
  <2>. QED
    BY <2>1, <2>2, IdleInStep DEF Halfway
<1>. QED
  BY <1>2, <1>3, <1>4, <1>5, <1>6, <1>7

\* A note is added to a thread.
LEMMA NotesInStep ==
  ASSUME OneWorker, StepInv, NobodyInterfered, NEW w \in Writers,
         AddStillPresentReply(w) \/ Reply(w)
  PROVE  /\ UNCHANGED tracked /\ BotOnly(threads') /\ RowsInStep(tracked, threads', writer'[w])
         /\ InStep(tracked, threads', writer'[w])
<1>. DEFINE s == writer[w]
            n == writer'[w]
<1>1. /\ PublicationInv /\ InStep(tracked, threads, s) /\ BotOnly(threads)
      /\ RowsInStep(tracked, threads, s) /\ threads \in Seq(Thread)
  BY StepFrom
<1>2. s.pc \in {"remark", "reply"} /\ UNCHANGED tracked
  BY <1>1, AddStillPresentReplyMoves, ReplyMoves
<1>3. \E note : threads' = [threads EXCEPT ![s.thread].notes = Append(@, note)]
  BY <1>1, AddStillPresentReplyMoves, ReplyMoves
<1>4. SameState(threads, threads') /\ BotOnly(threads')
  BY <1>1, <1>3, NotedThread DEF SameState, BotOnly
<1>5. RowsInStep(tracked, threads', n)
  BY <1>1, <1>2, <1>4, RowsOn DEF Halfway
<1>6. CASE AddStillPresentReply(w)
  <2>1. /\ s.pc = "remark" /\ SameWork(n, s) /\ n.used = s.used /\ n.pc \in {"place", "retire"}
    BY <1>1, <1>6, AddStillPresentReplyMoves DEF Advances
  <2>2. \A f \in Findings : HasRow(s.rows, f) => s.rows[f].thread \in DOMAIN threads
    BY <1>1, ThreadsApart
  <2>. HIDE DEF s, n
  <2>3. ListingHolds(threads', n)
    BY <1>1, <1>4, <2>1, <2>2
       DEF InStep, ListingHolds, Between, Halfway, AsListed, SameState, SameWork, Publishing
  <2>4. InStep(tracked, threads', n)
    BY <2>1, <2>3 DEF InStep, Answering
  <2>. QED
    BY <1>2, <1>4, <1>5, <2>4 DEF n
<1>7. CASE Reply(w)
  <2>1. CASE ~Idles(w)
    <3>1. s.pc = "reply" /\ n.pc = "save_decision" /\ SameReply(n, s)
      BY <1>1, <1>7, <2>1, ReplyMoves
    <3>. HIDE DEF s, n
    <3>2. InStep(tracked, threads', n)
      BY <1>1, <1>4, <3>1 DEF InStep, AsListed, SameState, Publishing, Answering, SameReply
    <3>. QED
      BY <1>2, <1>4, <1>5, <3>2 DEF n
  <2>. QED
    BY <1>2, <1>4, <1>5, <2>1, IdleInStep
<1>. QED
  BY <1>6, <1>7

\* One thread is resolved or reopened.
LEMMA ThreadTurned ==
  ASSUME NEW th \in Seq(Thread), BotOnly(th), NEW t \in DOMAIN th, NEW b \in BOOLEAN
  PROVE  LET th2 == [th EXCEPT ![t].resolved = b]
         IN /\ \A u \in DOMAIN th : u # t => th2[u] = th[u]
            /\ BotOnly(th2) /\ (th2[t].resolved <=> b)
<1>. DEFINE th2 == [th EXCEPT ![t].resolved = b]
<1>1. /\ DOMAIN th2 = DOMAIN th
      /\ \A u \in DOMAIN th :
           /\ th2[u].author = th[u].author /\ th2[u].about = th[u].about
           /\ th2[u].deleted = th[u].deleted /\ (u # t => th2[u] = th[u])
      /\ t \in DOMAIN th => th2[t].resolved = b
  BY EditedThread
<1>. HIDE DEF th2
<1>2. BotOnly(th2)
  BY <1>1 DEF BotOnly
<1>3. (\A u \in DOMAIN th : u # t => th2[u] = th[u]) /\ BotOnly(th2) /\ (th2[t].resolved <=> b)
  BY <1>1, <1>2
<1>. QED
  BY <1>3 DEF th2

LEMMA PlaceInThreadInStep ==
  ASSUME OneWorker, StepInv, NobodyInterfered, NEW w \in Writers, PlaceInThread(w)
  PROVE  /\ UNCHANGED tracked /\ BotOnly(threads') /\ RowsInStep(tracked, threads', writer'[w])
         /\ InStep(tracked, threads', writer'[w])
<1>. DEFINE s == writer[w]
            n == writer'[w]
            f == n.row
            t == s.rows[f].thread
<1>1. /\ PublicationInv /\ InStep(tracked, threads, s) /\ BotOnly(threads)
      /\ threads \in Seq(Thread)
  BY StepFrom
<1>2. /\ s.pc = "place" /\ n.pc = "save" /\ SameWork(n, s) /\ n.used = s.used
      /\ f \in RowsForFinding(w) /\ n.thread = t /\ UNCHANGED tracked
      /\ threads' = IF ListedResolved(w, t) THEN [threads EXCEPT ![t].resolved = FALSE] ELSE threads
  <2>1. /\ s.pc = "place" /\ n.pc = "save" /\ SameWork(n, s) /\ SamePlace(n, s)
        /\ n.row \in RowsForFinding(w) /\ n.thread = s.rows[n.row].thread
        /\ threads' = IF ListedResolved(w, n.thread)
                      THEN [threads EXCEPT ![n.thread].resolved = FALSE] ELSE threads
        /\ UNCHANGED <<tracked, budget, reviewed>>
    BY <1>1, PlaceInThreadMoves
  <2>2. n.used = s.used
    BY <2>1 DEF SamePlace
  <2>3. n.thread = t /\ UNCHANGED tracked
    BY <2>1
  <2>4. threads' = IF ListedResolved(w, t) THEN [threads EXCEPT ![t].resolved = FALSE] ELSE threads
    BY <2>1, <2>3, Zenon
  <2>. QED
    BY <2>1, <2>2, <2>3, <2>4
<1>3. f \in Findings \ s.used /\ HasRow(s.rows, f)
  <2>1. Finding(w) \in Findings
    BY <1>1, <1>2, FindingAtHand
  <2>. QED
    BY <1>2, <2>1 DEF RowsForFinding, MatchingRows
<1>4. t \in DOMAIN threads
  BY <1>1, <1>3, ThreadsApart
<1>5. ListedResolved(w, t) <=> threads[t].resolved
  BY <1>1, <1>2, <1>3
     DEF InStep, ListingHolds, Between, Halfway, AsListed, ListedResolved, Publishing
<1>6. /\ \A u \in DOMAIN threads : u # t => threads'[u] = threads[u]
      /\ BotOnly(threads') /\ ~threads'[t].resolved
  <2>1. CASE threads[t].resolved
    <3>1. threads' = [threads EXCEPT ![t].resolved = FALSE]
      BY <1>2, <1>5, <2>1
    <3>. HIDE DEF t
    <3>2. LET th2 == [threads EXCEPT ![t].resolved = FALSE]
          IN /\ \A u \in DOMAIN threads : u # t => th2[u] = threads[u]
             /\ BotOnly(th2) /\ (th2[t].resolved <=> FALSE)
      BY <1>1, <1>4, ThreadTurned
    <3>. QED
      BY <3>1, <3>2
  <2>2. CASE ~threads[t].resolved
    BY <1>1, <1>2, <1>5, <2>2
  <2>. QED
    BY <2>1, <2>2
<1>7. RowsInStep(tracked, threads', n) /\ ListingHolds(threads', n)
  BY <1>2, <1>3, <1>6, TurnsTo DEF Publishing, Halfway
<1>. HIDE DEF s, n, t
<1>8. InStep(tracked, threads', n)
  BY <1>2, <1>6, <1>7 DEF InStep, Answering
<1>. QED
  BY <1>2, <1>6, <1>7, <1>8 DEF n

LEMMA ResolveThreadInStep ==
  ASSUME OneWorker, StepInv, NobodyInterfered, NEW w \in Writers, ResolveThread(w)
  PROVE  /\ UNCHANGED tracked /\ BotOnly(threads') /\ RowsInStep(tracked, threads', writer'[w])
         /\ InStep(tracked, threads', writer'[w])
<1>. DEFINE s == writer[w]
            n == writer'[w]
            f == n.row
            t == s.rows[f].thread
<1>1. PublicationInv /\ BotOnly(threads) /\ threads \in Seq(Thread)
  BY StepFrom
<1>2. /\ s.pc = "retire" /\ n.pc = "save_resolved" /\ SameWork(n, s) /\ n.used = s.used
      /\ f \in Retiring(w) /\ UNCHANGED tracked
      /\ threads' = [threads EXCEPT ![t].resolved = TRUE]
  BY <1>1, ResolveThreadMoves DEF SamePlace
<1>3. f \in Findings /\ HasRow(s.rows, f)
  BY <1>2 DEF Retiring, InStatus
<1>4. t \in DOMAIN threads
  BY <1>1, <1>3, ThreadsApart
<1>5. /\ \A u \in DOMAIN threads : u # t => threads'[u] = threads[u]
      /\ BotOnly(threads') /\ threads'[t].resolved
  <2>. HIDE DEF t
  <2>1. LET th2 == [threads EXCEPT ![t].resolved = TRUE]
        IN /\ \A u \in DOMAIN threads : u # t => th2[u] = threads[u]
           /\ BotOnly(th2) /\ (th2[t].resolved <=> TRUE)
    BY <1>1, <1>4, ThreadTurned
  <2>. QED
    BY <1>2, <2>1
<1>6. RowsInStep(tracked, threads', n) /\ ListingHolds(threads', n)
  BY <1>2, <1>3, <1>5, TurnsTo DEF Publishing, Halfway
<1>7. n.rows[n.row].thread = t
  BY <1>2 DEF SameWork
<1>. HIDE DEF s, n, t
<1>8. InStep(tracked, threads', n)
  BY <1>2, <1>5, <1>6, <1>7 DEF InStep, Answering
<1>. QED
  BY <1>2, <1>5, <1>6, <1>8 DEF n

LEMMA CreateThreadInStep ==
  ASSUME OneWorker, StepInv, NobodyInterfered, NEW w \in Writers, CreateThread(w)
  PROVE  /\ UNCHANGED tracked /\ BotOnly(threads') /\ RowsInStep(tracked, threads', writer'[w])
         /\ InStep(tracked, threads', writer'[w])
<1>. DEFINE s == writer[w]
            n == writer'[w]
            t == Len(threads) + 1
<1>1. /\ PublicationInv /\ InStep(tracked, threads, s) /\ BotOnly(threads)
      /\ RowsInStep(tracked, threads, s) /\ threads \in Seq(Thread)
  BY StepFrom
<1>2. /\ s.pc \in {"place", "create_plain"} /\ n.pc = "save" /\ SameWork(n, s)
      /\ n.used = s.used /\ n.thread = t /\ UNCHANGED tracked
      /\ threads' = Append(threads, NewThread("bot", Finding(w)))
  BY <1>1, CreateThreadMoves DEF SamePlace
<1>3. /\ DOMAIN threads' = DOMAIN threads \cup {t} /\ t \notin DOMAIN threads
      /\ \A u \in DOMAIN threads : threads'[u] = threads[u]
      /\ threads'[t].author = "bot" /\ ~threads'[t].resolved /\ ~threads'[t].deleted
  BY <1>1, <1>2, AddedThread
<1>. HIDE DEF t
<1>4. SameState(threads, threads') /\ BotOnly(threads')
  BY <1>1, <1>3 DEF SameState, BotOnly
<1>5. RowsInStep(tracked, threads', n)
  BY <1>1, <1>2, <1>4, RowsOn DEF Halfway
<1>6. \A f \in Findings : HasRow(s.rows, f) => s.rows[f].thread \in DOMAIN threads
  BY <1>1, ThreadsApart
<1>. HIDE DEF s, n
<1>7. ListingHolds(threads', n)
  BY <1>1, <1>2, <1>4, <1>6
     DEF InStep, ListingHolds, Between, Halfway, AsListed, SameState, SameWork, Publishing
<1>8. InStep(tracked, threads', n)
  BY <1>2, <1>3, <1>7 DEF InStep, Answering
<1>. QED
  BY <1>2, <1>4, <1>5, <1>8 DEF n

\* The row that was at hand is written as its thread is.
LEMMA SaveFindingInStep ==
  ASSUME OneWorker, StepInv, NobodyInterfered, NEW w \in Writers, SaveFinding(w)
  PROVE  /\ UNCHANGED threads /\ RowsInStep(tracked', threads, writer'[w])
         /\ InStep(tracked', threads, writer'[w])
<1>. DEFINE s == writer[w]
            n == writer'[w]
<1>1. PublicationInv /\ InStep(tracked, threads, s) /\ RowsInStep(tracked, threads, s)
  BY StepFrom
<1>2. /\ s.pc = "save" /\ SameWork(n, s) /\ n.used = s.used \cup {s.row}
      /\ n.pc \in {"place", "remark", "retire"} /\ UNCHANGED threads
  BY <1>1, SaveFindingMoves DEF Advances
<1>3. /\ IsOpen(tracked', s.row) /\ tracked'[s.row].thread = s.thread
      /\ \A g \in Findings : g # s.row => tracked'[g] = tracked[g]
  BY <1>1, SavedRow
<1>. HIDE DEF s, n
<1>4. Agrees(tracked', threads, s.row)
  BY <1>1, <1>2, <1>3 DEF InStep, Agrees, IsOpen
<1>5. ASSUME NEW g \in Findings, HasRow(tracked', g), g # s.row PROVE Agrees(tracked', threads, g)
  BY <1>1, <1>3, <1>5 DEF RowsInStep, Agrees, Between, HasRow
<1>6. RowsInStep(tracked', threads, n)
  BY <1>4, <1>5 DEF RowsInStep
<1>7. ListingHolds(threads, n)
  BY <1>1, <1>2 DEF InStep, ListingHolds, Between, AsListed, SameWork, Publishing
<1>8. InStep(tracked', threads, n)
  BY <1>2, <1>7 DEF InStep, Answering
<1>. QED
  BY <1>2, <1>6, <1>8 DEF n

\* A row is retired when its thread is resolved.
LEMMA SaveResolvedInStep ==
  ASSUME OneWorker, StepInv, NobodyInterfered, NEW w \in Writers, SaveResolved(w)
  PROVE  /\ UNCHANGED threads /\ RowsInStep(tracked', threads, writer'[w])
         /\ InStep(tracked', threads, writer'[w])
<1>. DEFINE s == writer[w]
            n == writer'[w]
<1>1. /\ PublicationInv /\ TidyInv /\ InStep(tracked, threads, s)
      /\ RowsInStep(tracked, threads, s)
  BY StepFrom
<1>2. PICK f \in Retiring(w) :
        /\ \/ s.pc = "save_resolved" /\ f = s.row
           \/ s.pc = "retire" /\ ~ListedUnresolved(w, s.rows[f].thread)
        /\ n.pc = "retire" /\ SameWork(n, s) /\ n.used = s.used \cup {f}
        /\ tracked' = [tracked EXCEPT ![f] = RetiredRow(w, f)] /\ UNCHANGED threads
  BY <1>1, SaveResolvedMoves
<1>3. s.pc \in Publishing
  BY <1>2 DEF Publishing
<1>4. /\ f \in Findings \ s.used /\ tracked[f] = s.rows[f] /\ HasRow(s.rows, f)
      /\ HasRow(tracked', f) /\ tracked'[f].status = "resolved"
      /\ tracked'[f].thread = tracked[f].thread
      /\ \A g \in Findings : g # f => tracked'[g] = tracked[g]
  <2>1. /\ f \in Findings \ s.used /\ IsOpen(tracked, f) /\ tracked[f] = s.rows[f]
        /\ HasRow(tracked', f) /\ tracked'[f].status = "resolved"
        /\ tracked'[f].about = tracked[f].about /\ tracked'[f].thread = tracked[f].thread
        /\ \A g \in Findings : g # f => tracked'[g] = tracked[g]
    BY <1>1, <1>2, <1>3, RetiredRowWritten
  <2>. QED
    BY <2>1 DEF IsOpen, HasRow
<1>5. threads[s.rows[f].thread].resolved
  <2>1. CASE s.pc = "save_resolved"
    BY <1>1, <1>2, <2>1 DEF InStep
  <2>2. CASE s.pc = "retire"
    <3>1. Listed(s.listing, s.rows[f].thread) /\ AsListed(threads, s, s.rows[f].thread)
      BY <1>1, <1>3, <1>4, <2>2 DEF InStep, ListingHolds, Between, Halfway
    <3>2. ~ListedUnresolved(w, s.rows[f].thread)
      BY <1>2, <2>2
    <3>. QED
      BY <3>1, <3>2 DEF ListedUnresolved, AsListed
  <2>. QED
    BY <1>2, <2>1, <2>2
<1>. HIDE DEF s, n
<1>6. Agrees(tracked', threads, f)
  BY <1>4, <1>5 DEF Agrees
<1>7. \A g \in Findings : g # f => ~Between(s, g)
  BY <1>2 DEF Between, Halfway
<1>8. ASSUME NEW g \in Findings, HasRow(tracked', g), g # f PROVE Agrees(tracked', threads, g)
  BY <1>1, <1>4, <1>7, <1>8 DEF RowsInStep, Agrees, HasRow
<1>9. RowsInStep(tracked', threads, n)
  BY <1>6, <1>8 DEF RowsInStep
<1>10. ListingHolds(threads, n)
  BY <1>1, <1>2, <1>3, <1>7 DEF InStep, ListingHolds, AsListed, SameWork
<1>11. InStep(tracked', threads, n)
  BY <1>2, <1>10 DEF InStep, Answering
<1>. QED
  BY <1>2, <1>9, <1>11 DEF n

\* A dismissal is written before the thread is resolved.
LEMMA SaveDecisionInStep ==
  ASSUME OneWorker, StepInv, NobodyInterfered, NEW w \in Writers, SaveDecision(w)
  PROVE  /\ UNCHANGED threads /\ RowsInStep(tracked', threads, writer'[w])
         /\ InStep(tracked', threads, writer'[w])
<1>. DEFINE s == writer[w]
            n == writer'[w]
            f == s.row
<1>1. /\ PublicationInv /\ TidyInv /\ InStep(tracked, threads, s)
      /\ RowsInStep(tracked, threads, s)
  BY StepFrom
<1>2. /\ s.pc = "save_decision" /\ UNCHANGED threads
      /\ \/ /\ tracked' = [tracked EXCEPT ![f] = Dismissed(w)]
            /\ \/ s.listing[s.thread].resolved /\ Idles(w)
               \/ n.pc = "resolve" /\ SameReply(n, s)
         \/ tracked' = [tracked EXCEPT ![f] = s.rows[f]] /\ Idles(w)
  BY <1>1, SaveDecisionMoves
<1>3. /\ f \in Findings /\ tracked[f] = s.rows[f]
      /\ \A g \in Findings : g # f => tracked'[g] = tracked[g]
      /\ tracked' = [tracked EXCEPT ![f] = Dismissed(w)] =>
           /\ HasRow(tracked', f) /\ tracked'[f].status = "dismissed_by_discussion"
           /\ tracked'[f].thread = tracked[f].thread
  BY <1>1, DecidedRow
<1>4. tracked[f].thread = s.thread /\ AsListed(threads, s, s.thread)
  BY <1>1, <1>2, <1>3 DEF InStep, Answering
<1>5. ASSUME NEW g \in Findings, HasRow(tracked', g), g # f PROVE Agrees(tracked', threads, g)
  BY <1>1, <1>2, <1>3, <1>5 DEF RowsInStep, Agrees, HasRow, Between, Halfway
<1>6. CASE tracked' = [tracked EXCEPT ![f] = s.rows[f]] /\ Idles(w)
  <2>1. tracked' = tracked
    BY <1>1, <1>3, <1>6 DEF PublicationInv, TypeOK
  <2>2. RowsInStep(tracked, threads, n)
    <3>1. SameState(threads, threads)
      BY DEF SameState
    <3>. QED
      BY <1>1, <1>2, <3>1, RowsOn DEF Halfway
  <2>. QED
    BY <1>2, <1>6, <2>1, <2>2, IdleInStep
<1>7. CASE tracked' = [tracked EXCEPT ![f] = Dismissed(w)]
  <2>1. /\ HasRow(tracked', f) /\ tracked'[f].status = "dismissed_by_discussion"
        /\ tracked'[f].thread = s.thread
    BY <1>3, <1>4, <1>7
  <2>2. CASE s.listing[s.thread].resolved /\ Idles(w)
    <3>1. Agrees(tracked', threads, f)
      BY <1>4, <2>1, <2>2 DEF AsListed, Agrees
    <3>2. RowsInStep(tracked', threads, n)
      BY <1>5, <3>1 DEF RowsInStep
    <3>. QED
      BY <1>2, <2>2, <3>2, IdleInStep
  <2>3. CASE n.pc = "resolve" /\ SameReply(n, s)
    <3>1. Between(n, f) /\ n.row = f /\ n.thread = s.thread
      BY <2>3 DEF Between, Halfway, SameReply
    <3>2. RowsInStep(tracked', threads, n)
      BY <1>5, <3>1 DEF RowsInStep
    <3>. HIDE DEF n, f
    <3>3. InStep(tracked', threads, n)
      BY <1>3, <2>1, <2>3, <3>1 DEF InStep, Publishing, Answering
    <3>. QED
      BY <1>2, <3>2, <3>3 DEF n
  <2>. QED
    BY <1>2, <1>6, <2>2, <2>3
<1>. QED
  BY <1>2, <1>6, <1>7

LEMMA ResolveDismissedInStep ==
  ASSUME OneWorker, StepInv, NobodyInterfered, NEW w \in Writers, ResolveDismissed(w)
  PROVE  /\ UNCHANGED tracked /\ BotOnly(threads') /\ RowsInStep(tracked, threads', writer'[w])
         /\ InStep(tracked, threads', writer'[w])
<1>. DEFINE s == writer[w]
            f == s.row
            t == s.thread
<1>1. /\ PublicationInv /\ InStep(tracked, threads, s) /\ BotOnly(threads)
      /\ RowsInStep(tracked, threads, s) /\ threads \in Seq(Thread)
  BY StepFrom
<1>2. /\ s.pc = "resolve" /\ Idles(w) /\ UNCHANGED tracked
      /\ threads' = [threads EXCEPT ![t].resolved = TRUE]
  BY <1>1, ResolveDismissedMoves
<1>3. /\ f \in Findings /\ HasRow(tracked, f) /\ tracked[f].thread = t
      /\ tracked[f].status = "dismissed_by_discussion"
  BY <1>1, <1>2 DEF InStep
<1>4. t \in DOMAIN threads /\ threads[t].about = f
  BY <1>1, <1>3 DEF PublicationInv, RowsNameTheirThread
<1>5. /\ \A u \in DOMAIN threads : u # t => threads'[u] = threads[u]
      /\ BotOnly(threads') /\ threads'[t].resolved
  <2>. HIDE DEF t
  <2>1. LET th2 == [threads EXCEPT ![t].resolved = TRUE]
        IN /\ \A u \in DOMAIN threads : u # t => th2[u] = threads[u]
           /\ BotOnly(th2) /\ (th2[t].resolved <=> TRUE)
    BY <1>1, <1>4, ThreadTurned
  <2>. QED
    BY <1>2, <2>1
<1>6. Agrees(tracked, threads', f)
  BY <1>3, <1>5 DEF Agrees
<1>7. ASSUME NEW g \in Findings, HasRow(tracked, g), g # f PROVE Agrees(tracked, threads', g)
  <2>1. /\ tracked[g].thread \in DOMAIN threads /\ tracked[g].thread # t
    BY <1>1, <1>4, <1>7 DEF PublicationInv, RowsNameTheirThread
  <2>2. Agrees(tracked, threads, g)
    BY <1>1, <1>7 DEF RowsInStep, Between
  <2>. QED
    BY <1>5, <2>1, <2>2 DEF Agrees
<1>8. RowsInStep(tracked, threads', writer'[w])
  BY <1>6, <1>7 DEF RowsInStep
<1>. QED
  BY <1>2, <1>5, <1>8, IdleInStep

\* A run ends, of itself or because a call raises: not between two writes, unless the call
\* was refused because a thread is gone, or failed.
LEMMA EndsInStep ==
  ASSUME OneWorker, StepInv, NobodyInterfered, NEW w \in Writers,
         MarkDone(w) \/ Raise(w) \/ RaiseAfterCreate(w), ~Spend("failures")
  PROVE  /\ UNCHANGED <<tracked, threads>> /\ Idles(w) /\ writer[w].pc \notin Halfway
<1>1. PublicationInv /\ InStep(tracked, threads, writer[w]) /\ BotOnly(threads)
  BY StepFrom
<1>2. CASE MarkDone(w)
  BY <1>1, <1>2, MarkDoneMoves DEF Halfway
<1>3. CASE Raise(w) \/ RaiseAfterCreate(w)
  <2>1. /\ UNCHANGED <<tracked, threads>> /\ Idles(w) /\ TargetDeleted(w)
        /\ writer[w].pc \notin {"save", "save_resolved"}
    BY <1>1, <1>3, RaisesMove
  <2>2. writer[w].pc # "resolve"
    <3>. SUFFICES ASSUME writer[w].pc = "resolve" PROVE FALSE
      OBVIOUS
    <3>1. threads[writer[w].thread].deleted
      BY <2>1 DEF TargetDeleted, At
    <3>2. writer[w].thread \in DOMAIN threads
      BY <1>1 DEF InStep, PublicationInv, RowsNameTheirThread
    <3>. QED
      BY <1>1, <3>1, <3>2 DEF BotOnly
  <2>. QED
    BY <2>1, <2>2 DEF Halfway
<1>. QED
  BY <1>2, <1>3

LEMMA StepWriter ==
  ASSUME OneWorker, StepInv, NobodyInterfered, ~Spend("failures"),
         NEW w \in Writers, WriterStep(w)
  PROVE  /\ BotOnly(threads') /\ RowsInStep(tracked', threads', writer'[w])
         /\ InStep(tracked', threads', writer'[w])
<1>1. /\ PublicationInv /\ BotOnly(threads) /\ RowsInStep(tracked, threads, writer[w])
  BY StepFrom
<1>2. ASSUME UNCHANGED <<tracked, threads>>, writer[w].pc \notin Halfway
      PROVE  BotOnly(threads') /\ RowsInStep(tracked', threads', writer'[w])
  <2>1. SameState(threads, threads)
    BY DEF SameState
  <2>2. RowsInStep(tracked, threads, writer'[w])
    BY <1>1, <1>2, <2>1, RowsOn
  <2>. QED
    BY <1>1, <1>2, <2>2
<1>3. CASE \/ StartReview(w) \/ ListRows(w) \/ RunAgent(w) \/ CheckStatus(w) \/ CheckHead(w)
           \/ ListThreads(w) \/ StartReconcile(w) \/ FindThread(w) \/ FindRow(w)
           \/ Reconcile(w) \/ NoAction(w)
  <2>1. /\ UNCHANGED <<tracked, threads>> /\ writer[w].pc \notin Halfway
        /\ InStep(tracked, threads, writer'[w])
    BY <1>3, ReadStepsInStep
  <2>. QED
    BY <1>2, <2>1
<1>4. CASE MarkDone(w) \/ Raise(w) \/ RaiseAfterCreate(w)
  <2>1. UNCHANGED <<tracked, threads>> /\ writer[w].pc \notin Halfway /\ Idles(w)
    BY <1>4, EndsInStep
  <2>2. InStep(tracked', threads', writer'[w])
    BY <2>1, IdleInStep
  <2>. QED
    BY <1>2, <2>1, <2>2
<1>5. CASE AddStillPresentReply(w) \/ Reply(w)
  BY <1>5, NotesInStep
<1>6. CASE PlaceInThread(w) \/ CreateThread(w) \/ ResolveThread(w) \/ ResolveDismissed(w)
  BY <1>6, PlaceInThreadInStep, CreateThreadInStep, ResolveThreadInStep, ResolveDismissedInStep
<1>7. CASE SaveFinding(w) \/ SaveResolved(w) \/ SaveDecision(w)
  BY <1>1, <1>7, SaveFindingInStep, SaveResolvedInStep, SaveDecisionInStep
<1>8. ~InlineFails(w)
  BY <1>1, InlineFailsMoves
<1>. QED
  BY <1>3, <1>4, <1>5, <1>6, <1>7, <1>8 DEF WriterStep, ReviewStep, ReconcileStep

\* What humans may do where nobody interferes: push, reply, ask again.
LEMMA StepGitLab ==
  ASSUME StepInv, NobodyInterfered, GitLabStep,
         ~Spend("humanThreads"), ~Spend("resolves"), ~Spend("deletions")
  PROVE  /\ UNCHANGED tracked /\ BotOnly(threads') /\ SameState(threads, threads')
         /\ \A w \in Writers : SameRun(writer'[w], writer[w])
<1>1. PublicationInv /\ BotOnly(threads) /\ threads \in Seq(Thread)
  BY DEF StepInv, ThreadInv, TidyInv, PublicationInv, TypeOK
<1>2. /\ UNCHANGED tracked /\ \A w \in Writers : SameRun(writer'[w], writer[w])
      /\ \/ threads' = threads
         \/ \E t \in DOMAIN threads :
              threads' = [threads EXCEPT ![t].notes = Append(@, HumanNote)]
  BY <1>1, GitLabMoves
<1>3. CASE threads' = threads
  BY <1>1, <1>2, <1>3 DEF SameState
<1>4. ASSUME NEW t \in DOMAIN threads,
             threads' = [threads EXCEPT ![t].notes = Append(@, HumanNote)]
      PROVE  BotOnly(threads') /\ SameState(threads, threads')
  BY <1>1, <1>4, NotedThread DEF BotOnly, SameState
<1>. QED
  BY <1>2, <1>3, <1>4

LEMMA StepOn == OneWorker /\ TellsApart /\ StepInv /\ [Next]_vars => StepInv'
<1>. SUFFICES ASSUME OneWorker, TellsApart, StepInv, [Next]_vars PROVE StepInv'
  OBVIOUS
<1>1. ThreadInv /\ ThreadInv' /\ PublicationInv
  BY ThreadStep DEF StepInv, ThreadInv, TidyInv
<1>2. CASE ~NobodyInterfered'
  BY <1>1, <1>2 DEF StepInv
<1>3. CASE NobodyInterfered'
  <2>1. /\ NobodyInterfered /\ ~Spend("failures") /\ ~Spend("resolves") /\ ~Spend("deletions")
        /\ ~Spend("humanThreads")
    BY <1>1, <1>3, BudgetFull DEF ThreadInv, NobodyInterfered
  <2>2. /\ BotOnly(threads)
        /\ \A f \in Findings : HasRow(tracked, f) =>
             Agrees(tracked, threads, f) \/ \E w \in Writers : Between(writer[w], f)
        /\ \A w \in Writers : InStep(tracked, threads, writer[w])
    BY <2>1 DEF StepInv
  <2>3. CASE GitLabStep
    <3>1. /\ UNCHANGED tracked /\ BotOnly(threads') /\ SameState(threads, threads')
          /\ \A w \in Writers : SameRun(writer'[w], writer[w])
      BY <2>1, <2>3, StepGitLab
    <3>2. ASSUME NEW f \in Findings, HasRow(tracked', f)
          PROVE  Agrees(tracked', threads', f) \/ \E w \in Writers : Between(writer'[w], f)
      <4>1. tracked[f].thread \in DOMAIN threads
        BY <1>1, <3>1, <3>2 DEF PublicationInv, RowsNameTheirThread
      <4>2. CASE Agrees(tracked, threads, f)
        BY <3>1, <4>1, <4>2 DEF Agrees, SameState
      <4>3. CASE \E w \in Writers : Between(writer[w], f)
        BY <3>1, <4>3 DEF Between, SameRun
      <4>. QED
        BY <2>2, <3>1, <3>2, <4>2, <4>3
    <3>3. ASSUME NEW w \in Writers PROVE InStep(tracked', threads', writer'[w])
      <4>. DEFINE s == writer[w]
                  n == writer'[w]
      <4>1. /\ InStep(tracked, threads, s) /\ SameRun(n, s) /\ Knows(threads, s)
            /\ \A f \in Findings : HasRow(s.rows, f) => s.rows[f].thread \in DOMAIN threads
        BY <1>1, <2>2, <3>1, AboutWriter, ThreadsApart
      <4>2. s.pc = "save" => s.thread \in DOMAIN threads
        BY <4>1 DEF Knows, Leads
      <4>3. s.pc = "save_resolved" => s.row \in Findings /\ HasRow(s.rows, s.row)
        BY <1>1, TidyRun DEF ThreadInv, Tidy, AtHand, InStatus
      <4>. HIDE DEF s, n
      <4>4. ListingHolds(threads, s) => ListingHolds(threads', n)
        BY <3>1, <4>1 DEF ListingHolds, Between, AsListed, SameState, SameRun, SameWork, SamePlace
      <4>5. InStep(tracked, threads', n)
        BY <3>1, <4>1, <4>2, <4>3, <4>4
           DEF InStep, AsListed, SameState, SameRun, SameWork, SamePlace
      <4>. QED
        BY <3>1, <4>5 DEF n
    <3>. QED
      BY <1>1, <3>1, <3>2, <3>3 DEF StepInv
  <2>4. ASSUME NEW w \in Writers, WriterStep(w) PROVE StepInv'
    <3>1. /\ BotOnly(threads') /\ RowsInStep(tracked', threads', writer'[w])
          /\ InStep(tracked', threads', writer'[w])
      BY <2>1, <2>4, StepWriter
    <3>2. \A v \in Writers : InStep(tracked', threads', writer'[v])
      BY <3>1 DEF OneWorker
    <3>. QED
      BY <1>1, <3>1, <3>2 DEF StepInv, RowsInStep
  <2>5. CASE UNCHANGED vars
    BY <1>1, <2>2, <2>5 DEF vars, StepInv
  <2>. QED
    BY <2>3, <2>4, <2>5 DEF Next
<1>. QED
  BY <1>2, <1>3

LEMMA StepInit == Init => StepInv
<1>. SUFFICES ASSUME Init PROVE StepInv
  OBVIOUS
<1>1. BotOnly(threads) /\ \A f \in Findings : ~HasRow(tracked, f)
  BY DEF Init, BotOnly, NoRows, HasRow
<1>2. \A w \in Writers : InStep(tracked, threads, writer[w])
  BY InStepElsewhere DEF Init, IdleWriter, Publishing, Answering
<1>. QED
  BY <1>1, <1>2, ThreadInit DEF StepInv

\* With one worker and findings told apart, whenever no run is at work and nobody but the
\* bot resolved, deleted or opened threads and no call failed, each thread is unresolved
\* exactly when its row is open, although every run writes the two one after the other,
\* from copies of both.
THEOREM RowsAndThreadsAgree == OneWorker /\ TellsApart => (Spec => []RowsAgreeWithThreads)
<1>. SUFFICES ASSUME OneWorker, TellsApart PROVE Spec => []RowsAgreeWithThreads
  OBVIOUS
<1>1. StepInv /\ [Next]_vars => StepInv'
  BY StepOn
<1>2. StepInv => RowsAgreeWithThreads
  BY DEF StepInv, RowsAgreeWithThreads, AtRest, At, Agrees, Between, Halfway
<1>. QED
  BY <1>1, <1>2, StepInit, PTL DEF Spec

-----------------------------------------------------------------------------
(***************************************************************************)
(* The findings as their authors see them: Publication implements          *)
(* FindingLifecycle.                                                       *)
(***************************************************************************)
\* The review a run in state s is, seen from outside.
AtWork(s) == IF s.pc \in ReviewPcs THEN {[near |-> s.near, dealt |-> s.used]} ELSE {}

LEMMA OneReview ==
  ASSUME OneWorker, NEW w \in Writers
  PROVE  AsReviews = AtWork(writer[w]) /\ AsReviews' = AtWork(writer'[w])
<1>1. \A v \in Writers : v = w
  BY DEF OneWorker
<1>. QED
  BY <1>1 DEF AsReviews, AtReview, AtWork

\* A row that is as before is the same finding, and the rows there are those raised.
LEMMA SeenFinding ==
  ASSUME NEW tr \in [Findings -> Row \cup {None}], NEW f \in Findings
  PROVE  LET seen == AsFindings(tr)[f]
         IN /\ seen # None <=> HasRow(tr, f)
            /\ HasRow(tr, f) => /\ seen.text = tr[f].about /\ seen.thread = tr[f].thread
                                /\ seen.status = LifeStatus(tr[f])
                                /\ seen = [status |-> LifeStatus(tr[f]), text |-> tr[f].about,
                                           thread |-> tr[f].thread]
                                /\ seen.status = "open" <=> tr[f].status = "open"
                                /\ seen.status = "dismissed"
                                     <=> tr[f].status = "dismissed_by_discussion"
<1>1. CASE HasRow(tr, f)
  <2>. DEFINE row == tr[f]
  <2>1. row \in Row
    BY <1>1 DEF HasRow
  <2>2. AsFindings(tr)[f] = [status |-> LifeStatus(row), text |-> row.about, thread |-> row.thread]
    BY <1>1 DEF AsFindings, AsFinding
  <2>. HIDE DEF row
  <2>3. /\ LifeStatus(row) \in {"open", "resolved", "dismissed"}
        /\ LifeStatus(row) = "open" <=> row.status = "open"
        /\ LifeStatus(row) = "dismissed" <=> row.status = "dismissed_by_discussion"
        /\ row.about \in Findings /\ row.thread \in Nat
    BY <2>1 DEF LifeStatus, Row, Statuses
  <2>4. [status |-> LifeStatus(row), text |-> row.about, thread |-> row.thread] # None
    BY <2>3, NoneIsNoFinding
  <2>. QED
    BY <1>1, <2>2, <2>3, <2>4 DEF row
<1>2. CASE ~HasRow(tr, f)
  BY <1>2 DEF AsFindings
<1>. QED
  BY <1>1, <1>2

LEMMA SeenRaised ==
  ASSUME NEW f, f \in Lifecycle!Raised \/ \E status : f \in Lifecycle!InStatus(status),
         tracked \in [Findings -> Row \cup {None}]
  PROVE  f \in Findings /\ HasRow(tracked, f)
BY SeenFinding DEF Lifecycle!Raised, Lifecycle!InStatus

\* One row is written: one finding is settled.
LEMMA OneSettled ==
  ASSUME OneWorker, PublicationInv, TypeOK', NEW w \in Writers, NEW f \in Findings,
         writer[w].pc \in ReviewPcs, writer'[w].pc \in ReviewPcs,
         writer'[w].near = writer[w].near, writer'[w].used = writer[w].used \cup {f},
         f \notin writer[w].used, HasRow(tracked', f),
         \A g \in Findings : g # f => tracked'[g] = tracked[g],
         UNCHANGED lastDone
  PROVE  LET review == [near |-> writer[w].near, dealt |-> writer[w].used]
         IN /\ review \in AsReviews
            /\ Lifecycle!Settle(f, review, LifeStatus(tracked'[f]), tracked'[f].about)
<1>. DEFINE review == [near |-> writer[w].near, dealt |-> writer[w].used]
<1>1. AsReviews = {review} /\ AsReviews' = {[review EXCEPT !.dealt = @ \cup {f}]}
  <2>1. AsReviews = AtWork(writer[w]) /\ AsReviews' = AtWork(writer'[w])
    BY OneReview
  <2>2. [review EXCEPT !.dealt = @ \cup {f}]
          = [near |-> writer[w].near, dealt |-> writer[w].used \cup {f}]
    OBVIOUS
  <2>. QED
    BY <2>1, <2>2 DEF AtWork
<1>2. /\ AsFindings(tracked)'[f] # None
      /\ AsFindings(tracked)'[f] = [status |-> LifeStatus(tracked'[f]), text |-> tracked'[f].about,
                                    thread |-> AsFindings(tracked)'[f].thread]
  <2>1. tracked' \in [Findings -> Row \cup {None}]
    BY DEF TypeOK
  <2>2. AsFindings(tracked') = AsFindings(tracked)'
    BY DEF AsFindings
  <2>3. LET seen == AsFindings(tracked')[f]
        IN /\ seen # None /\ seen.thread = tracked'[f].thread
           /\ seen = [status |-> LifeStatus(tracked'[f]), text |-> tracked'[f].about,
                      thread |-> tracked'[f].thread]
    BY <2>1, SeenFinding
  <2>. QED
    BY <2>2, <2>3
<1>3. AsFindings(tracked)' = [AsFindings(tracked) EXCEPT ![f] = AsFindings(tracked)'[f]]
  BY DEF AsFindings, HasRow
<1>. QED
  BY <1>1, <1>2, <1>3 DEF Lifecycle!Settle

LEMMA SaveSettles ==
  ASSUME OneWorker, PublicationInv, TypeOK', NEW w \in Writers, SaveFinding(w),
         writer[w].row \notin writer[w].used
  PROVE  LET review == [near |-> writer[w].near, dealt |-> writer[w].used]
         IN /\ review \in AsReviews
            /\ Lifecycle!Settle(writer[w].row, review, "open", Finding(w))
<1>. DEFINE s == writer[w]
            n == writer'[w]
            f == s.row
<1>1. /\ f \in Findings /\ IsOpen(tracked', f) /\ tracked'[f].about = Finding(w)
      /\ \A g \in Findings : g # f => tracked'[g] = tracked[g]
  BY SavedRow DEF Finding
<1>2. /\ s.pc \in ReviewPcs /\ n.pc \in ReviewPcs /\ n.near = s.near
      /\ n.used = s.used \cup {f}
  BY SaveFindingMoves DEF ReviewPcs, Advances, SameWork
<1>3. UNCHANGED lastDone
  BY DEF SaveFinding, envVars
<1>4. LifeStatus(tracked'[f]) = "open"
  BY <1>1 DEF IsOpen, LifeStatus
<1>. HIDE DEF n
<1>. QED
  BY <1>1, <1>2, <1>3, <1>4, OneSettled DEF IsOpen, n

\* A row that was never there is written: its finding is raised, in its thread.
LEMMA SaveRaises ==
  ASSUME OneWorker, TellsApart, TidyInv, TidyInv', NEW w \in Writers, SaveFinding(w),
         ~HasRow(tracked, writer[w].row)
  PROVE  Lifecycle!ReviewStep
<1>. DEFINE s == writer[w]
            f == s.row
            review == [near |-> s.near, dealt |-> s.used]
<1>1. /\ PublicationInv /\ TypeOK' /\ Tidy(tracked, s) /\ Knows(threads, s)
      /\ tracked \in [Findings -> Row \cup {None}] /\ tracked' \in [Findings -> Row \cup {None}]
  BY TidyRun DEF TidyInv, PublicationInv, TypeOK
<1>2. /\ s.pc = "save" /\ f \in Findings /\ IsOpen(tracked', f) /\ tracked'[f].about = Finding(w)
      /\ tracked'[f].thread = s.thread
      /\ \A g \in Findings : g # f => tracked'[g] = tracked[g]
  BY <1>1, SavedRow, SaveFindingMoves DEF Finding
<1>3. /\ f \notin s.used /\ f = Finding(w) /\ Unmatched(s.rows, f)
      /\ \A g \in Findings \ s.used : tracked[g] = s.rows[g]
  BY <1>1, <1>2 DEF Tidy, AtHand, Chosen, Copied, Reviewing, Publishing, HasRow, Finding
<1>4. review \in AsReviews /\ Lifecycle!Settle(f, review, "open", f)
  BY <1>1, <1>2, <1>3, SaveSettles
<1>5. ASSUME NEW g \in Lifecycle!Raised
      PROVE  /\ ~Lifecycle!Resembles(g, f)
             /\ AsFindings(tracked)[g].thread # AsFindings(tracked)'[f].thread
  <2>1. g \in Findings /\ HasRow(tracked, g) /\ g # f
    BY <1>1, <1>5, SeenRaised
  <2>2. ~findings_match(g, f)
    <3>1. CASE g \in s.used
      BY <1>2, <1>3, <3>1, UsedAreOthers
    <3>2. CASE g \notin s.used
      BY <1>3, <2>1, <3>2 DEF Unmatched, HasRow
    <3>. QED
      BY <3>1, <3>2
  <2>3. tracked[g].thread # s.thread
    BY <1>1, <1>2, <2>1 DEF PublicationInv, RowsNameTheirThread, Knows, Leads
  <2>4. /\ AsFindings(tracked)[g].thread = tracked[g].thread
        /\ AsFindings(tracked')[f].thread = tracked'[f].thread
    BY <1>1, <1>2, <2>1, SeenFinding DEF IsOpen
  <2>5. AsFindings(tracked') = AsFindings(tracked)'
    BY DEF AsFindings
  <2>. QED
    BY <1>2, <2>2, <2>3, <2>4, <2>5 DEF Lifecycle!Resembles, findings_match
<1>6. Lifecycle!Raise(f, review)
  BY <1>4, <1>5 DEF Lifecycle!Raise
<1>. QED
  BY <1>2, <1>4, <1>6 DEF Lifecycle!ReviewStep

\* A row that was there is written again: its finding is confirmed, in its thread.
LEMMA SaveConfirms ==
  ASSUME OneWorker, TidyInv, TidyInv', NEW w \in Writers, SaveFinding(w),
         HasRow(tracked, writer[w].row)
  PROVE  Lifecycle!ReviewStep
<1>. DEFINE s == writer[w]
            f == s.row
            review == [near |-> s.near, dealt |-> s.used]
<1>1. /\ PublicationInv /\ TypeOK' /\ Tidy(tracked, s)
      /\ tracked \in [Findings -> Row \cup {None}] /\ tracked' \in [Findings -> Row \cup {None}]
  BY TidyRun DEF TidyInv, PublicationInv, TypeOK
<1>2. /\ s.pc = "save" /\ f \in Findings /\ IsOpen(tracked', f) /\ tracked'[f].about = Finding(w)
      /\ tracked'[f].thread = s.thread /\ Finding(w) \in Findings
  BY <1>1, SavedRow, SaveFindingMoves, FindingAtHand DEF Finding
<1>3. /\ f \notin s.used /\ findings_match(Finding(w), f) /\ tracked[f].thread = s.thread
      /\ tracked[f].status = "dismissed_by_discussion" => tracked[f].about \in s.near
  BY <1>1, <1>2 DEF Tidy, AtHand, Chosen, Copied, Reviewing, Publishing, HasRow, Finding
<1>4. review \in AsReviews /\ Lifecycle!Settle(f, review, "open", Finding(w))
  BY <1>1, <1>2, <1>3, SaveSettles
<1>5. Lifecycle!Resembles(f, Finding(w))
  BY <1>3, MatchIsSymmetric DEF Lifecycle!Resembles, findings_match
<1>6. /\ f \in Lifecycle!Raised
      /\ f \in Lifecycle!InStatus("dismissed") => AsFindings(tracked)[f].text \in s.near
      /\ AsFindings(tracked)'[f].thread = AsFindings(tracked)[f].thread
  <2>1. AsFindings(tracked') = AsFindings(tracked)'
    BY DEF AsFindings
  <2>2. /\ AsFindings(tracked)[f] # None
        /\ AsFindings(tracked)[f].status = "dismissed"
             <=> tracked[f].status = "dismissed_by_discussion"
        /\ AsFindings(tracked)[f].text = tracked[f].about
        /\ AsFindings(tracked)[f].thread = tracked[f].thread
        /\ AsFindings(tracked')[f].thread = tracked'[f].thread
    BY <1>1, <1>2, SeenFinding DEF IsOpen
  <2>. QED
    BY <1>2, <1>3, <2>1, <2>2 DEF Lifecycle!Raised, Lifecycle!InStatus
<1>7. Lifecycle!Confirm(f, review)
  BY <1>2, <1>4, <1>5, <1>6 DEF Lifecycle!Confirm, Lifecycle!InItsThread
<1>. QED
  BY <1>2, <1>4, <1>7 DEF Lifecycle!ReviewStep

\* A retired row's finding is resolved, in its words and its thread.
LEMMA SaveRetires ==
  ASSUME OneWorker, TidyInv, TidyInv', NEW w \in Writers, SaveResolved(w)
  PROVE  Lifecycle!ReviewStep
<1>. DEFINE s == writer[w]
            n == writer'[w]
            review == [near |-> s.near, dealt |-> s.used]
<1>1. /\ PublicationInv /\ TypeOK'
      /\ tracked \in [Findings -> Row \cup {None}] /\ tracked' \in [Findings -> Row \cup {None}]
  BY DEF TidyInv, PublicationInv, TypeOK
<1>2. PICK f \in Retiring(w) :
        /\ s.pc \in {"retire", "save_resolved"} /\ n.pc = "retire" /\ SameWork(n, s)
        /\ n.used = s.used \cup {f} /\ tracked' = [tracked EXCEPT ![f] = RetiredRow(w, f)]
  BY <1>1, SaveResolvedMoves
<1>3. /\ f \in Findings \ s.used /\ IsOpen(tracked, f)
      /\ HasRow(tracked', f) /\ tracked'[f].status = "resolved"
      /\ tracked'[f].about = tracked[f].about /\ tracked'[f].thread = tracked[f].thread
      /\ \A g \in Findings : g # f => tracked'[g] = tracked[g]
  BY <1>2, RetiredRowWritten DEF Publishing
<1>4. LifeStatus(tracked'[f]) = "resolved" /\ UNCHANGED lastDone
  BY <1>3 DEF LifeStatus, SaveResolved, envVars
<1>5. review \in AsReviews /\ Lifecycle!Settle(f, review, "resolved", tracked[f].about)
  <2>1. s.pc \in ReviewPcs /\ n.pc \in ReviewPcs /\ n.near = s.near
    BY <1>2 DEF ReviewPcs, SameWork
  <2>. HIDE DEF n
  <2>. QED
    BY <1>1, <1>2, <1>3, <1>4, <2>1, OneSettled DEF n
<1>6. /\ f \in Lifecycle!InStatus("open") /\ AsFindings(tracked)[f].text = tracked[f].about
      /\ AsFindings(tracked)'[f].thread = AsFindings(tracked)[f].thread
  <2>1. AsFindings(tracked') = AsFindings(tracked)'
    BY DEF AsFindings
  <2>2. /\ AsFindings(tracked)[f] # None /\ AsFindings(tracked)[f].status = "open"
        /\ AsFindings(tracked)[f].text = tracked[f].about
        /\ AsFindings(tracked)[f].thread = tracked[f].thread
        /\ AsFindings(tracked')[f].thread = tracked'[f].thread
    BY <1>1, <1>3, SeenFinding DEF IsOpen
  <2>. QED
    BY <1>3, <2>1, <2>2 DEF Lifecycle!Raised, Lifecycle!InStatus
<1>7. Lifecycle!Retire(f, review)
  BY <1>5, <1>6 DEF Lifecycle!Retire, Lifecycle!InItsThread
<1>. QED
  BY <1>3, <1>5, <1>7 DEF Lifecycle!ReviewStep

\* A decision dismisses an open finding, or is not seen.
LEMMA DecisionDismisses ==
  ASSUME OneWorker, TidyInv, TidyInv', NEW w \in Writers, SaveDecision(w)
  PROVE  \/ \E f \in Findings : Lifecycle!Dismiss(f)
         \/ UNCHANGED Lifecycle!vars
<1>. DEFINE s == writer[w]
            f == s.row
<1>1. /\ PublicationInv
      /\ tracked \in [Findings -> Row \cup {None}] /\ tracked' \in [Findings -> Row \cup {None}]
  BY DEF TidyInv, PublicationInv, TypeOK
<1>2. AsReviews = {} /\ AsReviews' = {}
  <2>1. s.pc \notin ReviewPcs /\ writer'[w].pc \notin ReviewPcs
    BY <1>1, SaveDecisionMoves DEF ReviewPcs, Idles
  <2>. QED
    BY <2>1, OneReview DEF AtWork
<1>3. UNCHANGED lastDone
  BY DEF SaveDecision, envVars
<1>4. CASE tracked' = tracked
  BY <1>2, <1>3, <1>4 DEF Lifecycle!vars, AsFindings
<1>5. CASE tracked' # tracked
  <2>1. /\ f \in Findings /\ IsOpen(tracked, f) /\ HasRow(tracked', f)
        /\ tracked'[f].status = "dismissed_by_discussion"
        /\ tracked'[f].about = tracked[f].about /\ tracked'[f].thread = tracked[f].thread
        /\ \A g \in Findings : g # f => tracked'[g] = tracked[g]
    BY <1>5, DecidedRow
  <2>2. AsFindings(tracked') = AsFindings(tracked)'
    BY DEF AsFindings
  <2>3. f \in Lifecycle!InStatus("open")
    BY <1>1, <2>1, SeenFinding DEF IsOpen, Lifecycle!InStatus, Lifecycle!Raised
  <2>4. AsFindings(tracked)'[f] = [AsFindings(tracked)[f] EXCEPT !.status = "dismissed"]
    <3>1. /\ AsFindings(tracked)[f] = [status |-> LifeStatus(tracked[f]), text |-> tracked[f].about,
                                       thread |-> tracked[f].thread]
          /\ AsFindings(tracked')[f] = [status |-> LifeStatus(tracked'[f]),
                                        text |-> tracked[f].about, thread |-> tracked[f].thread]
      BY <1>1, <2>1, SeenFinding DEF IsOpen
    <3>2. LifeStatus(tracked'[f]) = "dismissed"
      BY <2>1 DEF LifeStatus
    <3>. QED
      BY <2>2, <3>1, <3>2
  <2>5. AsFindings(tracked)' = [AsFindings(tracked) EXCEPT ![f].status = "dismissed"]
    BY <2>1, <2>4 DEF AsFindings, HasRow
  <2>. QED
    BY <1>2, <1>3, <2>1, <2>3, <2>5 DEF Lifecycle!Dismiss
<1>. QED
  BY <1>4, <1>5

\* A review that ends with its rows retired is complete, unless it was superseded.
LEMMA DoneCompletes ==
  ASSUME OneWorker, TidyInv, NEW w \in Writers, MarkDone(w)
  PROVE  Lifecycle!CompleteReview \/ Lifecycle!AbandonReview
<1>. DEFINE s == writer[w]
<1>1. /\ PublicationInv /\ tracked \in [Findings -> Row \cup {None}]
      /\ s.report \in Seq(Findings)
  BY TidyRun DEF TidyInv
<1>2. s.pc = "retire" /\ Idles(w) /\ UNCHANGED tracked
  BY <1>1, MarkDoneMoves
<1>3. AsReviews # {} /\ AsReviews' = {} /\ AsFindings(tracked)' = AsFindings(tracked)
  <2>1. s.pc \in ReviewPcs /\ writer'[w].pc \notin ReviewPcs
    BY <1>2 DEF ReviewPcs, Idles
  <2>. QED
    BY <1>2, <2>1, OneReview DEF AtWork, AsFindings
<1>4. CASE LiveReview(w)
  <2>1. lastDone' = s.report /\ s.report # None
    BY <1>1, <1>4, PublicationAssumption DEF MarkDone
  <2>2. /\ Lifecycle!InStatus("open") = InStatus(tracked, "open")
        /\ \A f \in InStatus(tracked, "open") : AsFindings(tracked)[f].text = tracked[f].about
    BY <1>1, SeenFinding DEF Lifecycle!InStatus, Lifecycle!Raised, InStatus
  <2>3. {AsFindings(tracked)[f].text : f \in InStatus(tracked, "open")}
          = {tracked[f].about : f \in InStatus(tracked, "open")}
    BY <2>2
  <2>. HIDE DEF s
  <2>4. {AsFindings(tracked)[f].text : f \in Lifecycle!InStatus("open")}
          = {lastDone'[i] : i \in DOMAIN lastDone'}
    BY <2>1, <2>2, <2>3, DoneIsTracked DEF s
  <2>. QED
    BY <1>3, <2>1, <2>4 DEF Lifecycle!CompleteReview
<1>5. CASE ~LiveReview(w)
  BY <1>3, <1>5 DEF Lifecycle!AbandonReview, MarkDone
<1>. QED
  BY <1>4, <1>5

\* The other steps of a worker start a review, go on with it, or end it.
LEMMA StartsReview ==
  ASSUME OneWorker, PublicationInv, NEW w \in Writers, StartReview(w)
  PROVE  Lifecycle!StartReview
<1>. DEFINE s == writer[w]
            n == writer'[w]
<1>1. /\ s.pc = "idle" /\ n.pc = "list_rows" /\ n.near = edited /\ n.used = {}
      /\ edited \subseteq Findings /\ UNCHANGED <<tracked, lastDone>>
  BY DEF StartReview, At, IdleWriter, PublicationInv, TypeOK, envVars
<1>. HIDE DEF n
<1>2. AsReviews = {} /\ AsReviews' = {[near |-> edited, dealt |-> {}]}
  BY <1>1, OneReview DEF AtWork, ReviewPcs, n
<1>. QED
  BY <1>1, <1>2 DEF Lifecycle!StartReview, AsFindings

LEMMA GoesOnOrEnds ==
  ASSUME OneWorker, TidyInv, NEW w \in Writers, WriterStep(w), ~StartReview(w), ~SaveFinding(w),
         ~SaveResolved(w), ~SaveDecision(w), ~MarkDone(w)
  PROVE  UNCHANGED Lifecycle!vars \/ Lifecycle!AbandonReview
<1>. DEFINE s == writer[w]
            n == writer'[w]
<1>1. PublicationInv
  BY DEF TidyInv
<1>2. UNCHANGED <<tracked, lastDone>> /\ AtWork(n) \in {{}, AtWork(s)}
  <2>1. CASE ReviewStep(w)
    <3>1. UNCHANGED <<tracked, lastDone>>
      BY <2>1 DEF ReviewStep, ListRows, RunAgent, CheckStatus, CheckHead, ListThreads, Local,
         PlaceInThread, CreateThread, InlineFails, AddStillPresentReply, ResolveThread, envVars
    <3>2. CASE Idles(w)
      BY <3>1, <3>2 DEF Idles, AtWork, ReviewPcs
    <3>3. CASE ~Idles(w)
      <4>1. /\ s.pc \in ReviewPcs /\ n.pc \in ReviewPcs
            /\ n.near = s.near /\ n.used = s.used
        BY <1>1, <2>1, <3>3, ListRowsMoves, RunAgentMoves, ChecksMove, ListThreadsMoves,
           PlaceInThreadMoves, CreateThreadMoves, InlineFailsMoves, AddStillPresentReplyMoves,
           ResolveThreadMoves DEF ReviewStep, ReviewPcs, SameWork, SamePlace, Advances
      <4>. QED
        BY <3>1, <4>1 DEF AtWork
    <3>. QED
      BY <3>2, <3>3
  <2>2. CASE ReconcileStep(w)
    <3>1. UNCHANGED <<tracked, lastDone>>
      BY <2>2 DEF ReconcileStep, StartReconcile, FindThread, FindRow, Reconcile, NoAction, Local,
         Reply, ResolveDismissed, envVars
    <3>2. n.pc \notin ReviewPcs
      <4>1. CASE StartReconcile(w)
        BY <1>1, <4>1 DEF StartReconcile, PublicationInv, TypeOK, IdleWriter, ReviewPcs
      <4>. QED
        BY <1>1, <2>2, <4>1, FindThreadMoves, FindRowMoves, ReconcileMoves, ReplyMoves,
           ResolveDismissedMoves DEF ReconcileStep, ReviewPcs, Idles
    <3>. QED
      BY <3>1, <3>2 DEF AtWork
  <2>3. CASE Raise(w) \/ RaiseAfterCreate(w)
    BY <1>1, <2>3, RaisesMove DEF Idles, AtWork, ReviewPcs, Raise, RaiseAfterCreate
  <2>. QED
    BY <2>1, <2>2, <2>3 DEF WriterStep
<1>. HIDE DEF s, n
<1>3. AsReviews = AtWork(s) /\ AsReviews' = AtWork(n) /\ AsFindings(tracked)' = AsFindings(tracked)
  BY <1>2, OneReview DEF s, n, AsFindings
<1>4. CASE AtWork(n) = AtWork(s)
  BY <1>2, <1>3, <1>4 DEF Lifecycle!vars
<1>5. CASE AtWork(n) # AtWork(s)
  BY <1>2, <1>3, <1>5 DEF Lifecycle!AbandonReview
<1>. QED
  BY <1>4, <1>5

LEMMA LifecycleStep ==
  OneWorker /\ TellsApart /\ TidyInv /\ TidyInv' /\ [Next]_vars
    => [Lifecycle!Next]_(Lifecycle!vars)
<1>. SUFFICES ASSUME OneWorker, TellsApart, TidyInv, TidyInv', [Next]_vars
              PROVE  [Lifecycle!Next]_(Lifecycle!vars)
  OBVIOUS
<1>1. CASE GitLabStep
  <2>1. /\ UNCHANGED <<tracked, lastDone>>
        /\ \A w \in Writers : SameRun(writer'[w], writer[w])
    BY <1>1, GitLabMoves DEF TidyInv
  <2>2. AsReviews' = AsReviews
    BY <2>1 DEF AsReviews, AtReview, SameRun, SameWork, SamePlace
  <2>. QED
    BY <2>1, <2>2 DEF Lifecycle!vars, AsFindings
<1>2. ASSUME NEW w \in Writers, WriterStep(w) PROVE [Lifecycle!Next]_(Lifecycle!vars)
  <2>1. CASE SaveFinding(w)
    BY <2>1, SaveRaises, SaveConfirms DEF Lifecycle!Next
  <2>2. CASE SaveResolved(w)
    BY <2>2, SaveRetires DEF Lifecycle!Next
  <2>3. CASE SaveDecision(w)
    BY <2>3, DecisionDismisses DEF Lifecycle!Next
  <2>4. CASE MarkDone(w)
    BY <2>4, DoneCompletes DEF Lifecycle!Next
  <2>5. CASE StartReview(w)
    BY <2>5, StartsReview DEF TidyInv, Lifecycle!Next
  <2>6. CASE /\ ~StartReview(w) /\ ~SaveFinding(w) /\ ~SaveResolved(w) /\ ~SaveDecision(w)
             /\ ~MarkDone(w)
    BY <1>2, <2>6, GoesOnOrEnds DEF Lifecycle!Next
  <2>. QED
    BY <2>1, <2>2, <2>3, <2>4, <2>5, <2>6
<1>3. CASE UNCHANGED vars
  BY <1>3 DEF vars, Lifecycle!vars, AsFindings, AsReviews, AtReview
<1>. QED
  BY <1>1, <1>2, <1>3 DEF Next

\* With one worker and findings told apart, the rows and threads that the runs write one by
\* one behave as the findings of FindingLifecycle: raised once, confirmed in their thread
\* however they are worded, retired when they are gone, dismissed until there are changes
\* near them, and complete only as reported (_publish_review_findings,
\* _match_tracked_finding, _process_discussion_reconcile_run).
THEOREM PublicationImplementsLifecycle == OneWorker /\ TellsApart => (Spec => ImplementsLifecycle)
<1>. SUFFICES ASSUME OneWorker, TellsApart PROVE Spec => ImplementsLifecycle
  OBVIOUS
<1>1. TidyInv /\ [Next]_vars => TidyInv'
  BY TidyStep
<1>2. TidyInv /\ TidyInv' /\ [Next]_vars => [Lifecycle!Next]_(Lifecycle!vars)
  BY LifecycleStep
<1>3. Init => Lifecycle!Init
  BY DEF Init, Lifecycle!Init, AsFindings, NoRows, HasRow, AsReviews, AtReview, IdleWriter,
         ReviewPcs
<1>. QED
  BY <1>1, <1>2, <1>3, TidyInit, PTL DEF Spec, ImplementsLifecycle, Lifecycle!Spec
=============================================================================
