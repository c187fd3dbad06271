------------------------------ MODULE Snapshot ------------------------------
(***************************************************************************)
(* The walk over the path table that feeds the screens and sweeps out the    *)
(* paths whose interface is gone: src/src/rns/SnapshotWalk.h and             *)
(* RnsTransport.cpp (refreshSnapshots).                                     *)
(*                                                                         *)
(* A record costs a file read, so a pass has a budget, and both halves, the  *)
(* rows and the sweep, resume in the next pass where they stopped: at an     *)
(* ordinal into a table that changes between passes and that the pass itself *)
(* shortens at its end.  Inside a pass nobody else touches the table.  A     *)
(* reading may throw, which ends the pass (Diag::guard).  The gap between    *)
(* passes and the lists of interfaces and counters are left out.            *)
(***************************************************************************)
EXTENDS Integers, Sequences, FiniteSets, SequencesExt

CONSTANTS
  Paths,       \* 1..n: the entries a table may hold
  RowCap,      \* SNAPSHOT_MAX_PATHS
  Budget,      \* kWalkBudgetMs, in the cost of the cheapest reading
  Costs,       \* what a reading or a removal may cost
  MaxChanges,  \* bound: changes of the table by others
  MaxThrows    \* bound: passes that throw, or follow a loop that did

VARIABLES
  table, dead,     \* the path table in its order; the entries whose interface is gone
  rows, rowPos, clean,   \* sPathsStaging, sRowPos, sRowPassClean
  sweepPos, due,   \* sSweepPos; the minute since the last whole sweep has passed
  published,       \* sPaths
  at,              \* "rest", "walk", "remove"
  sweeping, pos, spent, read, rowStop, rowsCut, stale, done,   \* the pass's own
  shifted,         \* the table has changed since the row cycle began
  changes, throws

tab    == <<table, dead>>
cursor == <<rowPos, clean, sweepPos>>
pass   == <<sweeping, pos, rowStop, rowsCut>>
bounds == <<changes, throws>>
vars   == <<tab, rows, cursor, due, published, at, pass, spent, read, stale, done, shifted, bounds>>

Spend(c) == spent' = IF spent + c > Budget THEN Budget ELSE spent + c
MayStop(any) == any /\ spent >= Budget

-----------------------------------------------------------------------------
\* SnapshotWalk.h

ResumeCursor(c) == IF c < Len(table) THEN c ELSE 0

\* Mutant: the row cursor resumes after a pass that did not write it back.
ResumeRowsAlways == ResumeCursor(rowPos)

ResumeRows == IF clean THEN ResumeCursor(rowPos) ELSE 0

NextCursor(c, stopped, short) == IF ~short THEN 0 ELSE IF stopped > c THEN stopped ELSE c

\* The sweep is ahead of the rows and they have had their half.
RowShareSpent == sweeping /\ sweepPos > rowPos /\ spent >= Budget \div 2

RowsFull  == Len(rows) >= RowCap
WantRow   == ~RowsFull /\ pos >= rowPos /\ ~RowShareSpent
WantSweep == sweeping /\ pos >= sweepPos
Denied    == ~RowsFull /\ pos >= rowPos /\ RowShareSpent

-----------------------------------------------------------------------------
\* refreshSnapshots()

Begin(allowSweep) ==
  /\ at = "rest" /\ at' = "walk"
  /\ IF allowSweep THEN UNCHANGED throws ELSE throws < MaxThrows /\ throws' = throws + 1
  /\ sweepPos' = ResumeCursor(sweepPos)
  /\ rowPos' = ResumeRows
  /\ rows' = IF rowPos' = 0 THEN <<>> ELSE rows
  /\ shifted' = (shifted /\ rowPos' # 0)
  /\ clean' = FALSE
  /\ sweeping' = (allowSweep /\ (sweepPos' # 0 \/ due))
  /\ UNCHANGED <<tab, due, published, pos, spent, read, rowStop, rowsCut, stale, done, changes>>

OnTable == at = "walk" /\ pos < Len(table)
Budgeted == ~MayStop(read)

\* Neither half wants this one: stepped over for nothing.
Skip ==
  /\ OnTable /\ ~(RowsFull /\ ~sweeping) /\ Budgeted /\ ~WantRow /\ ~WantSweep
  /\ rowsCut' = (rowsCut \/ Denied)
  /\ pos' = pos + 1
  /\ UNCHANGED <<tab, rows, cursor, due, published, at, sweeping, spent, read, rowStop, stale,
                 done, shifted, bounds>>

Read(c) ==
  /\ OnTable /\ ~(RowsFull /\ ~sweeping) /\ Budgeted /\ (WantRow \/ WantSweep)
  /\ rowStop' = IF WantRow THEN pos + 1 ELSE rowStop
  /\ rowsCut' = (rowsCut \/ Denied)
  /\ Spend(c) /\ read' = TRUE
  /\ LET e == table[pos + 1]
     IN  /\ stale' = IF e \in dead /\ sweeping /\ Len(stale) < RowCap THEN Append(stale, e) ELSE stale
         /\ rows' = IF e \notin dead /\ WantRow THEN Append(rows, e) ELSE rows
  /\ pos' = pos + 1
  /\ UNCHANGED <<tab, cursor, due, published, at, sweeping, done, shifted, bounds>>

\* The walk ends with the table, with the rows, or with the budget.
Walked ==
  /\ at = "walk"
  /\ pos = Len(table) \/ (RowsFull /\ ~sweeping) \/ MayStop(read)
  /\ LET ranOut == pos < Len(table) /\ ~(RowsFull /\ ~sweeping)
         short  == ranOut \/ rowsCut
     IN  /\ done' = (RowsFull \/ ~short)
         /\ rowPos' = IF done' THEN 0 ELSE NextCursor(rowPos, rowStop, short)
         /\ sweepPos' = IF sweeping THEN NextCursor(sweepPos, pos, ranOut) ELSE sweepPos
         /\ due' = (due /\ ~(sweeping /\ ~ranOut))
  /\ clean' = TRUE
  /\ read' = FALSE
  /\ at' = "remove"
  /\ UNCHANGED <<tab, rows, published, sweeping, pos, spent, rowStop, rowsCut, stale, shifted, bounds>>

\* What the sweep found goes from the back, while the budget lasts and one at least.
RemoveStale(c) ==
  /\ at = "remove" /\ stale # <<>> /\ ~MayStop(read)
  /\ table' = Remove(table, Last(stale)) /\ dead' = dead \ {Last(stale)}
  /\ stale' = Front(stale)
  /\ Spend(c) /\ read' = TRUE
  /\ shifted' = (shifted \/ ~done)
  /\ UNCHANGED <<rows, cursor, due, published, at, pass, done, bounds>>

EndPass ==
  /\ at' = "rest"
  /\ sweeping' = FALSE /\ pos' = 0 /\ spent' = 0 /\ read' = FALSE
  /\ rowStop' = 0 /\ rowsCut' = FALSE /\ stale' = <<>> /\ done' = FALSE

Publish ==
  /\ at = "remove" /\ (stale = <<>> \/ MayStop(read))
  /\ EndPass
  /\ IF done THEN published' = rows /\ rows' = published ELSE UNCHANGED <<published, rows>>
  /\ UNCHANGED <<tab, cursor, due, shifted, bounds>>

Throw ==
  /\ at # "rest" /\ throws < MaxThrows /\ throws' = throws + 1
  /\ EndPass
  /\ UNCHANGED <<tab, rows, cursor, due, published, shifted, changes>>

-----------------------------------------------------------------------------
\* Between passes.
Change ==
  /\ at = "rest" /\ changes < MaxChanges /\ changes' = changes + 1
  /\ shifted' = TRUE
  /\ UNCHANGED <<rows, cursor, due, published, at, pass, spent, read, stale, done, throws>>

\* A path is learned, at any place; one that is asked after has expired; an
\* interface goes; the index is rebuilt in another order.
Learn  == Change /\ UNCHANGED dead
          /\ \E e \in Paths \ Range(table), k \in 1..(Len(table) + 1): table' = InsertAt(table, k, e)
Expire == Change /\ \E e \in Range(table): table' = Remove(table, e) /\ dead' = dead \ {e}
Dies   == Change /\ UNCHANGED table /\ \E e \in Range(table) \ dead: dead' = dead \cup {e}
Rehash == Change /\ UNCHANGED dead /\ table' = Reverse(table)

Minute ==
  /\ ~due /\ due' = TRUE
  /\ UNCHANGED <<tab, rows, cursor, published, at, pass, spent, read, stale, done, shifted, bounds>>

-----------------------------------------------------------------------------
Init ==
  /\ table \in {[k \in 1..n |-> k] : n \in {0, Cardinality(Paths)}}
  /\ dead \in SUBSET Range(table)
  /\ rows = <<>> /\ rowPos = 0 /\ clean = TRUE /\ sweepPos = 0 /\ due = TRUE /\ published = <<>>
  /\ at = "rest" /\ sweeping = FALSE /\ pos = 0 /\ spent = 0 /\ read = FALSE
  /\ rowStop = 0 /\ rowsCut = FALSE /\ stale = <<>> /\ done = FALSE
  /\ shifted = FALSE /\ changes = 0 /\ throws = 0

Pass == \/ Begin(TRUE) \/ Skip \/ Walked \/ Publish
        \/ \E c \in Costs: Read(c) \/ RemoveStale(c)
Next == Pass \/ Begin(FALSE) \/ Throw \/ Learn \/ Expire \/ Dies \/ Rehash \/ Minute

Spec == Init /\ [][Next]_vars
FairSpec == Spec /\ WF_vars(Pass) /\ WF_vars(Minute)

-----------------------------------------------------------------------------
Live == SelectSeq(table, LAMBDA e: e \notin dead)
FirstRows == SubSeq(Live, 1, IF Len(Live) < RowCap THEN Len(Live) ELSE RowCap)

\* A list that is about to be published, with the table unchanged since its
\* first row was read, is the table's own: every live path up to the cap, in
\* order, none twice.
ListIsTheTable == at = "remove" /\ done /\ ~shifted => rows = FirstRows

\* When the table changes no more, every path without an interface is removed,
\* and the list on the screens is the table's.
SweptAndShown == <>[](dead = {}) /\ <>[](published = FirstRows)
=============================================================================
