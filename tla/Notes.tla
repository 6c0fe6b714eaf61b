---------------------------------- MODULE Notes ----------------------------------
(* The comments and labels of the debugger.  They lie in data bases (debugger.cpp, *)
(* debug_database.cpp), are made and deleted in the dialogs of a line and of an   *)
(* address, and are listed by a window that keeps pointers to them                *)
(* (reference_window.cpp).  Entries are known by where they lie, and a place that *)
(* was freed is taken again.                                                      *)
EXTENDS Integers, Sequences, SequencesExt, TLC

CONSTANTS
  NoteVas,       \* addresses
  NoteTexts,     \* texts typed; the window can be told to list those with one of them
  NoteShapes,    \* what a memory label covers: its count and the sizes of its elements
  NotePlaces,    \* bound on the entries
  DdbNames,      \* names of data bases, in the order in which the directory lists them
  PointsIn,      \* breakpoints of each
  NoteDisks      \* what the disk may hold at first

Empty == "empty"
ASSUME NotesAssumption == Empty \notin NoteTexts /\ NotePlaces \in Nat

VARIABLE notes   \* data bases, entries, window, disk, and what the last command was to do

NoteKinds == {"comment", "label", "memlabel"}
Mapped    == {"comment", "label"}   \* are found through a map besides

Highest(a, b) == IF a > b THEN a ELSE b

-------------------------------------------------------------------------------
(* The data bases: indices that go through all of them.                        *)

NotePlacesOf(s, kind) == UNION {{i} \X DOMAIN s.ddbs[i].list[kind] : i \in DOMAIN s.ddbs}
IdAt(s, kind, p)   == s.ddbs[p[1]].list[kind][p[2]]
Foremost(places)   == CHOOSE p \in places : \A q \in places : p[1] < q[1] \/ (p[1] = q[1] /\ p[2] <= q[2])
Count(d, kind)     == IF kind = "point" THEN PointsIn[d.name] ELSE Len(d.list[kind])
getWholeDdbIdx(s, p, kind) == FoldLeft(LAMBDA n, d : n + Count(d, kind), p[2], SubSeq(s.ddbs, 1, p[1] - 1))
getPartDdbIdx(s, whole, kind) == {p \in NotePlacesOf(s, kind) : getWholeDdbIdx(s, p, kind) = whole}

\* in the first data base that has one
FindNote(s, kind, va) ==
  LET having == {i \in DOMAIN s.ddbs : va \in DOMAIN s.ddbs[i].map[kind]}
  IN {s.ddbs[i].map[kind][va] : i \in {i \in having : \A j \in having : i <= j}}

\* comments of the data bases before are counted as the breakpoints are
CountedAs(kind) == IF kind = "comment" THEN "point" ELSE kind
NoteIdx(s, kind, va) ==
  LET at == {p \in NotePlacesOf(s, kind) : s.heap[IdAt(s, kind, p)].va = va}
  IN getWholeDdbIdx(s, Foremost(at), CountedAs(kind))
Miscounted(s, kind, id) ==
  \E p \in NotePlacesOf(s, kind) : IdAt(s, kind, p) = id /\ getWholeDdbIdx(s, p, CountedAs(kind)) # getWholeDdbIdx(s, p, kind)

GetStructureSize(e) == FoldLeft(+, 0, e.elems)
Spanning(s, va) ==
  {p \in NotePlacesOf(s, "memlabel") :
     LET e == s.heap[IdAt(s, "memlabel", p)] IN va >= e.va /\ va < e.va + GetStructureSize(e) * e.count}
getMemLabelIdx(s, va) == getWholeDdbIdx(s, Foremost(Spanning(s, va)), "memlabel")

-------------------------------------------------------------------------------
(* The window.                                                                 *)

update_filter(s) ==
  [s EXCEPT !.win.filtered = SelectSeq(s.win.sorted, LAMBDA id : s.win.filter \in {Empty, s.heap[id].text})]

is_cur(s, id) == s.cur # 0 /\ \E kind \in NoteKinds : id \in Range(s.ddbs[s.cur].list[kind])
update_list(s) ==
  LET all == FlattenSeq([i \in DOMAIN s.ddbs |-> s.ddbs[i].list[s.win.category]])
  IN update_filter([s EXCEPT !.win.sorted = SelectSeq(all, LAMBDA id : ~s.win.cur_only \/ is_cur(s, id))])
add_entry(s, kind, id) ==
  IF s.win.category = kind THEN update_filter([s EXCEPT !.win.sorted = Append(@, id)]) ELSE s
remove_entry(s, kind, id) ==
  IF s.win.category = kind /\ id \in Range(s.win.sorted)
  THEN update_filter([s EXCEPT !.win.sorted = Remove(@, id)]) ELSE s

-------------------------------------------------------------------------------
(* Adding and deleting.                                                        *)

With(f, x, y)  == [z \in DOMAIN f \cup {x} |-> IF z = x THEN y ELSE f[z]]
Without1(f, x) == [y \in DOMAIN f \ {x} |-> f[y]]
NewPlace(s)    == CHOOSE id \in 1..NotePlaces \ DOMAIN s.heap : \A other \in 1..NotePlaces \ DOMAIN s.heap : id <= other
NewNote(va, text, shape) == [va |-> va, text |-> text, count |-> shape.count, elems |-> shape.elems, expand |-> FALSE, open |-> {}]
NoShape        == [count |-> 1, elems |-> << >>]

PutInto(s, i, kind, e) ==
  LET id == NewPlace(s)
      held == [s EXCEPT !.heap = With(@, id, e), !.ddbs[i].list[kind] = Append(@, id)]
  IN IF kind \in Mapped /\ e.va \notin DOMAIN s.ddbs[i].map[kind]
     THEN [held EXCEPT !.ddbs[i].map[kind] = With(@, e.va, id)] ELSE held
AddNote(s, kind, e) == add_entry(PutInto(s, s.cur, kind, e), kind, NewPlace(s))

\* the window is told while the entry is still there
DeleteNote(s, kind, whole) ==
  LET at == getPartDdbIdx(s, whole, kind)
      p  == Foremost(at)
      id == IdAt(s, kind, p)
      told == remove_entry(s, kind, id)
      mapped == IF kind \in Mapped THEN [told EXCEPT !.ddbs[p[1]].map[kind] = Without1(@, s.heap[id].va)] ELSE told
  IN IF at = {} THEN s
     ELSE [mapped EXCEPT !.heap = Without1(@, id), !.ddbs[p[1]].list[kind] = RemoveAt(@, p[2]), !.gone = @ \cup {<<kind, id>>}]

\* a new command; a restart later finds the disk as one at once does, which is left out
Asking(s)         == [s EXCEPT !.disk = {}, !.saved = << >>, !.asked = {}, !.gone = {}, !.row = << >>, !.miscounted = FALSE, !.restarted = FALSE]
Ask(s, kind, id)  == [s EXCEPT !.asked = @ \cup {<<kind, id>>}]

\* one field of the dialog
Entered(s, kind, va, text) ==
  LET found == FindNote(s, kind, va)
      id == CHOOSE id \in found : TRUE
  IN IF found = {} THEN IF text = Empty THEN s ELSE AddNote(s, kind, NewNote(va, text, NoShape))
     ELSE IF text # Empty THEN [s EXCEPT !.heap[id].text = text]
     ELSE DeleteNote([Ask(s, kind, id) EXCEPT !.miscounted = @ \/ Miscounted(s, kind, id)], kind, NoteIdx(s, kind, s.heap[id].va))
LineEditOK ==
  /\ notes.cur # 0
  /\ \E va \in NoteVas, comment, label \in NoteTexts \cup {Empty} :
       /\ Cardinality(DOMAIN notes.heap) + Cardinality({k \in 1..2 : <<comment, label>>[k] # Empty}) <= NotePlaces
       /\ notes' = Entered(Entered(Asking(notes), "comment", va, comment), "label", va, label)

MemoryEditOK ==
  /\ notes.cur # 0 /\ Cardinality(DOMAIN notes.heap) < NotePlaces
  /\ \E va \in NoteVas, text \in NoteTexts \cup {Empty}, shape \in NoteShapes :
       LET s == Asking(notes)
           whole == getMemLabelIdx(s, va)
           id == IdAt(s, "memlabel", Foremost(getPartDdbIdx(s, whole, "memlabel")))
           e == s.heap[id]
       IN notes' =
            IF Spanning(s, va) = {}
            THEN IF text = Empty THEN s ELSE AddNote(s, "memlabel", NewNote(va, text, shape))
            ELSE IF text # Empty THEN [s EXCEPT !.heap[id] = [e EXCEPT !.text = text, !.count = shape.count, !.elems = shape.elems]]
            ELSE DeleteNote(Ask(s, "memlabel", id), "memlabel", getMemLabelIdx(s, e.va))

-------------------------------------------------------------------------------
(* The rows of the window: memory labels are unfolded.                         *)

Elements(e, i, j) == [k \in DOMAIN e.elems |-> <<"element", i, j>>]
RowsOf(e, i) ==
  << <<"root", i, 0>> >> \o
  (IF ~e.expand THEN << >>
   ELSE IF e.count = 1 THEN Elements(e, i, 0)
   ELSE FlattenSeq([j \in 1..e.count |-> << <<"array", i, j>> >> \o (IF j \in e.open THEN Elements(e, i, j) ELSE << >>)]))
Rows(s) == FlattenSeq([i \in DOMAIN s.win.filtered |-> RowsOf(s.heap[s.win.filtered[i]], i)])
GetExpandedRowIndex(s, row) == IF row + 1 \in DOMAIN Rows(s) THEN Rows(s)[row + 1] ELSE <<"none", 0, 0>>

UnfoldedIn(e, js) == FoldSet(LAMBDA j, n : n + 1 + (IF j \in e.open THEN Len(e.elems) ELSE 0), 0, js)
Unfolded(e) == IF ~e.expand THEN 0 ELSE IF e.count > 1 THEN UnfoldedIn(e, 1..e.count) ELSE Len(e.elems)
RowsBefore(s, i) == FoldSet(LAMBDA k, n : n + 1 + Unfolded(s.heap[s.win.filtered[k]]), 0, 1..i - 1)
GetExpandedRowCount(s) == RowsBefore(s, Len(s.win.filtered) + 1)
GetAllLine(s) == IF s.win.category = "memlabel" THEN GetExpandedRowCount(s) ELSE Len(s.win.filtered)
Within(s, row) == IF row >= GetAllLine(s) THEN Highest(GetAllLine(s) - 1, 0) ELSE Highest(row, 0)

\* the row of an item of an array, or of a label
SelectExpandedRow(s, i, j) ==
  LET above == IF j = 0 THEN 0 ELSE 1 + UnfoldedIn(s.heap[s.win.filtered[i]], 1..j - 1)
  IN [s EXCEPT !.win.sel = Within(s, RowsBefore(s, i) + above)]

\* the entry itself is looked for among all, and deleted
DeleteKey ==
  LET s == Asking(notes)
      kind == s.win.category
      row == GetExpandedRowIndex(s, s.win.sel)
      i == IF kind = "memlabel" THEN row[2] ELSE s.win.sel + 1
      id == s.win.filtered[i]
      at == {p \in NotePlacesOf(s, kind) : IdAt(s, kind, p) = id}
      deleted == DeleteNote(Ask(s, kind, id), kind, getWholeDdbIdx(s, Foremost(at), kind))
  IN /\ i \in DOMAIN s.win.filtered /\ at # {}
     /\ notes' = IF kind = "memlabel" THEN SelectExpandedRow(deleted, i, 0)
                 ELSE [deleted EXCEPT !.win.sel = Within(deleted, @)]

RightKey ==
  LET row == GetExpandedRowIndex(notes, notes.win.sel)
      id == notes.win.filtered[row[2]]
      e == notes.heap[id]
  IN /\ notes.win.category = "memlabel"
     /\ \/ /\ row[1] = "root" /\ (e.count > 1 \/ Len(e.elems) > 1)
           /\ notes' = [Asking(notes) EXCEPT !.heap[id].expand = TRUE]
        \/ /\ row[1] = "array" /\ Len(e.elems) > 1
           /\ notes' = [Asking(notes) EXCEPT !.heap[id].open = @ \cup {row[3]}]

\* folds what is unfolded, or goes to what the row belongs to
LeftKey ==
  LET s == Asking(notes)
      row == GetExpandedRowIndex(s, s.win.sel)
      id == s.win.filtered[row[2]]
      e == s.heap[id]
      to(type, j) == [SelectExpandedRow(s, row[2], j) EXCEPT !.row = <<type, row[2], j>>]
  IN /\ s.win.category = "memlabel"
     /\ \/ row[1] = "root" /\ notes' = [s EXCEPT !.heap[id].expand = FALSE]
        \/ row[1] = "array" /\ row[3] \in e.open /\ notes' = [s EXCEPT !.heap[id].open = @ \ {row[3]}]
        \/ row[1] = "array" /\ row[3] \notin e.open /\ notes' = to("root", 0)
        \/ row[1] = "element" /\ notes' = IF e.count > 1 THEN to("array", row[3]) ELSE to("root", 0)

CursorUp   == notes' = [Asking(notes) EXCEPT !.win.sel = Highest(@ - 1, 0)]
CursorDown == notes' = [Asking(notes) EXCEPT !.win.sel = IF @ + 1 > GetAllLine(notes) - 1 THEN GetAllLine(notes) - 1 ELSE @ + 1]

-------------------------------------------------------------------------------
(* What is listed.                                                             *)

Category == \E kind \in NoteKinds : notes' = update_list([Asking(notes) EXCEPT !.win.category = kind])
CurOnly  == \E only \in BOOLEAN : notes' = update_list([Asking(notes) EXCEPT !.win.cur_only = only])
Filter   == \E text \in NoteTexts \cup {Empty} : notes' = update_list([Asking(notes) EXCEPT !.win.filter = text])
SortListData ==
  notes' = update_filter([Asking(notes) EXCEPT !.win.sorted = SortSeq(@, LAMBDA a, b : notes.heap[a].va < notes.heap[b].va)])

-------------------------------------------------------------------------------
(* Data bases and their files.                                                 *)

NoMap == [kind \in Mapped |-> << >>]
NoNotes == [kind \in NoteKinds |-> << >>]

\* Mutant: the current one is not sought again
OrderOnly(s) ==
  LET ordered == SortSeq(s.ddbs, LAMBDA a, b : a.prio < b.prio)
  IN [s EXCEPT !.ddbs = [i \in DOMAIN ordered |-> [ordered[i] EXCEPT !.prio = i - 1]]]
\* as their priorities say, which are numbered anew; the current one remains
orderByPriority(s) ==
  LET ordered == SortSeq(s.ddbs, LAMBDA a, b : a.prio < b.prio)
      at == {i \in DOMAIN ordered : s.cur # 0 /\ ordered[i].name = s.ddbs[s.cur].name}
  IN [s EXCEPT !.ddbs = [i \in DOMAIN ordered |-> [ordered[i] EXCEPT !.prio = i - 1]],
               !.cur = IF at = {} THEN 0 ELSE CHOOSE i \in at : TRUE]

newDdb ==
  \E name \in Range(DdbNames) \ {notes.ddbs[i].name : i \in DOMAIN notes.ddbs} :
    LET prio == 1 + FoldSet(LAMBDA i, n : Highest(notes.ddbs[i].prio, n), 0, DOMAIN notes.ddbs)
        made == [name |-> name, prio |-> prio, list |-> NoNotes, map |-> NoMap]
    IN notes' = update_list([Asking(notes) EXCEPT !.ddbs = Append(@, made), !.cur = Len(notes.ddbs) + 1])
selectDdb == \E i \in DOMAIN notes.ddbs : notes' = update_list([Asking(notes) EXCEPT !.cur = i])
PriorityOK ==
  \E turn \in Permutations(DOMAIN notes.ddbs) :
    notes' = update_list(orderByPriority([Asking(notes) EXCEPT !.ddbs = [i \in DOMAIN @ |-> [@[i] EXCEPT !.prio = turn[i] - 1]]]))

\* what is kept of an entry
Written(e)  == [va |-> e.va, text |-> e.text, count |-> e.count, elems |-> e.elems]
Lines(s, d) == [kind \in NoteKinds |-> [k \in DOMAIN d.list[kind] |-> Written(s.heap[d.list[kind][k]])]]
File(s, i)  == [name |-> s.ddbs[i].name, prio |-> s.ddbs[i].prio, curddb |-> i = s.cur, lines |-> Lines(s, s.ddbs[i])]
Content(s)  == [cur |-> s.cur, ddbs |-> [i \in DOMAIN s.ddbs |-> <<s.ddbs[i].name, Lines(s, s.ddbs[i])>>]]
saveDdb     == notes' = [Asking(notes) EXCEPT !.disk = {File(notes, i) : i \in DOMAIN notes.ddbs}, !.saved = <<Content(notes)>>]

LoadedDdb(s, file) ==
  LET i == Len(s.ddbs) + 1
      begun == [s EXCEPT !.ddbs = Append(@, [name |-> file.name, prio |-> file.prio, list |-> NoNotes, map |-> NoMap]),
                         !.cur = IF file.curddb THEN i ELSE @]
      note(line) == NewNote(line.va, line.text, line)
  IN FoldLeft(LAMBDA t, kind : FoldLeft(LAMBDA u, line : PutInto(u, i, kind, note(line)), t, file.lines[kind]),
              begun, <<"comment", "label", "memlabel">>)
Opened == [category |-> "comment", cur_only |-> TRUE, filter |-> Empty, sorted |-> << >>, filtered |-> << >>, sel |-> 0]
loadAllDdb(disk) ==
  LET names == SelectSeq(DdbNames, LAMBDA name : \E file \in disk : file.name = name)
      files == [k \in DOMAIN names |-> CHOOSE file \in disk : file.name = names[k]]
      none == [ddbs |-> << >>, cur |-> 0, heap |-> << >>, win |-> Opened, disk |-> disk, saved |-> << >>,
               asked |-> {}, gone |-> {}, row |-> << >>, miscounted |-> FALSE, restarted |-> TRUE]
  IN update_list(orderByPriority(FoldLeft(LoadedDdb, none, files)))
Restart == notes.saved # << >> /\ notes' = [loadAllDdb(notes.disk) EXCEPT !.saved = notes.saved]

NotesFrom(disks) == \E disk \in disks : notes = loadAllDdb(disk)
NotesInit == NotesFrom(NoteDisks)

\* the memory labels and their rows, or the comments and labels
RowsNext  ==
  \/ MemoryEditOK \/ DeleteKey \/ RightKey \/ LeftKey \/ CursorUp \/ CursorDown
  \/ Category \/ CurOnly \/ saveDdb \/ Restart
NotesNext ==
  \/ LineEditOK \/ DeleteKey \/ CursorDown
  \/ Category \/ CurOnly \/ Filter \/ SortListData
  \/ newDdb \/ selectDdb \/ PriorityOK \/ saveDdb \/ Restart

-------------------------------------------------------------------------------

\* Every entry lies in one list, and the maps lead to the entries of theirs
\* (debug_database.h addComment to findCodeLabel).
HeldOnce ==
  /\ \A id \in DOMAIN notes.heap : Cardinality({<<kind, p>> \in UNION {{kind} \X NotePlacesOf(notes, kind) : kind \in NoteKinds} : IdAt(notes, kind, p) = id}) = 1
  /\ \A i \in DOMAIN notes.ddbs, kind \in Mapped :
       LET d == notes.ddbs[i]
       IN {<<va, d.map[kind][va]>> : va \in DOMAIN d.map[kind]} = {<<notes.heap[id].va, id>> : id \in Range(d.list[kind])}

\* The window points to what there is of its category, each once, and without a
\* filter to all of it (reference_window.cpp).
ListedAsHeld ==
  LET s == notes  win == s.win
      held == {IdAt(s, win.category, p) : p \in NotePlacesOf(s, win.category)}
      wanted == {id \in held : ~win.cur_only \/ is_cur(s, id)}
  IN /\ Range(win.sorted) = wanted /\ IsInjective(win.sorted)
     /\ Range(win.filtered) \subseteq wanted /\ IsInjective(win.filtered)
     /\ win.filter = Empty => win.filtered = win.sorted

\* What is deleted is what the user saw (line_edit_dialog.cpp, memory_edit_dialog.cpp,
\* reference_window.cpp), unless it is a comment behind data bases with as many
\* other numbers of breakpoints than of comments.
DeletedAsMeant == notes.miscounted \/ notes.gone = notes.asked

\* The left key leads to what a row belongs to (reference_window.cpp SelectExpandedRow).
RowsFit ==
  /\ notes.win.category = "memlabel" => GetExpandedRowCount(notes) = Len(Rows(notes))
  /\ notes.row # << >> => GetExpandedRowIndex(notes, notes.win.sel) = notes.row

\* A restart finds what was saved last (debug_database.cpp load, save).
FoundAgain == notes.restarted /\ notes.saved # << >> => <<Content(notes)>> = notes.saved

NotesKept == HeldOnce /\ ListedAsHeld /\ DeletedAsMeant /\ RowsFit /\ FoundAgain
================================================================================
