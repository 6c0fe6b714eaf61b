--------------------------------- MODULE Patches ---------------------------------
(* The patches of the debugger (patch_entry.cpp): an entry remembers what it   *)
(* replaced and puts it back when it is switched off.  Entries lie in data     *)
(* bases (debug_database.cpp), are made by the line editor and by files, and   *)
(* are changed in their dialog and joined in their window.  Memory is a row of *)
(* cells, two to a word; the program does not write to the lines patched.      *)
EXTENDS Integers, Sequences, SequencesExt

CONSTANTS
  Cells,         \* number of cells
  PatchData,     \* what may be written over them: sequences of other numbers than theirs
  PatchFiles,    \* files of a data base: sequences of entries
  MaxPatches,    \* bound on the entries
  MaxDdbs,       \* bound on the data bases
  Liberties      \* what the user does although the code leaves it to him not to

ASSUME PatchesAssumption ==
  /\ Cells \in Nat /\ MaxPatches \in Nat /\ MaxDdbs \in Nat
  /\ \A data \in PatchData : \A k \in DOMAIN data : data[k] >= Cells
  /\ \A file \in PatchFiles : \A i \in DOMAIN file : file[i].va + Len(file[i].data) <= Cells
  /\ Liberties \subseteq {"inside", "over another", "longer"}

VARIABLE patched   \* the memory, the entries of each data base, and whether a buffer was overrun

Original == [a \in 0..Cells - 1 |-> a]
PatchesInit == patched = [mem |-> Original, ddbs |-> << << >> >>, overrun |-> FALSE]

-------------------------------------------------------------------------------
(* The entries.                                                                *)

Get(mem, va, n)    == [k \in 1..n |-> mem[va + k - 1]]
Laid(mem, va, data) == [a \in DOMAIN mem |-> IF a - va + 1 \in DOMAIN data THEN data[a - va + 1] ELSE mem[a]]

Places(s)   == FlattenSeq([d \in DOMAIN s.ddbs |-> [i \in DOMAIN s.ddbs[d] |-> <<d, i>>]])
Entry(s, p) == s.ddbs[p[1]][p[2]]
Without(s, p) == [s EXCEPT !.ddbs[p[1]] = RemoveAt(@, p[2])]
OldData(q)  == SubSeq(q.old, 1, q.size)
NewData(q)  == SubSeq(q.new, 1, q.size)

Overlaps(q, va, size) ==
  /\ ~(va < q.va /\ va + size <= q.va)
  /\ ~(va >= q.va + q.size /\ va + size >= q.va + q.size)
findPatch(s, va, size, ignore_disable) ==
  SelectSeq(Places(s), LAMBDA p : Overlaps(Entry(s, p), va, size) /\ (ignore_disable => Entry(s, p).on))

SetDisable(s, p) ==
  IF Entry(s, p).on
  THEN [s EXCEPT !.mem = Laid(@, Entry(s, p).va, OldData(Entry(s, p))), !.ddbs[p[1]][p[2]].on = FALSE]
  ELSE s

\* Mutant: the entries in the way stay on
AppliedOver(s, va, data) == [s EXCEPT !.mem = Laid(@, va, data)]
\* every entry in the way is switched off, and the data written
Applied(s, va, data) ==
  LET cleared == FoldLeft(SetDisable, s, findPatch(s, va, Len(data), TRUE))
  IN [cleared EXCEPT !.mem = Laid(@, va, data)]
SetEnable(s, p) ==
  IF Entry(s, p).on THEN s
  ELSE [Applied(s, Entry(s, p).va, NewData(Entry(s, p))) EXCEPT !.ddbs[p[1]][p[2]].on = TRUE]

PatchEntry(s, va, data, on) ==
  [va |-> va, size |-> Len(data), on |-> on, old |-> Get(s.mem, va, Len(data)), new |-> data]

\* The old data is read from where the entry begins, whatever the offset.
update(s, p, offset, data) ==
  LET q == Entry(s, p)
      size == IF q.size < offset + Len(data) THEN offset + Len(data) ELSE q.size
      room == IF q.size < offset + Len(data) THEN size ELSE Len(q.new)
      with(buffer, part) == [k \in 1..room |-> IF k - offset \in DOMAIN part THEN part[k - offset] ELSE buffer[k]]
  IN IF offset < 0 \/ offset + Len(data) > room THEN [s EXCEPT !.overrun = TRUE]
     ELSE [s EXCEPT !.ddbs[p[1]][p[2]] = [q EXCEPT !.size = size, !.new = with(@, data),
                                                   !.old = with(@, Get(s.mem, q.va, Len(data)))]]

\* In the order of the list; the states are saved in the same order.
allPatchDisableWithSave(s) == FoldLeft(SetDisable, s, Places(s))
patchRestore(s, saved) == FoldLeft(SetEnable, s, SelectSeq(Places(s), LAMBDA p : Entry(saved, p).on))

-------------------------------------------------------------------------------
(* The commands.                                                               *)

\* The code leaves it to its callers, and they to the user, that no other entry is on
\* where one is changed.
Emptied(s, p, va, size) ==
  "over another" \in Liberties
    \/ \A k \in DOMAIN Places(s) : LET o == Places(s)[k] IN o = p \/ ~Entry(s, o).on \/ ~Overlaps(Entry(s, o), va, size)

\* OK in the line editor: the first entry over the word is changed, or one is made.
handleLineOK(va, word) ==
  LET found == findPatch(patched, va, 2, FALSE)
  IN /\ Get(patched.mem, va, 2) # word
     /\ \/ /\ found = << >> /\ Len(Places(patched)) < MaxPatches
           /\ \E cur \in DOMAIN patched.ddbs :
                patched' = [Applied(patched, va, word) EXCEPT !.ddbs[cur] = Append(@, PatchEntry(patched, va, word, TRUE))]
        \/ /\ found # << >>
           /\ LET p == found[1]  q == Entry(patched, p)  off == SetDisable(patched, p)
                  changed == update(off, p, va - q.va, word)
              IN /\ "inside" \in Liberties \/ q.va = va
                 /\ Emptied(off, p, q.va, Entry(changed, p).size)
                 /\ patched' = IF changed.overrun THEN changed ELSE SetEnable(changed, p)

\* Space in the patch window, and the command of the code window.
Toggle(p) == patched' = IF Entry(patched, p).on THEN SetDisable(patched, p) ELSE SetEnable(patched, p)

deletePatch(p) == patched' = Without(SetDisable(patched, p), p)

\* With the first entry that ends where this one begins.
unionPatch(p) ==
  LET before == SelectSeq(Places(patched), LAMBDA o : o # p /\ Entry(patched, o).va + Entry(patched, o).size = Entry(patched, p).va)
  IN /\ before # << >>
     /\ LET o == before[1]  q == Entry(patched, o)
            off == SetDisable(SetDisable(patched, o), p)
            left == IF o[1] = p[1] /\ o[2] > p[2] THEN <<o[1], o[2] - 1>> ELSE o
            both == update(Without(off, p), left, 0, NewData(q) \o NewData(Entry(patched, p)))
        IN /\ Emptied(Without(off, p), left, q.va, Entry(both, left).size)
           /\ patched' = IF q.on THEN SetEnable(both, left) ELSE both

\* The dialog sets the size before update compares it, so the buffers do not grow.
handleEditOK(p, va, data, on) ==
  LET off == SetDisable(patched, p)
      moved == [off EXCEPT !.ddbs[p[1]][p[2]].va = va, !.ddbs[p[1]][p[2]].size = Len(data)]
      changed == update(moved, p, 0, data)
  IN /\ "longer" \in Liberties \/ Len(data) <= Len(Entry(patched, p).new)
     /\ Emptied(moved, p, va, Len(data))
     /\ patched' = IF on /\ ~changed.overrun THEN SetEnable(changed, p) ELSE changed

\* Before each entry of the file the others are switched off, and on again after it;
\* neither finds those of the file itself, which is added last.
LoadEntry(acc, entry) ==
  LET off == allPatchDisableWithSave(acc.s)
      made == PatchEntry(off, entry.va, entry.data, entry.on)
      on == IF entry.on THEN Applied(off, entry.va, entry.data) ELSE off
  IN [s |-> patchRestore(on, acc.s), made |-> Append(acc.made, made)]
loadDdb(file) ==
  LET loaded == FoldLeft(LoadEntry, [s |-> patched, made |-> << >>], file)
      Over(a, b) == Overlaps([va |-> a.va, size |-> Len(a.data)], b.va, Len(b.data))
  IN /\ Len(patched.ddbs) < MaxDdbs /\ Len(Places(patched)) + Len(file) <= MaxPatches
     /\ \A i \in DOMAIN file : file[i].on => Emptied(patched, << >>, file[i].va, Len(file[i].data))
     /\ "over another" \in Liberties \/ \A i, j \in DOMAIN file : i < j /\ file[i].on => ~Over(file[i], file[j])
     /\ patched' = [loaded.s EXCEPT !.ddbs = Append(@, loaded.made)]

PatchesNext ==
  /\ ~patched.overrun
  /\ \/ \E va \in {a \in 0..Cells - 2 : a % 2 = 0}, word \in {d \in PatchData : Len(d) = 2} : handleLineOK(va, word)
     \/ \E k \in DOMAIN Places(patched) :
          LET p == Places(patched)[k]
          IN \/ Toggle(p)
             \/ deletePatch(p)
             \/ unionPatch(p)
             \/ \E va \in 0..Cells - 1, data \in PatchData, on \in BOOLEAN :
                  va + Len(data) <= Cells /\ handleEditOK(p, va, data, on)
     \/ \E file \in PatchFiles : loadDdb(file)

-------------------------------------------------------------------------------
(* Properties.                                                                 *)

\* Whatever was made, changed, moved, joined and loaded before: with all entries off
\* the memory is the original, and switching them on again brings back what was there.
UndoneIsOriginal ==
  LET off == allPatchDisableWithSave(patched)
  IN off.mem = Original /\ patchRestore(off, patched) = patched

\* What the list shows as applied is what the program runs.
AppliedIsThere ==
  \A k \in DOMAIN Places(patched) :
    LET q == Entry(patched, Places(patched)[k]) IN q.on => Get(patched.mem, q.va, q.size) = NewData(q)

PatchesUndone == ~patched.overrun /\ UndoneIsOriginal /\ AppliedIsThere
================================================================================
