------------------------------ MODULE MemoryCards ------------------------------
(* The memory cards (src/src/device/memcard.cpp and memcard2.cpp): directories *)
(* of the host, reached through the files of the C library.  The game calls    *)
(* one of the two drivers, from the execute thread: "mc" with open files, or   *)
(* "mc2" with sockets and whole files.                                         *)
(*                                                                             *)
(* A file is the sequence of the blocks written to it; a block is the number   *)
(* of its write.  A place of a file is a card, a directory and a name.  The    *)
(* library keeps the last write of an open file in its buffer, and a read that *)
(* follows a write without a seek is undefined.                                *)
EXTENDS Integers, Sequences, FiniteSets, SequencesExt

CONSTANTS Ports,      \* the ports the game uses
          Names,      \* names of files
          Fds,        \* descriptors getUniqueFd has to give: 256
          MaxEnt,     \* entries the game asks of a directory at a time
          MaxWrites,  \* bound: writes, and opens that make a file anew
          Disturbed   \* whether files come and go while a directory is listed

ASSUME CardsAssumption ==
  /\ Ports \subseteq {0, 1} /\ {Fds, MaxEnt, MaxWrites} \subseteq Nat \ {0}
  /\ Disturbed \in BOOLEAN

VARIABLES
  mcDriver,          \* the driver the game uses
  mcDirs, mcFiles,   \* the disk: directories <<card, dir>>; place -> blocks
  file_mgmt,         \* the open files, in the order of the vector
  mcLeaked,          \* a file was opened and there was no descriptor for it
  get_info_last,     \* get_info_last_state_ of a port; free is blocks in use
  get_dir_count, relative_dir,
  mcListing,         \* ghost: the directory being listed and what has been told
  mcSaved,           \* ghost: the files as the game has written them
  mcAnswer,          \* ghost: the last answer to the game
  mcKnown,           \* ghost: what the game knows of a port
  mcWrites           \* ghost: writes made

mcDisk  == <<mcDirs, mcFiles>>
mcOpen  == <<file_mgmt, mcLeaked>>
mcGhost == <<mcSaved, mcKnown, mcWrites>>
mcVars  == <<mcDriver, mcDisk, mcOpen, get_info_last, get_dir_count, relative_dir,
             mcListing, mcAnswer, mcGhost>>

Dirs   == {"root", "save"}
Places == {1, 2} \X Dirs \X Names
NoInfo == [format |-> FALSE, used |-> -1]
NotListing == [on |-> FALSE, told |-> << >>]
NoAnswer   == [kind |-> "none"]

\* paths are made with the slot, which is 0, and not with the port
Card(slot) == slot + 1
Slot == 0

Formatted(card) == <<card, "root">> \in mcDirs
Exists(place)   == place \in DOMAIN mcFiles
Used == LET length(p) == Len(mcFiles[p])
        IN FoldSet(LAMBDA p, n : n + length(p), 0, DOMAIN mcFiles)
Without(f, place)      == [p \in DOMAIN f \ {place} |-> f[p]]
With(f, place, blocks) == [p \in DOMAIN f \cup {place} |-> IF p = place THEN blocks ELSE f[p]]

CardsInit ==
  /\ mcDriver \in {"mc", "mc2"}
  /\ mcDirs \in {{}, {<<1, "root">>}} /\ mcFiles = << >>
  /\ file_mgmt = << >> /\ mcLeaked = FALSE
  /\ get_info_last = [p \in {0, 1} |-> NoInfo]
  /\ get_dir_count = 0 /\ relative_dir = "root"
  /\ mcListing = NotListing /\ mcAnswer = NoAnswer
  /\ mcSaved = << >> /\ mcWrites = 0 /\ mcKnown = [p \in {0, 1} |-> NoInfo]

\* the game changes no directory that it is reading
Calm == ~mcListing.on \/ Disturbed

-------------------------------------------------------------------------------
(* Cards and directories, the same in both drivers.                            *)

Told(info) == IF info.format THEN info ELSE [info EXCEPT !.used = 0]

SameInfo(a, b) == a = b

\* getinfo: the result is 0 when nothing has changed since the last call
GetInfo(port) ==
  LET now  == Told([format |-> Formatted(port + 1), used |-> Used])
      same == SameInfo(get_info_last[port], now)
  IN /\ get_info_last' = IF same THEN get_info_last ELSE [get_info_last EXCEPT ![port] = now]
     /\ mcKnown' = [mcKnown EXCEPT ![port] = now]
     /\ mcAnswer' = [kind |-> "info", same |-> same, now |-> now, known |-> mcKnown[port]]
     /\ UNCHANGED <<mcDriver, mcDisk, mcOpen, get_dir_count, relative_dir, mcListing,
                    mcSaved, mcWrites>>

\* format: mc2 keeps the state under the slot, mc under the port
Format(port) ==
  LET kept == IF mcDriver = "mc" THEN port ELSE Slot
      new  == [format |-> TRUE, used |-> Used]
  IN /\ Calm
     /\ IF Formatted(Card(Slot)) THEN UNCHANGED <<mcDirs, get_info_last, mcKnown>>
        ELSE /\ mcKnown' = [mcKnown EXCEPT ![port] = new]
             /\ mcDirs' = mcDirs \cup {<<Card(Slot), "root">>}
             /\ get_info_last' = [get_info_last EXCEPT ![kept] = new]
     /\ mcAnswer' = NoAnswer
     /\ UNCHANGED <<mcDriver, mcFiles, mcOpen, get_dir_count, relative_dir, mcListing,
                    mcSaved, mcWrites>>

\* open with MODE_MKDIR, mkdir
MakeDir ==
  /\ Calm /\ Formatted(Card(Slot))
  /\ mcDirs' = mcDirs \cup {<<Card(Slot), "save">>}
  /\ mcAnswer' = NoAnswer
  /\ UNCHANGED <<mcDriver, mcFiles, mcOpen, get_info_last, get_dir_count, relative_dir,
                 mcListing, mcGhost>>

ChangeDir(dir) ==
  /\ relative_dir' = dir /\ mcAnswer' = NoAnswer
  /\ UNCHANGED <<mcDriver, mcDisk, mcOpen, get_info_last, get_dir_count, mcListing, mcGhost>>

\* init: the open files of mc stay open; mc2 forgets its sockets
InitCards ==
  /\ relative_dir' = "root"
  /\ get_dir_count' = IF mcDriver = "mc" THEN 0 ELSE get_dir_count
  /\ mcListing' = NotListing /\ mcAnswer' = NoAnswer
  /\ UNCHANGED <<mcDriver, mcDisk, mcOpen, get_info_last, mcGhost>>

\* a name with a "/" is a path from the card, another one is of the directory
Place(dir, name) == <<Card(Slot), dir, name>>
Reached == {relative_dir, "save"}

\* FindFirstFile and FindNextFile, in the order of the host
Entries(card, dir) ==
  SetToSeq({p \in DOMAIN mcFiles : p[1] = card /\ p[2] = dir})

\* one page of a listing: at most maxent entries, after those already told.  The
\* loop stops before it looks for the next file
Page(entries, from, maxent) ==
  SubSeq(entries, from + 1, IF from + maxent < Len(entries) THEN from + maxent ELSE Len(entries))

\* Mutant: the entry at which the page ends is counted too
CountedPast(count, page) == count + Len(page) + 1

Counted(count, page) == count + Len(page)

\* getdir: mc counts what it has told, mc2 is told it by the game.  mc looks in
\* the directory of the slot, mc2 in that of the port
GetDir(port, dir) ==
  LET card    == IF mcDriver = "mc" THEN Card(Slot) ELSE port + 1
      first   == ~mcListing.on
      from    == IF first THEN 0 ELSE get_dir_count
      entries == Entries(card, dir)
      page    == Page(entries, from, MaxEnt)
  IN /\ mcListing.on => mcListing.port = port /\ mcListing.dir = dir
     /\ get_dir_count' = Counted(from, page)
     /\ mcListing' = IF Len(page) < MaxEnt THEN NotListing
                     ELSE [on |-> TRUE, port |-> port, dir |-> dir,
                           told |-> mcListing.told \o page]
     /\ mcAnswer' = [kind |-> "dir", port |-> port, dir |-> dir, last |-> Len(page) < MaxEnt,
                     told |-> mcListing.told \o page]
     /\ UNCHANGED <<mcDriver, mcDisk, mcOpen, get_info_last, relative_dir, mcGhost>>

-------------------------------------------------------------------------------
(* Files of the driver mc.                                                     *)

\* the file with the blocks of its buffer
Flushed(h) == IF h.buffer = << >> THEN mcFiles
              ELSE With(mcFiles, h.place,
                        SubSeq(mcFiles[h.place], 1, h.pos - 1) \o h.buffer
                          \o SubSeq(mcFiles[h.place], h.pos + 1, Len(mcFiles[h.place])))

FreeFds == {fd \in 0..(Fds - 1) : \A i \in DOMAIN file_mgmt : file_mgmt[i].fd # fd}
IsOpen(place) == \E i \in DOMAIN file_mgmt : file_mgmt[i].place = place

UniqueFd == CHOOSE fd \in FreeFds : \A other \in FreeFds : fd <= other

\* open: "rb", "wb", "r+b" and, with MODE_NEW, "w+b".  The game has a file open
\* once at a time
OpenFile(mode, dir, name) ==
  LET place == Place(dir, name)
      makes == mode \in {"wb", "w+b"}
      opens == IF makes THEN <<Card(Slot), dir>> \in mcDirs ELSE Exists(place)
  IN /\ mcDriver = "mc" /\ ~IsOpen(place)
     /\ makes => Calm /\ mcWrites < MaxWrites
     /\ opens
     /\ mcFiles' = IF makes THEN With(mcFiles, place, << >>) ELSE mcFiles
     /\ mcSaved' = IF makes THEN With(mcSaved, place, << >>) ELSE mcSaved
     /\ mcWrites' = IF makes THEN mcWrites + 1 ELSE mcWrites
     /\ IF FreeFds = {}
        THEN mcLeaked' = TRUE /\ UNCHANGED file_mgmt
        ELSE /\ file_mgmt' = Append(file_mgmt, [fd |-> UniqueFd, place |-> place, pos |-> 0,
                                                mode |-> mode, buffer |-> << >>, last |-> "seek"])
             /\ UNCHANGED mcLeaked
     /\ mcAnswer' = NoAnswer
     /\ UNCHANGED <<mcDriver, mcDirs, get_info_last, get_dir_count, relative_dir, mcListing,
                    mcKnown>>

\* fseek to where the file is: the buffer is written
Sought(h) == [h EXCEPT !.last = "seek", !.buffer = << >>]

\* getFilePointer
Handle(fd) == CHOOSE i \in DOMAIN file_mgmt : file_mgmt[i].fd = fd

ReadFile(fd) ==
  LET i == Handle(fd)
      h == Sought(file_mgmt[i])
      files == IF h.buffer = << >> THEN Flushed(file_mgmt[i]) ELSE mcFiles
      blocks == files[h.place]
      more == h.pos < Len(blocks)
  IN /\ h.mode # "wb"
     /\ mcFiles' = files
     /\ file_mgmt' = [file_mgmt EXCEPT ![i] =
                        [h EXCEPT !.pos = IF more THEN h.pos + 1 ELSE h.pos, !.last = "read"]]
     /\ mcAnswer' = [kind |-> "read", place |-> h.place, pos |-> h.pos + 1,
                     junk |-> h.last = "write", block |-> IF more THEN blocks[h.pos + 1] ELSE 0]
     /\ UNCHANGED <<mcDriver, mcDirs, mcLeaked, get_info_last, get_dir_count, relative_dir,
                    mcListing, mcGhost>>

WriteFile(fd) ==
  LET i == Handle(fd)
      h == Sought(file_mgmt[i])
      block == mcWrites + 1
      saved == mcSaved[h.place]
  IN /\ h.mode # "rb" /\ mcWrites < MaxWrites
     /\ mcFiles' = Flushed(file_mgmt[i])
     /\ file_mgmt' = [file_mgmt EXCEPT ![i] = [h EXCEPT !.pos = h.pos + 1, !.last = "write",
                                                        !.buffer = <<block>>]]
     /\ mcWrites' = block
     /\ mcSaved' = With(mcSaved, h.place, SubSeq(saved, 1, h.pos) \o <<block>>
                                            \o SubSeq(saved, h.pos + 2, Len(saved)))
     /\ mcAnswer' = NoAnswer
     /\ UNCHANGED <<mcDriver, mcDirs, mcLeaked, get_info_last, get_dir_count, relative_dir,
                    mcListing, mcKnown>>

FlushFile(fd) ==
  LET i == Handle(fd)
  IN /\ mcFiles' = Flushed(file_mgmt[i])
     /\ file_mgmt' = [file_mgmt EXCEPT ![i].buffer = << >>]
     /\ mcAnswer' = NoAnswer
     /\ UNCHANGED <<mcDriver, mcDirs, mcLeaked, get_info_last, get_dir_count, relative_dir,
                    mcListing, mcGhost>>

\* fclose
Closed(h) == Flushed(h)

\* closeMcdFile
CloseFile(fd) ==
  LET i == Handle(fd)
  IN /\ mcFiles' = Closed(file_mgmt[i])
     /\ file_mgmt' = RemoveAt(file_mgmt, i)
     /\ mcAnswer' = NoAnswer
     /\ UNCHANGED <<mcDriver, mcDirs, mcLeaked, get_info_last, get_dir_count, relative_dir,
                    mcListing, mcGhost>>

\* del: the host does not delete a file that is open
DeleteFile(dir, name) ==
  LET place == Place(dir, name)
  IN /\ mcDriver = "mc" /\ Calm /\ Exists(place) /\ ~IsOpen(place)
     /\ mcFiles' = Without(mcFiles, place)
     /\ mcSaved' = Without(mcSaved, place)
     /\ mcAnswer' = NoAnswer
     /\ UNCHANGED <<mcDriver, mcDirs, mcOpen, get_info_last, get_dir_count, relative_dir,
                    mcListing, mcKnown, mcWrites>>

\* the process dies: what the buffers hold is lost
CrashFiles ==
  /\ file_mgmt # << >>
  /\ file_mgmt' = << >> /\ mcLeaked' = FALSE
  /\ mcSaved' = [p \in DOMAIN mcFiles |-> IF \E i \in DOMAIN file_mgmt :
                     file_mgmt[i].place = p /\ file_mgmt[i].buffer # << >>
                   THEN mcFiles[p] ELSE mcSaved[p]]
  /\ get_info_last' = [p \in {0, 1} |-> NoInfo]
  /\ get_dir_count' = 0 /\ relative_dir' = "root" /\ mcListing' = NotListing
  /\ mcAnswer' = NoAnswer
  /\ mcKnown' = [p \in {0, 1} |-> NoInfo]
  /\ UNCHANGED <<mcDriver, mcDisk, mcWrites>>

-------------------------------------------------------------------------------
(* Files of the driver mc2: opened, transferred and closed in one call.        *)

Write2(dir, name) ==
  LET place == Place(dir, name)
  IN /\ mcDriver = "mc2" /\ Calm /\ mcWrites < MaxWrites /\ <<Card(Slot), dir>> \in mcDirs
     /\ mcFiles' = With(mcFiles, place, <<mcWrites + 1>>)
     /\ mcSaved' = With(mcSaved, place, <<mcWrites + 1>>)
     /\ mcWrites' = mcWrites + 1
     /\ mcAnswer' = NoAnswer
     /\ UNCHANGED <<mcDriver, mcDirs, mcOpen, get_info_last, get_dir_count, relative_dir,
                    mcListing, mcKnown>>

Read2(dir, name) ==
  LET place == Place(dir, name)
  IN /\ mcDriver = "mc2" /\ Exists(place)
     /\ mcAnswer' = [kind |-> "read", place |-> place, pos |-> 1, junk |-> FALSE,
                     block |-> mcFiles[place][1]]
     /\ UNCHANGED <<mcDriver, mcDisk, mcOpen, get_info_last, get_dir_count, relative_dir,
                    mcListing, mcGhost>>

CardsNext ==
  \/ \E port \in Ports : GetInfo(port) \/ Format(port) \/ \E dir \in Dirs : GetDir(port, dir)
  \/ MakeDir \/ InitCards \/ CrashFiles \/ \E dir \in Dirs : ChangeDir(dir)
  \/ \E dir \in Reached, name \in Names :
       \/ DeleteFile(dir, name) \/ Write2(dir, name) \/ Read2(dir, name)
       \/ \E mode \in {"rb", "wb", "r+b", "w+b"} : OpenFile(mode, dir, name)
  \/ \E fd \in {file_mgmt[i].fd : i \in DOMAIN file_mgmt} :
       ReadFile(fd) \/ WriteFile(fd) \/ FlushFile(fd) \/ CloseFile(fd)

-------------------------------------------------------------------------------
(* Properties.                                                                 *)

\* Open files have descriptors of their own, so that a call reaches the file the
\* game has opened (getUniqueFd, closeMcdFile).
OwnDescriptor ==
  \A i, j \in DOMAIN file_mgmt : i # j => file_mgmt[i].fd # file_mgmt[j].fd

\* A read gives the block the game has written last at that place of the file,
\* even right after a write of the same file (the seeks of read and write).
ReadsWhatWasWritten ==
  mcAnswer.kind = "read" =>
    /\ ~mcAnswer.junk
    /\ LET saved == mcSaved[mcAnswer.place]
       IN mcAnswer.block = IF mcAnswer.pos <= Len(saved) THEN saved[mcAnswer.pos] ELSE 0

\* What the game has flushed or closed is on the disk as it was written, also
\* after a crash.
FlushedIsKept ==
  \A p \in DOMAIN mcFiles :
    (\A i \in DOMAIN file_mgmt : file_mgmt[i].place = p => file_mgmt[i].buffer = << >>)
      => mcFiles[p] = mcSaved[p]

\* A directory listed page by page to its end is told whole, each file once
\* (getdir, get_dir_count_).
ListedWhole ==
  mcAnswer.kind = "dir" /\ mcAnswer.last =>
    /\ IsInjective(mcAnswer.told)
    /\ ToSet(mcAnswer.told) = {p \in DOMAIN mcFiles : p[2] = mcAnswer.dir}

\* getinfo answers "as before" only when the card is as it was told before: no
\* change of the free space or of the format is kept from the game.
ChangesTold ==
  mcAnswer.kind = "info" /\ mcAnswer.same => mcAnswer.now = mcAnswer.known

\* The files of a card are those the game has saved, each reached by its own
\* descriptor, read as written, and kept through a crash, and the game is told of
\* directories and changes as they are.
CardsAreKept == OwnDescriptor /\ ReadsWhatWasWritten /\ FlushedIsKept /\ ListedWhole /\ ChangesTold
================================================================================
