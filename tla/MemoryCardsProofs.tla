---------------------------- MODULE MemoryCardsProofs ----------------------------
(* A proof about the memory cards: with the driver "mc", or with "mc2" when    *)
(* the game uses port 0 alone, and with a game that changes no directory while *)
(* it lists one, the files of a card are those the game has saved, for any     *)
(* names, any number of descriptors and writes and every size of a page.       *)
(*                                                                             *)
(* The inductive invariant says that a file, with the block its handle has     *)
(* still in the buffer, is what the game has saved, and that the pages told so *)
(* far are the beginning of the listing.                                       *)
EXTENDS MemoryCards, SequenceTheorems, FiniteSetTheorems, TLAPS

CardsSpec == CardsInit /\ [][CardsNext]_mcVars

\* mc2 keeps the state of a card under the slot, so a second port shares it.
OnePort == mcDriver = "mc2" => 1 \notin Ports

-------------------------------------------------------------------------------
(* The invariant.                                                              *)

Spots == {1} \X Dirs \X Names
Blocks == Seq(Nat)
Modes == {"rb", "wb", "r+b", "w+b"}
File == [fd : Nat, place : Spots, pos : Nat, mode : Modes, buffer : Blocks, last : {"seek", "read", "write"}]

\* A file with the blocks of a buffer at a position.
Spliced(blocks, pos, buffer) ==
  SubSeq(blocks, 1, pos - 1) \o buffer \o SubSeq(blocks, pos + 1, Len(blocks))

\* What a handle has of its file, given the blocks on the disk and those saved.
Faithful(h, blocks, saved) ==
  /\ h.pos <= Len(saved)
  /\ h.buffer = << >> => blocks = saved
  /\ h.buffer # << >> => h.pos >= 1 /\ Len(h.buffer) = 1 /\ saved = Spliced(blocks, h.pos, h.buffer)
OnDisk(files) ==
  /\ DOMAIN files \subseteq Spots /\ IsFiniteSet(DOMAIN files) /\ files \in [DOMAIN files -> Blocks]
Held(open, place) == \E i \in DOMAIN open : open[i].place = place
Own(open) ==
  \A i, j \in DOMAIN open : i # j => open[i].fd # open[j].fd /\ open[i].place # open[j].place
FilesInv(files, saved, open) ==
  /\ OnDisk(files) /\ OnDisk(saved) /\ DOMAIN saved = DOMAIN files
  /\ open \in Seq(File) /\ Own(open)
  /\ \A i \in DOMAIN open : /\ open[i].place \in DOMAIN files
                            /\ Faithful(open[i], files[open[i].place], saved[open[i].place])
  /\ \A p \in DOMAIN files : ~Held(open, p) => files[p] = saved[p]

\* The driver mc2 keeps no file open, and writes one block.
WholeInv == mcDriver = "mc2" => file_mgmt = << >> /\ \A p \in DOMAIN mcFiles : Len(mcFiles[p]) = 1

\* What has been told is the beginning of the entries.
Begins(told, entries) ==
  /\ told \in Seq(Spots) /\ Len(told) <= Len(entries)
  /\ \A i \in 1 .. Len(told) : told[i] = entries[i]

\* What has been told of a directory is the beginning of its entries.
ListingInv ==
  \/ mcListing = NotListing
  \/ /\ mcListing.on = TRUE /\ mcListing.dir \in Dirs
     /\ get_dir_count = Len(mcListing.told) /\ Begins(mcListing.told, Entries(1, mcListing.dir))

\* What the game knows is what the driver has told it.
InfoInv == get_info_last = mcKnown /\ mcKnown = [p \in {0, 1} |-> mcKnown[p]]

AnswersInv == ReadsWhatWasWritten /\ ListedWhole /\ ChangesTold
CardsTypeOK ==
  mcDriver \in {"mc", "mc2"} /\ mcWrites \in Nat /\ get_dir_count \in Nat /\ relative_dir \in Dirs

IInv ==
  /\ CardsTypeOK /\ OnePort
  /\ FilesInv(mcFiles, mcSaved, file_mgmt)
  /\ WholeInv /\ ListingInv /\ InfoInv /\ AnswersInv

-------------------------------------------------------------------------------
(* Lists and files.                                                            *)

\* A set of natural numbers has a least one: the smallest of the intervals from 0.
LEMMA LeastNumber ==
  ASSUME NEW T, T \subseteq Nat, T # {}
  PROVE  \E n \in T : \A m \in T : n <= m
  <1> DEFINE intervals == {0 .. n : n \in T}
  <1>1. intervals \subseteq FiniteSubsetsOf(Nat) /\ intervals # {}
    <2>1. \A n \in T : IsFiniteSet(0 .. n) /\ 0 .. n \subseteq Nat
      BY FS_Interval
    <2> QED BY <2>1 DEF FiniteSubsetsOf
  <1>2. IsWellFoundedOn(StrictSubsetOrdering(Nat), FiniteSubsetsOf(Nat))
    BY FS_StrictSubsetOrderingWellFounded
  <1>3. PICK least \in intervals : \A i \in intervals : ~(<<i, least>> \in StrictSubsetOrdering(Nat))
    <2> HIDE DEF intervals
    <2> QED BY <1>1, <1>2, WFMin
  <1>4. PICK n \in T : least = 0 .. n
    OBVIOUS
  <1>5. ASSUME NEW m \in T, m < n
        PROVE  FALSE
    <2>1. <<0 .. m, 0 .. n>> \in StrictSubsetOrdering(Nat)
      BY <1>5 DEF StrictSubsetOrdering
    <2> QED BY <1>3, <1>4, <2>1
  <1> QED BY <1>5

\* The host gives each file of a finite directory once.
LEMMA SetToSeqFacts ==
  ASSUME NEW S, IsFiniteSet(S)
  PROVE  /\ SetToSeq(S) \in Seq(S) /\ ToSet(SetToSeq(S)) = S /\ IsInjective(SetToSeq(S))
  <1> DEFINE n == Cardinality(S)  q == SetToSeq(S)
  <1>1. n \in Nat /\ ExistsBijection(1 .. n, S)
    BY FS_CardinalityType
  <1> HIDE DEF n
  <1>2. PICK f \in Bijection(1 .. n, S) : TRUE
    BY <1>1 DEF ExistsBijection
  <1>3. f \in [1 .. n -> S] /\ IsInjective(f)
    BY <1>2 DEF Bijection, Injection, IsInjective
  <1>4. q \in [1 .. n -> S] /\ IsInjective(q)
    BY <1>3 DEF SetToSeq, n
  <1> HIDE DEF q
  <1>5. q \in Seq(S) /\ Len(q) = n
    BY <1>1, <1>4
  <1>6. q \in Injection(1 .. n, S)
    BY <1>4 DEF Injection, IsInjective
  <1>7. q \in Surjection(1 .. n, S)
    <2>1. Cardinality(1 .. n) = Cardinality(S)
      BY <1>1, FS_Interval DEF n
    <2> QED BY <1>6, <2>1, FS_Injection
  <1>8. ToSet(q) = S
    BY <1>4, <1>7 DEF ToSet, Surjection
  <1> QED BY <1>4, <1>5, <1>8 DEF q

LEMMA EntriesFacts ==
  ASSUME OnDisk(mcFiles), NEW dir \in Dirs
  PROVE  /\ Entries(1, dir) \in Seq(Spots) /\ IsInjective(Entries(1, dir))
         /\ ToSet(Entries(1, dir)) = {p \in DOMAIN mcFiles : p[2] = dir}
  <1> DEFINE S == {p \in DOMAIN mcFiles : p[1] = 1 /\ p[2] = dir}
  <1>1. S = {p \in DOMAIN mcFiles : p[2] = dir} /\ S \subseteq Spots
    BY DEF OnDisk, Spots
  <1>2. IsFiniteSet(S)
    BY FS_Subset DEF OnDisk
  <1>3. Entries(1, dir) = SetToSeq(S)
    BY DEF Entries
  <1> HIDE DEF S
  <1>4. SetToSeq(S) \in Seq(S) /\ ToSet(SetToSeq(S)) = S /\ IsInjective(SetToSeq(S))
    BY <1>2, SetToSeqFacts
  <1>5. SetToSeq(S) \in Seq(Spots)
    BY <1>1, <1>4, SeqMonotonic
  <1> QED BY <1>1, <1>3, <1>4, <1>5

LEMMA WithFacts ==
  ASSUME NEW f, OnDisk(f), NEW place \in Spots, NEW blocks \in Blocks
  PROVE  /\ OnDisk(With(f, place, blocks)) /\ DOMAIN With(f, place, blocks) = DOMAIN f \cup {place}
         /\ With(f, place, blocks)[place] = blocks
         /\ \A p \in DOMAIN f : p # place => With(f, place, blocks)[p] = f[p]
  <1>1. PICK g : g = With(f, place, blocks)
    OBVIOUS
  <1>2. g = [p \in DOMAIN f \cup {place} |-> IF p = place THEN blocks ELSE f[p]]
    BY <1>1 DEF With
  <1>3. DOMAIN g = DOMAIN f \cup {place} /\ g[place] = blocks /\ \A p \in DOMAIN f : p # place => g[p] = f[p]
    BY <1>2
  <1>4. IsFiniteSet(DOMAIN g)
    BY <1>3, FS_AddElement DEF OnDisk
  <1>5. g \in [DOMAIN g -> Blocks]
    BY <1>2, <1>3 DEF OnDisk
  <1>6. DOMAIN g \subseteq Spots
    BY <1>3 DEF OnDisk
  <1> QED BY <1>1, <1>3, <1>4, <1>5, <1>6 DEF OnDisk

LEMMA WithoutFacts ==
  ASSUME NEW f, OnDisk(f), NEW place
  PROVE  /\ OnDisk(Without(f, place)) /\ DOMAIN Without(f, place) = DOMAIN f \ {place}
         /\ \A p \in DOMAIN Without(f, place) : Without(f, place)[p] = f[p]
  <1>1. PICK g : g = Without(f, place)
    OBVIOUS
  <1>2. g = [p \in DOMAIN f \ {place} |-> f[p]]
    BY <1>1 DEF Without
  <1>3. IsFiniteSet(DOMAIN f \ {place})
    BY FS_RemoveElement DEF OnDisk
  <1>4. OnDisk(g) /\ DOMAIN g = DOMAIN f \ {place} /\ \A p \in DOMAIN g : g[p] = f[p]
    BY <1>2, <1>3 DEF OnDisk
  <1> QED BY <1>1, <1>4

LEMMA SplicedFacts ==
  ASSUME NEW blocks \in Blocks, NEW pos \in Nat, pos >= 1, NEW buffer \in Blocks, Len(buffer) = 1,
         pos <= Len(blocks) + 1
  PROVE  /\ Spliced(blocks, pos, buffer) \in Blocks
         /\ Len(Spliced(blocks, pos, buffer)) >= pos /\ Len(Spliced(blocks, pos, buffer)) >= Len(blocks)
  <1> DEFINE head == SubSeq(blocks, 1, pos - 1)  tail == SubSeq(blocks, pos + 1, Len(blocks))
  <1>1. Len(blocks) \in Nat /\ \A i \in 1 .. Len(blocks) : blocks[i] \in Nat
    BY ElementOfSeq, LenProperties DEF Blocks
  <1>2. head \in Blocks /\ Len(head) = pos - 1
    BY <1>1, SubSeqProperties DEF Blocks
  <1>3. tail \in Blocks /\ Len(tail) = IF pos + 1 <= Len(blocks) THEN Len(blocks) - pos ELSE 0
    BY <1>1, SubSeqProperties DEF Blocks
  <1> HIDE DEF head, tail
  <1>4. head \o buffer \in Blocks /\ Len(head \o buffer) = pos
    <2>1. head \o buffer \in Blocks /\ Len(head \o buffer) = Len(head) + Len(buffer)
      BY <1>2, ConcatProperties DEF Blocks
    <2>2. Len(head) + Len(buffer) = pos
      BY <1>2
    <2> QED BY <2>1, <2>2
  <1>5. (head \o buffer) \o tail \in Blocks /\ Len((head \o buffer) \o tail) = pos + Len(tail)
    BY <1>3, <1>4, ConcatProperties DEF Blocks
  <1>6. Spliced(blocks, pos, buffer) = (head \o buffer) \o tail
    BY DEF Spliced, head, tail
  <1> QED BY <1>1, <1>3, <1>5, <1>6

-------------------------------------------------------------------------------
(* Open files.                                                                 *)

LEMMA FileFacts ==
  ASSUME NEW files, NEW saved, NEW open, FilesInv(files, saved, open), NEW i \in DOMAIN open
  PROVE  /\ open[i] \in File /\ open[i].place \in DOMAIN files /\ open[i].place \in Spots
         /\ open[i].pos \in Nat /\ open[i].buffer \in Blocks /\ open[i].fd \in Nat
         /\ files[open[i].place] \in Blocks /\ saved[open[i].place] \in Blocks
         /\ Faithful(open[i], files[open[i].place], saved[open[i].place])
         /\ DOMAIN open = 1 .. Len(open) /\ Len(open) \in Nat
  <1>1. open[i] \in File /\ DOMAIN open = 1 .. Len(open) /\ Len(open) \in Nat
    BY LenProperties, ElementOfSeq DEF FilesInv
  <1>2. open[i].place \in Spots /\ open[i].pos \in Nat /\ open[i].buffer \in Blocks /\ open[i].fd \in Nat
    BY <1>1 DEF File
  <1> QED BY <1>1, <1>2 DEF FilesInv, OnDisk

\* Written out, a file is what the game has saved.
LEMMA FlushedFacts ==
  ASSUME FilesInv(mcFiles, mcSaved, file_mgmt), NEW i \in DOMAIN file_mgmt, NEW f, f = Flushed(file_mgmt[i])
  PROVE  /\ OnDisk(f) /\ DOMAIN f = DOMAIN mcFiles
         /\ f[file_mgmt[i].place] = mcSaved[file_mgmt[i].place]
         /\ \A p \in DOMAIN mcFiles : p # file_mgmt[i].place => f[p] = mcFiles[p]
  <1> DEFINE h == file_mgmt[i]  place == h.place  blocks == mcFiles[place]
  <1>1. /\ h \in File /\ place \in DOMAIN mcFiles /\ place \in Spots /\ h.buffer \in Blocks /\ h.pos \in Nat
        /\ mcSaved[place] \in Blocks /\ Faithful(h, blocks, mcSaved[place]) /\ OnDisk(mcFiles)
    BY FileFacts DEF FilesInv
  <1>2. CASE h.buffer = << >>
    <2>1. f = mcFiles
      BY <1>2 DEF Flushed
    <2>2. blocks = mcSaved[place]
      BY <1>1, <1>2 DEF Faithful
    <2> QED BY <1>1, <2>1, <2>2
  <1>3. CASE h.buffer # << >>
    <2>1. mcSaved[place] = Spliced(blocks, h.pos, h.buffer)
      BY <1>1, <1>3 DEF Faithful
    <2>2. f = With(mcFiles, place, Spliced(blocks, h.pos, h.buffer))
      BY <1>3 DEF Flushed, Spliced
    <2>3. PICK new : new = mcSaved[place]
      OBVIOUS
    <2>4. PICK spot : spot = place
      OBVIOUS
    <2>5. f = With(mcFiles, spot, new) /\ spot \in Spots /\ new \in Blocks /\ OnDisk(mcFiles)
      BY <1>1, <2>1, <2>2, <2>3, <2>4
    <2>6. OnDisk(f) /\ DOMAIN f = DOMAIN mcFiles \cup {spot} /\ f[spot] = new
          /\ \A p \in DOMAIN mcFiles : p # spot => f[p] = mcFiles[p]
      BY <2>5, WithFacts
    <2> QED BY <1>1, <2>3, <2>4, <2>6
  <1> QED BY <1>2, <1>3

\* A call changes the file of one handle.
LEMMA Replaced ==
  ASSUME FilesInv(mcFiles, mcSaved, file_mgmt), NEW i \in DOMAIN file_mgmt,
         NEW place, place = file_mgmt[i].place,
         NEW h \in File, h.fd = file_mgmt[i].fd, h.place = place,
         OnDisk(mcFiles'), DOMAIN mcFiles' = DOMAIN mcFiles,
         OnDisk(mcSaved'), DOMAIN mcSaved' = DOMAIN mcFiles,
         \A p \in DOMAIN mcFiles : p # place => mcFiles'[p] = mcFiles[p] /\ mcSaved'[p] = mcSaved[p],
         Faithful(h, mcFiles'[place], mcSaved'[place]),
         file_mgmt' = [file_mgmt EXCEPT ![i] = h]
  PROVE  FilesInv(mcFiles', mcSaved', file_mgmt')
  <1>1. file_mgmt \in Seq(File) /\ DOMAIN file_mgmt = 1 .. Len(file_mgmt) /\ i \in 1 .. Len(file_mgmt)
    BY FileFacts DEF FilesInv
  <1>2. file_mgmt' \in Seq(File) /\ DOMAIN file_mgmt' = DOMAIN file_mgmt /\ file_mgmt'[i] = h
        /\ \A j \in DOMAIN file_mgmt : j # i => file_mgmt'[j] = file_mgmt[j]
    BY <1>1, ExceptSeq, LenProperties
  <1>3. \A j \in DOMAIN file_mgmt : file_mgmt'[j].fd = file_mgmt[j].fd /\ file_mgmt'[j].place = file_mgmt[j].place
    BY <1>2
  <1>4. Own(file_mgmt')
    BY <1>2, <1>3 DEF Own, FilesInv
  <1>5. \A j \in DOMAIN file_mgmt : j # i => file_mgmt[j].place # place
    BY DEF FilesInv, Own
  <1>6. \A j \in DOMAIN file_mgmt' : /\ file_mgmt'[j].place \in DOMAIN mcFiles'
                                /\ Faithful(file_mgmt'[j], mcFiles'[file_mgmt'[j].place], mcSaved'[file_mgmt'[j].place])
    <2> SUFFICES ASSUME NEW j \in DOMAIN file_mgmt
                 PROVE  /\ file_mgmt'[j].place \in DOMAIN mcFiles'
                        /\ Faithful(file_mgmt'[j], mcFiles'[file_mgmt'[j].place], mcSaved'[file_mgmt'[j].place])
      BY <1>2
    <2>1. file_mgmt[j].place \in DOMAIN mcFiles
      BY DEF FilesInv
    <2>2. CASE j = i
      BY <1>2, <2>1, <2>2
    <2>3. CASE j # i
      <3>1. file_mgmt'[j] = file_mgmt[j] /\ file_mgmt[j].place # place
        BY <1>2, <1>5, <2>3
      <3>2. mcFiles'[file_mgmt[j].place] = mcFiles[file_mgmt[j].place] /\ mcSaved'[file_mgmt[j].place] = mcSaved[file_mgmt[j].place]
        BY <2>1, <3>1
      <3> QED BY <2>1, <3>1, <3>2 DEF FilesInv
    <2> QED BY <2>2, <2>3
  <1>7. \A p \in DOMAIN mcFiles' : ~Held(file_mgmt', p) => mcFiles'[p] = mcSaved'[p]
    <2> SUFFICES ASSUME NEW p \in DOMAIN mcFiles, ~Held(file_mgmt', p)
                 PROVE  mcFiles'[p] = mcSaved'[p]
      OBVIOUS
    <2>1. ~Held(file_mgmt, p) /\ p # place
      BY <1>2, <1>3 DEF Held
    <2> QED BY <2>1 DEF FilesInv
  <1> QED BY <1>2, <1>4, <1>6, <1>7 DEF FilesInv

LEMMA RemoveAtFacts ==
  ASSUME NEW open \in Seq(File), NEW i \in DOMAIN open, NEW r, r = RemoveAt(open, i)
  PROVE  /\ r \in Seq(File) /\ DOMAIN r = 1 .. (Len(open) - 1)
         /\ \A j \in DOMAIN r : r[j] = open[IF j < i THEN j ELSE j + 1]
  <1> DEFINE a == SubSeq(open, 1, i - 1)  b == SubSeq(open, i + 1, Len(open))
  <1>1. i \in 1 .. Len(open) /\ Len(open) \in Nat /\ \A k \in 1 .. Len(open) : open[k] \in File
    BY LenProperties, ElementOfSeq
  <1>2. a \in Seq(File) /\ Len(a) = i - 1 /\ \A k \in 1 .. (i - 1) : a[k] = open[k]
    <2>1. \A k \in 1 .. (i - 1) : open[k] \in File
      BY <1>1
    <2> QED BY <1>1, <2>1, SubSeqProperties
  <1>3. b \in Seq(File) /\ Len(b) = Len(open) - i /\ \A k \in 1 .. (Len(open) - i) : b[k] = open[k + i]
    <2>1. \A k \in (i + 1) .. Len(open) : open[k] \in File
      BY <1>1
    <2>2. /\ b \in Seq(File) /\ Len(b) = IF i + 1 <= Len(open) THEN Len(open) - (i + 1) + 1 ELSE 0
          /\ \A k \in 1 .. (Len(open) - (i + 1) + 1) : b[k] = open[(i + 1) + k - 1]
      BY <1>1, <2>1, SubSeqProperties
    <2> HIDE DEF b
    <2>3. \A k \in 1 .. (Len(open) - i) : (i + 1) + k - 1 = k + i /\ k \in 1 .. (Len(open) - (i + 1) + 1)
      BY <1>1
    <2>4. \A k \in 1 .. (Len(open) - i) : b[k] = open[k + i]
      BY <2>2, <2>3
    <2> QED BY <1>1, <2>2, <2>4
  <1> HIDE DEF a, b
  <1>4. r = a \o b
    BY DEF RemoveAt, a, b
  <1>5. /\ r \in Seq(File) /\ Len(r) = Len(a) + Len(b)
        /\ \A k \in 1 .. (Len(a) + Len(b)) : r[k] = IF k <= Len(a) THEN a[k] ELSE b[k - Len(a)]
    BY <1>2, <1>3, <1>4, ConcatProperties
  <1>6. Len(a) + Len(b) = Len(open) - 1
    BY <1>1, <1>2, <1>3
  <1>7. DOMAIN r = 1 .. (Len(open) - 1)
    BY <1>5, <1>6, LenProperties
  <1>8. ASSUME NEW j \in DOMAIN r
        PROVE  r[j] = open[IF j < i THEN j ELSE j + 1]
    <2>1. j \in 1 .. (Len(a) + Len(b)) /\ j \in Nat
      BY <1>6, <1>7
    <2>2. CASE j < i
      BY <1>1, <1>2, <1>5, <2>1, <2>2
    <2>3. CASE ~(j < i)
      <3>1. Len(a) = i - 1 /\ i \in Nat /\ Len(open) \in Nat /\ j <= Len(open) - 1
        BY <1>1, <1>2, <1>6, <2>1
      <3>2. j - Len(a) \in 1 .. (Len(open) - i) /\ (j - Len(a)) + i = j + 1 /\ ~(j <= Len(a))
        <4>1. i \in Nat /\ ~(j < i) /\ j \in Nat
          BY <2>1, <2>3, <3>1
        <4> QED BY <3>1, <4>1
      <3> QED BY <1>3, <1>5, <2>1, <2>3, <3>2
    <2> QED BY <2>2, <2>3
  <1> QED BY <1>5, <1>7, <1>8

\* A file is closed when it is written out.
LEMMA Removed ==
  ASSUME FilesInv(mcFiles, mcSaved, file_mgmt), NEW i \in DOMAIN file_mgmt,
         NEW place, place = file_mgmt[i].place,
         OnDisk(mcFiles'), DOMAIN mcFiles' = DOMAIN mcFiles, mcFiles'[place] = mcSaved[place],
         \A p \in DOMAIN mcFiles : p # place => mcFiles'[p] = mcFiles[p],
         file_mgmt' = RemoveAt(file_mgmt, i)
  PROVE  FilesInv(mcFiles', mcSaved, file_mgmt')
  <1>1. file_mgmt \in Seq(File) /\ DOMAIN file_mgmt = 1 .. Len(file_mgmt) /\ i \in 1 .. Len(file_mgmt) /\ Len(file_mgmt) \in Nat
    BY FileFacts DEF FilesInv
  <1>2. /\ file_mgmt' \in Seq(File) /\ DOMAIN file_mgmt' = 1 .. (Len(file_mgmt) - 1)
        /\ \A j \in DOMAIN file_mgmt' : file_mgmt'[j] = file_mgmt[IF j < i THEN j ELSE j + 1]
    BY <1>1, RemoveAtFacts
  <1>3. PICK m \in [DOMAIN file_mgmt' -> Nat] : m = [j \in DOMAIN file_mgmt' |-> IF j < i THEN j ELSE j + 1]
    <2>1. \A j \in DOMAIN file_mgmt' : (IF j < i THEN j ELSE j + 1) \in Nat
      BY <1>1, <1>2
    <2> QED BY <2>1
  <1>4. \A j \in DOMAIN file_mgmt' : file_mgmt'[j] = file_mgmt[m[j]] /\ m[j] \in DOMAIN file_mgmt /\ m[j] # i
    BY <1>1, <1>2, <1>3
  <1>5. \A j, k \in DOMAIN file_mgmt' : j # k => m[j] # m[k]
    BY <1>1, <1>2, <1>3
  <1>6. \A k \in DOMAIN file_mgmt : k # i => \E j \in DOMAIN file_mgmt' : m[j] = k
    <2> TAKE k \in DOMAIN file_mgmt
    <2>1. CASE k < i
      <3>1. k \in DOMAIN file_mgmt' /\ m[k] = k
        BY <1>1, <1>2, <1>3, <2>1
      <3> QED BY <3>1
    <2>2. CASE i < k
      <3>1. k - 1 \in DOMAIN file_mgmt'
        BY <1>1, <1>2, <2>2
      <3>2. ~(k - 1 < i) /\ (k - 1) + 1 = k
        BY <1>1, <2>2
      <3>3. m[k - 1] = k
        BY <1>3, <3>1, <3>2
      <3> QED BY <3>1, <3>3
    <2> QED BY <1>1, <2>1, <2>2
  <1>7. Own(file_mgmt')
    BY <1>4, <1>5 DEF Own, FilesInv
  <1>8. \A j \in DOMAIN file_mgmt' : /\ file_mgmt'[j].place \in DOMAIN mcFiles'
                                /\ Faithful(file_mgmt'[j], mcFiles'[file_mgmt'[j].place], mcSaved[file_mgmt'[j].place])
    <2> TAKE j \in DOMAIN file_mgmt'
    <2>1. file_mgmt'[j] = file_mgmt[m[j]] /\ m[j] \in DOMAIN file_mgmt /\ file_mgmt[m[j]].place # place
      BY <1>4 DEF FilesInv, Own
    <2>2. file_mgmt[m[j]].place \in DOMAIN mcFiles
          /\ Faithful(file_mgmt[m[j]], mcFiles[file_mgmt[m[j]].place], mcSaved[file_mgmt[m[j]].place])
      BY <2>1 DEF FilesInv
    <2> QED BY <2>1, <2>2
  <1>9. \A p \in DOMAIN mcFiles' : ~Held(file_mgmt', p) => mcFiles'[p] = mcSaved[p]
    <2> SUFFICES ASSUME NEW p \in DOMAIN mcFiles, ~Held(file_mgmt', p), p # place
                 PROVE  mcFiles[p] = mcSaved[p]
      OBVIOUS
    <2>1. ~Held(file_mgmt, p)
      BY <1>4, <1>6 DEF Held
    <2> QED BY <2>1 DEF FilesInv
  <1> QED BY <1>2, <1>7, <1>8, <1>9 DEF FilesInv

LEMMA Opened ==
  ASSUME FilesInv(mcFiles', mcSaved', file_mgmt),
         NEW h \in File, ~Held(file_mgmt, h.place), h.place \in DOMAIN mcFiles', h.pos = 0, h.buffer = << >>,
         \A i \in DOMAIN file_mgmt : file_mgmt[i].fd # h.fd,
         file_mgmt' = Append(file_mgmt, h)
  PROVE  FilesInv(mcFiles', mcSaved', file_mgmt')
  <1>1. file_mgmt \in Seq(File) /\ DOMAIN file_mgmt = 1 .. Len(file_mgmt) /\ Len(file_mgmt) \in Nat
    BY LenProperties DEF FilesInv
  <1>2. /\ file_mgmt' \in Seq(File) /\ DOMAIN file_mgmt' = 1 .. (Len(file_mgmt) + 1) /\ file_mgmt'[Len(file_mgmt) + 1] = h
        /\ \A i \in DOMAIN file_mgmt : file_mgmt'[i] = file_mgmt[i]
    BY <1>1, AppendProperties, LenProperties
  <1>3. \A i \in DOMAIN file_mgmt' : i \in DOMAIN file_mgmt \/ i = Len(file_mgmt) + 1
    BY <1>1, <1>2
  <1>4. \A i \in DOMAIN file_mgmt : i \in DOMAIN file_mgmt' /\ file_mgmt[i].place # h.place /\ file_mgmt[i].fd # h.fd
    BY <1>1, <1>2 DEF Held
  <1>5. Own(file_mgmt')
    BY <1>2, <1>3, <1>4 DEF Own, FilesInv
  <1>6. mcFiles'[h.place] = mcSaved'[h.place] /\ mcSaved'[h.place] \in Blocks
    BY DEF FilesInv, OnDisk
  <1>7. Faithful(h, mcFiles'[h.place], mcSaved'[h.place])
    BY <1>6, LenProperties DEF Faithful, Blocks
  <1>8. \A i \in DOMAIN file_mgmt' : /\ file_mgmt'[i].place \in DOMAIN mcFiles'
                                /\ Faithful(file_mgmt'[i], mcFiles'[file_mgmt'[i].place], mcSaved'[file_mgmt'[i].place])
    BY <1>2, <1>3, <1>7 DEF FilesInv
  <1>9. \A p \in DOMAIN mcFiles' : ~Held(file_mgmt', p) => ~Held(file_mgmt, p)
    BY <1>2, <1>4 DEF Held
  <1> QED BY <1>2, <1>5, <1>8, <1>9 DEF FilesInv

-------------------------------------------------------------------------------
(* What an action leaves as it is.                                             *)

LEMMA NothingAnswered ==
  ASSUME mcAnswer' = NoAnswer
  PROVE  AnswersInv'
  <1>1. mcAnswer'.kind = "none"
    BY DEF NoAnswer
  <1> QED BY <1>1 DEF AnswersInv, ReadsWhatWasWritten, ListedWhole, ChangesTold

LEMMA SameListing ==
  ASSUME ListingInv, UNCHANGED <<mcListing, get_dir_count>>, DOMAIN mcFiles' = DOMAIN mcFiles
  PROVE  ListingInv'
  <1>1. \A dir : Entries(1, dir)' = Entries(1, dir)
    BY DEF Entries
  <1> QED BY <1>1 DEF ListingInv

\* The game changes no directory while it lists one.
LEMMA NoListingYet ==
  ASSUME ~Disturbed, Calm, ListingInv
  PROVE  mcListing = NotListing
  BY DEF Calm, ListingInv

LEMMA SameInfoKept ==
  ASSUME InfoInv, UNCHANGED <<get_info_last, mcKnown>>
  PROVE  InfoInv'
  BY DEF InfoInv

\* The files of the driver mc2 are changed by Write2 alone.
LEMMA OnlyMc ==
  ASSUME IInv, NEW i \in DOMAIN file_mgmt
  PROVE  mcDriver = "mc"
  <1>1. file_mgmt # << >>
    OBVIOUS
  <1> QED BY <1>1 DEF IInv, CardsTypeOK, WholeInv

\* A call by a descriptor reaches a handle.
LEMMA HandleFacts ==
  ASSUME NEW fd \in {file_mgmt[i].fd : i \in DOMAIN file_mgmt}
  PROVE  Handle(fd) \in DOMAIN file_mgmt
  BY DEF Handle

LEMMA PathFacts ==
  ASSUME CardsTypeOK, NEW dir \in Reached, NEW name \in Names
  PROVE  Place(dir, name) \in Spots /\ dir \in Dirs
  BY DEF CardsTypeOK, Reached, Dirs, Place, Card, Slot, Spots

-------------------------------------------------------------------------------
(* Cards and directories.                                                      *)

LEMMA CardsBegin ==
  ASSUME CardsInit, OnePort
  PROVE  IInv
  <1> USE DEF CardsInit
  <1>1. DOMAIN mcFiles = {} /\ DOMAIN mcSaved = {} /\ DOMAIN file_mgmt = {}
    BY EmptySeq, LenProperties
  <1>2. OnDisk(mcFiles) /\ OnDisk(mcSaved)
    <2>1. << >> = [p \in {} |-> << >>]
      OBVIOUS
    <2>2. << >> \in [{} -> Blocks]
      BY <2>1
    <2> QED BY <1>1, <2>2, FS_EmptySet DEF OnDisk
  <1>3. FilesInv(mcFiles, mcSaved, file_mgmt)
    <2>1. file_mgmt \in Seq(File)
      BY EmptySeq
    <2>2. Own(file_mgmt)
      BY <1>1 DEF Own
    <2> QED BY <1>1, <1>2, <2>1, <2>2 DEF FilesInv
  <1>4. CardsTypeOK /\ ListingInv
    BY DEF CardsTypeOK, ListingInv, Dirs
  <1>5. WholeInv
    BY <1>1 DEF WholeInv
  <1>6. InfoInv
    BY DEF InfoInv
  <1>7. AnswersInv
    BY DEF NoAnswer, AnswersInv, ReadsWhatWasWritten, ListedWhole, ChangesTold
  <1> QED BY <1>3, <1>4, <1>5, <1>6, <1>7 DEF IInv

LEMMA GetInfoKeeps ==
  ASSUME CardsAssumption, IInv, NEW port \in Ports, GetInfo(port)
  PROVE  IInv'
  <1>1. PICK now : now = Told([format |-> Formatted(port + 1), used |-> Used])
    OBVIOUS
  <1>2. PICK same \in BOOLEAN : same = SameInfo(get_info_last[port], now)
    BY DEF SameInfo
  <1>3. /\ get_info_last' = IF same THEN get_info_last ELSE [get_info_last EXCEPT ![port] = now]
        /\ mcKnown' = [mcKnown EXCEPT ![port] = now]
        /\ mcAnswer' = [kind |-> "info", same |-> same, now |-> now, known |-> mcKnown[port]]
        /\ UNCHANGED <<mcDriver, mcFiles, file_mgmt, get_dir_count, relative_dir, mcListing, mcSaved, mcWrites>>
    BY <1>1, <1>2 DEF GetInfo, mcDisk, mcOpen
  <1>4. port \in {0, 1}
    BY DEF CardsAssumption
  <1>5. InfoInv'
    <2>1. get_info_last = mcKnown /\ mcKnown = [p \in {0, 1} |-> mcKnown[p]]
      BY DEF IInv, InfoInv
    <2>2. mcKnown' = [p \in {0, 1} |-> IF p = port THEN now ELSE mcKnown[p]]
      BY <1>3, <2>1
    <2>3. mcKnown' = [p \in {0, 1} |-> mcKnown'[p]]
      BY <2>2
    <2>4. CASE ~same
      BY <1>3, <2>1, <2>3, <2>4 DEF InfoInv
    <2>5. CASE same
      <3>1. mcKnown[port] = now
        BY <1>2, <2>1, <2>5 DEF SameInfo
      <3>2. \A p \in {0, 1} : (IF p = port THEN now ELSE mcKnown[p]) = mcKnown[p]
        BY <3>1
      <3>3. mcKnown' = mcKnown
        BY <2>1, <2>2, <3>2
      <3> QED BY <1>3, <2>1, <2>3, <2>5, <3>3 DEF InfoInv
    <2> QED BY <1>2, <2>4, <2>5
  <1>6. AnswersInv'
    <2>1. mcAnswer'.kind = "info" /\ mcAnswer'.same = same /\ mcAnswer'.now = now
          /\ mcAnswer'.known = mcKnown[port]
      BY <1>3
    <2>2. same => now = mcKnown[port]
      BY <1>2 DEF SameInfo, IInv, InfoInv
    <2> QED BY <2>1, <2>2 DEF AnswersInv, ReadsWhatWasWritten, ListedWhole, ChangesTold
  <1>7. ListingInv'
    BY <1>3, SameListing DEF IInv
  <1> QED BY <1>3, <1>5, <1>6, <1>7 DEF IInv, CardsTypeOK, OnePort, WholeInv

LEMMA FormatKeeps ==
  ASSUME CardsAssumption, IInv, NEW port \in Ports, Format(port)
  PROVE  IInv'
  <1>1. /\ UNCHANGED <<mcDriver, mcFiles, file_mgmt, get_dir_count, relative_dir, mcListing, mcSaved, mcWrites>>
        /\ mcAnswer' = NoAnswer
    BY DEF Format, mcOpen
  <1>2. InfoInv'
    <2>1. port \in {0, 1} /\ (mcDriver = "mc" \/ (mcDriver = "mc2" /\ port = 0))
      BY DEF CardsAssumption, IInv, CardsTypeOK, OnePort
    <2>2. (IF mcDriver = "mc" THEN port ELSE Slot) = port
      BY <2>1 DEF Slot
    <2>3. PICK new : new = [format |-> TRUE, used |-> Used]
      OBVIOUS
    <2>4. \/ UNCHANGED <<get_info_last, mcKnown>>
          \/ /\ mcKnown' = [mcKnown EXCEPT ![port] = new]
             /\ get_info_last' = [get_info_last EXCEPT ![port] = new]
      BY <2>2, <2>3 DEF Format
    <2> QED BY <2>4 DEF IInv, InfoInv
  <1>3. AnswersInv' /\ ListingInv'
    BY <1>1, NothingAnswered, SameListing DEF IInv
  <1> QED BY <1>1, <1>2, <1>3 DEF IInv, CardsTypeOK, OnePort, WholeInv

\* MakeDir, ChangeDir and InitCards touch no file.
LEMMA DirectoriesKeep ==
  ASSUME IInv, MakeDir \/ InitCards \/ \E dir \in Dirs : ChangeDir(dir)
  PROVE  IInv'
  <1>1. /\ UNCHANGED <<mcDriver, mcFiles, file_mgmt, get_info_last, mcSaved, mcWrites, mcKnown>>
        /\ mcAnswer' = NoAnswer /\ relative_dir' \in Dirs
    BY DEF MakeDir, InitCards, ChangeDir, mcDisk, mcOpen, mcGhost, IInv, CardsTypeOK, Dirs
  <1>2. \/ UNCHANGED <<mcListing, get_dir_count>>
        \/ mcListing' = NotListing /\ get_dir_count' \in {0, get_dir_count}
    BY DEF MakeDir, InitCards, ChangeDir
  <1>3. ListingInv' /\ get_dir_count' \in Nat
    <2>1. CASE UNCHANGED <<mcListing, get_dir_count>>
      BY <1>1, <2>1, SameListing DEF IInv, CardsTypeOK
    <2>2. CASE mcListing' = NotListing /\ get_dir_count' \in {0, get_dir_count}
      BY <2>2 DEF ListingInv, IInv, CardsTypeOK
    <2> QED BY <1>2, <2>1, <2>2
  <1>4. AnswersInv'
    BY <1>1, NothingAnswered
  <1> QED BY <1>1, <1>3, <1>4 DEF IInv, CardsTypeOK, OnePort, WholeInv, InfoInv

\* The pages told, with another one, are the beginning of the entries.
LEMMA PageFacts ==
  ASSUME NEW entries \in Seq(Spots), NEW told, Begins(told, entries), NEW maxent \in Nat,
         NEW page, page = Page(entries, Len(told), maxent), NEW longer, longer = told \o page
  PROVE  /\ Begins(longer, entries) /\ Len(page) \in Nat /\ Len(longer) = Len(told) + Len(page)
         /\ Len(page) < maxent => longer = entries
  <1> USE DEF Begins
  <1>1. PICK from \in Nat : from = Len(told)
    BY LenProperties
  <1>2. PICK size \in Nat : size = Len(entries)
    BY LenProperties
  <1>3. PICK to \in Nat : to = IF from + maxent < size THEN from + maxent ELSE size
    OBVIOUS
  <1>4. from <= to /\ to <= size /\ to <= from + maxent
    BY <1>1, <1>2, <1>3
  <1>5. \A i \in 1 .. size : entries[i] \in Spots
    BY <1>2, ElementOfSeq
  <1>6. page = SubSeq(entries, from + 1, to)
    BY <1>1, <1>2, <1>3 DEF Page
  <1>7. page \in Seq(Spots) /\ Len(page) = to - from /\ \A i \in 1 .. (to - from) : page[i] = entries[from + i]
    <2>1. \A i \in (from + 1) .. to : entries[i] \in Spots
      BY <1>4, <1>5
    <2>2. /\ page \in Seq(Spots) /\ Len(page) = IF from + 1 <= to THEN to - (from + 1) + 1 ELSE 0
          /\ \A i \in 1 .. (to - (from + 1) + 1) : page[i] = entries[(from + 1) + i - 1]
      BY <1>2, <1>6, <2>1, SubSeqProperties
    <2>3. \A i \in 1 .. (to - from) : (from + 1) + i - 1 = from + i /\ i \in 1 .. (to - (from + 1) + 1)
      OBVIOUS
    <2>4. \A i \in 1 .. (to - from) : page[i] = entries[from + i]
      BY <2>2, <2>3
    <2>5. Len(page) = to - from
      BY <1>4, <2>2
    <2> QED BY <2>2, <2>4, <2>5
  <1>8. /\ longer \in Seq(Spots) /\ Len(longer) = from + (to - from)
        /\ \A i \in 1 .. (from + (to - from)) : longer[i] = IF i <= from THEN told[i] ELSE page[i - from]
    BY <1>1, <1>7, ConcatProperties
  <1>9. Len(longer) = to
    BY <1>8
  <1>10. \A i \in 1 .. to : longer[i] = entries[i]
    <2> TAKE i \in 1 .. to
    <2>1. i \in 1 .. (from + (to - from))
      OBVIOUS
    <2>2. CASE i <= from
      BY <1>1, <1>8, <2>1, <2>2
    <2>3. CASE ~(i <= from)
      <3>1. i - from \in 1 .. (to - from) /\ from + (i - from) = i
        BY <2>3
      <3> QED BY <1>7, <1>8, <2>1, <2>3, <3>1
    <2> QED BY <2>2, <2>3
  <1>11. to - from < maxent => longer = entries
    <2> SUFFICES ASSUME to - from < maxent
                 PROVE  longer = entries
      OBVIOUS
    <2>1. to = size
      BY <1>3
    <2> QED BY <1>2, <1>8, <1>9, <1>10, <2>1, SeqEqual
  <1>12. Len(longer) <= Len(entries) /\ \A i \in 1 .. Len(longer) : longer[i] = entries[i]
    BY <1>2, <1>4, <1>9, <1>10
  <1>13. Len(page) = to - from /\ Len(page) \in Nat /\ Len(longer) = Len(told) + Len(page)
    BY <1>1, <1>4, <1>7, <1>8
  <1> QED BY <1>8, <1>11, <1>12, <1>13

LEMMA GetDirKeeps ==
  ASSUME CardsAssumption, IInv, NEW port \in Ports, NEW dir \in Dirs, GetDir(port, dir)
  PROVE  IInv'
  <1>1. (IF mcDriver = "mc" THEN Card(Slot) ELSE port + 1) = 1
    BY DEF CardsAssumption, IInv, CardsTypeOK, OnePort, Card, Slot
  <1>2. PICK told : told = mcListing.told
    OBVIOUS
  <1>3. PICK entries : entries = Entries(1, dir)
    OBVIOUS
  <1>4. /\ entries \in Seq(Spots) /\ IsInjective(entries)
        /\ ToSet(entries) = {p \in DOMAIN mcFiles : p[2] = dir}
    BY <1>3, EntriesFacts DEF IInv, FilesInv
  <1>5. /\ Begins(told, entries)
        /\ (IF ~mcListing.on THEN 0 ELSE get_dir_count) = Len(told)
    <2>1. CASE mcListing = NotListing
      <3>1. told = << >> /\ ~mcListing.on
        BY <1>2, <2>1 DEF NotListing
      <3> QED BY <1>4, <3>1, EmptySeq, LenProperties DEF Begins
    <2>2. CASE mcListing # NotListing
      <3>1. mcListing.on = TRUE /\ mcListing.dir = dir
        BY <2>2 DEF IInv, ListingInv, GetDir
      <3> QED BY <1>2, <1>3, <2>2, <3>1 DEF IInv, ListingInv
    <2> QED BY <2>1, <2>2
  <1>6. PICK page : page = Page(entries, Len(told), MaxEnt)
    OBVIOUS
  <1>7. PICK last \in BOOLEAN : last = (Len(page) < MaxEnt)
    <2>1. CASE Len(page) < MaxEnt
      <3>1. TRUE = (Len(page) < MaxEnt)
        BY <2>1
      <3> QED BY <3>1
    <2>2. CASE ~(Len(page) < MaxEnt)
      <3>1. FALSE = (Len(page) < MaxEnt)
        BY <2>2
      <3> QED BY <3>1
    <2> QED BY <2>1, <2>2
  <1>8. PICK longer : longer = told \o page
    OBVIOUS
  <1>9. /\ get_dir_count' = Len(told) + Len(page)
        /\ mcListing' = IF last THEN NotListing ELSE [on |-> TRUE, port |-> port, dir |-> dir, told |-> longer]
        /\ mcAnswer' = [kind |-> "dir", port |-> port, dir |-> dir, last |-> last, told |-> longer]
        /\ UNCHANGED <<mcDriver, mcFiles, file_mgmt, get_info_last, relative_dir, mcSaved, mcKnown, mcWrites>>
    BY <1>1, <1>2, <1>3, <1>5, <1>6, <1>7, <1>8 DEF GetDir, Counted, mcDisk, mcOpen, mcGhost
  <1>10. /\ Begins(longer, entries) /\ Len(page) \in Nat /\ Len(longer) = Len(told) + Len(page)
         /\ Len(page) < MaxEnt => longer = entries
    <2>1. PICK maxent \in Nat : maxent = MaxEnt
      BY DEF CardsAssumption
    <2>2. page = Page(entries, Len(told), maxent)
      BY <1>6, <2>1
    <2>3. /\ Begins(longer, entries) /\ Len(page) \in Nat /\ Len(longer) = Len(told) + Len(page)
          /\ Len(page) < maxent => longer = entries
      <3>1. entries \in Seq(Spots) /\ Begins(told, entries) /\ longer = told \o page
        BY <1>4, <1>5, <1>8
      <3>2. Begins(longer, entries)
        BY <2>2, <3>1, PageFacts
      <3>3. Len(page) \in Nat
        BY <2>2, <3>1, PageFacts
      <3>4. Len(longer) = Len(told) + Len(page)
        BY <2>2, <3>1, PageFacts
      <3>5. Len(page) < maxent => longer = entries
        BY <2>2, <3>1, PageFacts
      <3> QED BY <3>2, <3>3, <3>4, <3>5
    <2> QED BY <2>1, <2>3
  <1>11. get_dir_count' = Len(longer) /\ get_dir_count' \in Nat
    BY <1>9, <1>10, LenProperties DEF Begins
  <1>12. ListingInv'
    <2>1. CASE last
      BY <1>9, <2>1 DEF ListingInv
    <2>2. CASE ~last
      <3>1. mcListing'.on = TRUE /\ mcListing'.dir = dir /\ mcListing'.told = longer
        BY <1>9, <2>2
      <3>2. Entries(1, dir)' = entries
        BY <1>3, <1>9 DEF Entries
      <3> QED BY <1>10, <1>11, <3>1, <3>2 DEF ListingInv
    <2> QED BY <1>7, <2>1, <2>2
  <1>13. AnswersInv'
    <2>1. mcAnswer'.kind = "dir" /\ mcAnswer'.dir = dir /\ mcAnswer'.last = last /\ mcAnswer'.told = longer
      BY <1>9
    <2>2. last => IsInjective(longer) /\ ToSet(longer) = {p \in DOMAIN mcFiles' : p[2] = dir}
      BY <1>4, <1>7, <1>9, <1>10
    <2> QED BY <2>1, <2>2 DEF AnswersInv, ReadsWhatWasWritten, ListedWhole, ChangesTold
  <1> QED BY <1>9, <1>11, <1>12, <1>13 DEF IInv, CardsTypeOK, OnePort, WholeInv, InfoInv

-------------------------------------------------------------------------------
(* Files of the driver mc.                                                     *)

LEMMA UniqueFdFacts ==
  ASSUME CardsAssumption, FreeFds # {}
  PROVE  UniqueFd \in Nat /\ \A i \in DOMAIN file_mgmt : file_mgmt[i].fd # UniqueFd
  <1>1. FreeFds \subseteq Nat
    BY DEF FreeFds, CardsAssumption
  <1>2. \E fd \in FreeFds : \A other \in FreeFds : fd <= other
    BY <1>1, LeastNumber
  <1>3. UniqueFd \in FreeFds
    BY <1>2 DEF UniqueFd
  <1> QED BY <1>1, <1>3 DEF FreeFds

\* A file that is not open is made anew, or written whole.
LEMMA Made ==
  ASSUME FilesInv(mcFiles, mcSaved, file_mgmt),
         NEW place \in Spots, ~Held(file_mgmt, place), NEW blocks \in Blocks,
         mcFiles' = With(mcFiles, place, blocks),
         mcSaved' = With(mcSaved, place, blocks)
  PROVE  FilesInv(mcFiles', mcSaved', file_mgmt) /\ DOMAIN mcFiles' = DOMAIN mcFiles \cup {place}
  <1>1. OnDisk(mcFiles') /\ DOMAIN mcFiles' = DOMAIN mcFiles \cup {place} /\ mcFiles'[place] = blocks
        /\ \A p \in DOMAIN mcFiles : p # place => mcFiles'[p] = mcFiles[p]
    BY WithFacts DEF FilesInv
  <1>2. OnDisk(mcSaved') /\ DOMAIN mcSaved' = DOMAIN mcFiles \cup {place} /\ mcSaved'[place] = blocks
        /\ \A p \in DOMAIN mcFiles : p # place => mcSaved'[p] = mcSaved[p]
    <2>1. DOMAIN mcSaved = DOMAIN mcFiles /\ OnDisk(mcSaved)
      BY DEF FilesInv
    <2>2. OnDisk(mcSaved)
      BY <2>1
    <2>3. OnDisk(mcSaved') /\ DOMAIN mcSaved' = DOMAIN mcSaved \cup {place} /\ mcSaved'[place] = blocks
          /\ \A p \in DOMAIN mcSaved : p # place => mcSaved'[p] = mcSaved[p]
      BY <2>2, WithFacts
    <2> QED BY <2>1, <2>3
  <1>3. \A i \in DOMAIN file_mgmt : /\ file_mgmt[i].place \in DOMAIN mcFiles'
                               /\ Faithful(file_mgmt[i], mcFiles'[file_mgmt[i].place], mcSaved'[file_mgmt[i].place])
    <2> TAKE i \in DOMAIN file_mgmt
    <2>1. file_mgmt[i].place \in DOMAIN mcFiles /\ file_mgmt[i].place # place
          /\ Faithful(file_mgmt[i], mcFiles[file_mgmt[i].place], mcSaved[file_mgmt[i].place])
      BY DEF FilesInv, Held
    <2>2. mcFiles'[file_mgmt[i].place] = mcFiles[file_mgmt[i].place] /\ mcSaved'[file_mgmt[i].place] = mcSaved[file_mgmt[i].place]
      BY <1>1, <1>2, <2>1
    <2> QED BY <1>1, <2>1, <2>2
  <1>4. \A p \in DOMAIN mcFiles' : ~Held(file_mgmt, p) => mcFiles'[p] = mcSaved'[p]
    <2> SUFFICES ASSUME NEW p \in DOMAIN mcFiles', ~Held(file_mgmt, p)
                 PROVE  mcFiles'[p] = mcSaved'[p]
      OBVIOUS
    <2>1. CASE p = place
      BY <1>1, <1>2, <2>1
    <2>2. CASE p # place
      <3>1. p \in DOMAIN mcFiles /\ mcFiles[p] = mcSaved[p]
        BY <1>1, <2>2 DEF FilesInv
      <3> QED BY <1>1, <1>2, <2>2, <3>1
    <2> QED BY <2>1, <2>2
  <1> QED BY <1>1, <1>2, <1>3, <1>4 DEF FilesInv

LEMMA OpenFileKeeps ==
  ASSUME CardsAssumption, ~Disturbed, IInv, NEW mode \in Modes, NEW dir \in Reached, NEW name \in Names,
         OpenFile(mode, dir, name)
  PROVE  IInv'
  <1>1. PICK place \in Spots : place = Place(dir, name)
    BY PathFacts DEF IInv
  <1>2. /\ mcDriver = "mc" /\ ~Held(file_mgmt, place) /\ mcAnswer' = NoAnswer
        /\ UNCHANGED <<mcDriver, get_info_last, get_dir_count, relative_dir, mcListing, mcKnown>>
    BY <1>1 DEF OpenFile, IsOpen, Held
  <1>3. /\ FilesInv(mcFiles', mcSaved', file_mgmt) /\ ListingInv' /\ mcWrites' \in Nat
        /\ place \in DOMAIN mcFiles'
    <2>1. CASE mode \in {"wb", "w+b"}
      <3>1. /\ mcFiles' = With(mcFiles, place, << >>) /\ mcSaved' = With(mcSaved, place, << >>)
            /\ mcWrites' = mcWrites + 1 /\ Calm
        BY <1>1, <2>1 DEF OpenFile
      <3>2. << >> \in Blocks
        BY EmptySeq DEF Blocks
      <3>3. FilesInv(mcFiles', mcSaved', file_mgmt) /\ place \in DOMAIN mcFiles'
        BY <1>2, <3>1, <3>2, Made DEF IInv
      <3>4. ListingInv'
        BY <1>2, <3>1, NoListingYet DEF IInv, ListingInv
      <3> QED BY <3>1, <3>3, <3>4 DEF IInv, CardsTypeOK
    <2>2. CASE ~(mode \in {"wb", "w+b"})
      <3>1. UNCHANGED <<mcFiles, mcSaved, mcWrites>> /\ place \in DOMAIN mcFiles
        BY <1>1, <2>2 DEF OpenFile, Exists
      <3> QED BY <1>2, <3>1, SameListing DEF IInv, CardsTypeOK
    <2> QED BY <2>1, <2>2
  <1>4. FilesInv(mcFiles', mcSaved', file_mgmt')
    <2>1. CASE FreeFds = {}
      BY <1>3, <2>1 DEF OpenFile
    <2>2. CASE FreeFds # {}
      <3>1. PICK h : h = [fd |-> UniqueFd, place |-> place, pos |-> 0, mode |-> mode,
                          buffer |-> << >>, last |-> "seek"]
        OBVIOUS
      <3>2. file_mgmt' = Append(file_mgmt, h)
        BY <1>1, <2>2, <3>1 DEF OpenFile
      <3>3. UniqueFd \in Nat /\ \A i \in DOMAIN file_mgmt : file_mgmt[i].fd # UniqueFd
        BY <2>2, UniqueFdFacts
      <3>4. << >> \in Blocks
        BY EmptySeq DEF Blocks
      <3>5. h \in File /\ h.fd = UniqueFd /\ h.place = place /\ h.pos = 0 /\ h.buffer = << >>
        BY <3>1, <3>3, <3>4 DEF File, Modes
      <3> QED BY <1>2, <1>3, <3>2, <3>3, <3>5, Opened
    <2> QED BY <2>1, <2>2
  <1>5. AnswersInv'
    BY <1>2, NothingAnswered
  <1> QED BY <1>2, <1>3, <1>4, <1>5 DEF IInv, CardsTypeOK, OnePort, WholeInv, InfoInv

\* Calls by a descriptor: the file is written out first, and only the handle and
\* the blocks of its file change.
LEMMA HandleCall ==
  ASSUME IInv, NEW i \in DOMAIN file_mgmt, NEW f, f = Flushed(file_mgmt[i])
  PROVE  /\ mcDriver = "mc" /\ OnDisk(f) /\ DOMAIN f = DOMAIN mcFiles
         /\ f[file_mgmt[i].place] = mcSaved[file_mgmt[i].place]
         /\ \A p \in DOMAIN mcFiles : p # file_mgmt[i].place => f[p] = mcFiles[p]
  BY OnlyMc, FlushedFacts DEF IInv

LEMMA SoughtFacts ==
  ASSUME NEW h \in File, NEW s, s = Sought(h)
  PROVE  /\ s \in File /\ s.fd = h.fd /\ s.place = h.place /\ s.pos = h.pos /\ s.mode = h.mode
         /\ s.buffer = << >> /\ s.last = "seek"
  <1>1. << >> \in Blocks
    BY EmptySeq DEF Blocks
  <1> QED BY <1>1 DEF Sought, File

\* What holds after a call by a descriptor, when its files do.
LEMMA CallKeeps ==
  ASSUME IInv, mcDriver = "mc", FilesInv(mcFiles', mcSaved', file_mgmt'), DOMAIN mcFiles' = DOMAIN mcFiles,
         UNCHANGED <<mcDriver, get_info_last, get_dir_count, relative_dir, mcListing, mcKnown>>,
         mcWrites' \in Nat, AnswersInv'
  PROVE  IInv'
  <1>1. ListingInv'
    BY SameListing DEF IInv
  <1> QED BY <1>1 DEF IInv, CardsTypeOK, OnePort, WholeInv, InfoInv

LEMMA ReadFileKeeps ==
  ASSUME IInv, NEW fd \in {file_mgmt[i].fd : i \in DOMAIN file_mgmt}, ReadFile(fd)
  PROVE  IInv'
  <1>1. PICK i \in DOMAIN file_mgmt : i = Handle(fd)
    BY HandleFacts
  <1>2. PICK place : place = file_mgmt[i].place
    OBVIOUS
  <1>3. PICK h : h = Sought(file_mgmt[i])
    OBVIOUS
  <1>4. /\ file_mgmt[i] \in File /\ place \in DOMAIN mcFiles /\ mcSaved[place] \in Blocks
        /\ file_mgmt[i].pos <= Len(mcSaved[place])
    BY <1>2, FileFacts DEF IInv, Faithful
  <1>5. /\ h \in File /\ h.fd = file_mgmt[i].fd /\ h.place = place /\ h.pos = file_mgmt[i].pos
        /\ h.buffer = << >> /\ h.last = "seek"
    BY <1>2, <1>3, <1>4, SoughtFacts
  <1>6. mcFiles' = Flushed(file_mgmt[i])
    BY <1>1, <1>3, <1>5 DEF ReadFile
  <1>7. /\ mcDriver = "mc" /\ OnDisk(mcFiles') /\ DOMAIN mcFiles' = DOMAIN mcFiles
        /\ mcFiles'[place] = mcSaved[place] /\ \A p \in DOMAIN mcFiles : p # place => mcFiles'[p] = mcFiles[p]
    BY <1>2, <1>6, HandleCall
  <1>8. PICK h2 : h2 = [h EXCEPT !.pos = IF h.pos < Len(mcSaved[place]) THEN h.pos + 1 ELSE h.pos,
                                 !.last = "read"]
    OBVIOUS
  <1>9. /\ file_mgmt' = [file_mgmt EXCEPT ![i] = h2]
        /\ mcAnswer' = [kind |-> "read", place |-> place, pos |-> h.pos + 1, junk |-> h.last = "write",
                        block |-> IF h.pos < Len(mcSaved[place]) THEN mcSaved[place][h.pos + 1] ELSE 0]
        /\ UNCHANGED <<mcDriver, get_info_last, get_dir_count, relative_dir, mcListing, mcSaved, mcKnown, mcWrites>>
    BY <1>1, <1>3, <1>5, <1>6, <1>7, <1>8 DEF ReadFile, mcGhost
  <1>10. Len(mcSaved[place]) \in Nat /\ h.pos \in Nat
    BY <1>4, <1>5, LenProperties DEF Blocks, File
  <1>11. h2 \in File /\ h2.fd = h.fd /\ h2.place = place /\ h2.buffer = << >> /\ h2.pos <= Len(mcSaved[place])
    <2>1. PICK pos \in Nat : pos = (IF h.pos < Len(mcSaved[place]) THEN h.pos + 1 ELSE h.pos)
      BY <1>10
    <2>2. pos <= Len(mcSaved[place])
      BY <1>4, <1>5, <1>10, <2>1
    <2>3. h2 = [h EXCEPT !.pos = pos, !.last = "read"]
      BY <1>8, <2>1
    <2>4. h2 \in File /\ h2.fd = h.fd /\ h2.place = h.place /\ h2.buffer = h.buffer /\ h2.pos = pos
      BY <1>5, <2>3 DEF File
    <2> QED BY <1>5, <2>2, <2>4
  <1>12. Faithful(h2, mcFiles'[place], mcSaved'[place])
    BY <1>7, <1>9, <1>11 DEF Faithful
  <1>13. OnDisk(mcSaved) /\ DOMAIN mcSaved = DOMAIN mcFiles /\ FilesInv(mcFiles, mcSaved, file_mgmt)
    BY DEF IInv, FilesInv
  <1>14. FilesInv(mcFiles', mcSaved', file_mgmt')
    BY <1>2, <1>5, <1>7, <1>9, <1>11, <1>12, <1>13, Replaced
  <1>15. AnswersInv'
    <2>1. PICK junk \in BOOLEAN : junk = (h.last = "write")
      OBVIOUS
    <2>2. mcAnswer'.kind = "read" /\ mcAnswer'.place = place /\ mcAnswer'.pos = h.pos + 1 /\ mcAnswer'.junk = junk
          /\ mcAnswer'.block = IF h.pos < Len(mcSaved[place]) THEN mcSaved[place][h.pos + 1] ELSE 0
      BY <1>9, <2>1
    <2>3. h.pos < Len(mcSaved[place]) <=> h.pos + 1 <= Len(mcSaved[place])
      BY <1>10
    <2>4. ~junk
      BY <1>5, <2>1
    <2> QED BY <1>9, <2>2, <2>3, <2>4 DEF AnswersInv, ReadsWhatWasWritten, ListedWhole, ChangesTold
  <1> QED BY <1>7, <1>9, <1>14, <1>15, CallKeeps DEF IInv, CardsTypeOK

LEMMA WriteFileKeeps ==
  ASSUME IInv, NEW fd \in {file_mgmt[i].fd : i \in DOMAIN file_mgmt}, WriteFile(fd)
  PROVE  IInv'
  <1>1. PICK i \in DOMAIN file_mgmt : i = Handle(fd)
    BY HandleFacts
  <1>2. PICK place : place = file_mgmt[i].place
    OBVIOUS
  <1>3. PICK h : h = Sought(file_mgmt[i])
    OBVIOUS
  <1>4. PICK saved : saved = mcSaved[place]
    OBVIOUS
  <1>5. /\ file_mgmt[i] \in File /\ place \in DOMAIN mcFiles /\ place \in Spots /\ saved \in Blocks
        /\ file_mgmt[i].pos <= Len(saved)
    BY <1>2, <1>4, FileFacts DEF IInv, Faithful
  <1>6. /\ h \in File /\ h.fd = file_mgmt[i].fd /\ h.place = place /\ h.pos = file_mgmt[i].pos
        /\ h.buffer = << >>
    BY <1>2, <1>3, <1>5, SoughtFacts
  <1>7. PICK block \in Nat : block = mcWrites + 1
    BY DEF IInv, CardsTypeOK
  <1>8. PICK pos \in Nat : pos = h.pos
    BY <1>6 DEF File
  <1>9. PICK h2 : h2 = [h EXCEPT !.pos = pos + 1, !.last = "write", !.buffer = <<block>>]
    OBVIOUS
  <1>10. mcFiles' = Flushed(file_mgmt[i])
    BY <1>1 DEF WriteFile
  <1>11. /\ mcDriver = "mc" /\ OnDisk(mcFiles') /\ DOMAIN mcFiles' = DOMAIN mcFiles
         /\ mcFiles'[place] = saved /\ \A p \in DOMAIN mcFiles : p # place => mcFiles'[p] = mcFiles[p]
    BY <1>2, <1>4, <1>10, HandleCall
  <1>12. PICK written : written = Spliced(saved, pos + 1, <<block>>)
    OBVIOUS
  <1>13. written = SubSeq(saved, 1, pos) \o <<block>> \o SubSeq(saved, pos + 2, Len(saved))
    <2>1. (pos + 1) - 1 = pos /\ (pos + 1) + 1 = pos + 2
      OBVIOUS
    <2> QED BY <1>12, <2>1 DEF Spliced
  <1>14. /\ file_mgmt' = [file_mgmt EXCEPT ![i] = h2]
         /\ mcSaved' = With(mcSaved, place, written) /\ mcWrites' = block /\ mcAnswer' = NoAnswer
         /\ UNCHANGED <<mcDriver, get_info_last, get_dir_count, relative_dir, mcListing, mcKnown>>
    BY <1>1, <1>3, <1>4, <1>6, <1>7, <1>8, <1>9, <1>13 DEF WriteFile
  <1>15. <<block>> \in Blocks /\ Len(<<block>>) = 1
    BY DEF Blocks
  <1>16. written \in Blocks /\ Len(written) >= pos + 1
    <2>1. pos + 1 \in Nat /\ pos + 1 >= 1 /\ pos + 1 <= Len(saved) + 1
      BY <1>5, <1>6, <1>8, LenProperties DEF Blocks
    <2> QED BY <1>5, <1>12, <1>15, <2>1, SplicedFacts
  <1>17. h2 \in File /\ h2.fd = h.fd /\ h2.place = place /\ h2.buffer = <<block>> /\ h2.pos = pos + 1
    <2>1. PICK next \in Nat : next = pos + 1
      OBVIOUS
    <2>2. PICK buffer \in Blocks : buffer = <<block>>
      BY <1>15
    <2>3. h2 = [h EXCEPT !.pos = next, !.last = "write", !.buffer = buffer]
      BY <1>9, <2>1, <2>2
    <2>4. h2 \in File /\ h2.fd = h.fd /\ h2.place = h.place /\ h2.buffer = buffer /\ h2.pos = next
      BY <1>6, <2>3 DEF File
    <2> QED BY <1>6, <2>1, <2>2, <2>4
  <1>18. OnDisk(mcSaved) /\ DOMAIN mcSaved = DOMAIN mcFiles
    BY DEF IInv, FilesInv
  <1>19. /\ OnDisk(mcSaved') /\ DOMAIN mcSaved' = DOMAIN mcSaved \cup {place} /\ mcSaved'[place] = written
         /\ \A p \in DOMAIN mcSaved : p # place => mcSaved'[p] = mcSaved[p]
    <2>1. OnDisk(mcSaved) /\ place \in Spots /\ written \in Blocks
      BY <1>5, <1>16, <1>18
    <2>2. mcSaved' = With(mcSaved, place, written)
      BY <1>14
    <2>3. /\ OnDisk(With(mcSaved, place, written)) /\ DOMAIN With(mcSaved, place, written) = DOMAIN mcSaved \cup {place}
          /\ With(mcSaved, place, written)[place] = written
          /\ \A p \in DOMAIN mcSaved : p # place => With(mcSaved, place, written)[p] = mcSaved[p]
      BY <2>1, WithFacts
    <2> QED BY <2>2, <2>3
  <1>20. DOMAIN mcSaved' = DOMAIN mcFiles
    BY <1>5, <1>18, <1>19
  <1>21. Faithful(h2, mcFiles'[place], mcSaved'[place])
    <2>1. Len(written) \in Nat /\ Len(h2.buffer) = 1 /\ h2.buffer # << >>
      BY <1>15, <1>16, <1>17, LenProperties DEF Blocks
    <2> QED BY <1>11, <1>12, <1>16, <1>17, <1>19, <2>1 DEF Faithful
  <1>22. FilesInv(mcFiles', mcSaved', file_mgmt')
    <2>1. \A p \in DOMAIN mcFiles : p # place => mcFiles'[p] = mcFiles[p] /\ mcSaved'[p] = mcSaved[p]
      BY <1>11, <1>18, <1>19
    <2>2. OnDisk(mcFiles') /\ DOMAIN mcFiles' = DOMAIN mcFiles /\ OnDisk(mcSaved')
      BY <1>11, <1>19
    <2>3. FilesInv(mcFiles, mcSaved, file_mgmt) /\ file_mgmt' = [file_mgmt EXCEPT ![i] = h2]
      BY <1>14 DEF IInv
    <2>4. place = file_mgmt[i].place /\ h2 \in File /\ h2.fd = file_mgmt[i].fd /\ h2.place = place
      BY <1>2, <1>6, <1>17
    <2> QED BY <1>20, <1>21, <2>1, <2>2, <2>3, <2>4, Replaced
  <1>23. AnswersInv'
    BY <1>14, NothingAnswered
  <1> QED BY <1>7, <1>11, <1>14, <1>22, <1>23, CallKeeps

LEMMA FlushFileKeeps ==
  ASSUME IInv, NEW fd \in {file_mgmt[i].fd : i \in DOMAIN file_mgmt}, FlushFile(fd)
  PROVE  IInv'
  <1>1. PICK i \in DOMAIN file_mgmt : i = Handle(fd)
    BY HandleFacts
  <1>2. PICK place : place = file_mgmt[i].place
    OBVIOUS
  <1>3. PICK h : h = [file_mgmt[i] EXCEPT !.buffer = << >>]
    OBVIOUS
  <1>4. /\ mcFiles' = Flushed(file_mgmt[i]) /\ file_mgmt' = [file_mgmt EXCEPT ![i] = h]
        /\ mcAnswer' = NoAnswer
        /\ UNCHANGED <<mcDriver, get_info_last, get_dir_count, relative_dir, mcListing, mcSaved, mcKnown, mcWrites>>
    BY <1>1, <1>3 DEF FlushFile, mcGhost
  <1>5. /\ file_mgmt[i] \in File /\ file_mgmt[i].pos <= Len(mcSaved[place])
    BY <1>2, FileFacts DEF IInv, Faithful
  <1>6. /\ h \in File /\ h.fd = file_mgmt[i].fd /\ h.place = place /\ h.pos = file_mgmt[i].pos
        /\ h.buffer = << >>
    <2>1. << >> \in Blocks
      BY EmptySeq DEF Blocks
    <2> QED BY <1>2, <1>3, <1>5, <2>1 DEF File
  <1>7. /\ mcDriver = "mc" /\ OnDisk(mcFiles') /\ DOMAIN mcFiles' = DOMAIN mcFiles
        /\ mcFiles'[place] = mcSaved[place] /\ \A p \in DOMAIN mcFiles : p # place => mcFiles'[p] = mcFiles[p]
    BY <1>2, <1>4, HandleCall
  <1>8. OnDisk(mcSaved) /\ DOMAIN mcSaved = DOMAIN mcFiles
    BY DEF IInv, FilesInv
  <1>9. Faithful(h, mcFiles'[place], mcSaved'[place])
    BY <1>4, <1>5, <1>6, <1>7 DEF Faithful
  <1>10. FilesInv(mcFiles', mcSaved', file_mgmt')
    BY <1>2, <1>4, <1>6, <1>7, <1>8, <1>9, Replaced DEF IInv
  <1>11. AnswersInv'
    BY <1>4, NothingAnswered
  <1> QED BY <1>4, <1>7, <1>10, <1>11, CallKeeps DEF IInv, CardsTypeOK

LEMMA CloseFileKeeps ==
  ASSUME IInv, NEW fd \in {file_mgmt[i].fd : i \in DOMAIN file_mgmt}, CloseFile(fd)
  PROVE  IInv'
  <1>1. PICK i \in DOMAIN file_mgmt : i = Handle(fd)
    BY HandleFacts
  <1>2. PICK place : place = file_mgmt[i].place
    OBVIOUS
  <1>3. /\ mcFiles' = Flushed(file_mgmt[i]) /\ file_mgmt' = RemoveAt(file_mgmt, i)
        /\ mcAnswer' = NoAnswer
        /\ UNCHANGED <<mcDriver, get_info_last, get_dir_count, relative_dir, mcListing, mcSaved, mcKnown, mcWrites>>
    BY <1>1 DEF CloseFile, Closed, mcGhost
  <1>4. /\ mcDriver = "mc" /\ OnDisk(mcFiles') /\ DOMAIN mcFiles' = DOMAIN mcFiles
        /\ mcFiles'[place] = mcSaved[place] /\ \A p \in DOMAIN mcFiles : p # place => mcFiles'[p] = mcFiles[p]
    BY <1>2, <1>3, HandleCall
  <1>5. FilesInv(mcFiles', mcSaved, file_mgmt')
    BY <1>2, <1>3, <1>4, Removed DEF IInv
  <1>6. AnswersInv'
    BY <1>3, NothingAnswered
  <1> QED BY <1>3, <1>4, <1>5, <1>6, CallKeeps DEF IInv, CardsTypeOK

LEMMA DeleteFileKeeps ==
  ASSUME ~Disturbed, IInv, NEW dir, NEW name, DeleteFile(dir, name)
  PROVE  IInv'
  <1>1. PICK place : place = Place(dir, name)
    OBVIOUS
  <1>2. /\ mcFiles' = Without(mcFiles, place) /\ mcSaved' = Without(mcSaved, place)
        /\ mcDriver = "mc" /\ Calm /\ ~Held(file_mgmt, place) /\ mcAnswer' = NoAnswer
        /\ UNCHANGED <<mcDriver, file_mgmt, get_info_last, get_dir_count, relative_dir, mcListing, mcKnown, mcWrites>>
    BY <1>1 DEF DeleteFile, IsOpen, Held, mcOpen
  <1>3. OnDisk(mcFiles) /\ OnDisk(mcSaved) /\ DOMAIN mcSaved = DOMAIN mcFiles
    BY DEF IInv, FilesInv
  <1>4. OnDisk(mcFiles') /\ DOMAIN mcFiles' = DOMAIN mcFiles \ {place}
        /\ \A p \in DOMAIN mcFiles' : mcFiles'[p] = mcFiles[p]
    BY <1>2, <1>3, WithoutFacts
  <1>5. OnDisk(mcSaved') /\ DOMAIN mcSaved' = DOMAIN mcFiles \ {place}
        /\ \A p \in DOMAIN mcSaved' : mcSaved'[p] = mcSaved[p]
    BY <1>2, <1>3, WithoutFacts
  <1>6. \A i \in DOMAIN file_mgmt :
          /\ file_mgmt[i].place \in DOMAIN mcFiles'
          /\ Faithful(file_mgmt[i], mcFiles'[file_mgmt[i].place], mcSaved'[file_mgmt[i].place])
    <2> TAKE i \in DOMAIN file_mgmt
    <2>1. file_mgmt[i].place \in DOMAIN mcFiles /\ file_mgmt[i].place # place
          /\ Faithful(file_mgmt[i], mcFiles[file_mgmt[i].place], mcSaved[file_mgmt[i].place])
      BY <1>2 DEF IInv, FilesInv, Held
    <2>2. file_mgmt[i].place \in DOMAIN mcFiles'
      BY <1>4, <2>1
    <2>3. mcFiles'[file_mgmt[i].place] = mcFiles[file_mgmt[i].place]
          /\ mcSaved'[file_mgmt[i].place] = mcSaved[file_mgmt[i].place]
      BY <1>4, <1>5, <2>2
    <2> QED BY <2>1, <2>2, <2>3
  <1>7. \A p \in DOMAIN mcFiles' : ~Held(file_mgmt, p) => mcFiles'[p] = mcSaved'[p]
    BY <1>4, <1>5 DEF IInv, FilesInv
  <1>8. FilesInv(mcFiles', mcSaved', file_mgmt)
    BY <1>4, <1>5, <1>6, <1>7 DEF IInv, FilesInv
  <1>9. ListingInv' /\ AnswersInv'
    BY <1>2, NoListingYet, NothingAnswered DEF IInv, ListingInv
  <1> QED BY <1>2, <1>8, <1>9 DEF IInv, CardsTypeOK, OnePort, WholeInv, InfoInv

\* A crash loses the buffers, and what is on the disk is what is left.
LEMMA CrashFilesKeeps ==
  ASSUME IInv, CrashFiles
  PROVE  IInv'
  <1>1. mcDriver = "mc"
    <2>1. file_mgmt # << >>
      BY DEF CrashFiles
    <2> QED BY <2>1 DEF IInv, CardsTypeOK, WholeInv
  <1>2. /\ file_mgmt' = << >> /\ get_dir_count' = 0 /\ relative_dir' = "root" /\ mcListing' = NotListing
        /\ mcAnswer' = NoAnswer /\ get_info_last' = [p \in {0, 1} |-> NoInfo]
        /\ mcKnown' = [p \in {0, 1} |-> NoInfo] /\ UNCHANGED <<mcDriver, mcFiles, mcWrites>>
    BY DEF CrashFiles, mcDisk
  <1>3. mcSaved' = [p \in DOMAIN mcFiles |->
                      IF \E i \in DOMAIN file_mgmt : file_mgmt[i].place = p /\ file_mgmt[i].buffer # << >>
                      THEN mcFiles[p] ELSE mcSaved[p]]
    BY DEF CrashFiles
  <1>4. /\ OnDisk(mcFiles) /\ OnDisk(mcSaved) /\ DOMAIN mcSaved = DOMAIN mcFiles
        /\ \A p \in DOMAIN mcFiles : mcFiles[p] \in Blocks /\ mcSaved[p] \in Blocks
    BY DEF IInv, FilesInv, OnDisk
  <1>5. \A p \in DOMAIN mcFiles : mcSaved'[p] = mcFiles[p]
    <2> TAKE p \in DOMAIN mcFiles
    <2>1. CASE \E i \in DOMAIN file_mgmt : file_mgmt[i].place = p /\ file_mgmt[i].buffer # << >>
      BY <1>3, <2>1
    <2>2. CASE \A i \in DOMAIN file_mgmt : ~(file_mgmt[i].place = p /\ file_mgmt[i].buffer # << >>)
      <3>1. mcSaved'[p] = mcSaved[p]
        BY <1>3, <2>2
      <3>2. mcFiles[p] = mcSaved[p]
        <4>1. CASE Held(file_mgmt, p)
          <5>1. PICK i \in DOMAIN file_mgmt : file_mgmt[i].place = p
            BY <4>1 DEF Held
          <5>2. Faithful(file_mgmt[i], mcFiles[p], mcSaved[p])
            BY <5>1 DEF IInv, FilesInv
          <5> QED BY <2>2, <5>1, <5>2 DEF Faithful
        <4>2. CASE ~Held(file_mgmt, p)
          BY <4>2 DEF IInv, FilesInv
        <4> QED BY <4>1, <4>2
      <3> QED BY <3>1, <3>2
    <2> QED BY <2>1, <2>2
  <1>6. DOMAIN mcSaved' = DOMAIN mcFiles /\ mcSaved' = [p \in DOMAIN mcFiles |-> mcSaved'[p]]
    BY <1>3
  <1>7. OnDisk(mcSaved')
    <2>1. mcSaved' \in [DOMAIN mcFiles -> Blocks]
      BY <1>4, <1>5, <1>6
    <2> QED BY <1>4, <1>6, <2>1 DEF OnDisk
  <1>8. FilesInv(mcFiles', mcSaved', file_mgmt')
    <2>1. file_mgmt' \in Seq(File) /\ DOMAIN file_mgmt' = {}
      BY <1>2, EmptySeq, LenProperties
    <2>2. Own(file_mgmt')
      BY <2>1 DEF Own
    <2> QED BY <1>2, <1>4, <1>5, <1>6, <1>7, <2>1, <2>2 DEF FilesInv
  <1>9. AnswersInv'
    BY <1>2, NothingAnswered
  <1>10. ListingInv' /\ InfoInv' /\ CardsTypeOK'
    BY <1>1, <1>2 DEF ListingInv, InfoInv, IInv, CardsTypeOK, Dirs
  <1> QED BY <1>1, <1>2, <1>8, <1>9, <1>10 DEF IInv, OnePort, WholeInv

-------------------------------------------------------------------------------
(* Files of the driver mc2.                                                    *)

LEMMA Write2Keeps ==
  ASSUME ~Disturbed, IInv, NEW dir \in Reached, NEW name \in Names, Write2(dir, name)
  PROVE  IInv'
  <1>1. PICK place \in Spots : place = Place(dir, name)
    BY PathFacts DEF IInv
  <1>2. PICK blocks \in Blocks : blocks = <<mcWrites + 1>>
    <2>1. PICK n \in Nat : n = mcWrites + 1
      BY DEF IInv, CardsTypeOK
    <2>2. <<n>> \in Blocks
      BY DEF Blocks
    <2> QED BY <2>1, <2>2
  <1>3. /\ mcFiles' = With(mcFiles, place, blocks) /\ mcSaved' = With(mcSaved, place, blocks)
        /\ mcDriver = "mc2" /\ Calm /\ mcAnswer' = NoAnswer /\ mcWrites' = mcWrites + 1
        /\ UNCHANGED <<mcDriver, file_mgmt, get_info_last, get_dir_count, relative_dir, mcListing, mcKnown>>
    BY <1>1, <1>2 DEF Write2, mcOpen
  <1>4. file_mgmt = << >> /\ \A p \in DOMAIN mcFiles : Len(mcFiles[p]) = 1
    BY <1>3 DEF IInv, WholeInv
  <1>5. ~Held(file_mgmt, place)
    BY <1>4 DEF Held
  <1>6. FilesInv(mcFiles', mcSaved', file_mgmt)
    BY <1>3, <1>5, Made DEF IInv
  <1>7. WholeInv'
    <2>1. DOMAIN mcFiles' = DOMAIN mcFiles \cup {place} /\ mcFiles'[place] = blocks
          /\ \A p \in DOMAIN mcFiles : p # place => mcFiles'[p] = mcFiles[p]
      <3>1. OnDisk(mcFiles)
        BY DEF IInv, FilesInv
      <3> QED BY <1>3, <3>1, WithFacts
    <2>2. Len(blocks) = 1
      BY <1>2
    <2> QED BY <1>3, <1>4, <2>1, <2>2 DEF WholeInv
  <1>8. ListingInv' /\ AnswersInv'
    BY <1>3, NoListingYet, NothingAnswered DEF IInv, ListingInv
  <1> QED BY <1>3, <1>6, <1>7, <1>8 DEF IInv, CardsTypeOK, OnePort, InfoInv

LEMMA Read2Keeps ==
  ASSUME IInv, NEW dir, NEW name, Read2(dir, name)
  PROVE  IInv'
  <1>1. PICK place : place = Place(dir, name)
    OBVIOUS
  <1>2. /\ mcAnswer' = [kind |-> "read", place |-> place, pos |-> 1, junk |-> FALSE, block |-> mcFiles[place][1]]
        /\ mcDriver = "mc2" /\ place \in DOMAIN mcFiles
        /\ UNCHANGED <<mcDriver, mcFiles, file_mgmt, get_info_last, get_dir_count, relative_dir,
                       mcListing, mcSaved, mcKnown, mcWrites>>
    BY <1>1 DEF Read2, Exists, mcDisk, mcOpen, mcGhost
  <1>3. Len(mcFiles[place]) = 1 /\ file_mgmt = << >>
    BY <1>2 DEF IInv, WholeInv
  <1>4. mcFiles[place] = mcSaved[place]
    <2>1. ~Held(file_mgmt, place)
      BY <1>3 DEF Held
    <2> QED BY <1>2, <2>1 DEF IInv, FilesInv
  <1>5. AnswersInv'
    <2>1. mcAnswer'.kind = "read" /\ mcAnswer'.place = place /\ mcAnswer'.pos = 1 /\ mcAnswer'.junk = FALSE
          /\ mcAnswer'.block = mcFiles[place][1]
      BY <1>2
    <2> QED BY <1>2, <1>3, <1>4, <2>1 DEF AnswersInv, ReadsWhatWasWritten, ListedWhole, ChangesTold
  <1>6. ListingInv'
    BY <1>2, SameListing DEF IInv
  <1> QED BY <1>2, <1>5, <1>6 DEF IInv, CardsTypeOK, OnePort, WholeInv, InfoInv

-------------------------------------------------------------------------------
(* The files of the cards are kept.                                            *)

LEMMA CardsStay ==
  ASSUME IInv, UNCHANGED mcVars
  PROVE  IInv'
  <1>1. UNCHANGED <<mcDriver, mcFiles, file_mgmt, get_info_last, get_dir_count, relative_dir,
                    mcListing, mcAnswer, mcSaved, mcKnown, mcWrites>>
    BY DEF mcVars, mcDisk, mcOpen, mcGhost
  <1>2. AnswersInv'
    BY <1>1 DEF IInv, AnswersInv, ReadsWhatWasWritten, ListedWhole, ChangesTold
  <1>3. ListingInv'
    BY <1>1, SameListing DEF IInv
  <1> QED BY <1>1, <1>2, <1>3 DEF IInv, CardsTypeOK, OnePort, WholeInv, InfoInv

LEMMA CardsStep ==
  ASSUME CardsAssumption, ~Disturbed, IInv, CardsNext
  PROVE  IInv'
  <1>1. \/ \E port \in Ports : GetInfo(port) \/ Format(port) \/ \E dir \in Dirs : GetDir(port, dir)
        \/ MakeDir \/ InitCards \/ CrashFiles \/ \E dir \in Dirs : ChangeDir(dir)
        \/ \E dir \in Reached, name \in Names :
             \/ DeleteFile(dir, name) \/ Write2(dir, name) \/ Read2(dir, name)
             \/ \E mode \in Modes : OpenFile(mode, dir, name)
        \/ \E fd \in {file_mgmt[i].fd : i \in DOMAIN file_mgmt} :
             ReadFile(fd) \/ WriteFile(fd) \/ FlushFile(fd) \/ CloseFile(fd)
    BY DEF CardsNext, Modes
  <1>2. CASE \E port \in Ports : GetInfo(port) \/ Format(port) \/ \E dir \in Dirs : GetDir(port, dir)
    BY <1>2, GetInfoKeeps, FormatKeeps, GetDirKeeps
  <1>3. CASE MakeDir \/ InitCards \/ \E dir \in Dirs : ChangeDir(dir)
    BY <1>3, DirectoriesKeep
  <1>4. CASE CrashFiles
    BY <1>4, CrashFilesKeeps
  <1>5. CASE \E dir \in Reached, name \in Names :
               \/ DeleteFile(dir, name) \/ Write2(dir, name) \/ Read2(dir, name)
               \/ \E mode \in Modes : OpenFile(mode, dir, name)
    BY <1>5, DeleteFileKeeps, Write2Keeps, Read2Keeps, OpenFileKeeps
  <1>6. CASE \E fd \in {file_mgmt[i].fd : i \in DOMAIN file_mgmt} :
               ReadFile(fd) \/ WriteFile(fd) \/ FlushFile(fd) \/ CloseFile(fd)
    BY <1>6, ReadFileKeeps, WriteFileKeeps, FlushFileKeeps, CloseFileKeeps
  <1> QED BY <1>1, <1>2, <1>3, <1>4, <1>5, <1>6

LEMMA WhatIsKept ==
  ASSUME IInv
  PROVE  CardsAreKept
  <1>1. OwnDescriptor
    BY DEF IInv, FilesInv, Own, OwnDescriptor
  <1>2. FlushedIsKept
    <2> SUFFICES ASSUME NEW p \in DOMAIN mcFiles,
                        \A i \in DOMAIN file_mgmt : file_mgmt[i].place = p => file_mgmt[i].buffer = << >>
                 PROVE  mcFiles[p] = mcSaved[p]
      BY DEF FlushedIsKept
    <2>1. CASE Held(file_mgmt, p)
      <3>1. PICK i \in DOMAIN file_mgmt : file_mgmt[i].place = p
        BY <2>1 DEF Held
      <3>2. Faithful(file_mgmt[i], mcFiles[p], mcSaved[p])
        BY <3>1 DEF IInv, FilesInv
      <3> QED BY <3>1, <3>2 DEF Faithful
    <2>2. CASE ~Held(file_mgmt, p)
      BY <2>2 DEF IInv, FilesInv
    <2> QED BY <2>1, <2>2
  <1> QED BY <1>1, <1>2 DEF IInv, AnswersInv, CardsAreKept

\* With a game that changes no directory while it lists one, and with mc2 on one
\* port alone, the invariant holds of every state the drivers reach.
THEOREM CardsInvariant ==
  ASSUME ~Disturbed
  PROVE  OnePort /\ CardsSpec => []IInv
  <1>1. CardsInit /\ OnePort => IInv
    BY CardsBegin
  <1>2. IInv /\ [CardsNext]_mcVars => IInv'
    BY CardsStep, CardsStay, CardsAssumption
  <1> QED BY <1>1, <1>2, PTL DEF CardsSpec

\* The files of a card are those the game has saved, each reached by its own
\* descriptor, read as written and kept through a crash; a directory listed to its
\* end is told whole, and no change of a card is kept from the game.
THEOREM CardsKeepFiles ==
  ASSUME ~Disturbed
  PROVE  OnePort /\ CardsSpec => []CardsAreKept
  BY CardsInvariant, WhatIsKept, PTL
================================================================================
