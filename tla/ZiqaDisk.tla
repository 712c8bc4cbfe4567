------------------------------ MODULE ZiqaDisk ------------------------------
(***************************************************************************)
(* The on-disk structures of ZiqaFS (src/fs/ziqafs: block.rs, inode.rs,    *)
(* dir.rs) and the operations on them, as operators.                       *)
(*                                                                         *)
(* A block is a sequence of 32-bit words.  The data blocks are numbered    *)
(* from 1 and 0 is "no block"; superblock, bitmap, inode table and journal *)
(* are fields of their own.  Every write of a block is one step of the     *)
(* disk, so an operation in progress (a "call") carries the log of all     *)
(* disks it has produced: a power failure leaves one of them.              *)
(***************************************************************************)
EXTENDS Integers, Sequences, SequencesExt, FiniteSetsExt

CONSTANTS InodeCount,  \* INODE_COUNT; inode 0 is not used
          NBlocks,     \* data blocks of the device
          Words,       \* words in a block, an even number
          NDirect      \* direct block pointers of an inode

ASSUME ZiqaDiskAssumption ==
    /\ InodeCount \in Nat /\ InodeCount > 1
    /\ NBlocks \in Nat \ {0}
    /\ Words \in Nat /\ Words > 5 /\ Words % 2 = 0
    /\ NDirect \in Nat \ {0}

Inodes == 1 .. (InodeCount - 1)
Blocks == 1 .. NBlocks
ROOT_INODE == 1

-----------------------------------------------------------------------------
(* Words.  A word is a tuple that starts with its kind. *)

Num(n) == <<0, n>>              \* a block or inode number
Chars(c) == <<1, c>>            \* text: four bytes from 100 on, two or less below
LenSize(n, s) == <<2, n, s>>    \* name_len and entry_size of a directory entry
Crc(blk) == <<3, blk>>          \* crc32 of a block, taken to be injective

Zero == Num(0)
EmptyBlock == [i \in 1 .. Words |-> Zero]

Bad == -1                       \* no block, no inode: reading it is an error
AsNum(w) == IF w[1] = 0 THEN w[2] ELSE Bad

(* entry_size when the word is read as the second of a directory entry: a  *)
(* small number, or text of one or two bytes, has a zero upper half, and   *)
(* longer text gives a size that no block has.                             *)
EntrySize(w) ==
    CASE w[1] = 2 -> w[3]
      [] w[1] = 0 \/ (w[1] = 1 /\ w[2] < 100) -> 0
      [] OTHER -> Words + 1

-----------------------------------------------------------------------------
(* Inodes and disks *)

NoInode == [mode |-> "free", nlink |-> 0, size |-> 0,
            blocks |-> [i \in 1 .. NDirect |-> 0],
            indirect |-> 0, double |-> 0, isum |-> Zero, dsum |-> Zero,
            valid |-> FALSE]            \* a zeroed slot fails its checksum

(* A call in progress: log of disks, superblock in memory, whether it has  *)
(* failed, the value returned last and the inode it has in memory.         *)
Start(d, s) == [log |-> <<d>>, sb |-> s, ok |-> TRUE, val |-> 0, ino |-> NoInode]
Now(t) == t.log[Len(t.log)]
Put(t, d) == [t EXCEPT !.log = Append(@, d)]
Fail(t) == [t EXCEPT !.ok = FALSE]
Then(t, Op(_)) == IF t.ok THEN Op(t) ELSE t

(* read_block cannot read what is not a block of the device. *)
write_block(t, b, blk) == Put(t, [Now(t) EXCEPT !.data[b] = blk])

alloc_data_block(t) ==
    LET clear == Blocks \ Now(t).bitmap IN
    IF clear = {} THEN Fail(t)
    ELSE LET b == Min(clear)
             marked == Put(t, [Now(t) EXCEPT !.bitmap = @ \cup {b}])
         IN  [write_block(marked, b, EmptyBlock) EXCEPT
                 !.sb.free_blocks = Max({0, @ - 1}), !.val = b]

free_data_block(t, b) ==
    IF b \notin Blocks THEN Fail(t)
    ELSE [Put(t, [Now(t) EXCEPT !.bitmap = @ \ {b}]) EXCEPT !.sb.free_blocks = @ + 1]

read_inode(t, i) ==
    IF i \in Inodes /\ Now(t).inodes[i].valid
    THEN [t EXCEPT !.ino = Now(t).inodes[i]] ELSE Fail(t)

write_inode(t, i) == Put(t, [Now(t) EXCEPT !.inodes[i] = [t.ino EXCEPT !.valid = TRUE]])

(* Mutant of alloc_inode: the count is not saturated. *)
alloc_inode_unsaturated(t, mode) ==
    LET free == { i \in Inodes : Now(t).inodes[i].mode = "free" } IN
    IF free = {} THEN Fail(t)
    ELSE LET i == Min(free)
             made == [t EXCEPT !.ino = [NoInode EXCEPT !.mode = mode, !.nlink = 1]]
         IN  [write_inode(made, i) EXCEPT !.sb.free_inodes = @ - 1, !.val = i]

(* inode_find_free takes a slot for free when its first byte is zero, the  *)
(* low byte of the checksum; a checksum in use is taken not to end so.     *)
alloc_inode(t, mode) ==
    LET free == { i \in Inodes : Now(t).inodes[i].mode = "free" } IN
    IF free = {} THEN Fail(t)
    ELSE LET i == Min(free)
             made == [t EXCEPT !.ino = [NoInode EXCEPT !.mode = mode, !.nlink = 1]]
         IN  [write_inode(made, i) EXCEPT
                 !.sb.free_inodes = Max({0, @ - 1}), !.val = i]

free_inode(t, i) ==
    [Put(t, [Now(t) EXCEPT !.inodes[i] = NoInode]) EXCEPT !.sb.free_inodes = @ + 1]

-----------------------------------------------------------------------------
(* The block map of an inode.  inode_get_block and inode_set_block take a  *)
(* pointer block for pairs of a block and a checksum; the other operations *)
(* take it for single block numbers.                                       *)

Pairs == Words \div 2

(* The pair at idx of pointer block b, which must match checksum sum. *)
Pair(d, b, sum, idx) ==
    IF b = 0 THEN <<Zero, Zero>>
    ELSE IF b \notin Blocks \/ (sum # Zero /\ sum # Crc(d.data[b])) THEN <<Num(Bad), Zero>>
    ELSE <<d.data[b][2 * idx + 1], d.data[b][2 * idx + 2]>>

inode_get_block(d, ino, l) ==
    LET idx == l - NDirect
        idx2 == idx - Pairs
        l1 == Pair(d, ino.double, ino.dsum, idx2 \div Pairs)
    IN  IF l < NDirect THEN ino.blocks[l + 1]
        ELSE IF idx < Pairs THEN AsNum(Pair(d, ino.indirect, ino.isum, idx)[1])
        ELSE IF idx2 < Pairs * Pairs
             THEN AsNum(Pair(d, AsNum(l1[1]), l1[2], idx2 % Pairs)[1])
        ELSE Bad

(* Pointer field f of the inode in memory, allocated when it is 0. *)
Pointer(t, f) ==
    IF t.ino[f] # 0 THEN t
    ELSE Then(alloc_data_block(t), LAMBDA a : [a EXCEPT !.ino[f] = a.val])

inode_set_block(t, l, b) ==
    LET idx == l - NDirect
        idx2 == idx - Pairs
    IN  IF l < NDirect THEN [t EXCEPT !.ino.blocks[l + 1] = b]
        ELSE IF idx < Pairs
        THEN Then(Pointer(t, "indirect"), LAMBDA a :
               LET p == a.ino.indirect
                   blk == [Now(a).data[p] EXCEPT ![2 * idx + 1] = Num(b),
                                                 ![2 * idx + 2] = Zero]
               IN  [write_block(a, p, blk) EXCEPT !.ino.isum = Crc(blk)])
        ELSE IF idx2 < Pairs * Pairs
        THEN Then(Pointer(t, "double"), LAMBDA a :
               LET p == a.ino.double
                   w == 2 * (idx2 \div Pairs) + 1
                   l1 == Now(a).data[p]
               IN  Then(IF l1[w] # Zero THEN [a EXCEPT !.val = AsNum(l1[w])]
                        ELSE alloc_data_block(a), LAMBDA c :
                     IF c.val \notin Blocks THEN Fail(c)
                     ELSE LET w2 == 2 * (idx2 % Pairs) + 1
                              l2 == [Now(c).data[c.val] EXCEPT ![w2] = Num(b), ![w2 + 1] = Zero]
                              new1 == [l1 EXCEPT ![w] = Num(c.val), ![w + 1] = Crc(l2)]
                          IN  [write_block(write_block(c, c.val, l2), p, new1)
                                  EXCEPT !.ino.dsum = Crc(new1)]))
        ELSE Fail(t)

(* Word w of pointer block p, allocated when it is 0. *)
Entry(t, p, w) ==
    IF p \notin Blocks THEN Fail(t)
    ELSE IF Now(t).data[p][w] # Zero THEN [t EXCEPT !.val = AsNum(Now(t).data[p][w])]
    ELSE Then(alloc_data_block(t), LAMBDA a :
           write_block(a, p, [Now(t).data[p] EXCEPT ![w] = Num(a.val)]))

inode_alloc_block(t, l) ==
    LET idx == l - NDirect
        idx2 == idx - Words
    IN  IF l < NDirect
        THEN IF t.ino.blocks[l + 1] # 0 THEN [t EXCEPT !.val = t.ino.blocks[l + 1]]
             ELSE Then(alloc_data_block(t), LAMBDA a : [a EXCEPT !.ino.blocks[l + 1] = a.val])
        ELSE IF idx < Words
        THEN Then(Pointer(t, "indirect"), LAMBDA a : Entry(a, a.ino.indirect, idx + 1))
        ELSE IF idx2 < Words * Words
        THEN Then(Pointer(t, "double"), LAMBDA a :
               Then(Entry(a, a.ino.double, (idx2 \div Words) + 1), LAMBDA c :
                 Entry(c, c.val, (idx2 % Words) + 1)))
        ELSE Fail(t)

(* Loops: Op on the call for each element of s in turn, until one fails. *)
ForEach(t, s, Op(_, _)) ==
    FoldLeft(LAMBDA acc, x : IF acc.ok THEN Op(acc, x) ELSE acc, t, s)

Pointers(blk) == SelectSeq(blk, LAMBDA w : w # Zero)

free_inode_blocks(t, ino) ==
    LET Table(a, p, Op(_, _)) ==        \* a pointer block, after its entries
            IF p = 0 THEN a
            ELSE Then(ForEach(a, Pointers(Now(a).data[p]), Op),
                      LAMBDA x : free_data_block(x, p))
        FreeWord(a, w) == free_data_block(a, AsNum(w))
        FreeL1(a, w) == IF AsNum(w) \in Blocks THEN Table(a, AsNum(w), FreeWord) ELSE Fail(a)
        direct == ForEach(t, SelectSeq(ino.blocks, LAMBDA b : b # 0), free_data_block)
        single == Then(direct, LAMBDA a : Table(a, ino.indirect, FreeWord))
    IN  Then(single, LAMBDA a : Table(a, ino.double, FreeL1))

-----------------------------------------------------------------------------
(* Directories: each block is a list of entries, an inode number, name_len *)
(* and entry_size, and the name.  A removed entry keeps its size and has   *)
(* inode number 0.                                                         *)

(* dirent_foreach: the entries in order, up to the first that has no size. *)
dirents(blk) ==
    LET from[off \in 0 .. Words] ==
            IF off + 2 > Words THEN << >>
            ELSE LET es == EntrySize(blk[off + 2]) IN
                 IF es < 2 \/ off + es > Words THEN << >>
                 ELSE (IF blk[off + 1] = Zero THEN << >>
                       ELSE << [id |-> AsNum(blk[off + 1]),
                                name |-> SubSeq(blk, off + 3, off + 2 + blk[off + 2][2])] >>)
                      \o from[off + es]
    IN  from[0]

(* find_entry keeps the last match; 0 for none. *)
find_entry(blk, name) ==
    LET found == SelectSeq(dirents(blk), LAMBDA e : e.name = name)
    IN  IF found = << >> THEN 0 ELSE Last(found).id

(* Where write_entry_raw puts an entry of this size, Bad when it is full:  *)
(* at the first removed entry, whatever its size, or where the list ends.  *)
FreeOffset(blk, size) ==
    LET from[off \in 0 .. Words] ==
            IF off + size > Words THEN Bad
            ELSE IF blk[off + 1] = Zero THEN off
            ELSE LET es == EntrySize(blk[off + 2]) IN
                 IF es < 2 THEN off
                 ELSE IF off + es > Words THEN Bad
                 ELSE from[off + es]
    IN  from[0]

Fits(blk, name) == FreeOffset(blk, 2 + Len(name)) # Bad

write_entry_raw(blk, id, name) ==
    LET off == FreeOffset(blk, 2 + Len(name))
        entry == <<Num(id), LenSize(Len(name), 2 + Len(name))>> \o name
    IN  [i \in 1 .. Words |->
            IF i - off \in DOMAIN entry THEN entry[i - off] ELSE blk[i]]

(* Where remove_entry_raw finds inode id first, Bad for nowhere. *)
OffsetOf(blk, id) ==
    LET from[off \in 0 .. Words] ==
            IF off + 2 > Words THEN Bad
            ELSE LET es == EntrySize(blk[off + 2]) IN
                 IF es < 2 \/ off + es > Words THEN Bad
                 ELSE IF AsNum(blk[off + 1]) = id THEN off
                 ELSE from[off + es]
    IN  from[0]

remove_entry_raw(blk, id) == [blk EXCEPT ![OffsetOf(blk, id) + 1] = Zero]

BlocksFor(size) == (size + Words - 1) \div Words

(* The blocks of a directory that are there, in order. *)
DirBlocks(d, ino) ==
    SelectSeq([l \in 1 .. BlocksFor(ino.size) |-> inode_get_block(d, ino, l - 1)],
              LAMBDA b : b # 0)

Readable(d, ino) == \A b \in ToSet(DirBlocks(d, ino)) : b \in Blocks

(* The inode of a name, from the first block that has it; 0 for none. *)
lookup_in_dir(d, ino, name) ==
    LET found == SelectSeq([l \in DOMAIN DirBlocks(d, ino) |->
                              find_entry(d.data[DirBlocks(d, ino)[l]], name)],
                           LAMBDA id : id # 0)
    IN  IF found = << >> THEN 0 ELSE Head(found)

dir_add_entry(t, parent, id, name) ==
    Then(read_inode(t, parent), LAMBDA r :
      LET dir == DirBlocks(Now(r), r.ino)
          room == SelectSeq(dir, LAMBDA b : Fits(Now(r).data[b], name))
          l == BlocksFor(r.ino.size)
      IN  IF ~Readable(Now(r), r.ino) THEN Fail(r)
          ELSE IF room # << >>
          THEN write_block(r, Head(room), write_entry_raw(Now(r).data[Head(room)], id, name))
          ELSE Then(inode_alloc_block(r, l), LAMBDA a :
                 write_block(write_inode([a EXCEPT !.ino.size = (l + 1) * Words], parent),
                             a.val, write_entry_raw(EmptyBlock, id, name))))

Dot == <<Chars(1)>>
DotDot == <<Chars(2)>>

init_dir_block(t, id, parent) ==
    Then(alloc_data_block(t), LAMBDA a :
      Then(read_inode(a, id), LAMBDA r :
        write_block(write_inode([r EXCEPT !.ino.blocks[1] = a.val, !.ino.size = Words], id),
                    a.val,
                    write_entry_raw(write_entry_raw(EmptyBlock, id, Dot), parent, DotDot))))
=============================================================================
