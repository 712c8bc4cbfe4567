------------------------------- MODULE ZiqaFS -------------------------------
(***************************************************************************)
(* ZiqaFS, the file system of src/fs/ziqafs: the operations of file.rs and *)
(* the journal on the structures of ZiqaDisk, a power failure at any write *)
(* to the device, and the mount of the next boot.                          *)
(*                                                                         *)
(* Every operation runs under the one lock of the file system, so an       *)
(* operation is one action: it returns, with or without an error, or the   *)
(* power fails after any of its writes.                                    *)
(***************************************************************************)
EXTENDS ZiqaDisk, FiniteSets

CONSTANTS Names,       \* file names, sequences of words
          Values,      \* words written to files
          Offsets,     \* offsets of writes and truncations, in words
          Lengths,     \* lengths of writes, in words
          MaxLinks,    \* bound: links are added to inodes with fewer
          MaxCrashes,  \* bound: power failures in a behaviour
          Workloads    \* sets of operations; a behaviour uses one of them

VARIABLES disk,      \* what the device holds
          sb,        \* ZiqaFs.sb, the superblock in memory
          crashes,   \* power failures so far
          workload   \* the operations of this behaviour

vars == <<disk, sb, crashes, workload>>

Counts == [free_blocks : Nat, free_inodes : Nat]

TypeOK ==
    /\ sb \in Counts /\ disk.sb \in Counts
    /\ disk.bitmap \subseteq Blocks
    /\ disk.journal \subseteq Inodes
    /\ \A b \in Blocks : DOMAIN disk.data[b] = 1 .. Words
    /\ \A i \in Inodes :
         LET ino == disk.inodes[i] IN
         /\ ino.mode \in {"free", "file", "dir"}
         /\ ino.nlink \in Nat /\ ino.size \in Nat
         /\ \A b \in ToSet(ino.blocks) \cup {ino.indirect, ino.double} :
              b \in Blocks \cup {0}
    /\ crashes \in 0 .. MaxCrashes
    /\ workload \in Workloads

-----------------------------------------------------------------------------
(* format, mount, superblock *)

flush_superblock(t) == Put(t, [Now(t) EXCEPT !.sb = t.sb])

BlankDisk ==
    [sb |-> [free_blocks |-> NBlocks, free_inodes |-> InodeCount - 1],
     bitmap |-> {}, journal |-> {},
     inodes |-> [i \in Inodes |-> NoInode],
     data |-> [b \in Blocks |-> EmptyBlock]]

create_root_dir(t) ==
    Then(alloc_inode(t, "dir"), LAMBDA i :
      Then(alloc_data_block(i), LAMBDA a :
        LET r == read_inode(a, i.val)
            w == write_inode([r EXCEPT !.ino.blocks[1] = a.val, !.ino.size = Words], i.val)
        IN  write_block(w, a.val, write_entry_raw(EmptyBlock, i.val, Dot))))

format == flush_superblock(create_root_dir(Start(BlankDisk, BlankDisk.sb)))

Init ==
    /\ disk = Now(format)
    /\ sb = format.sb
    /\ crashes = 0
    /\ workload \in Workloads

(* The end of a call: it returns, or the power fails after one of its      *)
(* writes and the next boot mounts what is there (mount reads the          *)
(* superblock and replays nothing).                                        *)
mount(d) == disk' = d /\ sb' = d.sb

Return(t) == disk' = Now(t) /\ sb' = t.sb /\ UNCHANGED crashes

PowerFailure(t) ==
    /\ "crash" \in workload /\ crashes < MaxCrashes
    /\ \E k \in DOMAIN t.log : mount(t.log[k])
    /\ crashes' = crashes + 1

Run(service, t) ==
    /\ service \in workload
    /\ Return(t) \/ PowerFailure(t)
    /\ UNCHANGED workload

Call == Start(disk, sb)

-----------------------------------------------------------------------------
(* Names *)

(* root_lookup: the inodes that a path leads to. *)
Subdirs(d, S) ==
    S \cup UNION { { e.id : e \in ToSet(dirents(d.data[b])) } :
                   b \in UNION { ToSet(DirBlocks(d, d.inodes[i])) \cap Blocks :
                                 i \in { j \in S \cap Inodes : d.inodes[j].mode = "dir" } } }
Reach(d) ==
    LET near[n \in 0 .. (InodeCount - 2)] ==
            IF n = 0 THEN {ROOT_INODE} ELSE Subdirs(d, near[n - 1])
    IN  near[InodeCount - 2]

root_lookup(d) == Reach(d) \cap Inodes
Files(d) == { i \in root_lookup(d) : d.inodes[i].mode = "file" }
Dirs(d) == { i \in root_lookup(d) : d.inodes[i].mode = "dir" }

(* Every name of the tree: the directory, the name, and the inode. *)
Tree(d) ==
    { <<i, e.name, e.id>> : <<i, e>> \in
        UNION { { <<i, e>> : e \in UNION { ToSet(dirents(d.data[b])) :
                                             b \in ToSet(DirBlocks(d, d.inodes[i])) \cap Blocks } } :
                i \in Dirs(d) } }
NamesIn(d) == { e \in Tree(d) : e[2] \notin {Dot, DotDot} }

(* The checks that create_file and create_dir start with. *)
NewName(t, p, name) ==
    Then(read_inode(t, p), LAMBDA r :
      IF r.ino.mode # "dir" \/ ~Readable(Now(r), r.ino)
         \/ lookup_in_dir(Now(r), r.ino, name) # 0
      THEN Fail(r) ELSE r)

CreateFile(t, p, name) ==
    Then(NewName(t, p, name), LAMBDA r :
      Then(alloc_inode(r, "file"), LAMBDA a :
        Then(dir_add_entry(a, p, a.val, name), LAMBDA x :
          [flush_superblock(x) EXCEPT !.val = a.val])))

create_file(p, name) == Run("create", CreateFile(Call, p, name))

create_dir(p, name) ==
    Run("mkdir", Then(NewName(Call, p, name), LAMBDA r :
      Then(alloc_inode(r, "dir"), LAMBDA a :
        Then(init_dir_block(a, a.val, p), LAMBDA x :
          Then(dir_add_entry(x, p, a.val, name), flush_superblock)))))

(* Mutant of Drop: the blocks are forgotten. *)
DropInode(t, id) == IF t.ino.nlink = 0 THEN free_inode(t, id) ELSE write_inode(t, id)

(* The end of unlink: the inode in memory has lost a name. *)
Drop(t, id) ==
    IF t.ino.nlink = 0
    THEN Then(free_inode_blocks(t, t.ino), LAMBDA x : free_inode(x, id))
    ELSE write_inode(t, id)

(* Mutant of Unlink: the inode goes before its name. *)
UnlinkInodeFirst(t, p, name) ==
    Then(read_inode(t, p), LAMBDA r :
      LET dir == DirBlocks(Now(r), r.ino)
          found == SelectSeq(dir, LAMBDA b : find_entry(Now(r).data[b], name) # 0)
          b == Last(found)
          id == find_entry(Now(r).data[b], name)
      IN  IF ~Readable(Now(r), r.ino) \/ found = << >> THEN Fail(r)
          ELSE Then(read_inode(r, id), LAMBDA x :
                 LET y == Drop([x EXCEPT !.ino.nlink = Max({0, @ - 1})], id)
                 IN  Then(write_block(y, b, remove_entry_raw(Now(y).data[b], id)),
                          flush_superblock)))

Unlink(t, p, name) ==
    Then(read_inode(t, p), LAMBDA r :
      LET dir == DirBlocks(Now(r), r.ino)
          found == SelectSeq(dir, LAMBDA b : find_entry(Now(r).data[b], name) # 0)
          b == Last(found)
          id == find_entry(Now(r).data[b], name)
      IN  IF ~Readable(Now(r), r.ino) \/ found = << >> THEN Fail(r)
          ELSE Then(read_inode(r, id), LAMBDA x :
                 LET y == write_block([x EXCEPT !.ino.nlink = Max({0, @ - 1})],
                                      b, remove_entry_raw(Now(x).data[b], id))
                 IN  Then(Drop(y, id), flush_superblock)))

unlink(p, name) == Run("unlink", Unlink(Call, p, name))

(* rename removes the first entry of the inode and adds the new name; it   *)
(* neither looks whether the new name is taken nor flushes the superblock. *)
(* Like link it leaves it to the caller that the new parent is a directory.*)
Rename(t, p, name, q, new) ==
    Then(read_inode(t, p), LAMBDA r :
      LET dir == DirBlocks(Now(r), r.ino)
          id == lookup_in_dir(Now(r), r.ino, name)
          found == SelectSeq(dir, LAMBDA b : OffsetOf(Now(r).data[b], id) # Bad)
          b == Head(found)
      IN  IF ~Readable(Now(r), r.ino) \/ id = 0 THEN Fail(r)
          ELSE dir_add_entry(write_block(r, b, remove_entry_raw(Now(r).data[b], id)),
                             q, id, new))

rename(p, name, q, new) == Run("rename", Rename(Call, p, name, q, new))

(* Mutant of Link: the name is added before the count is written. *)
LinkNameFirst(t, i, q, name) ==
    Then(read_inode(t, i), LAMBDA x :
      Then(NewName(x, q, name), LAMBDA y :
        IF x.ino.mode = "dir" THEN Fail(x)
        ELSE LET ino == [x.ino EXCEPT !.nlink = @ + 1]
             IN  Then(dir_add_entry(y, q, i, name), LAMBDA z :
                   write_inode([z EXCEPT !.ino = ino], i))))

(* link: the journal is the one place that journal_commit is called from.  *)
journal_commit(t, i) == Put(t, [Now(t) EXCEPT !.journal = @ \cup {i}])

Link(t, i, q, name) ==
    Then(read_inode(t, i), LAMBDA x :
      Then(read_inode(x, q), LAMBDA y :
        IF x.ino.mode = "dir" \/ ~Readable(Now(y), y.ino)
           \/ lookup_in_dir(Now(y), y.ino, name) # 0
        THEN Fail(y)
        ELSE LET ino == [x.ino EXCEPT !.nlink = @ + 1]
             IN  dir_add_entry(write_inode([journal_commit(y, i) EXCEPT !.ino = ino], i),
                               q, i, name)))

link(i, q, name) == Run("link", Link(Call, i, q, name))

(* journal_replay, a call of its own: the first 56 bytes of every inode in *)
(* the journal, with the checksum from before the change, a block pointer  *)
(* overwritten by the CRC of the entry.  The inode cannot be read again.   *)
journal_replay ==
    /\ "replay" \in workload
    /\ disk' = [disk EXCEPT !.inodes =
                  [i \in Inodes |-> IF i \in disk.journal
                                    THEN [@[i] EXCEPT !.valid = FALSE] ELSE @[i]]]
    /\ UNCHANGED <<sb, crashes, workload>>

-----------------------------------------------------------------------------
(* Contents *)

(* The words of a file, up to the first block that is not there. *)
read_file(d, i) ==
    LET ino == d.inodes[i]
        word(k) == LET b == inode_get_block(d, ino, k \div Words)
                   IN  IF b \in Blocks THEN d.data[b][(k % Words) + 1] ELSE <<Bad>>
    IN  [k \in 1 .. ino.size |-> word(k - 1)]

(* Mutant of WriteBlock: the block is written in place, the old one freed. *)
WriteBlockInPlace(t, l, off, buf) ==
    LET old == inode_get_block(Now(t), t.ino, l)
        from == IF old = 0 THEN EmptyBlock ELSE Now(t).data[old]
        blk == [w \in 1 .. Words |->
                  IF l * Words + w - off \in DOMAIN buf
                  THEN buf[l * Words + w - off] ELSE from[w]]
    IN  IF old = 0
        THEN Then(alloc_data_block(t), LAMBDA a :
               inode_set_block(write_block(a, a.val, blk), l, a.val))
        ELSE free_data_block(write_block(t, old, blk), old)

(* One turn of the loop of write_file: a new block takes the place of the  *)
(* old one.                                                                *)
WriteBlock(t, l, off, buf) ==
    LET old == inode_get_block(Now(t), t.ino, l)
        from == IF old = 0 THEN EmptyBlock ELSE Now(t).data[old]
        blk == [w \in 1 .. Words |->
                  IF l * Words + w - off \in DOMAIN buf
                  THEN buf[l * Words + w - off] ELSE from[w]]
    IN  IF old \notin Blocks \cup {0} THEN Fail(t)
        ELSE Then(alloc_data_block(t), LAMBDA a :
               Then(inode_set_block(write_block(a, a.val, blk), l, a.val), LAMBDA s :
                 IF old = 0 \/ old = a.val THEN s ELSE free_data_block(s, old)))

Range0(a, b) == [k \in 1 .. (b - a) |-> a + k - 1]      \* a, a + 1, ..., b - 1

WriteFile(t, i, off, buf) ==
    Then(read_inode(t, i), LAMBDA r :
      IF r.ino.mode = "dir" THEN Fail(r)
      ELSE Then(ForEach(r, Range0(off \div Words, BlocksFor(off + Len(buf))),
                        LAMBDA a, l : WriteBlock(a, l, off, buf)), LAMBDA x :
             flush_superblock(
               write_inode([x EXCEPT !.ino.size = Max({@, off + Len(buf)})], i))))

(* File::write: one block at most for "write", any number for "multi". *)
OneBlock(off, n) == off \div Words = (off + n - 1) \div Words
write_file(i, off, n, v) ==
    Run(IF OneBlock(off, n) THEN "write" ELSE "multi",
        WriteFile(Call, i, off, [k \in 1 .. n |-> Chars(v)]))

(* truncate writes the direct blocks past the end back as they are, and    *)
(* clears one word of the indirect block for the others.                   *)
TruncateBlock(t, l) ==
    LET b == inode_get_block(Now(t), t.ino, l)
        idx == l - NDirect
    IN  IF b \notin Blocks \cup {0} THEN Fail(t)
        ELSE IF b = 0 THEN t
        ELSE IF l < NDirect THEN write_block(t, b, Now(t).data[b])
        ELSE IF idx < Words /\ t.ino.indirect # 0
        THEN write_block(t, t.ino.indirect,
                         [Now(t).data[t.ino.indirect] EXCEPT ![idx + 1] = Zero])
        ELSE t

(* The tail of the last block that stays is cleared. *)
TruncateTail(t, n) ==
    LET b == inode_get_block(Now(t), t.ino, (n - 1) \div Words)
    IN  IF n % Words = 0 \/ b = 0 THEN t
        ELSE IF b \notin Blocks THEN Fail(t)
        ELSE write_block(t, b, [w \in 1 .. Words |->
                                  IF w > n % Words THEN Zero ELSE Now(t).data[b][w]])

Truncate(t, i, n) ==
    Then(read_inode(t, i), LAMBDA r :
      IF r.ino.mode = "dir" THEN Fail(r)
      ELSE Then(ForEach(r, Range0(BlocksFor(n), BlocksFor(r.ino.size)), TruncateBlock), LAMBDA x :
             Then(TruncateTail(x, n), LAMBDA y :
               flush_superblock(write_inode([y EXCEPT !.ino.size = n], i)))))

truncate(i, n) == Run("truncate", Truncate(Call, i, n))

(* copy_file: a new file, then one write_file for every block that is      *)
(* there, its last one cut to the size.                                    *)
CopyFile(t, i, q, name) ==
    Then(read_inode(t, i), LAMBDA r :
      IF r.ino.mode = "dir" THEN Fail(r)
      ELSE Then(CreateFile(r, q, name), LAMBDA c :
             ForEach(c, Range0(0, BlocksFor(r.ino.size)), LAMBDA a, l :
               LET b == inode_get_block(Now(a), r.ino, l)
                   n == Min({Words, r.ino.size - l * Words})
               IN  IF b = 0 THEN a
                   ELSE IF b \notin Blocks THEN Fail(a)
                   ELSE WriteFile(a, c.val, l * Words, SubSeq(Now(a).data[b], 1, n)))))

copy_file(i, name) == Run("copy", CopyFile(Call, i, ROOT_INODE, name))

Next ==
    \/ \E p \in root_lookup(disk), name \in Names : create_file(p, name)
    \/ \E p \in root_lookup(disk), name \in Names : create_dir(p, name)
    \/ \E p \in root_lookup(disk), name \in Names : unlink(p, name)
    \/ \E i \in root_lookup(disk), q \in Dirs(disk), name \in Names :
          disk.inodes[i].nlink < MaxLinks /\ link(i, q, name)
    \/ \E p \in root_lookup(disk), q \in Dirs(disk), name, new \in Names :
          rename(p, name, q, new)
    \/ \E i \in root_lookup(disk), name \in Names : copy_file(i, name)
    \/ \E i \in root_lookup(disk), off \in Offsets, n \in Lengths, v \in Values :
          write_file(i, off, n, v)
    \/ \E i \in root_lookup(disk), off \in Offsets : truncate(i, off)
    \/ journal_replay

Spec == Init /\ [][Next]_vars

-----------------------------------------------------------------------------
(* Properties *)

(* fsck: blocks that are marked and reached from no inode, and the number  *)
(* of free inodes.                                                         *)
fsck(d, s) ==
    LET live == { i \in Inodes : d.inodes[i].valid }
        reachable == UNION { ToSet(DirBlocks(d, d.inodes[i])) \cup
                             {d.inodes[i].indirect, d.inodes[i].double} : i \in live }
    IN  /\ d.bitmap \subseteq reachable
        /\ s.free_inodes = Cardinality(Inodes) - Cardinality(live)

(* Every block pointer of an inode, the ones in its pointer blocks too. *)
References(d, i) ==
    LET ino == d.inodes[i]
        Table(b) == IF b \notin Blocks THEN << >>
                    ELSE SelectSeq([w \in 1 .. Words |-> AsNum(d.data[b][w])],
                                   LAMBDA p : p \in Blocks)
        l1 == Table(ino.double)
    IN  SelectSeq(ino.blocks \o <<ino.indirect, ino.double>>, LAMBDA b : b # 0)
        \o Table(ino.indirect) \o l1 \o FlattenSeq([k \in DOMAIN l1 |-> Table(l1[k])])

(* The operations after which the disk may be wrong: a write of several    *)
(* blocks that runs out of space, a power failure in write_file, and a     *)
(* replay of the journal.                                                  *)
Safe ==
    /\ workload \cap {"multi", "replay"} = {} /\ ~({"mkdir", "rename"} \subseteq workload)
    /\ "crash" \in workload => workload \cap {"write", "copy"} = {}

Owned(d) ==
    LET S == root_lookup(d)
        refs == FlattenSeq([k \in 1 .. Cardinality(S) |-> References(d, SetToSeq(S)[k])])
    IN  IsInjective(refs) /\ ToSet(refs) \subseteq d.bitmap

(* Every block that a file or directory of the tree uses is marked in the  *)
(* bitmap and used in one place: the next alloc_data_block cannot give it  *)
(* to another file.                                                        *)
BlocksOwned == Safe => Owned(disk)

(* The same with no exception: what a file system with a journal, replayed *)
(* "on mount for crash recovery", is there for.                            *)
BlocksOwnedAlways == Owned(disk)

(* Every name leads to an inode that is in use: create_file and create_dir *)
(* make the inode before the name and unlink takes the name first, so this *)
(* holds after a power failure as well.                                    *)
NamesAreLive ==
    Safe => \A e \in NamesIn(disk) : e[3] \in Inodes /\ disk.inodes[e[3]].valid

(* The link count of a file is at least the number of its names, so unlink *)
(* frees no file that has a name left; link counts first and unlink counts *)
(* last, so a power failure can only leave it too high.                    *)
LinksCounted ==
    Safe => \A i \in Files(disk) :
        Cardinality({ e \in NamesIn(disk) : e[3] = i }) <= disk.inodes[i].nlink

(* Without power failures and truncation fsck never reports an error: no   *)
(* operation leaks a block, even one that fails halfway.                   *)
FsckClean ==
    workload \subseteq {"create", "mkdir", "unlink"} => fsck(disk, sb)

Rewritten == { i \in Inodes : read_file(disk, i) # read_file(disk', i) }

(* A step changes the contents of one file at most: write_file, truncate,  *)
(* copy_file and the reuse of freed blocks leave every other file alone.   *)
OthersUntouched ==
    [][Safe => Cardinality({ i \in Rewritten : i \in Files(disk) /\ i \in Files(disk') }) <= 1]_vars

(* A step that adds a name takes none away: dir_add_entry "reads each      *)
(* existing directory block to find a free slot", and what is in use is no *)
(* free slot.                                                              *)
NamesKept ==
    [][NamesIn(disk') \ NamesIn(disk) # {} => NamesIn(disk) \subseteq NamesIn(disk')]_vars
=============================================================================
