-------------------------------- MODULE Ext2 --------------------------------
(***************************************************************************)
(* The read-only ext2 driver of src/fs/ext2/ext2.c: how it finds an inode, *)
(* follows direct, single and double indirect blocks, and looks up a name. *)
(*                                                                         *)
(* v is a vfs_node_t of the driver: [dev, super, inode], the device it is  *)
(* on, the superblock and the number of the inode.  All reads go through   *)
(* VfsRead of the device; the driver never looks at their result.          *)
(***************************************************************************)
EXTENDS Devices

CONSTANTS NDIR,    \* direct block pointers of an inode
          PTR,     \* bytes of a block pointer
          DESC     \* bytes of a group descriptor

\* What the kernel keeps the bytes of blocks in, and those they point to: a
\* power of two fits an int, or nothing of it is left (see AsInt), for none of
\* the products is 2^31.  Blocks are 1024 << n bytes, at most 128 MB.
FitsInt(x) == x < W \div 2
IntOrZero(x) == FitsInt(x) \/ x % W = 0
PtrsIn(blk) == blk \div PTR
IntSizes(blk) ==
    /\ FitsInt(NDIR * blk)
    /\ IntOrZero(blk * PtrsIn(blk))
    /\ IntOrZero(blk * PtrsIn(blk) * PtrsIn(blk))

\* A superblock, a group descriptor, an inode and an entry of a directory.
Super == {s \in [blk : Nat \ {0}, sblock_num : Nat, ind_in_grp : Nat \ {0}, inode_size : Nat] :
            IntSizes(s.blk) /\ FitsInt(s.inode_size)}
Desc == [inode_st : Nat]
Inode == [size : Nat, direct : [0 .. (NDIR - 1) -> Nat], s_indirect : Nat, d_indirect : Nat]
Dirent == [name : Seq(STRING), inode : Nat]

ASSUME Ext2Assumption ==
    /\ NDIR \in Nat \ {0} /\ PTR \in Nat \ {0} /\ DESC \in Nat \ {0}
    /\ \A d \in IMAGES : /\ \A a \in DOMAIN d.supers : d.supers[a] \in Super
                         /\ \A a \in DOMAIN d.descs : d.descs[a] \in Desc
                         /\ \A a \in DOMAIN d.inodes : d.inodes[a] \in Inode
                         /\ \A a \in DOMAIN d.pointers : d.pointers[a] \in Nat
                         /\ \A a \in DOMAIN d.entries : d.entries[a] \in Seq(Dirent)

\* What the kernel finds at an address; the image gives what is not zero.
Decoded(image, a, zero) == IF a \in DOMAIN image THEN image[a] ELSE zero
NoDesc == [inode_st |-> 0]
NoInode == [size |-> 0, direct |-> [i \in 0 .. (NDIR - 1) |-> 0],
            s_indirect |-> 0, d_indirect |-> 0]

EXT2_ROOT_INODE == 2

Blksz(v) == v.super.blk

\* Byte address of a block, a product of 32-bit numbers.
BlockAddr(v, block) == (block * Blksz(v)) % W

\* Where a structure of size bytes was found on the disk.
Found(v, offset, size) ==
    LET data == VfsRead(v.dev, offset, size).data
    IN IF data = <<>> THEN STALE ELSE data[1]

\* ext2_read_inode
ReadInode(v) ==
    LET bg == (v.inode - 1) \div v.super.ind_in_grp
        id == (v.inode - 1) % v.super.ind_in_grp
        desc == Decoded(disk.descs,
                        Found(v, BlockAddr(v, v.super.sblock_num + 1) + bg * DESC, DESC), NoDesc)
    IN Decoded(disk.inodes,
               Found(v, (BlockAddr(v, desc.inode_st) + id * v.super.inode_size) % W,
                     v.super.inode_size), NoInode)

\* ext2_read_block_data
ReadBlockData(v, block, offset, size) ==
    Buffer(VfsRead(v.dev, BlockAddr(v, block) + offset, size), size)

\* The block pointers in an indirect block, numbered from 0.
Pointers(v, block) ==
    LET bytes == ReadBlockData(v, block, 0, Blksz(v))
    IN [i \in 0 .. (Blksz(v) \div PTR - 1) |-> Decoded(disk.pointers, bytes[i * PTR + 1], 0)]

\* Mutant: the copy starts with the first block of the chain.
ReadBlockChainFirst(v, chain, offset, size) ==
    LET Hole(b) == \E i \in 0 .. b : chain[i] = 0
        left(b) == size - b * Blksz(v)
        Piece(b) == ReadBlockData(v, chain[b], IF b = 0 THEN offset % Blksz(v) ELSE 0,
                                  IF left(b) > Blksz(v) THEN Blksz(v) ELSE left(b))
    IN [k \in 1 .. size |-> LET b == (k - 1) \div Blksz(v)
                            IN IF Hole(b) THEN STALE ELSE Piece(b)[k - b * Blksz(v)]]

\* ext2_read_block_chain reads piece after piece, one from every block, the
\* first from offset.  A hole ends the copy, the buffer keeps what it held.
ReadBlockChain(v, chain, offset, size) ==
    LET first == offset \div Blksz(v)
        Hole(b) == \E i \in 0 .. b : chain[first + i] = 0
        left(b) == size - b * Blksz(v)
        Piece(b) == ReadBlockData(v, chain[first + b], IF b = 0 THEN offset % Blksz(v) ELSE 0,
                                  IF left(b) > Blksz(v) THEN Blksz(v) ELSE left(b))
    IN [k \in 1 .. size |-> LET b == (k - 1) \div Blksz(v)
                            IN IF Hole(b) THEN STALE ELSE Piece(b)[k - b * Blksz(v)]]

\* The loop over the indirect blocks of a double indirect block, from the
\* first one whose data reach beyond offset or end there; start is where the
\* copy begins in that one.
ReadDouble(v, dibp, offset, size) ==
    LET ptrs == Blksz(v) \div PTR
        bytes_in_sibp == AsInt(Blksz(v) * ptrs)
        skip == CHOOSE i \in 0 .. ptrs :
                  /\ i = ptrs \/ offset - i * bytes_in_sibp <= bytes_in_sibp
                  /\ \A j \in 0 .. (i - 1) : offset - j * bytes_in_sibp > bytes_in_sibp
        start == offset - skip * bytes_in_sibp
        left(b) == start + size - b * bytes_in_sibp
        from(b) == IF b = 0 THEN start ELSE 0
        Piece(b) == ReadBlockChain(v, Pointers(v, dibp[skip + b]), from(b),
                        (IF left(b) > bytes_in_sibp THEN bytes_in_sibp ELSE left(b)) - from(b))
    IN [k \in 1 .. size |->
          LET p == start + k - 1
              b == p \div bytes_in_sibp
          IN Piece(b)[p - b * bytes_in_sibp - from(b) + 1]]

\* ext2_read_inode_data_ex: the parts of a request that lie in the direct,
\* the single indirect and the double indirect blocks; triple is missing.  The
\* bytes behind each kind are an int: for blocks of 4 kB and more those behind a
\* double indirect one wrap to 0, and that part is skipped.
ReadInodeDataEx(v, in, offset, size) ==
    LET ptrs == Blksz(v) \div PTR
        bytes_in_dbp == AsInt(NDIR * Blksz(v))
        bytes_in_sibp == AsInt(Blksz(v) * ptrs)
        bytes_in_dibp == AsInt(bytes_in_sibp * ptrs)
        Share(o, s, room) == IF s = 0 \/ o >= room THEN 0
                             ELSE IF o + s > room THEN room - o ELSE s
        Rest(o, room) == IF o < room THEN 0 ELSE o - room
        n1 == Share(offset, size, bytes_in_dbp)
        o2 == Rest(offset, bytes_in_dbp)
        n2 == Share(o2, size - n1, bytes_in_sibp)
        o3 == Rest(o2, bytes_in_sibp)
        n3 == Share(o3, size - n1 - n2, bytes_in_dibp)
    IN (IF n1 = 0 THEN <<>> ELSE ReadBlockChain(v, in.direct, offset, n1))
       \o (IF n2 = 0 THEN <<>>
           ELSE ReadBlockChain(v, Pointers(v, in.s_indirect), o2, n2))
       \o (IF n3 = 0 THEN <<>>
           ELSE ReadDouble(v, Pointers(v, in.d_indirect), o3, n3))
       \o [k \in 1 .. (size - n1 - n2 - n3) |-> STALE]

\* ext2_read
Ext2Read(v, offset, size) ==
    LET in == ReadInode(v)
    IN IF offset > in.size THEN Failed("EINVAL")
       ELSE [code |-> "ok",
             data |-> ReadInodeDataEx(v, in, offset,
                        IF offset + size > in.size THEN in.size - offset ELSE size)]

(***************************************************************************)
(* Directories: the entries in the direct blocks up to the first hole      *)
(***************************************************************************)
\* Mutant: one block is read.
EntriesOfOne(v) ==
    Decoded(disk.entries, Found(v, BlockAddr(v, ReadInode(v).direct[0]), Blksz(v)), <<>>)

\* ext2_read_inode_data, and the walk from entry to entry by their size.
Entries(v) ==
    LET direct == ReadInode(v).direct
        Block(q) == Decoded(disk.entries, Found(v, BlockAddr(v, direct[q]), Blksz(v)), <<>>)
        blocks == CHOOSE n \in 0 .. NDIR : /\ n = NDIR \/ direct[n] = 0
                                           /\ \A q \in 0 .. (n - 1) : direct[q] # 0
    IN FlattenSeq([q \in 1 .. blocks |-> Block(q - 1)])

\* ext2_finddir compares as many characters as the entry has: it takes the
\* first entry whose name begins the name asked for; 0 stands for NULL.
Ext2Finddir(v, name) ==
    LET es == Entries(v)
        hits == {i \in DOMAIN es : IsPrefix(es[i].name, name)}
    IN IF hits = {} THEN 0
       ELSE es[CHOOSE i \in hits : \A j \in hits : i <= j].inode

\* ext2_readdir: the entry of that number; 0 stands for EINVAL.
Ext2Readdir(v, index) ==
    LET es == Entries(v) IN IF index < Len(es) THEN es[index + 1].inode ELSE 0
=============================================================================
