---------------------------- MODULE MCFileSystem ----------------------------
EXTENDS FileSystem

\* A sector of 2 bytes, blocks of 4, two direct pointers and two pointers in a
\* block.  Blocks 1, 2, 3 and 4 of the file system hold the superblock, the
\* group descriptors and the inodes of two groups of three.
Files == (2 :> <<5, 7>>) @@ (3 :> <<9>>) @@ (4 :> <<12, 10, 14, 6>>)
         @@ (5 :> <<17, 8, 20, 16, 11, 19, 23, 15>>)
Sizes == (2 :> 8) @@ (3 :> 3) @@ (4 :> 14) @@ (5 :> 32)
SInd == (4 :> 13) @@ (5 :> 18)
DInd == 21
DSub == <<22, 24>>

Names == <<[name |-> <<"a">>, inode |-> 3], [name |-> <<"b", "a">>, inode |-> 4],
           [name |-> <<"c">>, inode |-> 5]>>

At(base, block) == base + 4 * block
NthBlock(ino, k) == IF k <= Len(Files[ino]) THEN Files[ino][k] ELSE 0
InodeOf(ino) == [size |-> Sizes[ino], direct |-> [i \in 0 .. 1 |-> NthBlock(ino, i + 1)],
               s_indirect |-> IF ino \in DOMAIN SInd THEN SInd[ino] ELSE 0,
               d_indirect |-> IF ino = 5 THEN DInd ELSE 0]
Pair(a, p, q) == (a :> p) @@ (a + 2 :> q)

Ext2Disk(base) ==
    [supers |-> At(base, 1) :> [blk |-> 4, sblock_num |-> 1, ind_in_grp |-> 3,
                                inode_size |-> 1],
     descs |-> (At(base, 2) :> [inode_st |-> 3]) @@ (At(base, 2) + 1 :> [inode_st |-> 4]),
     inodes |-> (At(base, 3) + 1 :> InodeOf(2)) @@ (At(base, 3) + 2 :> InodeOf(3))
                @@ (At(base, 4) :> InodeOf(4)) @@ (At(base, 4) + 1 :> InodeOf(5)),
     pointers |-> Pair(At(base, 13), 14, 6) @@ Pair(At(base, 18), 20, 16)
                  @@ Pair(At(base, 21), 22, 24) @@ Pair(At(base, 22), 11, 19)
                  @@ Pair(At(base, 24), 23, 15),
     entries |-> (At(base, 5) :> SubSeq(Names, 1, 2)) @@ (At(base, 7) :> SubSeq(Names, 3, 3)),
     truth |-> base :> [names |-> Names, blocks |-> Files, sizes |-> Sizes, length |-> 100]]

\* A file system of blocks of 16 bytes with 8 pointers in each: 128 bytes lie
\* behind an indirect block and 1024 behind a double indirect one, which is 0 as
\* an int.  The file has 2 + 8 + 1 blocks, 7 to 14 being behind block 6.
BigFiles == (2 :> <<3>>) @@ (3 :> <<4, 5>> \o [i \in 1 .. 8 |-> 6 + i] \o <<17>>)
BigSizes == (2 :> 16) @@ (3 :> 176)
BigDisk(base) ==
    LET Block(b) == base + 16 * b
    IN [supers |-> base + 4 :> [blk |-> 16, sblock_num |-> 0, ind_in_grp |-> 8, inode_size |-> 1],
        descs |-> Block(1) :> [inode_st |-> 2],
        inodes |-> (Block(2) + 1 :> [size |-> 16, direct |-> (0 :> 3) @@ (1 :> 0),
                                     s_indirect |-> 0, d_indirect |-> 0])
                   @@ (Block(2) + 2 :> [size |-> 176, direct |-> (0 :> 4) @@ (1 :> 5),
                                        s_indirect |-> 6, d_indirect |-> 15]),
        pointers |-> [a \in {Block(6) + 2 * i : i \in 0 .. 7} |-> 7 + (a - Block(6)) \div 2]
                     @@ (Block(15) :> 16) @@ (Block(16) :> 17),
        entries |-> Block(3) :> SubSeq(Names, 1, 1),
        truth |-> base :> [names |-> SubSeq(Names, 1, 1), blocks |-> BigFiles,
                           sizes |-> BigSizes, length |-> 288]]

NoFs == [supers |-> <<>>, descs |-> <<>>, inodes |-> <<>>, pointers |-> <<>>,
         entries |-> <<>>, truth |-> <<>>]

Part(first, num) == [active |-> 0, type |-> 1, first |-> first, num |-> num]
Unused == [active |-> 0, type |-> 0, first |-> 0, num |-> 0]

Image(driver, length, boots, tables, fs) ==
    [driver |-> driver, length |-> length, boots |-> boots, tables |-> tables] @@ fs

\* One file system partition and a small one behind it.
Plain == Image("ata", 400, 1, 0 :> <<Part(2, 50), Part(52, 3), Unused>>, Ext2Disk(4))
\* The file system partition is cut by the end of the disk, the second holds a
\* table of its own, whose only partition reaches beyond it.
Nested == Image("initrd", 120, 1,
                (0 :> <<Part(3, 90), Part(53, 5)>>) @@ (106 :> <<Part(1, 9)>>), Ext2Disk(6))
\* The first partition begins at sector 0 and so has the same table again.
Looped == Image("ata", 400, 0, 0 :> <<Part(0, 60), Part(4, 20)>>, NoFs)
\* The first partition ends where a superblock would begin, and its own first
\* sector looks like a table but for one entry.
Small == Image("ata", 400, 0,
               (0 :> <<Part(5, 2)>>) @@ (10 :> <<[active |-> 1, type |-> 1, first |-> 0, num |-> 1]>>), NoFs)
\* It ends inside the superblock.
Short == Image("ata", 400, 0, 0 :> <<Part(5, 3), Part(9, 4)>>, NoFs)
\* It has no sectors at all.
Empty == Image("ata", 400, 0, 0 :> <<Part(5, 0)>>, NoFs)
\* No partition table.
Blank == Image("initrd", 40, 0, <<>>, NoFs)
\* Blocks of which an int cannot count those behind a double indirect one.
Big == Image("ata", 400, 1, 0 :> <<Part(2, 144)>>, BigDisk(4))
\* More bytes than an int can count, in four partitions of which the last has a
\* table of its own.
Wide == Image("initrd", 1100, 0,
              (0 :> <<Part(4, 4), Part(10, 500), Part(20, 4), Part(30, 20)>>)
                  @@ (60 :> <<Part(1, 9)>>), NoFs)

MCImages == {Plain, Nested, Looped, Small, Short, Empty, Blank, Big, Wide}
MCNames == {<<"a">>, <<"a", "c">>, <<"c">>, <<"b", "a">>, <<"b">>, <<"ata", 1>>, <<"tty">>}
MCSizes == {1, 2, 3, 4, 5, 7, 8, 9, 16, 23, 32, 600, 1030}
=============================================================================
