----------------------------- MODULE FileSystem -----------------------------
(***************************************************************************)
(* The file system layer: fs_init of src/fs/fs.c, which enters the disk    *)
(* and its partitions into devfs and mounts the first partition, and then  *)
(* the calls of src/fs/vfs/vfs.c in any order.                             *)
(*                                                                         *)
(* Two directories can be mounted on, the root and that of devfs.  ptr of  *)
(* a directory is the number of the node vfs_mount made for the file       *)
(* system, 0 for NULL; flag is its VFS_MOUNTPOINT bit.                     *)
(***************************************************************************)
EXTENDS Ext2

CONSTANTS NAMES,     \* names that callers look up
          OFFSETS,   \* offsets and
          SIZES      \* sizes of the reads of callers

ASSUME CallAssumption == OFFSETS \subseteq Nat /\ SIZES \subseteq Nat

(***************************************************************************)
(* disk.truth gives, at the address of a file system whose structures are  *)
(* in order, what was put on it: the names in its root directory, the      *)
(* blocks and the size of every file, and the bytes it takes.              *)
(***************************************************************************)
\* t is such a truth, at base of the disk d, and s the superblock there.
Inside(s, t, block) == block # 0 /\ (block + 1) * s.blk <= t.length
PtrAt(d, base, s, block, i) == Decoded(d.pointers, base + block * s.blk + i * PTR, 0)

\* Distances from base of a group's descriptor and of an inode; the inode.
GroupAt(s, ino) == (s.sblock_num + 1) * s.blk + ((ino - 1) \div s.ind_in_grp) * DESC
PlaceAt(d, base, s, ino) ==
    Decoded(d.descs, base + GroupAt(s, ino), NoDesc).inode_st * s.blk
        + ((ino - 1) % s.ind_in_grp) * s.inode_size
InodeAt(d, base, s, ino) == Decoded(d.inodes, base + PlaceAt(d, base, s, ino), NoInode)

\* Where the pointer to block p of a file is kept.
InDirect(in, p, block) == p < NDIR /\ in.direct[p] = block
InSingle(d, base, s, t, in, p, block) ==
    /\ p \in NDIR .. (NDIR + s.blk \div PTR - 1) /\ Inside(s, t, in.s_indirect)
    /\ PtrAt(d, base, s, in.s_indirect, p - NDIR) = block
InDouble(d, base, s, t, in, p, block) ==
    LET ptrs == s.blk \div PTR
        q == p - NDIR - ptrs
        sibp == PtrAt(d, base, s, in.d_indirect, q \div ptrs)
    IN /\ q \in 0 .. (ptrs * ptrs - 1) /\ Inside(s, t, in.d_indirect) /\ Inside(s, t, sibp)
       /\ PtrAt(d, base, s, sibp, q % ptrs) = block

Ext2Sizes(base, s, t) ==
    /\ base \in Nat /\ base % SECTOR = 0 /\ t.length \in Nat /\ t.length <= W
    /\ s.blk % SECTOR = 0 /\ s.blk <= (MAXSEC - 1) * SECTOR
    /\ FitsInt(s.blk * PtrsIn(s.blk))
    /\ PTR <= s.blk /\ DESC <= s.blk /\ s.inode_size \in 1 .. s.blk

\* A file without holes.
Ext2File(d, base, s, t, ino) ==
    LET in == InodeAt(d, base, s, ino)
    IN /\ ino \in Nat \ {0} /\ t.blocks[ino] \in Seq(Nat)
       /\ GroupAt(s, ino) < t.length /\ PlaceAt(d, base, s, ino) < t.length
       /\ in.size = t.sizes[ino] /\ t.sizes[ino] <= Len(t.blocks[ino]) * s.blk
       /\ \A p \in 0 .. (Len(t.blocks[ino]) - 1) :
             LET block == t.blocks[ino][p + 1]
             IN /\ Inside(s, t, block)
                /\ \/ InDirect(in, p, block)
                   \/ InSingle(d, base, s, t, in, p, block)
                   \/ InDouble(d, base, s, t, in, p, block)

\* The root directory lies in its direct blocks.
Ext2Root(d, base, s, t) ==
    LET root == t.blocks[EXT2_ROOT_INODE]
    IN /\ EXT2_ROOT_INODE \in DOMAIN t.blocks /\ Len(root) <= NDIR
       /\ Len(root) < NDIR => InodeAt(d, base, s, EXT2_ROOT_INODE).direct[Len(root)] = 0
       /\ t.names = FlattenSeq([q \in 1 .. Len(root) |->
                                  Decoded(d.entries, base + root[q] * s.blk, <<>>)])
       /\ \A i \in DOMAIN t.names : t.names[i].inode \in DOMAIN t.blocks

Ext2Image(d, base, s, t) ==
    /\ base + 2 * SECTOR \in DOMAIN d.supers
    /\ Ext2Sizes(base, s, t)
    /\ \A ino \in DOMAIN t.blocks : Ext2File(d, base, s, t, ino)
    /\ Ext2Root(d, base, s, t)

ASSUME TruthAssumption ==
    \A d \in IMAGES : \A base \in DOMAIN d.truth :
        Ext2Image(d, base, d.supers[base + 2 * SECTOR], d.truth[base])

DIRS == {"root", "dfs"}

VARIABLES flag, ptr,   \* of the two directories
          fsnodes,     \* nodes made by ext2_init: [dev, super, inode, live]
          file,        \* the file a caller found and still uses
          ret          \* the last call and what it returned

mountVars == <<flag, ptr, fsnodes>>
vars == <<disk, nodes, stack, phase, flag, ptr, fsnodes, file, ret>>

NoFile == [dev |-> 0, super |-> 0, inode |-> 0, dir |-> "root"]
\* num is the number or size that goes with the call or its answer.
Returned(op, where, arg, num, code, data) ==
    [op |-> op, where |-> where, arg |-> arg, num |-> num, code |-> code, data |-> data]
Nothing == Returned("none", 0, 0, 0, "ok", <<>>)

\* fs_init up to devfs_add(main): devfs is empty, the disk is its first node.
Init ==
    /\ disk \in IMAGES
    /\ nodes = <<MainNode(disk)>>
    /\ stack = <<Entered(1)>>
    /\ phase = "add"
    /\ flag = [d \in DIRS |-> 0]
    /\ ptr = [d \in DIRS |-> 0]
    /\ fsnodes = <<>>
    /\ file = NoFile
    /\ ret = Nothing

(***************************************************************************)
(* vfs_mount and ext2_init, which reads 0x400 bytes at 0x400               *)
(***************************************************************************)
SuperRead(n) == VfsRead(n, 2 * SECTOR, 2 * SECTOR)

MountFails(n, d, done, code) ==
    /\ phase' = done
    /\ ret' = Returned("mount", d, n, 0, code, <<>>)
    /\ UNCHANGED <<disk, nodes, flag, ptr, fsnodes>>

MountBusy(n, d, done) == flag[d] = 1 /\ MountFails(n, d, done, "EBUSY")

\* Neither ext2 nor (a stub) fat32.
MountOther(n, d, done) ==
    /\ flag[d] = 0
    /\ Full(SuperRead(n), 2 * SECTOR)
    /\ SuperRead(n).data[1] \notin DOMAIN disk.supers
    /\ MountFails(n, d, done, "EXDEV")

\* The read fails or is cut: the magic number is looked for in a fresh heap
\* block.  If it is there, whatever the block held before becomes the superblock.
MountShort(n, d, done) ==
    /\ flag[d] = 0
    /\ SuperRead(n).code # "hang"
    /\ ~Full(SuperRead(n), 2 * SECTOR)
    /\ \E end \in {done, "wild"} : MountFails(n, d, end, "EXDEV")

\* The device ends where the superblock should begin.
MountHangs(n, d) ==
    /\ flag[d] = 0
    /\ SuperRead(n).code = "hang"
    /\ MountFails(n, d, "hung", "hang")

Mounted(n, d, done) ==
    /\ flag[d] = 0
    /\ Full(SuperRead(n), 2 * SECTOR)
    /\ SuperRead(n).data[1] \in DOMAIN disk.supers
    /\ fsnodes' = Append(fsnodes, [dev |-> n, super |-> disk.supers[SuperRead(n).data[1]],
                                   inode |-> EXT2_ROOT_INODE, live |-> 1])
    /\ flag' = [flag EXCEPT ![d] = 1]
    /\ ptr' = [ptr EXCEPT ![d] = Len(fsnodes) + 1]
    /\ phase' = done
    /\ ret' = Returned("mount", d, n, 0, "ok", <<>>)
    /\ UNCHANGED <<disk, nodes>>

VfsMount(n, d, done) ==
    \/ MountBusy(n, d, done)
    \/ MountOther(n, d, done)
    \/ MountShort(n, d, done)
    \/ MountHangs(n, d)
    \/ Mounted(n, d, done)

(***************************************************************************)
(* The rest of fs_init                                                     *)
(***************************************************************************)
\* Mutant: the second partition is looked up.
RootNameSecond == <<disk.driver, 1>>

RootName == <<disk.driver, 0>>

Searched == phase = "add" /\ stack = <<>>

BootMount ==
    /\ Searched
    /\ DevfsFinddir(RootName) # 0
    /\ VfsMount(DevfsFinddir(RootName), "root", "tty")
    /\ UNCHANGED <<stack, file>>

\* devfs_finddir answers ENOENT, a number, which vfs_mount takes for a node.
BootMountWild ==
    /\ Searched
    /\ DevfsFinddir(RootName) = 0
    /\ phase' = "wild"
    /\ UNCHANGED <<disk, nodes, stack, flag, ptr, fsnodes, file, ret>>

BootTty ==
    /\ phase = "tty"
    /\ DevfsAdd(TtyNode, stack)
    /\ phase' = "run"
    /\ UNCHANGED <<disk, flag, ptr, fsnodes, file, ret>>

Boot == \/ Adding /\ UNCHANGED <<flag, ptr, fsnodes, file, ret>>
        \/ BootMount
        \/ BootMountWild
        \/ BootTty

(***************************************************************************)
(* The calls of vfs.h                                                      *)
(***************************************************************************)
\* Calls come one after the other: fs_init and its test are a single task.
Idle == phase = "run" /\ ret.op = "none"

\* The caller has seen the result.
Return ==
    /\ phase = "run" /\ ret.op # "none"
    /\ ret' = Nothing
    /\ UNCHANGED <<disk, nodes, stack, phase, flag, ptr, fsnodes, file>>

MountCall == \E n \in DOMAIN nodes, d \in DIRS :
                Idle /\ VfsMount(n, d, "run") /\ UNCHANGED <<stack, file>>

\* Mutant: the directory keeps its pointer.
VfsUmountKeep(d) ==
    /\ Idle /\ flag[d] = 1
    /\ file' = IF file.dir = d THEN NoFile ELSE file
    /\ IF ptr[d] = 0
       THEN /\ ret' = Returned("umount", d, 0, 0, "EINVAL", <<>>)
            /\ UNCHANGED fsnodes
       ELSE /\ ret' = Returned("umount", d, 0, 0, "ok", <<>>)
            /\ fsnodes' = [fsnodes EXCEPT ![ptr[d]].live = 0]
    /\ UNCHANGED <<disk, nodes, stack, phase, flag, ptr>>

\* vfs_umount and ext2_fini: the node is released and the pointer cleared; the
\* flag stays.  Callers umount when they are done with their files (fs/test.c).
VfsUmount(d) ==
    /\ Idle /\ flag[d] = 1
    /\ file' = IF file.dir = d THEN NoFile ELSE file
    /\ IF ptr[d] = 0
       THEN /\ ret' = Returned("umount", d, 0, 0, "EINVAL", <<>>)
            /\ UNCHANGED fsnodes
       ELSE /\ ret' = Returned("umount", d, 0, 0, "ok", <<>>)
            /\ fsnodes' = [fsnodes EXCEPT ![ptr[d]].live = 0]
    /\ ptr' = [ptr EXCEPT ![d] = 0]
    /\ UNCHANGED <<disk, nodes, stack, phase, flag>>

\* A directory that is not a mount point.
UmountNone(d) ==
    /\ Idle /\ flag[d] = 0
    /\ ret' = Returned("umount", d, 0, 0, "ENOENT", <<>>)
    /\ UNCHANGED <<disk, nodes, stack, phase, flag, ptr, fsnodes, file>>

\* vfs_finddir(d, name) ends in ext2_finddir, in devfs_finddir, or nowhere: the
\* root has no driver of its own.
VfsFinddir(d, name) ==
    /\ Idle
    /\ LET v == fsnodes[ptr[d]]
           inode == Ext2Finddir(v, name)
           n == DevfsFinddir(name)
       IN CASE flag[d] = 1 /\ ptr[d] # 0 ->
                 /\ ret' = Returned("find", d, name, inode,
                                    IF inode = 0 THEN "NULL" ELSE "ok", <<>>)
                 /\ file' = IF inode = 0 THEN file
                            ELSE [dev |-> v.dev, super |-> v.super,
                                  inode |-> inode, dir |-> d]
            [] flag[d] = 0 /\ d = "dfs" ->
                 /\ ret' = Returned("finddev", d, name, n,
                                    IF n = 0 THEN "ENOENT" ELSE "ok", <<>>)
                 /\ UNCHANGED file
            [] OTHER ->
                 /\ ret' = Returned("find", d, name, 0, "EBADF", <<>>)
                 /\ UNCHANGED file
    /\ UNCHANGED <<disk, nodes, stack, phase, flag, ptr, fsnodes>>

\* vfs_readdir(d, index) takes the same way.
VfsReaddir(d, index) ==
    /\ Idle
    /\ LET inode == Ext2Readdir(fsnodes[ptr[d]], index)
       IN CASE flag[d] = 1 /\ ptr[d] # 0 ->
                 ret' = Returned("readdir", d, index, inode,
                                 IF inode = 0 THEN "EINVAL" ELSE "ok", <<>>)
            [] flag[d] = 0 /\ d = "dfs" ->
                 ret' = Returned("readdev", d, index, 0,
                                 IF index < Len(nodes) THEN "ok" ELSE "EINVAL", <<>>)
            [] OTHER -> ret' = Returned("readdir", d, index, 0, "EBADF", <<>>)
    /\ UNCHANGED <<disk, nodes, stack, phase, flag, ptr, fsnodes, file>>

\* vfs_read of the file in use.
ReadFile(offset, size) ==
    /\ Idle /\ file.inode # 0
    /\ LET r == Ext2Read(file, offset, size)
       IN ret' = Returned("read", file, offset, size, r.code, r.data)
    /\ UNCHANGED <<disk, nodes, stack, phase, flag, ptr, fsnodes, file>>

\* vfs_read of a device node.
ReadDevice(n, offset, size) ==
    /\ Idle /\ n \in DOMAIN nodes
    /\ LET r == VfsRead(n, offset, size)
       IN /\ ret' = Returned("device", n, offset, size, r.code, r.data)
          /\ phase' = CASE r.code = "hang" -> "hung"
                       [] r.code = "wild" -> "wild"
                       [] OTHER -> phase
    /\ UNCHANGED <<disk, nodes, stack, flag, ptr, fsnodes, file>>

Calls ==
    \/ Return
    \/ MountCall
    \/ \E d \in DIRS : VfsUmount(d) \/ UmountNone(d)
    \/ \E d \in DIRS, name \in NAMES : VfsFinddir(d, name)
    \/ \E d \in DIRS, index \in 0 .. MAXNODES : VfsReaddir(d, index)
    \/ \E o \in OFFSETS, s \in SIZES : ReadFile(o, s)
    \/ \E n \in 1 .. MAXNODES, o \in OFFSETS, s \in SIZES : ReadDevice(n, o, s)

Next == Boot \/ Calls
Spec == Init /\ [][Next]_vars /\ WF_vars(Boot)

(***************************************************************************)
(* Properties                                                              *)
(***************************************************************************)
\* The tables and the mount points keep their types.
TypeOK ==
    /\ disk \in IMAGES
    /\ \A n \in DOMAIN nodes : nodes[n].dev \in {"main", "part", "tty"}
    /\ phase \in {"add", "tty", "run", "hung", "wild"}
    /\ flag \in [DIRS -> {0, 1}]
    /\ ptr \in [DIRS -> 0 .. Len(fsnodes)]
    /\ \A i \in DOMAIN fsnodes : fsnodes[i].dev \in DOMAIN nodes /\ fsnodes[i].live \in {0, 1}

\* Whatever the partition tables say, a table that contains itself included,
\* devfs_add stays inside nodes[], a partition points to a node entered before
\* it, so that mdpart_read comes down to the disk, and no name is given twice.
DeviceTable ==
    /\ Len(nodes) <= MAXNODES
    /\ \A n \in DOMAIN nodes : nodes[n].ptr < n
    /\ \A n \in DOMAIN nodes : nodes[n].dev = "part" => nodes[n].ptr # 0
    /\ \A m, n \in DOMAIN nodes : nodes[m].name = nodes[n].name => m = n

\* Where a device begins on the disk, and the devices it is a part of.
StartOf[n \in DOMAIN nodes] ==
    IF nodes[n].dev # "part" THEN 0 ELSE nodes[n].reserved + StartOf[nodes[n].ptr]
AroundOf[n \in DOMAIN nodes] ==
    IF nodes[n].dev # "part" THEN {n} ELSE {n} \cup AroundOf[nodes[n].ptr]
Start(n) == StartOf[n]
Around(n) == AroundOf[n]
Covers(n, a) == \A k \in Around(n) : Start(k) <= a /\ a < Start(k) + nodes[k].length

\* A read, of a device or of a file on it, never returns a byte of the disk
\* outside the device or outside one that contains it (the checks of
\* mdpart_read and of the drivers); a device read returns the bytes asked for,
\* in order, all of them when their number fits an int, they lie in the device
\* and, on a disk, begin with a sector and are fewer sectors than the controller
\* can count.
ReadsWindow ==
    /\ ret.op = "read" => \A k \in DOMAIN ret.data :
          ret.data[k] # STALE => Covers(ret.where.dev, ret.data[k])
    /\ ret.op = "device" =>
          LET first == Start(ret.where) + ret.arg
          IN /\ \A k \in DOMAIN ret.data : ret.data[k] # STALE =>
                  ret.data[k] = first + k - 1 /\ Covers(ret.where, ret.data[k])
             /\ /\ disk.driver = "ata" =>
                      first % SECTOR = 0 /\ ret.num <= (MAXSEC - 1) * SECTOR
                /\ nodes[ret.where].dev # "tty"
                /\ ret.num > 0 /\ FitsInt(ret.num)
                /\ \A k \in 1 .. ret.num : Covers(ret.where, first + k - 1)
                => Full(ret, ret.num)

\* The file system as it was put on the disk.
Truth(n) == disk.truth[Start(n)]

\* A device that begins with such a file system and has room for all of it, as
\* have the devices it is a part of.
Holds(n) == /\ Start(n) \in DOMAIN disk.truth
            /\ \A k \in Around(n) : /\ Start(k) <= Start(n)
                                    /\ Start(n) + Truth(n).length <= Start(k) + nodes[k].length

\* The bytes of a file the driver gets to: those in direct and in single
\* indirect blocks, and those in double indirect ones if a double indirect block
\* stands for fewer bytes than an int can count (1 and 2 kB blocks, ext2.c:196).
Reach(blk) ==
    LET ptrs == PtrsIn(blk)
    IN blk * (NDIR + ptrs + (IF FitsInt(blk * ptrs * ptrs) THEN ptrs * ptrs ELSE 0))

\* A read that begins with a block returns the bytes of the file, through
\* direct, single and double indirect blocks, up to the end of the file or of
\* what is in reach; behind that the buffer is as it was, although the call
\* reports the bytes as read.
FilesRead ==
    ret.op = "read" /\ Holds(ret.where.dev) /\ ret.arg % Blksz(ret.where) = 0 =>
        LET v == ret.where
            t == Truth(v.dev)
            left == t.sizes[v.inode] - ret.arg
            n == IF ret.num > left THEN left ELSE ret.num
            Byte(p) == Start(v.dev) + t.blocks[v.inode][p \div Blksz(v) + 1] * Blksz(v)
                         + (p % Blksz(v))
            Answer(p) == IF p < Reach(Blksz(v)) THEN Byte(p) ELSE STALE
        IN IF left < 0 THEN ret.code = "EINVAL"
           ELSE ret.code = "ok" /\ ret.data = [k \in 1 .. n |-> Answer(ret.arg + k - 1)]

\* vfs_finddir and vfs_readdir of a mounted directory see the same entries, all
\* that are on the disk: a name leads to its own inode or, if there is no such
\* entry, nowhere, or else to an entry whose name begins it.
DirectoryAnswers ==
    ret.op \in {"find", "readdir"} /\ ret.code # "EBADF"
    /\ Holds(fsnodes[ptr[ret.where]].dev) =>
        LET names == Truth(fsnodes[ptr[ret.where]].dev).names
        IN IF ret.op = "find"
           THEN \/ \E i \in DOMAIN names : names[i].name = ret.arg /\ names[i].inode = ret.num
                \/ ret.num = 0 /\ \A i \in DOMAIN names : names[i].name # ret.arg
                \/ \E i \in DOMAIN names : /\ IsStrictPrefix(names[i].name, ret.arg)
                                          /\ names[i].inode = ret.num
           ELSE ret.num = IF ret.arg < Len(names) THEN names[ret.arg + 1].inode ELSE 0

\* A directory never points to a released file system, and a file system that
\* was not released belongs to one directory, over any mounts and umounts.
MountsOwned ==
    /\ \A d \in DIRS : ptr[d] # 0 => flag[d] = 1 /\ fsnodes[ptr[d]].live = 1
    /\ \A i \in DOMAIN fsnodes : fsnodes[i].live = 1 => \E d \in DIRS : ptr[d] = i
    /\ \A d, e \in DIRS : ptr[d] = ptr[e] /\ ptr[d] # 0 => d = e

\* A partition without a first byte, on a disk, and one inside DEPTH others.
NoBytes == disk.driver = "ata" /\ \E n \in DOMAIN nodes : ~Covers(n, Start(n))
TooDeep == \E n \in DOMAIN nodes : Cardinality(Around(n)) > DEPTH

\* The mutual recursion of devfs_add and mdpart_init returns to fs_init, unless
\* it comes to a partition the disk driver waits for in vain, or to one for
\* which the stack has no room left, as in a table that contains itself.
SearchEnds == <>(stack = <<>> \/ NoBytes \/ TooDeep)

\* A disk whose first partition holds ext2, without empty partitions and without
\* any inside too many others, is mounted as the root ("Root mounted
\* successfully", fs.c:66).
BootMounts == disk.boots = 1 => <>(phase = "tty" /\ ptr["root"] # 0)
=============================================================================
