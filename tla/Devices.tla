------------------------------ MODULE Devices ------------------------------
(***************************************************************************)
(* Storage devices below the file system: the table of device nodes of     *)
(* src/fs/devfs/devfs.c, the partitions that src/fs/mdpart/mdpart.c enters *)
(* into it, and the way a read takes through a chain of partitions down to *)
(* the disk (src/fs/ata/ata.c) or the ram disk (src/fs/initrd/initrd.c).   *)
(*                                                                         *)
(* A byte of the disk is its address.  What the kernel finds in the bytes  *)
(* it interprets (partition tables, superblocks, inodes...) is given by    *)
(* the image: functions from the address of the structure to its fields.   *)
(***************************************************************************)
EXTENDS Integers, Sequences, SequencesExt

CONSTANTS IMAGES,     \* the disks the kernel may be started with
          MAXNODES,   \* size of the table of device nodes
          MAXNAMLEN,  \* longest name of a node
          SECTOR,     \* bytes in a sector
          MAXSEC,     \* sector counts the disk controller tells apart
          W,          \* numbers of 32 bits wrap at W
          DEPTH       \* calls of mdpart_init, one in the other, the kernel
                      \* stack has room for: 16 kB, 512 bytes of table in each

\* An entry of a partition table.
Entry == [active : Nat, type : Nat, first : Nat, num : Nat]

ASSUME DeviceAssumption ==
    /\ MAXNODES \in Nat \ {0} /\ MAXNAMLEN \in Nat
    /\ SECTOR \in Nat \ {0} /\ MAXSEC \in Nat \ {0} /\ W \in Nat \ {0}
    /\ MAXSEC * SECTOR <= W \div 2
    /\ DEPTH \in Nat \ {0}
    /\ \A d \in IMAGES : /\ d.driver \in {"ata", "initrd"} /\ d.length \in Nat
                         /\ \A a \in DOMAIN d.tables : d.tables[a] \in Seq(Entry)

VARIABLES disk,       \* the image, fixed at the start
          nodes,      \* nodes[] of devfs.c, by number
          stack,      \* running mdpart_init calls, outermost first
          phase       \* where fs_init is; "hung" and "wild" are its bad ends

devVars == <<disk, nodes, stack>>

\* A byte of a buffer that no read has filled.
STALE == -1

\* The number as an int.
AsInt(x) == IF x % W < W \div 2 THEN x % W ELSE (x % W) - W

(***************************************************************************)
(* vfs_read on a device node                                               *)
(***************************************************************************)
Failed(code) == [code |-> code, data |-> <<>>]

\* ata_pio_read takes the number of sectors from one byte and counts it down:
\* from 0 the controller sends MAXSEC sectors and the loop waits for more.
AtaPioRead(secnum) == secnum % MAXSEC

\* ata_read asks for whole sectors, but counts them from the length alone, and
\* copies from the middle of the first one.
AtaRead(offset, len) ==
    LET sectors == AtaPioRead((len + SECTOR - 1) \div SECTOR)
    IN IF sectors = 0 THEN Failed("hang")
       ELSE [code |-> "ok",
             data |-> [k \in 1 .. len |->
                         IF (offset % SECTOR) + k <= sectors * SECTOR
                         THEN offset + k - 1 ELSE STALE]]

InitrdRead(offset, len) ==
    [code |-> "ok", data |-> [k \in 1 .. len |-> offset + k - 1]]

\* Mutant: a read that crosses the end of the device is not cut.
CutNot(v, offset, size) == AsInt(size)

\* What is left of a request at the end of the device, as an int.  A negative
\* size stands for a huge one of 64 bits, and the sum wraps at 2^64.
Cut(v, offset, size) ==
    AsInt(IF offset + size \in 0 .. v.length THEN size ELSE v.length - offset)

\* A size is a number below 2^63 that a caller gives, or an int.
Request == [offset : Nat, size : {z \in Int : z >= W \div 2 - W}]

\* mdpart_read hands the request on to the device the partition is on.  Where
\* the length is still negative at the disk, memcpy never ends.
DeviceRead[n \in DOMAIN nodes] ==
    [r \in Request |->
        LET v == nodes[n]
            len == Cut(v, r.offset, r.size)
        IN IF v.dev = "tty" \/ r.offset > v.length THEN Failed("EINVAL")
           ELSE IF v.dev = "part"
           THEN DeviceRead[v.ptr][[offset |-> r.offset + v.reserved, size |-> len]]
           ELSE IF len < 0 THEN Failed("wild")
           ELSE IF disk.driver = "ata" THEN AtaRead(r.offset, len)
           ELSE InitrdRead(r.offset, len)]

VfsRead(n, offset, size) == DeviceRead[n][[offset |-> offset, size |-> size]]

\* The request was answered with size bytes of the disk.
Full(r, size) == /\ r.code = "ok" /\ Len(r.data) = size
                 /\ \A k \in 1 .. size : r.data[k] # STALE

\* The caller's buffer after the call, whose result nobody looks at.
Buffer(r, size) == [k \in 1 .. size |-> IF k <= Len(r.data) THEN r.data[k] ELSE STALE]

(***************************************************************************)
(* devfs_add and mdpart_init call each other                               *)
(***************************************************************************)
MainNode(d) == [dev |-> "main", name |-> <<d.driver>>, reserved |-> 0,
                length |-> d.length, ptr |-> 0]

TtyNode == [dev |-> "tty", name |-> <<"tty">>, reserved |-> 0, length |-> 0, ptr |-> 0]

\* Products of a 32-bit field and MDPART_BLKSZ are 32-bit numbers.
PartNode(n, i, e) == [dev |-> "part", name |-> Append(nodes[n].name, i),
                      reserved |-> (e.first * SECTOR) % W,
                      length |-> (e.num * SECTOR) % W, ptr |-> n]

\* strlen: "ata" or "initrd" and one digit for every level.
StrLen(name) == Len(name) + (IF name[1] = "ata" THEN 2 ELSE 5)

\* mdpart_init(n) called and not yet past its read of the first sector.
Entered(n) == [node |-> n, table |-> <<>>, i |-> -1]

Top == stack[Len(stack)]
Below == SubSeq(stack, 1, Len(stack) - 1)

\* Mutant: the limit of the table is not checked.
DevfsAddNoLimit(v, frames) ==
    /\ nodes' = Append(nodes, v)
    /\ stack' = IF v.dev = "tty" THEN frames
                ELSE Append(frames, Entered(Len(nodes) + 1))

\* A node that finds no room is dropped; a storage node is searched for
\* partitions at once, by a call of mdpart_init on top of the others.
DevfsAdd(v, frames) ==
    IF Len(nodes) < MAXNODES
    THEN /\ nodes' = Append(nodes, v)
         /\ stack' = IF v.dev = "tty" THEN frames
                     ELSE Append(frames, Entered(Len(nodes) + 1))
    ELSE /\ nodes' = nodes
         /\ stack' = frames

\* active & (~MDPART_ACTIVE != 0) is the lowest bit of active.
Valid(table) == \A i \in DOMAIN table : table[i].active % 2 = 0

Probing == phase = "add" /\ stack # <<>> /\ Top.i = -1

\* The first sector holds a table: its entries are taken one by one.
FoundTable ==
    /\ Probing
    /\ LET r == VfsRead(Top.node, 0, SECTOR)
       IN /\ Full(r, SECTOR)
          /\ r.data[1] \in DOMAIN disk.tables
          /\ Valid(disk.tables[r.data[1]])
          /\ stack' = Append(Below, [node |-> Top.node, i |-> 0,
                                     table |-> disk.tables[r.data[1]]])
    /\ UNCHANGED <<disk, nodes, phase>>

\* A short answer, no magic number, or an entry that is not valid.
NoTable ==
    /\ Probing
    /\ LET r == VfsRead(Top.node, 0, SECTOR)
       IN /\ r.code # "hang"
          /\ Full(r, SECTOR) /\ r.data[1] \in DOMAIN disk.tables
               => ~Valid(disk.tables[r.data[1]])
    /\ stack' = Below
    /\ UNCHANGED <<disk, nodes, phase>>

\* A partition of no length: the disk driver waits for sectors that never come.
ProbeHangs ==
    /\ Probing
    /\ VfsRead(Top.node, 0, SECTOR).code = "hang"
    /\ phase' = "hung"
    /\ UNCHANGED devVars

HasPart(f) == /\ f.i \in 0 .. (Len(f.table) - 1)
              /\ f.table[f.i + 1].type # 0

\* Mutant: the loop looks at the same entry again.
AddPartSame ==
    /\ phase = "add" /\ stack # <<>> /\ HasPart(Top)
    /\ LET f == Top
       IN IF StrLen(nodes[f.node].name) < MAXNAMLEN
          THEN DevfsAdd(PartNode(f.node, f.i, f.table[f.i + 1]), Append(Below, f))
          ELSE nodes' = nodes /\ stack' = stack
    /\ phase' = IF Len(stack') > DEPTH THEN "wild" ELSE phase
    /\ UNCHANGED disk

\* One turn of the loop over the entries.  One call too many runs over the end
\* of the kernel stack, into whatever lies there.
AddPart ==
    /\ phase = "add" /\ stack # <<>> /\ HasPart(Top)
    /\ LET f == Top
           frames == Append(Below, [f EXCEPT !.i = @ + 1])
       IN IF StrLen(nodes[f.node].name) < MAXNAMLEN
          THEN DevfsAdd(PartNode(f.node, f.i, f.table[f.i + 1]), frames)
          ELSE nodes' = nodes /\ stack' = frames
    /\ phase' = IF Len(stack') > DEPTH THEN "wild" ELSE phase
    /\ UNCHANGED disk

\* An entry of type 0, or the last one, ends the loop.
EndTable ==
    /\ phase = "add" /\ stack # <<>> /\ Top.i # -1 /\ ~HasPart(Top)
    /\ stack' = Below
    /\ UNCHANGED <<disk, nodes, phase>>

Adding == FoundTable \/ NoTable \/ ProbeHangs \/ AddPart \/ EndTable

(***************************************************************************)
(* devfs_finddir, devfs_readdir                                            *)
(***************************************************************************)
Named(name) == {n \in DOMAIN nodes : nodes[n].name = name}

\* The number of the first node of that name; 0 stands for ENOENT.
DevfsFinddir(name) ==
    IF Named(name) = {} THEN 0
    ELSE CHOOSE n \in Named(name) : \A k \in Named(name) : n <= k
=============================================================================
