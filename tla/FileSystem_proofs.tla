-------------------------- MODULE FileSystem_proofs --------------------------
(***************************************************************************)
(* The table of devices and the mount points are sound for every disk      *)
(* image, table size and sequence of calls.  The strengthening follows     *)
(* the running mdpart_init calls: a node has at most one, the ones further *)
(* in are for younger nodes, and a call at entry i has so far made only    *)
(* partitions numbered below i, which is why no name is given twice.       *)
(* Reads stay in their windows by induction on the number of the device,   *)
(* as a partition lies on one entered before it.                           *)
(***************************************************************************)
EXTENDS FileSystem, SequenceTheorems, Induction

Chars == {"ata", "initrd", "tty"} \cup Nat
NodeType == [dev : {"main", "part", "tty"}, name : Seq(Chars), reserved : Nat,
             length : Nat, ptr : Nat]
Frame == [node : Nat, table : Seq(Entry), i : Int]

\* The digit that tells a partition from its brothers.
Digit(v) == v.name[Len(v.name)]

NodeInv ==
    /\ disk \in IMAGES
    /\ nodes \in Seq(NodeType)
    /\ Len(nodes) \in 1 .. MAXNODES

TreeInv ==
    \A n \in 1 .. Len(nodes) :
        /\ nodes[n].ptr < n
        /\ nodes[n].dev = "part" =>
              /\ nodes[n].ptr \in 1 .. Len(nodes)
              /\ Digit(nodes[n]) \in Nat
              /\ nodes[n].name = Append(nodes[nodes[n].ptr].name, Digit(nodes[n]))
        /\ nodes[n].dev # "part" => \E c \in {"ata", "initrd", "tty"} : nodes[n].name = <<c>>
        /\ nodes[n].name = <<"tty">> => nodes[n].dev = "tty"
        /\ nodes[n].name # <<>>

NameInv == \A m, n \in 1 .. Len(nodes) : nodes[m].name = nodes[n].name => m = n

\* The calls in s can be running when the table is ns.
Running(s, ns) ==
    /\ s \in Seq(Frame)
    /\ \A j \in 1 .. Len(s) :
          /\ s[j].node \in 1 .. Len(ns)
          /\ \A k \in 1 .. Len(s) : j < k => s[j].node < s[k].node
          /\ \A n \in 1 .. Len(ns) :
                ns[n].dev = "part" /\ ns[n].ptr = s[j].node => Digit(ns[n]) < s[j].i

StackInv == Running(stack, nodes)

PhaseInv ==
    /\ phase \in {"add", "tty", "run", "hung", "wild"}
    /\ phase \in {"add", "tty"} => \A n \in 1 .. Len(nodes) : nodes[n].dev # "tty"
    /\ phase = "tty" => stack = <<>>

DevInv == NodeInv /\ TreeInv /\ NameInv /\ StackInv /\ PhaseInv

LEMMA ReplaceTop ==
    ASSUME NEW S, NEW s \in Seq(S), s # <<>>, NEW x \in S
    PROVE  LET b == SubSeq(s, 1, Len(s) - 1)
               r == Append(b, x)
           IN /\ b \in Seq(S) /\ Len(b) = Len(s) - 1
              /\ \A j \in 1 .. Len(b) : b[j] = s[j]
              /\ r \in Seq(S) /\ Len(r) = Len(s)
              /\ \A j \in 1 .. (Len(s) - 1) : r[j] = s[j]
              /\ r[Len(s)] = x
              /\ Len(s) \in Nat /\ Len(s) >= 1 /\ s[Len(s)] \in S
<1>1. Len(s) \in Nat /\ Len(s) >= 1 /\ s[Len(s)] \in S
  BY EmptySeq, LenProperties, ElementOfSeq
<1>2. PICK n \in Nat : n = Len(s)
  BY <1>1
<1> DEFINE b == SubSeq(s, 1, n - 1)
<1>3. b \in Seq(S) /\ Len(b) = n - 1 /\ \A j \in 1 .. (n - 1) : b[j] = s[j]
  <2>1. \A i \in 1 .. (n - 1) : s[i] \in S
    BY <1>2, ElementOfSeq
  <2>2. /\ b \in Seq(S)
        /\ Len(b) = IF 1 <= n - 1 THEN n - 1 - 1 + 1 ELSE 0
        /\ \A i \in 1 .. (n - 1 - 1 + 1) : b[i] = s[1 + i - 1]
    BY <2>1, SubSeqProperties
  <2>3. QED
    BY <1>1, <1>2, <2>2
<1> HIDE DEF b
<1>4. /\ Append(b, x) \in Seq(S) /\ Len(Append(b, x)) = n
      /\ \A j \in 1 .. (n - 1) : Append(b, x)[j] = s[j]
      /\ Append(b, x)[n] = x
  BY <1>3, AppendProperties
<1>5. QED
  BY <1>1, <1>2, <1>3, <1>4 DEF b

\* What devfs_add may enter.
Fits(v) ==
    /\ v \in NodeType
    /\ v.ptr \in 0 .. Len(nodes)
    /\ v.name # <<>>
    /\ v.name = <<"tty">> => v.dev = "tty"
    /\ v.dev # "part" => \E c \in {"ata", "initrd", "tty"} : v.name = <<c>>
    /\ v.dev = "part" => /\ v.ptr \in 1 .. Len(nodes)
                         /\ Digit(v) \in Nat
                         /\ v.name = Append(nodes[v.ptr].name, Digit(v))
    /\ \A n \in 1 .. Len(nodes) : nodes[n].name # v.name

LEMMA AppendNode ==
    ASSUME NodeInv, TreeInv, NameInv, NEW v, Fits(v), Len(nodes) < MAXNODES,
           nodes' = Append(nodes, v), disk' = disk
    PROVE  /\ NodeInv' /\ TreeInv' /\ NameInv'
           /\ Len(nodes') = Len(nodes) + 1
           /\ \A n \in 1 .. Len(nodes) : nodes'[n] = nodes[n]
           /\ nodes'[Len(nodes) + 1] = v
<1>1. Len(nodes) \in Nat /\ MAXNODES \in Nat
  BY DeviceAssumption, LenProperties DEF NodeInv, DeviceAssumption
<1>2. /\ nodes' \in Seq(NodeType)
      /\ Len(nodes') = Len(nodes) + 1
      /\ \A n \in 1 .. Len(nodes) : nodes'[n] = nodes[n]
      /\ nodes'[Len(nodes) + 1] = v
  BY AppendProperties DEF NodeInv, Fits
<1>3. NodeInv'
  BY <1>1, <1>2 DEF NodeInv
<1>4. TreeInv'
  <2> SUFFICES ASSUME NEW n \in 1 .. Len(nodes')
               PROVE  /\ nodes'[n].ptr < n
                      /\ nodes'[n].dev = "part" =>
                            /\ nodes'[n].ptr \in 1 .. Len(nodes')
                            /\ Digit(nodes'[n]) \in Nat
                            /\ nodes'[n].name = Append(nodes'[nodes'[n].ptr].name, Digit(nodes'[n]))
                      /\ nodes'[n].dev # "part" =>
                            \E c \in {"ata", "initrd", "tty"} : nodes'[n].name = <<c>>
                      /\ nodes'[n].name = <<"tty">> => nodes'[n].dev = "tty"
                      /\ nodes'[n].name # <<>>
    BY DEF TreeInv
  <2>1. CASE n \in 1 .. Len(nodes)
    <3>1. nodes'[n] = nodes[n]
      BY <1>2, <2>1
    <3>2. nodes[n].dev = "part" => nodes'[nodes[n].ptr] = nodes[nodes[n].ptr]
      BY <1>2, <2>1 DEF TreeInv
    <3>3. /\ nodes[n].ptr < n
          /\ nodes[n].dev = "part" =>
                /\ nodes[n].ptr \in 1 .. Len(nodes)
                /\ Digit(nodes[n]) \in Nat
                /\ nodes[n].name = Append(nodes[nodes[n].ptr].name, Digit(nodes[n]))
          /\ nodes[n].dev # "part" => \E c \in {"ata", "initrd", "tty"} : nodes[n].name = <<c>>
          /\ nodes[n].name = <<"tty">> => nodes[n].dev = "tty"
          /\ nodes[n].name # <<>>
      BY <2>1 DEF TreeInv
    <3>4. nodes[n].ptr \in 1 .. Len(nodes) => nodes[n].ptr \in 1 .. Len(nodes')
      BY <1>1, <1>2
    <3>5. QED
      BY <3>1, <3>2, <3>3, <3>4, Zenon
  <2>2. CASE n = Len(nodes) + 1
    <3>1. nodes'[n] = v
      BY <1>2, <2>2
    <3>2. v.dev = "part" => nodes'[v.ptr] = nodes[v.ptr]
      BY <1>2 DEF Fits
    <3>3. QED
      BY <1>1, <1>2, <2>2, <3>1, <3>2 DEF Fits
  <2>3. n \in 1 .. Len(nodes) \/ n = Len(nodes) + 1
    BY <1>1, <1>2
  <2>4. QED
    BY <2>1, <2>2, <2>3, Zenon
<1>5. NameInv'
  BY <1>1, <1>2 DEF NameInv, Fits
<1>6. QED
  BY <1>2, <1>3, <1>4, <1>5

LEMMA DevInit == Init => DevInv
<1> SUFFICES ASSUME Init PROVE DevInv
  OBVIOUS
<1>1. disk \in IMAGES /\ disk.driver \in {"ata", "initrd"} /\ disk.length \in Nat
  BY DeviceAssumption DEF Init, DeviceAssumption
<1>2. MainNode(disk) \in NodeType
  <2>1. disk.driver \in Chars
    BY <1>1 DEF Chars
  <2>2. <<disk.driver>> \in Seq(Chars)
    BY <2>1
  <2>3. QED
    BY <1>1, <2>2 DEF MainNode, NodeType
<1>3. /\ nodes \in Seq(NodeType) /\ Len(nodes) = 1 /\ nodes[1] = MainNode(disk)
  <2> DEFINE m == MainNode(disk)
  <2>1. nodes = <<m>> /\ m \in NodeType
    BY <1>2 DEF Init
  <2> HIDE DEF m
  <2>2. nodes \in Seq(NodeType) /\ Len(nodes) = 1 /\ nodes[1] = m
    BY <2>1
  <2>3. QED
    BY <2>2 DEF m
<1>4. Entered(1) \in Frame
  BY DEF Entered, Frame
<1>5. stack \in Seq(Frame) /\ Len(stack) = 1 /\ stack[1] = Entered(1)
  <2> DEFINE e == Entered(1)
  <2>1. stack = <<e>> /\ e \in Frame
    BY <1>4 DEF Init
  <2> HIDE DEF e
  <2>2. stack \in Seq(Frame) /\ Len(stack) = 1 /\ stack[1] = e
    BY <2>1
  <2>3. QED
    BY <2>2 DEF e
<1>6. NodeInv
  BY <1>1, <1>3, DeviceAssumption DEF NodeInv, DeviceAssumption
<1>7. TreeInv
  <2>1. nodes[1].dev = "main" /\ nodes[1].ptr = 0 /\ nodes[1].name = <<disk.driver>>
    BY <1>3 DEF MainNode
  <2>2. <<disk.driver>> # <<>> /\ <<disk.driver>> # <<"tty">>
    BY <1>1
  <2>3. \A n \in 1 .. Len(nodes) : n = 1
    BY <1>3
  <2>4. \E c \in {"ata", "initrd", "tty"} : nodes[1].name = <<c>>
    BY <1>1, <2>1
  <2>5. nodes[1].name # <<>> /\ nodes[1].name # <<"tty">>
    BY <2>1, <2>2
  <2>6. nodes[1].ptr < 1 /\ nodes[1].dev # "part"
    BY <2>1
  <2>7. QED
    BY <2>3, <2>4, <2>5, <2>6, Zenon DEF TreeInv
<1>8. NameInv
  BY <1>3 DEF NameInv
<1>9. StackInv
  BY <1>3, <1>5 DEF StackInv, Running, Entered, MainNode
<1>10. PhaseInv
  BY <1>3 DEF PhaseInv, Init, MainNode
<1>11. QED
  BY <1>6, <1>7, <1>8, <1>9, <1>10 DEF DevInv

LEMMA PopFrame ==
    ASSUME StackInv, stack # <<>>
    PROVE  Running(Below, nodes)
<1>1. Top \in Frame
  BY ReplaceTop, EmptySeq, ElementOfSeq DEF Top, StackInv, Running
<1>2. /\ Below \in Seq(Frame) /\ Len(Below) = Len(stack) - 1 /\ Len(stack) \in Nat
      /\ \A j \in 1 .. Len(Below) : Below[j] = stack[j]
  BY <1>1, ReplaceTop DEF Below, StackInv, Running
<1>3. PICK b : b = Below
  OBVIOUS
<1>4. \A j \in 1 .. Len(b) : j \in 1 .. Len(stack) /\ b[j] = stack[j]
  BY <1>2, <1>3
<1>5. b \in Seq(Frame)
  BY <1>2, <1>3
<1>6. QED
  BY <1>3, <1>4, <1>5 DEF StackInv, Running

LEMMA AdvanceFrame ==
    ASSUME NodeInv, TreeInv, StackInv, stack # <<>>, NEW f \in Frame,
           f.node = Top.node, f.i >= Top.i
    PROVE  Running(Append(Below, f), nodes)
<1> DEFINE s == Append(Below, f)
<1>1. /\ s \in Seq(Frame) /\ Len(s) = Len(stack) /\ Len(stack) \in Nat /\ Len(stack) >= 1
      /\ \A j \in 1 .. (Len(stack) - 1) : s[j] = stack[j]
      /\ s[Len(stack)] = f /\ Top \in Frame
  BY ReplaceTop DEF Below, Top, StackInv, Running
<1>2. \A j \in 1 .. Len(stack) : s[j].node = stack[j].node
  BY <1>1 DEF Top
<1> HIDE DEF s
<1>3. ASSUME NEW j \in 1 .. Len(s)
      PROVE  \A n \in 1 .. Len(nodes) :
                nodes[n].dev = "part" /\ nodes[n].ptr = s[j].node => Digit(nodes[n]) < s[j].i
  <2>1. CASE j = Len(stack)
    <3>1. s[j] = f /\ stack[j] = Top /\ f.i \in Int /\ Top.i \in Int
      BY <1>1, <2>1 DEF Top, Frame
    <3>2. \A n \in 1 .. Len(nodes) :
             nodes[n].dev = "part" /\ nodes[n].ptr = Top.node => Digit(nodes[n]) < Top.i
      BY <1>1, <2>1, <3>1 DEF StackInv, Running
    <3>3. \A n \in 1 .. Len(nodes) : nodes[n].dev = "part" => Digit(nodes[n]) \in Nat
      BY DEF TreeInv
    <3>4. QED
      BY <3>1, <3>2, <3>3
  <2>2. CASE j # Len(stack)
    BY <1>1, <2>2 DEF StackInv, Running
  <2>3. QED
    BY <2>1, <2>2
<1>4. QED
  BY <1>1, <1>2, <1>3 DEF StackInv, Running, s

LEMMA EnterFrame ==
    ASSUME NodeInv, TreeInv, NEW s, Running(s, nodes), NEW v, Fits(v), v.dev = "part",
           Len(nodes') = Len(nodes) + 1,
           \A n \in 1 .. Len(nodes) : nodes'[n] = nodes[n],
           nodes'[Len(nodes) + 1] = v,
           \A j \in 1 .. Len(s) : s[j].node = v.ptr => Digit(v) < s[j].i
    PROVE  Running(Append(s, Entered(Len(nodes) + 1)), nodes')
<1> DEFINE e == Entered(Len(nodes) + 1)
           t == Append(s, e)
<1>1. Len(nodes) \in Nat
  BY LenProperties DEF NodeInv
<1>2. e \in Frame /\ e.node = Len(nodes) + 1
  BY <1>1 DEF Entered, Frame
<1> HIDE DEF e
<1>3. /\ t \in Seq(Frame) /\ Len(t) = Len(s) + 1 /\ Len(s) \in Nat
      /\ \A j \in 1 .. Len(s) : t[j] = s[j]
      /\ t[Len(s) + 1] = e
  BY <1>2, AppendProperties, LenProperties DEF Running
<1> HIDE DEF t
<1>4. \A j \in 1 .. Len(t) : /\ t[j].node \in 1 .. Len(nodes')
                             /\ \A k \in 1 .. Len(t) : j < k => t[j].node < t[k].node
  <2>1. \A j \in 1 .. Len(s) :
           /\ t[j].node \in 1 .. Len(nodes)
           /\ \A k \in 1 .. Len(s) : j < k => t[j].node < t[k].node
    BY <1>3 DEF Running
  <2>2. t[Len(s) + 1].node = Len(nodes) + 1
    BY <1>2, <1>3
  <2>3. \A j \in 1 .. Len(t) : j \in 1 .. Len(s) \/ j = Len(s) + 1
    BY <1>3
  <2>4. ASSUME NEW j \in 1 .. Len(t) PROVE t[j].node \in 1 .. Len(nodes')
    <3>1. CASE j \in 1 .. Len(s)
      BY <1>1, <2>1, <3>1
    <3>2. CASE j = Len(s) + 1
      BY <1>1, <2>2, <3>2
    <3>3. QED
      BY <2>3, <3>1, <3>2
  <2>5. ASSUME NEW j \in 1 .. Len(t), NEW k \in 1 .. Len(t), j < k
        PROVE  t[j].node < t[k].node
    <3>1. j \in 1 .. Len(s)
      BY <1>3, <2>3, <2>5
    <3>2. CASE k \in 1 .. Len(s)
      BY <2>1, <2>5, <3>1, <3>2
    <3>3. CASE k = Len(s) + 1
      BY <1>1, <2>1, <2>2, <3>1, <3>3
    <3>4. QED
      BY <2>3, <3>2, <3>3
  <2>6. QED
    BY <2>4, <2>5
<1>5. ASSUME NEW j \in 1 .. Len(t), NEW n \in 1 .. Len(nodes'),
             nodes'[n].dev = "part", nodes'[n].ptr = t[j].node
      PROVE  Digit(nodes'[n]) < t[j].i
  <2>1. CASE n \in 1 .. Len(nodes)
    <3>1. nodes'[n] = nodes[n] /\ nodes[n].ptr < n
      BY <2>1 DEF TreeInv
    <3>2. j # Len(s) + 1
      BY <1>1, <1>2, <1>3, <1>5, <2>1, <3>1 DEF TreeInv
    <3>3. QED
      BY <1>3, <1>5, <2>1, <3>1, <3>2 DEF Running
  <2>2. CASE n = Len(nodes) + 1
    <3>1. nodes'[n] = v /\ v.ptr \in 1 .. Len(nodes)
      BY <2>2 DEF Fits
    <3>2. j # Len(s) + 1
      BY <1>1, <1>2, <1>3, <1>5, <3>1
    <3>3. QED
      BY <1>3, <1>5, <3>1, <3>2
  <2>3. QED
    BY <1>1, <2>1, <2>2
<1>6. QED
  BY <1>3, <1>4, <1>5 DEF Running, t, e

LEMMA Unmoved ==
    ASSUME DevInv, UNCHANGED devVars,
           \/ phase' = phase
           \/ phase' \in {"run", "hung", "wild"}
           \/ phase = "add" /\ phase' = "tty" /\ stack = <<>>
    PROVE  DevInv'
<1>1. NodeInv' /\ TreeInv' /\ NameInv' /\ StackInv'
  BY DEF DevInv, devVars, NodeInv, TreeInv, NameInv, StackInv
<1>2. PhaseInv'
  BY DEF DevInv, devVars, PhaseInv
<1>3. QED
  BY <1>1, <1>2 DEF DevInv

LEMMA SearchStep ==
    ASSUME DevInv, FoundTable \/ NoTable \/ EndTable
    PROVE  DevInv'
<1>1. stack # <<>> /\ phase = "add" /\ UNCHANGED <<disk, nodes, phase>>
  BY DEF FoundTable, NoTable, EndTable, Probing
<1>2. NodeInv' /\ TreeInv' /\ NameInv' /\ PhaseInv'
  BY <1>1 DEF DevInv, NodeInv, TreeInv, NameInv, PhaseInv
<1>3. Running(stack', nodes)
  <2>1. CASE stack' = Below
    BY <1>1, <2>1, PopFrame DEF DevInv
  <2>2. CASE FoundTable
    <3>1. PICK a \in DOMAIN disk.tables :
             stack' = Append(Below, [node |-> Top.node, i |-> 0, table |-> disk.tables[a]])
      BY <2>2 DEF FoundTable
    <3>2. disk.tables[a] \in Seq(Entry)
      BY <3>1, DeviceAssumption DEF DeviceAssumption, DevInv, NodeInv
    <3>3. Top \in Frame
      BY <1>1, ReplaceTop DEF Top, DevInv, StackInv, Running
    <3>4. [node |-> Top.node, i |-> 0, table |-> disk.tables[a]] \in Frame
      BY <3>2, <3>3 DEF Frame
    <3>5. Top.i = -1
      BY <2>2 DEF FoundTable, Probing
    <3>6. QED
      BY <1>1, <3>1, <3>4, <3>5, AdvanceFrame DEF DevInv
  <2>3. QED
    BY <2>1, <2>2 DEF NoTable, EndTable
<1>4. QED
  BY <1>1, <1>2, <1>3 DEF DevInv, StackInv

LEMMA PartFits ==
    ASSUME DevInv, stack # <<>>, HasPart(Top)
    PROVE  Fits(PartNode(Top.node, Top.i, Top.table[Top.i + 1]))
<1> DEFINE n == Top.node
           i == Top.i
           e == Top.table[Top.i + 1]
           v == PartNode(n, i, e)
           x == Append(nodes[n].name, i)
<1>1. Top \in Frame /\ Len(stack) \in 1 .. Len(stack)
  BY ReplaceTop DEF Top, DevInv, StackInv, Running
<1>2. n \in 1 .. Len(nodes) /\ Len(nodes) \in Nat
  BY <1>1, LenProperties DEF Top, DevInv, StackInv, Running, NodeInv
<1>3. i \in Nat /\ e \in Entry
  <2>1. Top.table \in Seq(Entry) /\ Len(Top.table) \in Nat /\ Top.i \in Int
    BY <1>1, LenProperties DEF Frame
  <2>2. Top.i \in 0 .. (Len(Top.table) - 1)
    BY DEF HasPart
  <2>3. Top.i + 1 \in 1 .. Len(Top.table)
    BY <2>1, <2>2
  <2>4. QED
    BY <2>1, <2>2, <2>3, ElementOfSeq
<1>4. nodes[n] \in NodeType /\ nodes[n].name \in Seq(Chars) /\ nodes[n].name # <<>>
  <2>1. nodes[n] \in NodeType
    BY <1>2, ElementOfSeq DEF DevInv, NodeInv
  <2>2. nodes[n].name \in Seq(Chars)
    BY <2>1 DEF NodeType
  <2>3. QED
    BY <1>2, <2>1, <2>2 DEF DevInv, TreeInv
<1>5. i \in Chars
  BY <1>3 DEF Chars
<1>6. x \in Seq(Chars) /\ Len(x) >= 2 /\ Len(x) \in Nat /\ x[Len(x)] = i
  BY <1>4, <1>5, AppendProperties, EmptySeq, LenProperties, SMTT(30)
<1>7. (e.first * SECTOR) % W \in Nat /\ (e.num * SECTOR) % W \in Nat
  <2>1. e.first \in Nat /\ e.num \in Nat /\ SECTOR \in Nat /\ W \in Nat \ {0}
    BY <1>3, DeviceAssumption DEF Entry, DeviceAssumption
  <2>2. \A m, w \in Nat : m * w \in Nat
    OBVIOUS
  <2>3. \A m \in Nat, w \in Nat \ {0} : m % w \in Nat
    OBVIOUS
  <2>4. QED
    BY <2>1, <2>2, <2>3
<1>8. /\ v \in NodeType /\ v.dev = "part" /\ v.ptr = n /\ v.name = x /\ Digit(v) = i
  BY <1>2, <1>6, <1>7 DEF PartNode, NodeType, Digit
<1>9. \A c : x # <<c>>
  BY <1>6
<1>10. ASSUME NEW m \in 1 .. Len(nodes), nodes[m].name = x
       PROVE  FALSE
  <2>1. nodes[m].dev = "part"
    BY <1>9, <1>10 DEF DevInv, TreeInv
  <2>2. /\ nodes[m].ptr \in 1 .. Len(nodes) /\ Digit(nodes[m]) \in Nat
        /\ x = Append(nodes[nodes[m].ptr].name, Digit(nodes[m]))
    BY <1>10, <2>1 DEF DevInv, TreeInv
  <2>3. nodes[nodes[m].ptr].name \in Seq(Chars) /\ Digit(nodes[m]) \in Chars
    <3>1. nodes[nodes[m].ptr] \in NodeType
      BY <2>2, ElementOfSeq DEF DevInv, NodeInv
    <3>2. QED
      BY <2>2, <3>1 DEF NodeType, Chars
  <2>4. nodes[nodes[m].ptr].name = nodes[n].name /\ Digit(nodes[m]) = i
    <3>1. PICK s \in Seq(Chars), t \in Seq(Chars), c \in Chars, d \in Chars :
             s = nodes[n].name /\ t = nodes[nodes[m].ptr].name /\ c = i /\ d = Digit(nodes[m])
      BY <1>4, <1>5, <2>3, Zenon
    <3>2. Append(s, c) = Append(t, d)
      BY <2>2, <3>1
    <3>3. s = t /\ c = d
      BY <3>2, AppendInjective
    <3>4. QED
      BY <3>1, <3>3
  <2>5. nodes[m].ptr = n
    BY <1>2, <2>2, <2>4, SMTT(30) DEF DevInv, NameInv
  <2>6. Digit(nodes[m]) < i
    BY <1>1, <2>1, <2>5 DEF DevInv, StackInv, Running, Top
  <2>7. QED
    BY <1>3, <2>4, <2>6
<1>11. v.name # <<>> /\ v.name # <<"tty">>
  BY <1>6, <1>8, <1>9
<1> HIDE DEF n, i, e, v, x
<1>12. Fits(v)
  BY <1>2, <1>3, <1>8, <1>10, <1>11 DEF Fits, x
<1>13. QED
  BY <1>12 DEF v, n, i, e

LEMMA AddPartStep ==
    ASSUME DevInv, AddPart
    PROVE  DevInv'
<1> DEFINE f == [Top EXCEPT !.i = @ + 1]
           v == PartNode(Top.node, Top.i, Top.table[Top.i + 1])
           frames == Append(Below, f)
<1>1. stack # <<>> /\ phase = "add" /\ HasPart(Top) /\ disk' = disk /\ phase' \in {phase, "wild"}
  BY DEF AddPart
<1>2. Top \in Frame
  BY <1>1, ReplaceTop DEF Top, DevInv, StackInv, Running
<1>3. f \in Frame /\ f.node = Top.node /\ f.i = Top.i + 1 /\ Top.i \in Int
  <2>1. \A t \in Frame : LET g == [t EXCEPT !.i = @ + 1]
                        IN g \in Frame /\ g.node = t.node /\ g.i = t.i + 1 /\ t.i \in Int
    BY DEF Frame
  <2>2. QED
    BY <1>2, <2>1
<1>4. Running(frames, nodes)
  <2>1. f.i >= Top.i
    BY <1>3
  <2> HIDE DEF f
  <2>2. QED
    BY <1>1, <1>3, <2>1, AdvanceFrame DEF DevInv
<1>5. Fits(v)
  BY <1>1, PartFits
<1>6. v.dev = "part" /\ v.ptr = Top.node
  BY DEF PartNode
<1>7. CASE nodes' = nodes /\ stack' = frames
  <2>1. NodeInv' /\ TreeInv' /\ NameInv' /\ PhaseInv'
    BY <1>1, <1>7 DEF DevInv, NodeInv, TreeInv, NameInv, PhaseInv
  <2>2. StackInv'
    BY <1>4, <1>7 DEF StackInv
  <2>3. QED
    BY <2>1, <2>2 DEF DevInv
<1>8. CASE /\ Len(nodes) < MAXNODES /\ nodes' = Append(nodes, v)
           /\ stack' = Append(frames, Entered(Len(nodes) + 1))
  <2>1. /\ NodeInv' /\ TreeInv' /\ NameInv'
        /\ Len(nodes') = Len(nodes) + 1
        /\ \A n \in 1 .. Len(nodes) : nodes'[n] = nodes[n]
        /\ nodes'[Len(nodes) + 1] = v
    BY <1>1, <1>5, <1>8, AppendNode DEF DevInv
  <2>2. Digit(v) = Top.i
    <3>1. Fits(v) /\ Top.i \in Chars /\ nodes[Top.node].name \in Seq(Chars)
      <4>1. Top.i \in Nat
        BY <1>1, <1>2 DEF HasPart, Frame
      <4>2. Top.node \in 1 .. Len(nodes)
        BY <1>5, <1>6 DEF Fits
      <4>3. nodes[Top.node] \in NodeType
        BY <4>2, ElementOfSeq DEF DevInv, NodeInv
      <4>4. QED
        BY <1>5, <4>1, <4>3 DEF NodeType, Chars
    <3>2. v.name = Append(nodes[Top.node].name, Top.i)
      BY DEF PartNode
    <3>3. QED
      BY <3>1, <3>2, AppendProperties, SMTT(30) DEF Digit
  <2>3. ASSUME NEW j \in 1 .. Len(frames), frames[j].node = v.ptr
        PROVE  Digit(v) < frames[j].i
    <3>1. /\ Len(frames) = Len(stack) /\ frames[Len(stack)] = f /\ Len(stack) \in Nat
      BY <1>1, <1>3, ReplaceTop DEF Below, DevInv, StackInv, Running
    <3>2. \A k \in 1 .. Len(frames) : j < k => frames[j].node < frames[k].node
      BY <1>4 DEF Running
    <3>3. j = Len(stack)
      <4>1. CASE j < Len(stack)
        <5>1. frames[j].node < f.node
          BY <3>1, <3>2, <4>1
        <5>2. QED
          BY <1>2, <1>3, <1>6, <2>3, <5>1 DEF Frame
      <4>2. QED
        BY <3>1, <4>1
    <3>4. QED
      BY <1>3, <2>2, <3>1, <3>3
  <2>4. \A j \in 1 .. Len(frames) : frames[j].node = v.ptr => Digit(v) < frames[j].i
    BY <2>3
  <2> HIDE DEF v, frames
  <2>5. Running(Append(frames, Entered(Len(nodes) + 1)), nodes')
    BY <1>4, <1>5, <1>6, <2>1, <2>4, EnterFrame DEF DevInv
  <2>6. StackInv'
    BY <1>8, <2>5 DEF StackInv
  <2>7. PhaseInv'
    <3>1. Len(nodes) \in Nat
      BY LenProperties DEF DevInv, NodeInv
    <3>2. ASSUME NEW n \in 1 .. Len(nodes')
          PROVE  nodes'[n].dev # "tty"
      <4>1. n \in 1 .. Len(nodes) \/ n = Len(nodes) + 1
        BY <2>1, <3>1
      <4>2. QED
        BY <1>1, <1>6, <2>1, <4>1 DEF DevInv, PhaseInv
    <3>3. QED
      BY <1>1, <3>2 DEF DevInv, PhaseInv
  <2>8. QED
    BY <2>1, <2>6, <2>7 DEF DevInv
<1>9. QED
  BY <1>7, <1>8 DEF AddPart, DevfsAdd, PartNode

LEMMA TtyFits ==
    ASSUME DevInv, phase = "tty"
    PROVE  Fits(TtyNode)
<1>1. <<"tty">> \in Seq(Chars)
  <2>1. "tty" \in Chars
    BY DEF Chars
  <2>2. QED
    BY <2>1
<1>2. TtyNode \in NodeType /\ TtyNode.name = <<"tty">> /\ TtyNode.dev = "tty" /\ TtyNode.ptr = 0
  BY <1>1 DEF TtyNode, NodeType
<1>3. \A n \in 1 .. Len(nodes) : nodes[n].name # <<"tty">>
  BY DEF DevInv, TreeInv, PhaseInv
<1>4. 0 \in 0 .. Len(nodes) /\ <<"tty">> # <<>>
  BY LenProperties DEF DevInv, NodeInv
<1>5. QED
  BY <1>2, <1>3, <1>4 DEF Fits

LEMMA BootTtyStep ==
    ASSUME DevInv, BootTty
    PROVE  DevInv'
<1>1. phase = "tty" /\ stack = <<>> /\ disk' = disk /\ phase' = "run"
  BY DEF BootTty, DevInv, PhaseInv
<1>2. stack' = <<>>
  BY <1>1 DEF BootTty, DevfsAdd, TtyNode
<1>3. StackInv' /\ PhaseInv'
  BY <1>1, <1>2, EmptySeq DEF StackInv, Running, PhaseInv
<1>4. CASE nodes' = nodes
  BY <1>1, <1>3, <1>4 DEF DevInv, NodeInv, TreeInv, NameInv
<1>5. CASE Len(nodes) < MAXNODES /\ nodes' = Append(nodes, TtyNode)
  BY <1>1, <1>3, <1>5, TtyFits, AppendNode DEF DevInv
<1>6. QED
  BY <1>4, <1>5 DEF BootTty, DevfsAdd

LEMMA MountKeepsDevices ==
    ASSUME NEW n, NEW d, NEW done, VfsMount(n, d, done), stack' = stack
    PROVE  UNCHANGED devVars /\ phase' \in {done, "hung", "wild"}
BY DEF VfsMount, MountBusy, MountOther, MountShort, MountHangs, Mounted, MountFails, devVars

LEMMA DevStep == DevInv /\ [Next]_vars => DevInv'
<1> SUFFICES ASSUME DevInv, [Next]_vars PROVE DevInv'
  OBVIOUS
<1>1. CASE Adding
  <2>1. CASE ProbeHangs
    BY <2>1, Unmoved DEF ProbeHangs
  <2>2. QED
    BY <1>1, <2>1, SearchStep, AddPartStep DEF Adding
<1>2. CASE BootMount
  <2>1. UNCHANGED devVars /\ phase' \in {"tty", "hung", "wild"}
    BY <1>2, MountKeepsDevices DEF BootMount
  <2>2. phase = "add" /\ stack = <<>>
    BY <1>2 DEF BootMount, Searched
  <2>3. QED
    BY <2>1, <2>2, Unmoved
<1>3. CASE BootMountWild
  BY <1>3, Unmoved DEF BootMountWild, devVars
<1>4. CASE BootTty
  BY <1>4, BootTtyStep
<1>5. CASE Calls
  <2>1. CASE MountCall
    <3>1. UNCHANGED devVars /\ phase' \in {"run", "hung", "wild"}
      BY <2>1, MountKeepsDevices DEF MountCall
    <3>2. QED
      BY <3>1, Unmoved
  <2>2. ASSUME NEW n \in 1 .. MAXNODES, NEW o \in OFFSETS, NEW z \in SIZES,
               ReadDevice(n, o, z)
        PROVE  DevInv'
    <3>1. UNCHANGED devVars /\ (phase' \in {"hung", "wild"} \/ phase' = phase)
      BY <2>2 DEF ReadDevice, devVars
    <3>2. QED
      BY <3>1, Unmoved
  <2>3. CASE UNCHANGED <<disk, nodes, stack, phase>>
    BY <2>3, Unmoved DEF devVars
  <2>4. QED
    BY <1>5, <2>1, <2>2, <2>3
       DEF Calls, Return, VfsUmount, UmountNone, VfsFinddir, VfsReaddir, ReadFile
<1>6. CASE UNCHANGED vars
  BY <1>6, Unmoved DEF vars, devVars
<1>7. QED
  BY <1>1, <1>2, <1>3, <1>4, <1>5, <1>6 DEF Next, Boot

LEMMA DevInvariant == Spec => []DevInv
BY DevInit, DevStep, PTL DEF Spec

\* On every disk, devfs_add stays inside its table, every partition leads down
\* to the disk, and no two devices share a name (devfs.c:83, mdpart.c:72).
THEOREM FsDeviceTable == Spec => []DeviceTable
<1>1. DevInv => DeviceTable
  <2> SUFFICES ASSUME DevInv PROVE DeviceTable
    OBVIOUS
  <2>1. DOMAIN nodes = 1 .. Len(nodes) /\ MAXNODES \in Nat
    BY LenProperties, DeviceAssumption DEF DevInv, NodeInv, DeviceAssumption
  <2>2. QED
    BY <2>1 DEF DevInv, NodeInv, TreeInv, NameInv, DeviceTable
<1>2. QED
  BY <1>1, DevInvariant, PTL

(***************************************************************************)
(* Mount points                                                            *)
(***************************************************************************)
FsNode == [dev : Nat, super : Super, inode : Nat, live : {0, 1}]

MountTypes ==
    /\ flag \in [DIRS -> {0, 1}]
    /\ fsnodes \in Seq(FsNode)
    /\ ptr \in [DIRS -> 0 .. Len(fsnodes)]
    /\ \A i \in 1 .. Len(fsnodes) : fsnodes[i].dev \in 1 .. Len(nodes)

MountInv == MountTypes /\ MountsOwned

LEMMA FindsNode ==
    ASSUME DevInv, NEW name, DevfsFinddir(name) # 0
    PROVE  DevfsFinddir(name) \in 1 .. Len(nodes)
<1>1. DOMAIN nodes = 1 .. Len(nodes) /\ Len(nodes) \in Nat
  BY LenProperties DEF DevInv, NodeInv
<1>2. PICK n \in Named(name) : TRUE
  BY DEF DevfsFinddir
<1>3. \A k \in Named(name) : k = n /\ k \in 1 .. Len(nodes)
  BY <1>1, <1>2 DEF Named, DevInv, NameInv
<1>4. \E m \in Named(name) : \A k \in Named(name) : m <= k
  BY <1>1, <1>2, <1>3
<1>5. (CHOOSE m \in Named(name) : \A k \in Named(name) : m <= k) \in Named(name)
  BY <1>4, Zenon
<1>6. QED
  BY <1>2, <1>3, <1>5 DEF DevfsFinddir

LEMMA MountedStep ==
    ASSUME DevInv, MountInv, NEW n \in 1 .. Len(nodes), NEW d \in DIRS, NEW done,
           Mounted(n, d, done)
    PROVE  MountInv'
<1> DEFINE a == SuperRead(n).data[1]
           v == [dev |-> n, super |-> disk.supers[a], inode |-> EXT2_ROOT_INODE, live |-> 1]
           p == Len(fsnodes) + 1
<1>1. Len(fsnodes) \in Nat /\ DOMAIN fsnodes = 1 .. Len(fsnodes) /\ Len(nodes) \in Nat
  BY LenProperties DEF MountInv, MountTypes, DevInv, NodeInv
<1>2. v \in FsNode
  <2>1. a \in DOMAIN disk.supers /\ disk \in IMAGES
    BY DEF Mounted, DevInv, NodeInv
  <2>2. disk.supers[a] \in Super
    BY <2>1, Ext2Assumption DEF Ext2Assumption
  <2>3. QED
    BY <1>1, <2>2 DEF FsNode, EXT2_ROOT_INODE
<1> HIDE DEF a
<1>3. fsnodes' = Append(fsnodes, v) /\ v.dev = n /\ v.live = 1
  BY DEF Mounted, a
<1> HIDE DEF v
<1>4. /\ fsnodes' \in Seq(FsNode) /\ Len(fsnodes') = p
      /\ \A i \in 1 .. Len(fsnodes) : fsnodes'[i] = fsnodes[i]
      /\ fsnodes'[p] = v
  BY <1>2, <1>3, AppendProperties DEF MountInv, MountTypes
<1>5. DOMAIN fsnodes' = 1 .. p
  BY <1>4, LenProperties
<1>6. /\ flag' = [flag EXCEPT ![d] = 1] /\ ptr' = [ptr EXCEPT ![d] = p]
      /\ flag[d] = 0 /\ nodes' = nodes
  BY DEF Mounted
<1>7. ptr[d] = 0
  BY <1>6 DEF MountInv, MountTypes, MountsOwned
<1>8. MountTypes'
  BY <1>1, <1>3, <1>4, <1>6 DEF MountInv, MountTypes
<1>9. /\ ptr'[d] = p /\ flag'[d] = 1 /\ fsnodes'[p].live = 1
      /\ \A e \in DIRS \ {d} : /\ ptr'[e] = ptr[e] /\ flag'[e] = flag[e]
                              /\ ptr[e] \in 0 .. Len(fsnodes)
  BY <1>3, <1>4, <1>6 DEF MountInv, MountTypes
<1>10. MountsOwned'
  <2>1. \A e \in DIRS : ptr'[e] # 0 => flag'[e] = 1 /\ fsnodes'[ptr'[e]].live = 1
    BY <1>1, <1>4, <1>9 DEF MountInv, MountsOwned
  <2>2. \A i \in DOMAIN fsnodes' : fsnodes'[i].live = 1 => \E e \in DIRS : ptr'[e] = i
    <3> SUFFICES ASSUME NEW i \in 1 .. p, fsnodes'[i].live = 1
                 PROVE  \E e \in DIRS : ptr'[e] = i
      BY <1>5
    <3>1. CASE i = p
      BY <1>9, <3>1
    <3>2. CASE i \in 1 .. Len(fsnodes)
      <4>1. PICK e \in DIRS : ptr[e] = i
        BY <1>1, <1>4, <3>2 DEF MountInv, MountsOwned
      <4>2. e # d
        BY <1>1, <1>7, <3>2, <4>1
      <4>3. QED
        BY <1>9, <4>1, <4>2
    <3>3. QED
      BY <1>1, <3>1, <3>2
  <2>3. \A e, g \in DIRS : ptr'[e] = ptr'[g] /\ ptr'[e] # 0 => e = g
    BY <1>1, <1>9 DEF MountInv, MountsOwned
  <2>4. QED
    BY <2>1, <2>2, <2>3 DEF MountsOwned
<1>11. QED
  BY <1>8, <1>10 DEF MountInv

LEMMA UmountStep ==
    ASSUME DevInv, MountInv, NEW d \in DIRS, VfsUmount(d)
    PROVE  MountInv'
<1>1. Len(fsnodes) \in Nat /\ DOMAIN fsnodes = 1 .. Len(fsnodes)
  BY LenProperties DEF MountInv, MountTypes
<1>2. ptr' = [ptr EXCEPT ![d] = 0] /\ flag' = flag /\ nodes' = nodes
  BY DEF VfsUmount
<1>3. /\ ptr'[d] = 0
      /\ \A e \in DIRS \ {d} : ptr'[e] = ptr[e]
      /\ \A e \in DIRS : ptr[e] \in 0 .. Len(fsnodes)
  BY <1>2 DEF MountInv, MountTypes
<1>4. CASE ptr[d] = 0
  <2>1. fsnodes' = fsnodes /\ ptr' = ptr
    BY <1>2, <1>4 DEF VfsUmount, MountInv, MountTypes
  <2>2. QED
    BY <1>2, <2>1 DEF MountInv, MountTypes, MountsOwned
<1>5. CASE ptr[d] # 0
  <2> DEFINE p == ptr[d]
  <2>1. p \in 1 .. Len(fsnodes) /\ fsnodes' = [fsnodes EXCEPT ![p].live = 0]
    BY <1>1, <1>3, <1>5 DEF VfsUmount
  <2>2. fsnodes[p] \in FsNode
    BY <2>1, ElementOfSeq DEF MountInv, MountTypes
  <2> HIDE DEF p
  <2>3. PICK w \in FsNode : /\ w = [fsnodes[p] EXCEPT !.live = 0]
                            /\ w.live = 0 /\ w.dev = fsnodes[p].dev
    <3>1. \A t \in FsNode : LET u == [t EXCEPT !.live = 0]
                            IN u \in FsNode /\ u.live = 0 /\ u.dev = t.dev
      BY DEF FsNode
    <3>2. QED
      BY <2>2, <3>1
  <2>4. fsnodes' = [fsnodes EXCEPT ![p] = w]
    BY <2>1, <2>3
  <2>5. /\ fsnodes' \in Seq(FsNode) /\ Len(fsnodes') = Len(fsnodes)
        /\ fsnodes'[p] = w
        /\ \A i \in 1 .. Len(fsnodes) : i # p => fsnodes'[i] = fsnodes[i]
    <3>1. fsnodes \in Seq(FsNode)
      BY DEF MountInv, MountTypes
    <3>2. p \in 1 .. Len(fsnodes)
      BY <2>1
    <3>3. LET g == [fsnodes EXCEPT ![p] = w]
          IN /\ g \in Seq(FsNode) /\ Len(g) = Len(fsnodes)
             /\ \A j \in 1 .. Len(fsnodes) : g[j] = IF j = p THEN w ELSE fsnodes[j]
      BY <3>1, <3>2, ExceptSeq
    <3>4. PICK g : g = fsnodes' /\ g = [fsnodes EXCEPT ![p] = w]
      BY <2>4
    <3>5. /\ g \in Seq(FsNode) /\ Len(g) = Len(fsnodes)
          /\ \A j \in 1 .. Len(fsnodes) : g[j] = IF j = p THEN w ELSE fsnodes[j]
      BY <3>3, <3>4, Zenon
    <3>6. g[p] = w /\ \A i \in 1 .. Len(fsnodes) : i # p => g[i] = fsnodes[i]
      BY <3>2, <3>5
    <3>7. QED
      BY <3>4, <3>5, <3>6, Zenon
  <2>6. DOMAIN fsnodes' = 1 .. Len(fsnodes)
    BY <2>5, LenProperties
  <2>7. MountTypes'
    <3>1. \A i \in 1 .. Len(fsnodes) : fsnodes'[i].dev = fsnodes[i].dev
      BY <2>3, <2>5
    <3>2. ptr' \in [DIRS -> 0 .. Len(fsnodes)]
      BY <1>1, <1>2 DEF MountInv, MountTypes
    <3>3. flag' \in [DIRS -> {0, 1}]
      BY <1>2 DEF MountInv, MountTypes
    <3>4. \A i \in 1 .. Len(fsnodes') : fsnodes'[i].dev \in 1 .. Len(nodes')
      BY <1>2, <2>5, <3>1 DEF MountInv, MountTypes
    <3>5. QED
      BY <2>5, <3>2, <3>3, <3>4 DEF MountTypes
  <2>8. \A e \in DIRS \ {d} : ptr[e] # 0 => ptr[e] # p
    BY <1>5 DEF MountInv, MountsOwned, p
  <2>9. \A e \in DIRS : ptr'[e] # 0 => flag'[e] = 1 /\ fsnodes'[ptr'[e]].live = 1
    BY <1>1, <1>2, <1>3, <2>5, <2>8 DEF MountInv, MountsOwned
  <2>10. \A i \in DOMAIN fsnodes' : fsnodes'[i].live = 1 => \E e \in DIRS : ptr'[e] = i
    <3> SUFFICES ASSUME NEW i \in 1 .. Len(fsnodes), fsnodes'[i].live = 1
                 PROVE  \E e \in DIRS : ptr'[e] = i
      BY <2>6
    <3>1. i # p
      <4>1. fsnodes'[p].live = 0
        BY <2>3, <2>5, Zenon
      <4>2. fsnodes'[i].live # 0
        OBVIOUS
      <4>3. QED
        BY <4>1, <4>2, Zenon
    <3>2. PICK e \in DIRS : ptr[e] = i
      BY <1>1, <2>5, <3>1 DEF MountInv, MountsOwned
    <3>3. e # d
      BY <3>1, <3>2, Zenon DEF p
    <3>4. QED
      BY <1>3, <3>2, <3>3
  <2>11. \A e, g \in DIRS : ptr'[e] = ptr'[g] /\ ptr'[e] # 0 => e = g
    BY <1>3 DEF MountInv, MountsOwned
  <2>12. QED
    BY <2>7, <2>9, <2>10, <2>11 DEF MountInv, MountsOwned
<1>6. QED
  BY <1>4, <1>5

\* Nothing that concerns the mount points happens; the table may have grown.
LEMMA MountUnmoved ==
    ASSUME DevInv, DevInv', MountInv, UNCHANGED mountVars,
           nodes' = nodes \/ \E v : nodes' = Append(nodes, v)
    PROVE  MountInv'
<1>1. Len(nodes) \in Nat /\ Len(nodes') \in Nat
  BY LenProperties DEF DevInv, NodeInv
<1>2. Len(nodes') >= Len(nodes)
  <2>1. ASSUME NEW v, nodes' = Append(nodes, v)
        PROVE  Len(nodes') = Len(nodes) + 1
    BY <1>1, <2>1 DEF DevInv, NodeInv
  <2>2. QED
    BY <1>1, <2>1
<1>3. MountTypes'
  BY <1>1, <1>2 DEF MountInv, MountTypes, mountVars
<1>4. QED
  BY <1>3 DEF MountInv, MountsOwned, mountVars

LEMMA MountKeepsMounts ==
    ASSUME DevInv, DevInv', MountInv, NEW n \in 1 .. Len(nodes), NEW d \in DIRS, NEW done,
           VfsMount(n, d, done)
    PROVE  MountInv'
<1>1. CASE Mounted(n, d, done)
  BY <1>1, MountedStep
<1>2. CASE UNCHANGED mountVars /\ nodes' = nodes
  BY <1>2, MountUnmoved
<1>3. QED
  BY <1>1, <1>2 DEF VfsMount, MountBusy, MountOther, MountShort, MountHangs, MountFails, mountVars

LEMMA MountStep == DevInv /\ DevInv' /\ MountInv /\ [Next]_vars => MountInv'
<1> SUFFICES ASSUME DevInv, DevInv', MountInv, [Next]_vars PROVE MountInv'
  OBVIOUS
<1>1. CASE Adding /\ UNCHANGED <<flag, ptr, fsnodes, file, ret>>
  <2>1. nodes' = nodes \/ \E v : nodes' = Append(nodes, v)
    BY <1>1 DEF Adding, FoundTable, NoTable, ProbeHangs, AddPart, EndTable, DevfsAdd, devVars
  <2>2. QED
    BY <1>1, <2>1, MountUnmoved DEF mountVars
<1>2. CASE BootMount
  <2>1. DevfsFinddir(RootName) \in 1 .. Len(nodes)
    BY <1>2, FindsNode DEF BootMount
  <2>2. "root" \in DIRS
    BY DEF DIRS
  <2>3. QED
    BY <1>2, <2>1, <2>2, MountKeepsMounts DEF BootMount
<1>3. CASE BootMountWild
  BY <1>3, MountUnmoved DEF BootMountWild, mountVars
<1>4. CASE BootTty
  <2>1. nodes' = nodes \/ \E v : nodes' = Append(nodes, v)
    BY <1>4 DEF BootTty, DevfsAdd
  <2>2. QED
    BY <1>4, <2>1, MountUnmoved DEF BootTty, mountVars
<1>5. CASE MountCall
  <2>1. DOMAIN nodes = 1 .. Len(nodes)
    BY LenProperties DEF DevInv, NodeInv
  <2>2. QED
    BY <1>5, <2>1, MountKeepsMounts DEF MountCall
<1>6. ASSUME NEW d \in DIRS, VfsUmount(d)
      PROVE  MountInv'
  BY <1>6, UmountStep
<1>7. CASE nodes' = nodes /\ UNCHANGED mountVars
  BY <1>7, MountUnmoved
<1>8. CASE Calls
  BY <1>5, <1>6, <1>7, <1>8 DEF Calls, Return, UmountNone, VfsFinddir, VfsReaddir, ReadFile,
     ReadDevice, mountVars
<1>9. CASE UNCHANGED vars
  BY <1>7, <1>9 DEF vars, mountVars
<1>10. QED
  BY <1>1, <1>2, <1>3, <1>4, <1>8, <1>9 DEF Next, Boot

LEMMA MountInit == Init => MountInv
<1> SUFFICES ASSUME Init PROVE MountInv
  OBVIOUS
<1>1. fsnodes \in Seq(FsNode) /\ Len(fsnodes) = 0 /\ DOMAIN fsnodes = 1 .. 0
  BY EmptySeq, LenProperties DEF Init
<1>2. MountTypes
  BY <1>1 DEF Init, MountTypes
<1>3. MountsOwned
  BY <1>1 DEF Init, MountsOwned
<1>4. QED
  BY <1>2, <1>3 DEF MountInv

LEMMA MountInvariant == Spec => [](DevInv /\ MountInv)
<1>1. Init => DevInv /\ MountInv
  BY DevInit, MountInit
<1>2. DevInv /\ MountInv /\ [Next]_vars => DevInv' /\ MountInv'
  BY DevStep, MountStep
<1>3. QED
  BY <1>1, <1>2, PTL DEF Spec

\* No directory ever points to a file system that vfs_umount released, and none
\* that is not released is lost or shared (vfs.c:123-160).
THEOREM FsMountsOwned == Spec => []MountsOwned
<1>1. MountInv => MountsOwned
  BY DEF MountInv
<1>2. QED
  BY <1>1, MountInvariant, PTL

\* The tables, mount points and phases keep their types.
THEOREM FsTypes == Spec => []TypeOK
<1>1. DevInv /\ MountInv => TypeOK
  <2> SUFFICES ASSUME DevInv, MountInv PROVE TypeOK
    OBVIOUS
  <2>1. DOMAIN nodes = 1 .. Len(nodes) /\ DOMAIN fsnodes = 1 .. Len(fsnodes)
    BY LenProperties DEF DevInv, NodeInv, MountInv, MountTypes
  <2>2. \A n \in 1 .. Len(nodes) : nodes[n] \in NodeType
    BY ElementOfSeq DEF DevInv, NodeInv
  <2>3. \A i \in 1 .. Len(fsnodes) : fsnodes[i] \in FsNode
    BY ElementOfSeq DEF MountInv, MountTypes
  <2>4. \A n \in 1 .. Len(nodes) : nodes[n].dev \in {"main", "part", "tty"}
    BY <2>2 DEF NodeType
  <2>5. \A i \in 1 .. Len(fsnodes) : fsnodes[i].live \in {0, 1}
    BY <2>3 DEF FsNode
  <2>6. QED
    BY <2>1, <2>4, <2>5 DEF TypeOK, DevInv, NodeInv, PhaseInv, MountInv, MountTypes
<1>2. QED
  BY <1>1, MountInvariant, PTL

(***************************************************************************)
(* Reads                                                                   *)
(***************************************************************************)
\* The node of a device and, if it is a partition, of the one it lies on.
LEMMA NodeFacts ==
    ASSUME NodeInv, TreeInv, NEW n \in DOMAIN nodes
    PROVE  /\ DOMAIN nodes \in SUBSET (0 .. MAXNODES) /\ MAXNODES \in Nat /\ n \in Nat
           /\ nodes[n] \in NodeType
           /\ nodes[n].dev \in {"main", "part", "tty"}
           /\ nodes[n].reserved \in Nat /\ nodes[n].length \in Nat
           /\ nodes[n].dev = "part" => nodes[n].ptr \in DOMAIN nodes /\ nodes[n].ptr < n
<1>1. DOMAIN nodes = 1 .. Len(nodes) /\ Len(nodes) \in Nat /\ MAXNODES \in Nat
  BY LenProperties, DeviceAssumption DEF NodeInv, DeviceAssumption
<1>2. Len(nodes) <= MAXNODES
  BY <1>1 DEF NodeInv
<1>3. nodes[n] \in NodeType
  BY <1>1, ElementOfSeq DEF NodeInv
<1>4. nodes[n].dev = "part" => nodes[n].ptr \in DOMAIN nodes /\ nodes[n].ptr < n
  BY <1>1 DEF TreeInv
<1> QED
  BY <1>1, <1>2, <1>3, <1>4 DEF NodeType

StartBody(ns, f, n) == IF ns[n].dev # "part" THEN 0 ELSE ns[n].reserved + f[ns[n].ptr]

LEMMA StartDef ==
    ASSUME NodeInv, TreeInv
    PROVE  /\ \A n \in DOMAIN nodes : StartOf[n] = StartBody(nodes, StartOf, n)
           /\ \A n \in DOMAIN nodes : StartOf[n] \in Nat
<1> DEFINE D == DOMAIN nodes
           G == [f \in [D -> Nat] |-> [n \in D |-> StartBody(nodes, f, n)]]
<1>1. D \in SUBSET (0 .. MAXNODES) /\ MAXNODES \in Nat
  BY LenProperties, DeviceAssumption DEF NodeInv, DeviceAssumption
<1>2. \A n \in D : /\ nodes[n].reserved \in Nat
                   /\ nodes[n].dev = "part" => nodes[n].ptr \in D /\ nodes[n].ptr < n
  BY NodeFacts
<1>3. \A f \in [D -> Nat] : \A n \in D : StartBody(nodes, f, n) \in Nat
  BY <1>2 DEF StartBody
<1>4. G \in [[D -> Nat] -> [D -> Nat]]
  BY <1>3
<1>5. \A f \in [D -> Nat] : /\ G[f] = [n \in D |-> StartBody(nodes, f, n)]
                            /\ \A n \in D : G[f][n] = StartBody(nodes, f, n)
  OBVIOUS
<1> HIDE DEF G
<1>6. Local(D, Nat, G)
  <2> SUFFICES ASSUME NEW f \in [D -> Nat], NEW g \in [D -> Nat], NEW n \in D,
                      \A y \in D : y < n => f[y] = g[y]
               PROVE  G[f][n] = G[g][n]
    BY Zenon DEF Local
  <2>1. StartBody(nodes, f, n) = StartBody(nodes, g, n)
    BY <1>2 DEF StartBody
  <2>2. G[f][n] = StartBody(nodes, f, n)
    BY <1>5
  <2>3. G[g][n] = StartBody(nodes, g, n)
    BY <1>5
  <2> QED
    BY <2>1, <2>2, <2>3
<1>7. \E f \in [D -> Nat] : f = [n \in D |-> StartBody(nodes, f, n)]
  <2> HIDE DEF D
  <2>1. Fixpoint(D, Nat, G)
    BY <1>1, <1>4, <1>6, FixpointExists
  <2> QED
    BY <1>5, <2>1 DEF Fixpoint
<1>8. StartOf = [n \in D |-> StartBody(nodes, StartOf, n)]
  <2> DEFINE H(f) == [n \in D |-> StartBody(nodes, f, n)]
  <2>1. StartOf = CHOOSE f : f = H(f)
    BY Zenon DEF StartOf, StartBody
  <2>2. \E f : f = H(f)
    BY <1>7
  <2> HIDE DEF H
  <2>3. StartOf = H(StartOf)
    BY <2>1, <2>2, Zenon
  <2> QED
    BY <2>3 DEF H
<1>9. \A n \in D : StartOf[n] = StartBody(nodes, StartOf, n)
  BY <1>8, Zenon
<1>10. \A n \in D : StartOf[n] \in Nat
  <2> DEFINE S == {n \in D : StartOf[n] \in Nat}
  <2>1. ASSUME NEW n \in D, \A y \in D : y < n => y \in S PROVE n \in S
    BY <1>2, <1>9, <2>1 DEF StartBody
  <2>2. D \in SUBSET Nat
    BY <1>1
  <2> HIDE DEF S, D
  <2>3. \A n \in D : n \in S
    BY <2>1, <2>2, InductionBelow
  <2> QED
    BY <2>3 DEF S
<1> QED
  BY <1>9, <1>10
AroundBody(ns, f, n) == IF ns[n].dev # "part" THEN {n} ELSE {n} \cup f[ns[n].ptr]

LEMMA AroundDef ==
    ASSUME NodeInv, TreeInv
    PROVE  /\ \A n \in DOMAIN nodes : AroundOf[n] = AroundBody(nodes, AroundOf, n)
           /\ \A n \in DOMAIN nodes : AroundOf[n] \in SUBSET DOMAIN nodes
<1> DEFINE D == DOMAIN nodes
           V == SUBSET D
           G == [f \in [D -> V] |-> [n \in D |-> AroundBody(nodes, f, n)]]
<1>1. D \in SUBSET (0 .. MAXNODES) /\ MAXNODES \in Nat
  BY LenProperties, DeviceAssumption DEF NodeInv, DeviceAssumption
<1>2. \A n \in D : nodes[n].dev = "part" => nodes[n].ptr \in D /\ nodes[n].ptr < n
  BY NodeFacts
<1>3. \A f \in [D -> V] : \A n \in D : AroundBody(nodes, f, n) \in V
  BY <1>2 DEF AroundBody
<1>4. V # {} /\ {} \in V /\ G \in [[D -> V] -> [D -> V]]
  BY <1>3
<1>5. \A f \in [D -> V] : /\ G[f] = [n \in D |-> AroundBody(nodes, f, n)]
                            /\ \A n \in D : G[f][n] = AroundBody(nodes, f, n)
  OBVIOUS
<1> HIDE DEF G
<1>6. Local(D, V, G)
  <2> SUFFICES ASSUME NEW f \in [D -> V], NEW g \in [D -> V], NEW n \in D,
                      \A y \in D : y < n => f[y] = g[y]
               PROVE  G[f][n] = G[g][n]
    BY Zenon DEF Local
  <2>1. AroundBody(nodes, f, n) = AroundBody(nodes, g, n)
    BY <1>2 DEF AroundBody
  <2>2. G[f][n] = AroundBody(nodes, f, n)
    BY <1>5
  <2>3. G[g][n] = AroundBody(nodes, g, n)
    BY <1>5
  <2> QED
    BY <2>1, <2>2, <2>3
<1>7. \E f \in [D -> V] : f = [n \in D |-> AroundBody(nodes, f, n)]
  <2> HIDE DEF D, V
  <2>1. Fixpoint(D, V, G)
    BY <1>1, <1>4, <1>6, FixpointExists
  <2> QED
    BY <1>5, <2>1 DEF Fixpoint
<1>8. AroundOf = [n \in D |-> AroundBody(nodes, AroundOf, n)]
  <2> DEFINE H(f) == [n \in D |-> AroundBody(nodes, f, n)]
  <2>1. AroundOf = CHOOSE f : f = H(f)
    BY Zenon DEF AroundOf, AroundBody
  <2>2. \E f : f = H(f)
    BY <1>7
  <2> HIDE DEF H
  <2>3. AroundOf = H(AroundOf)
    BY <2>1, <2>2, Zenon
  <2> QED
    BY <2>3 DEF H
<1>9. \A n \in D : AroundOf[n] = AroundBody(nodes, AroundOf, n)
  BY <1>8, Zenon
<1>10. \A n \in D : AroundOf[n] \in SUBSET DOMAIN nodes
  <2> DEFINE S == {n \in D : AroundOf[n] \in SUBSET DOMAIN nodes}
  <2>1. ASSUME NEW n \in D, \A y \in D : y < n => y \in S PROVE n \in S
    BY <1>2, <1>9, <2>1 DEF AroundBody
  <2>2. D \in SUBSET Nat
    BY <1>1
  <2> HIDE DEF S, D
  <2>3. \A n \in D : n \in S
    BY <2>1, <2>2, InductionBelow
  <2> QED
    BY <2>3 DEF S
<1> QED
  BY <1>9, <1>10

LEMMA Division ==
    ASSUME NEW a \in Nat, NEW b \in Nat \ {0}
    PROVE  /\ a \div b \in Nat /\ a % b \in Nat /\ a % b < b
           /\ (a \div b) * b \in Nat
           /\ (a \div b) * b <= a /\ a < (a \div b) * b + b
           /\ a = (a \div b) * b + (a % b)
           /\ a < b => a \div b = 0 /\ a % b = a
OBVIOUS

\* What is left of a number as an int: itself if it fits, never more.
LEMMA IntFacts ==
    ASSUME NEW x \in Int
    PROVE  /\ W \div 2 \in Nat /\ W \in Nat \ {0}
           /\ AsInt(x) \in Int /\ AsInt(x) < W \div 2 /\ AsInt(x) >= W \div 2 - W
           /\ x >= 0 /\ AsInt(x) >= 0 => AsInt(x) <= x
           /\ x >= 0 /\ AsInt(x) < 0 => x >= W \div 2
           /\ x < W \div 2 /\ x >= W \div 2 - W => AsInt(x) = x
<1>1. W \in Nat \ {0}
  BY DeviceAssumption DEF DeviceAssumption
<1>2. PICK h : h = W \div 2
  OBVIOUS
<1>3. h \in Nat /\ 2 * h <= W /\ W < 2 * h + 2
  BY <1>1, <1>2
<1>4. PICK m : m = x % W
  OBVIOUS
<1>5. /\ m \in Nat /\ m < W
      /\ x >= 0 => m <= x
      /\ x >= 0 /\ x < W => m = x
      /\ x < 0 /\ x >= -W => m = x + W
  <2>1. m \in Nat /\ m < W
    BY <1>1, <1>4
  <2>2. x >= 0 => m <= x /\ (x < W => m = x)
    BY <1>1, <1>4, Division
  <2>3. ASSUME x < 0, x >= -W PROVE m = x + W
    BY <1>1, <1>4, <2>3
  <2> QED
    BY <2>1, <2>2, <2>3
<1>6. AsInt(x) = IF m < h THEN m ELSE m - W
  BY <1>2, <1>4 DEF AsInt
<1> QED
  BY <1>1, <1>2, <1>3, <1>5, <1>6

\* What the drivers answer.
Result == [code : {"ok", "EINVAL", "hang", "wild"}, data : Seq(Int)]

LEMMA DriverTypes ==
    ASSUME NEW o \in Nat, NEW len \in Nat
    PROVE  AtaRead(o, len) \in Result /\ InitrdRead(o, len) \in Result
           /\ Failed("EINVAL") \in Result /\ Failed("wild") \in Result
<1>1. /\ Failed("EINVAL") \in Result /\ Failed("hang") \in Result
      /\ Failed("wild") \in Result
  BY DEF Failed, Result
<1>2. \A data \in [1 .. len -> Int] : [code |-> "ok", data |-> data] \in Result
  <2>1. \A data \in [1 .. len -> Int] : data \in Seq(Int)
    BY SeqDef
  <2> QED
    BY <2>1 DEF Result
<1>3. InitrdRead(o, len) \in Result
  <2>1. [k \in 1 .. len |-> o + k - 1] \in [1 .. len -> Int]
    OBVIOUS
  <2> QED
    BY <1>2, <2>1 DEF InitrdRead
<1>4. AtaRead(o, len) \in Result
  <2> DEFINE sectors == AtaPioRead((len + SECTOR - 1) \div SECTOR)
             data == [k \in 1 .. len |->
                        IF (o % SECTOR) + k <= sectors * SECTOR THEN o + k - 1 ELSE STALE]
  <2>1. data \in [1 .. len -> Int]
    BY DEF STALE
  <2>2. AtaRead(o, len) = IF sectors = 0 THEN Failed("hang") ELSE [code |-> "ok", data |-> data]
    BY DEF AtaRead
  <2> HIDE DEF sectors, data
  <2> QED
    BY <1>1, <1>2, <2>1, <2>2
<1> QED
  BY <1>1, <1>3, <1>4

LEMMA HalfWord ==
    /\ W \div 2 \in Nat /\ W \div 2 > 0
    /\ \A n \in Nat : n <= (MAXSEC - 1) * SECTOR => n < W \div 2
<1>1. /\ MAXSEC * SECTOR <= W \div 2 /\ MAXSEC \in Nat \ {0} /\ SECTOR \in Nat \ {0}
      /\ W \in Nat \ {0}
  BY DeviceAssumption DEF DeviceAssumption
<1>2. MAXSEC * SECTOR \in Nat /\ (MAXSEC - 1) * SECTOR + SECTOR = MAXSEC * SECTOR
  BY <1>1
<1>3. PICK h : h = W \div 2
  OBVIOUS
<1>4. h \in Nat
  BY <1>1, <1>3
<1>5. PICK p \in Nat, q \in Int : p = MAXSEC * SECTOR /\ q = (MAXSEC - 1) * SECTOR /\ q + SECTOR = p
  BY <1>1, <1>2
<1>6. q >= 0
  <2>1. MAXSEC - 1 \in Nat
    BY <1>1
  <2>2. (MAXSEC - 1) * SECTOR \in Nat
    BY <1>1, <2>1
  <2> QED
    BY <1>5, <2>2
<1> QED
  BY <1>1, <1>3, <1>4, <1>5, <1>6

\* How many bytes r may be answered with: as many as were asked for, or, if an
\* int made a huge request of it, as many as an int can count.
Room(r, m) ==
    /\ m < W \div 2
    /\ r.size >= 0 => m <= r.size
    /\ r.size < 0 /\ r.offset + r.size >= 0 => m = 0

LEMMA CutFacts ==
    ASSUME NEW v, v.length \in Nat, NEW r \in Request, r.offset <= v.length,
           NEW c, c = Cut(v, r.offset, r.size)
    PROVE  /\ c \in Int /\ c < W \div 2 /\ c >= W \div 2 - W /\ W \div 2 \in Nat /\ W \div 2 > 0
           /\ FitsInt(r.size) /\ r.size >= 0 =>
                 c = IF r.offset + r.size <= v.length THEN r.size ELSE v.length - r.offset
           /\ \A m \in Nat, res \in Nat :
                 Room([offset |-> r.offset + res, size |-> c], m) =>
                    Room(r, m) /\ (m > 0 => r.offset + m <= v.length)
<1>1. PICK o \in Nat, z \in Int, len \in Nat, h \in {W \div 2} :
          o = r.offset /\ z = r.size /\ len = v.length /\ h = W \div 2
  BY DEF Request
<1>2. PICK x : x = IF o + z \in 0 .. len THEN z ELSE len - o
  OBVIOUS
<1>3. x \in Int /\ c = AsInt(x) /\ o <= len /\ z >= h - W
  BY <1>1, <1>2 DEF Cut, Request
<1>4. /\ h \in Nat /\ W \in Nat \ {0} /\ c \in Int /\ c < h /\ c >= h - W
      /\ x >= 0 /\ c >= 0 => c <= x
      /\ x >= 0 /\ c < 0 => x >= h
      /\ x < h /\ x >= h - W => c = x
  BY <1>1, <1>3, IntFacts
<1>5. h > 0
  BY <1>1, HalfWord
<1>6. FitsInt(z) /\ z >= 0 => c = IF o + z <= len THEN z ELSE len - o
  BY <1>1, <1>2, <1>3, <1>4 DEF FitsInt
<1>7. ASSUME NEW m \in Nat, NEW res \in Nat, Room([offset |-> o + res, size |-> c], m)
      PROVE  Room(r, m) /\ (m > 0 => o + m <= len)
  <2>1. m < h /\ (c >= 0 => m <= c) /\ (c < 0 /\ o + res + c >= 0 => m = 0)
    BY <1>1, <1>7 DEF Room
  <2>2. CASE x >= 0
    <3>1. m <= x /\ o + x <= len /\ (z >= 0 => x <= z) /\ (z < 0 => o + z < 0)
      BY <1>2, <1>3, <1>4, <2>1, <2>2
    <3>2. o + m <= len /\ (z >= 0 => m <= z)
      BY <1>3, <3>1
    <3> QED
      BY <1>1, <2>1, <3>1, <3>2 DEF Room
  <2>3. CASE x < 0
    <3>1. x = z /\ o + z >= 0 /\ c = z
      BY <1>2, <1>3, <1>4, <2>3
    <3>2. m = 0
      BY <1>4, <2>1, <2>3, <3>1
    <3> QED
      BY <1>1, <1>5, <2>3, <3>1, <3>2 DEF Room
  <2> QED
    BY <1>3, <2>2, <2>3
<1> QED
  BY <1>1, <1>4, <1>5, <1>6, <1>7

\* One level of a read; f answers for the devices below.
ReadBody(ns, driver, f, n, r) ==
    LET v == ns[n]
        len == Cut(v, r.offset, r.size)
    IN IF v.dev = "tty" \/ r.offset > v.length THEN Failed("EINVAL")
       ELSE IF v.dev = "part"
       THEN f[v.ptr][[offset |-> r.offset + v.reserved, size |-> len]]
       ELSE IF len < 0 THEN Failed("wild")
       ELSE IF driver = "ata" THEN AtaRead(r.offset, len)
       ELSE InitrdRead(r.offset, len)

Reading(ns, driver, f, n) == [r \in Request |-> ReadBody(ns, driver, f, n, r)]

\* The request that mdpart_read hands on.
Onward(v, r) == [offset |-> r.offset + v.reserved, size |-> Cut(v, r.offset, r.size)]

\* ReadBody by cases.
LEMMA ReadCases ==
    ASSUME NodeInv, TreeInv, NEW f, NEW n \in DOMAIN nodes, NEW r \in Request
    PROVE  LET v == nodes[n]
               a == ReadBody(nodes, disk.driver, f, n, r)
               c == Cut(v, r.offset, r.size)
           IN /\ r.offset \in Nat /\ r.size \in Int
              /\ v.dev = "tty" \/ r.offset > v.length => a = Failed("EINVAL")
              /\ r.offset <= v.length =>
                    /\ c \in Int
                    /\ Onward(v, r) \in Request
                    /\ v.dev = "part" => a = f[v.ptr][Onward(v, r)]
                    /\ v.dev = "main" /\ c < 0 => a = Failed("wild")
                    /\ v.dev = "main" /\ c >= 0 =>
                          a = IF disk.driver = "ata" THEN AtaRead(r.offset, c)
                              ELSE InitrdRead(r.offset, c)
<1>1. PICK v : v = nodes[n]
  OBVIOUS
<1>2. v.reserved \in Nat /\ v.length \in Nat /\ v.dev \in {"main", "part", "tty"}
  BY <1>1, NodeFacts
<1>3. r.offset \in Nat /\ r.size \in Int
  BY DEF Request
<1>4. PICK len : len = Cut(v, r.offset, r.size)
  OBVIOUS
<1>5. r.offset <= v.length => len \in Int /\ len >= W \div 2 - W
  BY <1>2, <1>3, <1>4, CutFacts
<1>6. r.offset <= v.length => Onward(v, r) \in Request
  BY <1>2, <1>3, <1>4, <1>5 DEF Onward, Request
<1>7. v.dev = "tty" \/ r.offset > v.length =>
         ReadBody(nodes, disk.driver, f, n, r) = Failed("EINVAL")
  BY <1>1, <1>2, <1>3 DEF ReadBody
<1>8. v.dev = "part" /\ r.offset <= v.length =>
         ReadBody(nodes, disk.driver, f, n, r) = f[v.ptr][Onward(v, r)]
  BY <1>1, <1>2, <1>3, <1>4 DEF ReadBody, Onward
<1>9. v.dev = "main" /\ r.offset <= v.length /\ len < 0 =>
         ReadBody(nodes, disk.driver, f, n, r) = Failed("wild")
  BY <1>1, <1>2, <1>3, <1>4, <1>5 DEF ReadBody
<1>10. v.dev = "main" /\ r.offset <= v.length /\ len >= 0 =>
         ReadBody(nodes, disk.driver, f, n, r)
            = IF disk.driver = "ata" THEN AtaRead(r.offset, len) ELSE InitrdRead(r.offset, len)
  BY <1>1, <1>2, <1>3, <1>4, <1>5 DEF ReadBody
<1> QED
  BY <1>1, <1>3, <1>4, <1>5, <1>6, <1>7, <1>8, <1>9, <1>10

LEMMA DeviceReadDef ==
    ASSUME NodeInv, TreeInv
    PROVE  /\ \A n \in DOMAIN nodes : \A r \in Request :
                 DeviceRead[n][r] = ReadBody(nodes, disk.driver, DeviceRead, n, r)
           /\ \A n \in DOMAIN nodes : \A r \in Request : DeviceRead[n][r] \in Result
<1> DEFINE D == DOMAIN nodes
           V == [Request -> Result]
           Body(f, n) == Reading(nodes, disk.driver, f, n)
           G == [f \in [D -> V] |-> [n \in D |-> Body(f, n)]]
           e == [r \in Request |-> Failed("EINVAL")]
<1>1. D \in SUBSET (0 .. MAXNODES) /\ MAXNODES \in Nat
  BY LenProperties, DeviceAssumption DEF NodeInv, DeviceAssumption
<1>2. \A n \in D : nodes[n].dev = "part" => nodes[n].ptr \in D /\ nodes[n].ptr < n
  BY NodeFacts
<1>3. ASSUME NEW f, NEW n \in D, NEW r \in Request,
             \A y \in D : y < n => \A q \in Request : f[y][q] \in Result
      PROVE  ReadBody(nodes, disk.driver, f, n, r) \in Result
  <2>1. nodes[n].dev \in {"main", "part", "tty"} /\ nodes[n].length \in Nat
    BY NodeFacts
  <2>2. CASE nodes[n].dev = "tty" \/ r.offset > nodes[n].length
    BY <2>2, ReadCases, DriverTypes
  <2>3. CASE nodes[n].dev = "part" /\ r.offset <= nodes[n].length
    BY <1>2, <1>3, <2>3, ReadCases, SMTT(30)
  <2>4. CASE nodes[n].dev = "main" /\ r.offset <= nodes[n].length
    <3>1. PICK c \in Int : c = Cut(nodes[n], r.offset, r.size)
      BY <2>4, ReadCases
    <3>2. CASE c < 0
      BY <2>4, <3>1, <3>2, ReadCases, DriverTypes
    <3>3. CASE c >= 0
      BY <2>4, <3>1, <3>3, ReadCases, DriverTypes
    <3> QED
      BY <3>1, <3>2, <3>3
  <2>5. r.offset \in Nat
    BY DEF Request
  <2> QED
    BY <2>1, <2>2, <2>3, <2>4, <2>5
<1>4. \A f \in [D -> V] : \A n \in D : Body(f, n) \in V
  <2> SUFFICES ASSUME NEW f \in [D -> V], NEW n \in D PROVE Body(f, n) \in V
    OBVIOUS
  <2>1. \A r \in Request : ReadBody(nodes, disk.driver, f, n, r) \in Result
    BY <1>3
  <2> QED
    BY <2>1 DEF Reading
<1>5. G \in [[D -> V] -> [D -> V]] /\ e \in V
  <2>1. e \in V
    BY DriverTypes
  <2> HIDE DEF Body, V, e
  <2> QED
    BY <1>4, <2>1
<1>6. \A f \in [D -> V] : /\ G[f] = [n \in D |-> Body(f, n)]
                          /\ \A n \in D : G[f][n] = Body(f, n)
  OBVIOUS
<1> HIDE DEF G
<1>7. Local(D, V, G)
  <2> SUFFICES ASSUME NEW f \in [D -> V], NEW g \in [D -> V], NEW n \in D,
                      \A y \in D : y < n => f[y] = g[y]
               PROVE  G[f][n] = G[g][n]
    BY Zenon DEF Local
  <2>1. \A r \in Request :
           ReadBody(nodes, disk.driver, f, n, r) = ReadBody(nodes, disk.driver, g, n, r)
    <3> SUFFICES ASSUME NEW r \in Request
                 PROVE  ReadBody(nodes, disk.driver, f, n, r) = ReadBody(nodes, disk.driver, g, n, r)
      OBVIOUS
    <3>1. nodes[n].dev \in {"main", "part", "tty"} /\ nodes[n].length \in Nat
      BY NodeFacts
    <3>2. nodes[n].dev = "part" => f[nodes[n].ptr] = g[nodes[n].ptr]
      BY <1>2
    <3>3. r.offset \in Nat
      BY DEF Request
    <3> HIDE DEF V
    <3>4. CASE nodes[n].dev = "tty" \/ r.offset > nodes[n].length
      BY <3>4 DEF ReadBody
    <3>5. CASE nodes[n].dev = "part" /\ r.offset <= nodes[n].length
      BY <3>2, <3>5 DEF ReadBody
    <3>6. CASE nodes[n].dev = "main" /\ r.offset <= nodes[n].length
      BY <3>6 DEF ReadBody
    <3> QED
      BY <3>1, <3>3, <3>4, <3>5, <3>6
  <2>2. Body(f, n) = Body(g, n)
    BY <2>1, Zenon DEF Reading
  <2>3. G[f][n] = Body(f, n)
    BY <1>6
  <2>4. G[g][n] = Body(g, n)
    BY <1>6
  <2> QED
    BY <2>2, <2>3, <2>4, Zenon
<1>8. \E f \in [D -> V] : f = [n \in D |-> Body(f, n)]
  <2> HIDE DEF D, V, e, Body
  <2>1. Fixpoint(D, V, G)
    BY <1>1, <1>5, <1>7, FixpointExists
  <2> QED
    BY <1>6, <2>1 DEF Fixpoint
<1>9. DeviceRead = [n \in D |-> Body(DeviceRead, n)]
  <2> DEFINE H(f) == [n \in D |-> Body(f, n)]
  <2>1. DeviceRead = CHOOSE f : f = H(f)
    BY DEF DeviceRead, Reading, ReadBody
  <2>2. \E f : f = H(f)
    BY <1>8
  <2> HIDE DEF H
  <2>3. DeviceRead = H(DeviceRead)
    BY <2>1, <2>2, Zenon
  <2> QED
    BY <2>3 DEF H
<1>10. \A n \in D : DeviceRead[n] = Body(DeviceRead, n)
  <2> HIDE DEF Body
  <2> QED
    BY <1>9, Zenon
<1>11. \A n \in D : \A r \in Request :
          DeviceRead[n][r] = ReadBody(nodes, disk.driver, DeviceRead, n, r)
  BY <1>10, Zenon DEF Reading
<1>12. \A n \in D : \A r \in Request : DeviceRead[n][r] \in Result
  <2> DEFINE S == {n \in D : \A r \in Request : DeviceRead[n][r] \in Result}
  <2>1. ASSUME NEW n \in D, \A y \in D : y < n => y \in S PROVE n \in S
    BY <1>3, <1>11, <2>1
  <2>2. D \in SUBSET Nat
    BY <1>1
  <2> HIDE DEF S, D
  <2>3. \A n \in D : n \in S
    BY <2>1, <2>2, InductionBelow
  <2> QED
    BY <2>3 DEF S
<1> QED
  BY <1>11, <1>12

\* A request in reach of a device at o: its bytes, counted on the disk.
InReach(n, a) == Start(n) <= a /\ a < Start(n) + nodes[n].length

LEMMA CoversDef ==
    ASSUME NodeInv, TreeInv, NEW n \in DOMAIN nodes, NEW a
    PROVE  /\ nodes[n].dev # "part" =>
                 Start(n) = 0 /\ (Covers(n, a) <=> InReach(n, a))
           /\ nodes[n].dev = "part" =>
                 /\ Start(n) = nodes[n].reserved + Start(nodes[n].ptr)
                 /\ Covers(n, a) <=> InReach(n, a) /\ Covers(nodes[n].ptr, a)
<1>1. StartOf[n] = StartBody(nodes, StartOf, n) /\ AroundOf[n] = AroundBody(nodes, AroundOf, n)
  BY StartDef, AroundDef
<1>2. CASE nodes[n].dev # "part"
  BY <1>1, <1>2 DEF StartBody, AroundBody, Covers, Start, Around, InReach
<1>3. CASE nodes[n].dev = "part"
  BY <1>1, <1>3 DEF StartBody, AroundBody, Covers, Start, Around, InReach
<1> QED
  BY <1>2, <1>3

\* What the device n may answer to the request r.
Within(n, r, a) ==
    /\ DOMAIN a.data = 1 .. Len(a.data) /\ Len(a.data) \in Nat
    /\ Room(r, Len(a.data))
    /\ \A k \in DOMAIN a.data : a.data[k] # STALE =>
          a.data[k] = Start(n) + r.offset + k - 1 /\ Covers(n, a.data[k])

LEMMA DriverWithin ==
    ASSUME NEW o \in Nat, NEW len \in Nat, NEW a,
           a = AtaRead(o, len) \/ a = InitrdRead(o, len)
    PROVE  /\ DOMAIN a.data = 1 .. Len(a.data) /\ Len(a.data) \in Nat /\ Len(a.data) <= len
           /\ \A k \in DOMAIN a.data : k \in Nat \ {0} /\ k <= len
           /\ \A k \in DOMAIN a.data : a.data[k] # STALE => a.data[k] = o + k - 1
<1>1. CASE a.data = <<>>
  BY <1>1
<1>2. CASE a = AtaRead(o, len) /\ a.data # <<>>
  <2> DEFINE sectors == AtaPioRead((len + SECTOR - 1) \div SECTOR)
             data == [k \in 1 .. len |->
                        IF (o % SECTOR) + k <= sectors * SECTOR THEN o + k - 1 ELSE STALE]
  <2>1. a.data = data
    BY <1>2 DEF AtaRead, Failed
  <2>2. DOMAIN data = 1 .. len /\ Len(data) = len
    OBVIOUS
  <2>3. \A k \in 1 .. len : data[k] # STALE => data[k] = o + k - 1
    OBVIOUS
  <2> HIDE DEF data
  <2> QED
    BY <2>1, <2>2, <2>3
<1>3. CASE a = InitrdRead(o, len)
  <2> DEFINE data == [k \in 1 .. len |-> o + k - 1]
  <2>1. a.data = data
    BY <1>3 DEF InitrdRead
  <2>2. DOMAIN data = 1 .. len /\ Len(data) = len
    OBVIOUS
  <2>3. \A k \in 1 .. len : data[k] = o + k - 1
    OBVIOUS
  <2> HIDE DEF data
  <2> QED
    BY <2>1, <2>2, <2>3
<1> QED
  BY <1>1, <1>2, <1>3

LEMMA SizeType ==
    ASSUME NEW o \in Nat, NEW z \in Nat
    PROVE  [offset |-> o, size |-> z] \in Request
<1>1. W \div 2 \in Nat /\ W \in Nat \ {0} /\ W \div 2 <= W
  BY IntFacts
<1> QED
  BY <1>1 DEF Request

LEMMA NoData ==
    ASSUME NEW n, NEW r \in Request, NEW a, a.data = <<>>
    PROVE  Within(n, r, a)
<1>1. W \div 2 > 0 /\ r.size \in Int
  BY HalfWord DEF Request
<1>2. Len(a.data) = 0 /\ Len(a.data) \in Nat /\ DOMAIN a.data = {}
  OBVIOUS
<1>3. 1 .. 0 = {}
  OBVIOUS
<1> QED
  BY <1>1, <1>2, <1>3 DEF Within, Room

\* Every read through a chain of partitions stays in all of their windows.
LEMMA DeviceWindow ==
    ASSUME NodeInv, TreeInv
    PROVE  \A n \in DOMAIN nodes : \A r \in Request : Within(n, r, DeviceRead[n][r])
<1> DEFINE D == DOMAIN nodes
           S == {n \in D : \A r \in Request : Within(n, r, DeviceRead[n][r])}
<1>1. ASSUME NEW n \in D, \A y \in D : y < n => y \in S,
             NEW r \in Request
      PROVE  Within(n, r, DeviceRead[n][r])
  <2> DEFINE v == nodes[n]
             a == DeviceRead[n][r]
             len == Cut(v, r.offset, r.size)
  <2>1. /\ v.dev \in {"main", "part", "tty"} /\ v.reserved \in Nat /\ v.length \in Nat
        /\ v.dev = "part" => v.ptr \in D /\ v.ptr < n
        /\ r.offset \in Nat /\ r.size \in Int /\ Start(n) \in Nat
    BY NodeFacts, StartDef DEF Request, Start
  <2>2. a = ReadBody(nodes, disk.driver, DeviceRead, n, r)
    BY DeviceReadDef
  <2>3. CASE v.dev = "tty" \/ r.offset > v.length
    <3>1. a = Failed("EINVAL")
      BY <2>2, <2>3, ReadCases
    <3>2. a.data = <<>>
      BY <3>1 DEF Failed
    <3> QED
      BY <3>2, NoData
  <2>4. CASE v.dev # "tty" /\ r.offset <= v.length
    <3>1. len \in Int /\ len < W \div 2 /\ W \div 2 \in Nat
      BY <2>1, <2>4, CutFacts
    <3>2. CASE v.dev = "main" /\ len < 0
      <4>1. a = Failed("wild")
        BY <2>2, <2>4, <3>2, ReadCases
      <4>2. a.data = <<>>
        BY <4>1 DEF Failed
      <4> QED
        BY <4>2, NoData
    <3>3. CASE v.dev = "main" /\ len >= 0
      <4>1. a = AtaRead(r.offset, len) \/ a = InitrdRead(r.offset, len)
        BY <2>2, <2>4, <3>3, ReadCases
      <4> HIDE DEF a, len
      <4>2. /\ DOMAIN a.data = 1 .. Len(a.data) /\ Len(a.data) \in Nat /\ Len(a.data) <= len
            /\ \A k \in DOMAIN a.data : a.data[k] # STALE => a.data[k] = r.offset + k - 1
        <5>1. len \in Nat
          BY <3>1, <3>3
        <5> QED
          BY <2>1, <4>1, <5>1, DriverWithin, SMTT(30)
      <4>3. Start(n) = 0
        BY <3>3, CoversDef
      <4>4. Room([offset |-> r.offset + 0, size |-> len], Len(a.data))
        BY <3>1, <3>3, <4>2 DEF Room
      <4>5. Room(r, Len(a.data)) /\ (Len(a.data) > 0 => r.offset + Len(a.data) <= v.length)
        BY <2>1, <2>4, <4>2, <4>4, CutFacts DEF len
      <4>6. ASSUME NEW k \in DOMAIN a.data, a.data[k] # STALE
            PROVE  a.data[k] = Start(n) + r.offset + k - 1 /\ Covers(n, a.data[k])
        <5>1. a.data[k] = r.offset + k - 1 /\ k \in Nat \ {0} /\ k <= Len(a.data)
          BY <4>2, <4>6
        <5>2. InReach(n, a.data[k])
          BY <2>1, <4>2, <4>3, <4>5, <5>1 DEF InReach
        <5>3. Covers(n, a.data[k])
          BY <3>3, <5>2, CoversDef
        <5> QED
          BY <2>1, <4>3, <5>1, <5>3
      <4> QED
        BY <4>2, <4>5, <4>6 DEF Within, a
    <3>4. CASE v.dev = "part"
      <4> DEFINE p == v.ptr
                 q == Onward(v, r)
      <4>1. /\ a = DeviceRead[p][q] /\ q \in Request /\ p \in D /\ p < n
            /\ q = [offset |-> r.offset + v.reserved, size |-> len]
        BY <2>1, <2>2, <2>4, <3>4, ReadCases DEF Onward
      <4>2. Within(p, q, a)
        BY <1>1, <4>1
      <4>3. Start(n) = v.reserved + Start(p) /\ Start(p) \in Nat
        BY <3>4, <4>1, CoversDef, StartDef DEF Start
      <4>4. q.offset = r.offset + v.reserved
        BY <4>1
      <4> HIDE DEF a, len, p, q
      <4>5. /\ DOMAIN a.data = 1 .. Len(a.data) /\ Len(a.data) \in Nat
            /\ Room([offset |-> r.offset + v.reserved, size |-> len], Len(a.data))
        BY <4>1, <4>2 DEF Within
      <4>6. Room(r, Len(a.data)) /\ (Len(a.data) > 0 => r.offset + Len(a.data) <= v.length)
        BY <2>1, <2>4, <4>5, CutFacts DEF len
      <4>7. ASSUME NEW k \in DOMAIN a.data, a.data[k] # STALE
            PROVE  a.data[k] = Start(n) + r.offset + k - 1 /\ Covers(n, a.data[k])
        <5>1. /\ a.data[k] = Start(p) + q.offset + k - 1 /\ Covers(p, a.data[k])
              /\ k \in Nat \ {0} /\ k <= Len(a.data)
          BY <4>2, <4>5, <4>7 DEF Within
        <5>2. a.data[k] = Start(n) + r.offset + k - 1
          BY <2>1, <4>3, <4>4, <5>1, SMTT(30)
        <5>3. InReach(n, a.data[k])
          <6>1. r.offset + k - 1 \in Nat /\ r.offset + k - 1 < v.length
            BY <2>1, <4>5, <4>6, <5>1
          <6>2. a.data[k] = Start(n) + (r.offset + k - 1)
            BY <2>1, <5>1, <5>2
          <6> HIDE DEF v
          <6>3. Start(n) <= a.data[k] /\ a.data[k] < Start(n) + v.length
            BY <2>1, <6>1, <6>2
          <6> QED
            BY <6>3 DEF InReach, v
        <5>4. Covers(n, a.data[k])
          BY <3>4, <5>1, <5>3, CoversDef DEF p
        <5> QED
          BY <5>2, <5>4
      <4> QED
        BY <4>5, <4>6, <4>7 DEF Within, a
    <3> QED
      BY <2>1, <2>4, <3>1, <3>2, <3>3, <3>4
  <2> QED
    BY <2>1, <2>3, <2>4
<1>2. D \in SUBSET Nat
  BY LenProperties DEF NodeInv
<1>3. \A n \in D : (\A y \in D : y < n => y \in S) => n \in S
  BY <1>1
<1> HIDE DEF S, D
<1>4. \A n \in D : n \in S
  BY <1>2, <1>3, InductionBelow
<1> QED
  BY <1>4 DEF S, D

LEMMA TimesLess ==
    ASSUME NEW a \in Nat, NEW b \in Nat, NEW c \in Nat \ {0}, a * c < b * c
    PROVE  a < b
<1>1. ASSUME b <= a PROVE b * c <= a * c
  <2>1. PICK d \in Nat : a = b + d
    BY <1>1
  <2>2. a * c = b * c + d * c /\ d * c \in Nat /\ b * c \in Nat
    BY <2>1
  <2> QED
    BY <2>2
<1>2. a * c \in Nat /\ b * c \in Nat
  OBVIOUS
<1> QED
  BY <1>1, <1>2

\* ata_read answers a request that begins with a sector, and that the
\* controller can count, with all its bytes.
LEMMA AtaFull ==
    ASSUME NEW o \in Nat, NEW len \in Nat, o % SECTOR = 0, len > 0,
           len <= (MAXSEC - 1) * SECTOR
    PROVE  Full(AtaRead(o, len), len)
<1>1. SECTOR \in Nat \ {0} /\ MAXSEC \in Nat \ {0}
  BY DeviceAssumption DEF DeviceAssumption
<1> DEFINE c == (len + SECTOR - 1) \div SECTOR
           sectors == AtaPioRead(c)
           data == [k \in 1 .. len |->
                      IF (o % SECTOR) + k <= sectors * SECTOR THEN o + k - 1 ELSE STALE]
<1>2. /\ c \in Nat /\ c * SECTOR \in Nat
      /\ c * SECTOR <= len + SECTOR - 1 /\ len + SECTOR - 1 < c * SECTOR + SECTOR
  BY <1>1, Division
<1> HIDE DEF c
<1>3. c # 0 /\ c < MAXSEC
  <2>1. c # 0
    BY <1>1, <1>2
  <2>2. (MAXSEC - 1) * SECTOR + SECTOR = MAXSEC * SECTOR /\ MAXSEC * SECTOR \in Nat
    BY <1>1
  <2>3. c * SECTOR < MAXSEC * SECTOR
    BY <1>1, <1>2, <2>2
  <2>4. c < MAXSEC
    BY <1>1, <1>2, <2>3, TimesLess
  <2> QED
    BY <2>1, <2>4
<1>4. sectors = c
  BY <1>1, <1>2, <1>3, Division DEF AtaPioRead
<1>5. len <= sectors * SECTOR
  BY <1>1, <1>2, <1>4
<1>6. AtaRead(o, len) = [code |-> "ok", data |-> data]
  BY <1>3, <1>4 DEF AtaRead, c
<1> HIDE DEF sectors
<1>7. DOMAIN data = 1 .. len /\ Len(data) = len
  OBVIOUS
<1>8. \A k \in 1 .. len : data[k] = o + k - 1
  <2>1. c * SECTOR \in Nat
    BY <1>2
  <2>2. ASSUME NEW k \in 1 .. len PROVE (o % SECTOR) + k <= sectors * SECTOR
    BY <1>4, <1>5, <2>1
  <2> QED
    BY <2>2
<1>9. \A k \in 1 .. len : data[k] # STALE
  BY <1>8 DEF STALE
<1> HIDE DEF data
<1> QED
  BY <1>6, <1>7, <1>9 DEF Full

LEMMA InitrdFull ==
    ASSUME NEW o \in Nat, NEW len \in Nat
    PROVE  Full(InitrdRead(o, len), len)
<1> DEFINE data == [k \in 1 .. len |-> o + k - 1]
<1>1. DOMAIN data = 1 .. len /\ Len(data) = len /\ \A k \in 1 .. len : data[k] # STALE
  BY DEF STALE
<1>2. InitrdRead(o, len) = [code |-> "ok", data |-> data]
  BY DEF InitrdRead
<1> HIDE DEF data
<1> QED
  BY <1>1, <1>2 DEF Full

\* The terminal has no bytes, so no partition lies on it.
TtyInv == \A n \in DOMAIN nodes : nodes[n].dev = "tty" => nodes[n].length = 0

\* A request that the device can answer in full.
Served(n, r) ==
    /\ disk.driver = "ata" =>
          (Start(n) + r.offset) % SECTOR = 0 /\ r.size <= (MAXSEC - 1) * SECTOR
    /\ r.size > 0 /\ FitsInt(r.size)
    /\ \A k \in 1 .. r.size : Covers(n, Start(n) + r.offset + k - 1)

LEMMA DeviceComplete ==
    ASSUME NodeInv, TreeInv, TtyInv
    PROVE  \A n \in DOMAIN nodes : \A r \in Request :
              Served(n, r) => Full(DeviceRead[n][r], r.size)
<1> DEFINE D == DOMAIN nodes
           S == {n \in D : \A r \in Request : Served(n, r) => Full(DeviceRead[n][r], r.size)}
<1>1. ASSUME NEW n \in D, \A y \in D : y < n => y \in S, NEW r \in Request, Served(n, r)
      PROVE  Full(DeviceRead[n][r], r.size)
  <2> DEFINE v == nodes[n]
             a == DeviceRead[n][r]
             len == Cut(v, r.offset, r.size)
  <2>1. /\ v.dev \in {"main", "part", "tty"} /\ v.reserved \in Nat /\ v.length \in Nat
        /\ v.dev = "part" => v.ptr \in D /\ v.ptr < n
        /\ r.offset \in Nat /\ r.size \in Int /\ Start(n) \in Nat
    BY NodeFacts, StartDef DEF Request, Start
  <2>2. a = ReadBody(nodes, disk.driver, DeviceRead, n, r)
    BY DeviceReadDef
  <2>3. r.size > 0 /\ r.size \in 1 .. r.size
    BY <1>1, <2>1 DEF Served
  <2>4. \A k \in 1 .. r.size : InReach(n, Start(n) + r.offset + k - 1)
    <3> SUFFICES ASSUME NEW k \in 1 .. r.size PROVE InReach(n, Start(n) + r.offset + k - 1)
      OBVIOUS
    <3>1. Covers(n, Start(n) + r.offset + k - 1)
      BY <1>1 DEF Served
    <3> QED
      BY <2>1, <3>1, CoversDef
  <2>5. r.offset + r.size <= v.length
    <3>1. InReach(n, Start(n) + r.offset + r.size - 1)
      BY <2>3, <2>4
    <3> QED
      BY <2>1, <3>1 DEF InReach
  <2>6. len = r.size /\ r.offset <= v.length
    <3>1. r.offset <= v.length
      BY <2>1, <2>3, <2>5
    <3> QED
      BY <1>1, <2>1, <2>3, <2>5, <3>1, CutFacts DEF Served
  <2>7. v.dev # "tty"
    BY <2>1, <2>3, <2>5 DEF TtyInv
  <2>8. CASE v.dev = "main"
    <3>1. Start(n) = 0
      BY <2>8, CoversDef
    <3>2. a = IF disk.driver = "ata" THEN AtaRead(r.offset, r.size)
              ELSE InitrdRead(r.offset, r.size)
      <4>1. len >= 0
        BY <2>1, <2>3, <2>6
      <4>2. a = IF disk.driver = "ata" THEN AtaRead(r.offset, len) ELSE InitrdRead(r.offset, len)
        BY <2>2, <2>6, <2>8, <4>1, ReadCases
      <4> QED
        BY <2>6, <4>2, Zenon
    <3>3. disk.driver = "ata" => r.offset % SECTOR = 0 /\ r.size <= (MAXSEC - 1) * SECTOR
      BY <1>1, <2>1, <3>1 DEF Served
    <3> HIDE DEF a
    <3>4. CASE disk.driver = "ata"
      BY <2>1, <2>3, <3>2, <3>3, <3>4, AtaFull DEF a
    <3>5. CASE disk.driver # "ata"
      BY <2>1, <2>3, <3>2, <3>5, InitrdFull DEF a
    <3> QED
      BY <3>4, <3>5
  <2>9. CASE v.dev = "part"
    <3> DEFINE p == v.ptr
               q == Onward(v, r)
    <3>1. /\ a = DeviceRead[p][q] /\ q \in Request /\ p \in D /\ p < n
          /\ q.offset = r.offset + v.reserved /\ q.size = r.size
      <4>1. q.offset = r.offset + v.reserved /\ q.size = len
        BY DEF Onward
      <4>2. a = DeviceRead[p][q] /\ q \in Request
        BY <2>2, <2>6, <2>9, ReadCases
      <4> QED
        BY <2>1, <2>6, <2>9, <4>1, <4>2
    <3>2. Start(n) = v.reserved + Start(p) /\ Start(p) \in Nat
      BY <2>9, <3>1, CoversDef, StartDef DEF Start
    <3> HIDE DEF a, p, q
    <3>3. Start(p) + q.offset = Start(n) + r.offset
      BY <2>1, <3>1, <3>2
    <3>4. \A k \in 1 .. q.size : Covers(p, Start(p) + q.offset + k - 1)
      <4> SUFFICES ASSUME NEW k \in 1 .. q.size PROVE Covers(p, Start(p) + q.offset + k - 1)
        OBVIOUS
      <4>1. Covers(n, Start(n) + r.offset + k - 1)
        BY <1>1, <3>1 DEF Served
      <4>2. Covers(p, Start(n) + r.offset + k - 1)
        BY <2>9, <4>1, CoversDef DEF p
      <4> QED
        BY <3>3, <4>2
    <3>5. Served(p, q)
      BY <1>1, <3>1, <3>3, <3>4 DEF Served
    <3> QED
      BY <1>1, <3>1, <3>5 DEF a
  <2> QED
    BY <2>1, <2>7, <2>8, <2>9
<1>2. D \in SUBSET Nat
  BY LenProperties DEF NodeInv
<1>3. \A n \in D : (\A y \in D : y < n => y \in S) => n \in S
  BY <1>1
<1> HIDE DEF S, D
<1>4. \A n \in D : n \in S
  BY <1>2, <1>3, InductionBelow
<1> QED
  BY <1>4 DEF S, D

(***************************************************************************)
(* Reads of files: every byte comes from a read of the device              *)
(***************************************************************************)
\* A buffer of m bytes, each left alone or filled from inside the device n.
Filled(n, f, m) ==
    /\ f \in [1 .. m -> Int]
    /\ \A k \in 1 .. m : f[k] = STALE \/ Covers(n, f[k])

Vnode(v) == v.dev \in DOMAIN nodes /\ v.super \in Super /\ v.inode \in Nat

LEMMA FilledConcat ==
    ASSUME NEW n, NEW f, NEW g, NEW a \in Nat, NEW b \in Nat, Filled(n, f, a), Filled(n, g, b)
    PROVE  Filled(n, f \o g, a + b)
<1>1. f \in Seq(Int) /\ Len(f) = a /\ g \in Seq(Int) /\ Len(g) = b
  <2>1. \A m \in Nat : \A h \in [1 .. m -> Int] : h \in Seq(Int) /\ Len(h) = m
    BY SeqDef, LenProperties
  <2> QED
    BY <2>1 DEF Filled
<1>2. /\ f \o g \in Seq(Int) /\ Len(f \o g) = a + b
      /\ \A k \in 1 .. (a + b) : (f \o g)[k] = IF k <= a THEN f[k] ELSE g[k - a]
  BY <1>1, ConcatProperties
<1>3. PICK h : h = f \o g
  OBVIOUS
<1>4. h \in [1 .. (a + b) -> Int]
  BY <1>2, <1>3, LenProperties, ElementOfSeq
<1>5. ASSUME NEW k \in 1 .. (a + b) PROVE h[k] = STALE \/ Covers(n, h[k])
  <2>1. CASE k <= a
    <3>1. k \in 1 .. a /\ h[k] = f[k]
      BY <1>2, <1>3, <2>1
    <3> QED
      BY <3>1 DEF Filled
  <2>2. CASE ~(k <= a)
    <3>1. k - a \in 1 .. b /\ h[k] = g[k - a]
      BY <1>2, <1>3, <2>2
    <3> QED
      BY <3>1 DEF Filled
  <2> QED
    BY <2>1, <2>2
<1> QED
  BY <1>3, <1>4, <1>5 DEF Filled

LEMMA BlockFilled ==
    ASSUME NodeInv, TreeInv, NEW v, Vnode(v), NEW block \in Nat, NEW o \in Nat, NEW s \in Nat
    PROVE  Filled(v.dev, ReadBlockData(v, block, o, s), s)
<1> DEFINE q == [offset |-> BlockAddr(v, block) + o, size |-> s]
           a == DeviceRead[v.dev][q]
<1>1. BlockAddr(v, block) \in Nat
  <2>1. v.super.blk \in Nat /\ W \in Nat \ {0}
    BY DeviceAssumption DEF Vnode, Super, DeviceAssumption
  <2>2. block * v.super.blk \in Nat
    BY <2>1
  <2> QED
    BY <2>1, <2>2, Division DEF BlockAddr, Blksz
<1>2. q \in Request
  BY <1>1, SizeType
<1> HIDE DEF q
<1>3. Within(v.dev, q, a) /\ a \in Result
  BY <1>2, DeviceWindow, DeviceReadDef DEF Vnode
<1>4. ReadBlockData(v, block, o, s)
        = [k \in 1 .. s |-> IF k <= Len(a.data) THEN a.data[k] ELSE STALE]
  BY DEF ReadBlockData, VfsRead, Buffer, q
<1> HIDE DEF a
<1>5. a.data \in Seq(Int) /\ Len(a.data) \in Nat /\ DOMAIN a.data = 1 .. Len(a.data)
  BY <1>3 DEF Result, Within
<1>6. PICK d, f : d = a.data /\ f = ReadBlockData(v, block, o, s)
  OBVIOUS
<1>7. \A k \in 1 .. s : IF k <= Len(d) THEN k \in DOMAIN d /\ d[k] \in Int /\ f[k] = d[k]
                        ELSE f[k] = STALE
  BY <1>4, <1>5, <1>6, ElementOfSeq
<1>8. f \in [1 .. s -> Int]
  BY <1>4, <1>6, <1>7 DEF STALE
<1>9. ASSUME NEW k \in 1 .. s PROVE f[k] = STALE \/ Covers(v.dev, f[k])
  <2>1. CASE k <= Len(d)
    <3>1. k \in DOMAIN d /\ f[k] = d[k]
      BY <1>7, <2>1
    <3>2. d[k] # STALE => Covers(v.dev, d[k])
      BY <1>3, <1>6, <3>1 DEF Within
    <3> QED
      BY <3>1, <3>2
  <2>2. CASE ~(k <= Len(d))
    BY <1>7, <2>2
  <2> QED
    BY <2>1, <2>2
<1> QED
  BY <1>6, <1>8, <1>9 DEF Filled

\* The indices that occur in a chain of room blocks.
LEMMA ChainIndex ==
    ASSUME NEW blk \in Nat \ {0}, NEW room \in Nat, NEW o \in Nat, NEW s \in Nat,
           o + s <= room * blk, NEW k \in 1 .. s
    PROVE  /\ o \div blk \in Nat /\ (k - 1) \div blk \in Nat
           /\ (o \div blk) + ((k - 1) \div blk) < room
           /\ ((k - 1) \div blk) * blk \in Nat
           /\ ((k - 1) \div blk) * blk <= k - 1 /\ k - 1 < ((k - 1) \div blk) * blk + blk
<1>1. PICK x, y : x = o \div blk /\ y = (k - 1) \div blk
  OBVIOUS
<1>2. x \in Nat /\ x * blk \in Nat /\ x * blk <= o
  BY <1>1, Division
<1>3. k - 1 \in Nat
  OBVIOUS
<1>4. y \in Nat /\ y * blk \in Nat /\ y * blk <= k - 1 /\ k - 1 < y * blk + blk
  BY <1>1, <1>3, Division
<1>5. (x + y) * blk = x * blk + y * blk /\ room * blk \in Nat
  BY <1>2, <1>4
<1>6. (x + y) * blk < room * blk
  BY <1>2, <1>4, <1>5
<1>7. x + y < room
  BY <1>2, <1>4, <1>6, TimesLess
<1> QED
  BY <1>1, <1>2, <1>4, <1>7

LEMMA ChainFilled ==
    ASSUME NodeInv, TreeInv, NEW v, Vnode(v), NEW chain, NEW room \in Nat,
           \A i \in 0 .. (room - 1) : chain[i] \in Nat,
           NEW o \in Nat, NEW s \in Nat, o + s <= room * Blksz(v)
    PROVE  Filled(v.dev, ReadBlockChain(v, chain, o, s), s)
<1>1. PICK blk : blk = Blksz(v)
  OBVIOUS
<1>2. blk \in Nat \ {0}
  BY <1>1 DEF Blksz, Vnode, Super
<1> DEFINE first == o \div blk
           Hole(b) == \E i \in 0 .. b : chain[first + i] = 0
           left(b) == s - b * blk
           Piece(b) == ReadBlockData(v, chain[first + b], IF b = 0 THEN o % blk ELSE 0,
                                     IF left(b) > blk THEN blk ELSE left(b))
           f == [k \in 1 .. s |-> LET b == (k - 1) \div blk
                                  IN IF Hole(b) THEN STALE ELSE Piece(b)[k - b * blk]]
<1>3. ReadBlockChain(v, chain, o, s) = f
  BY <1>1 DEF ReadBlockChain
<1>4. ASSUME NEW k \in 1 .. s
      PROVE  f[k] \in Int /\ (f[k] = STALE \/ Covers(v.dev, f[k]))
  <2>1. PICK b : b = (k - 1) \div blk
    OBVIOUS
  <2>2. /\ b \in Nat /\ first \in Nat /\ first + b < room
        /\ b * blk \in Nat /\ b * blk <= k - 1 /\ k - 1 < b * blk + blk
    BY <1>1, <1>2, <2>1, ChainIndex
  <2>3. f[k] = IF Hole(b) THEN STALE ELSE Piece(b)[k - b * blk]
    BY <2>1
  <2>4. PICK n \in Nat : n = IF left(b) > blk THEN blk ELSE left(b)
    <3>1. PICK m \in Nat : m = b * blk /\ m <= k - 1
      BY <2>2
    <3>2. left(b) \in Nat
      BY <3>1
    <3> HIDE DEF left
    <3> QED
      BY <1>2, <3>2
  <2>5. PICK x \in Nat : x = IF b = 0 THEN o % blk ELSE 0
    BY <1>2, Division
  <2>6. chain[first + b] \in Nat
    BY <2>2
  <2>7. Piece(b) = ReadBlockData(v, chain[first + b], x, n)
    BY <2>4, <2>5
  <2>8. k - b * blk \in 1 .. n
    BY <1>2, <2>2, <2>4
  <2> HIDE DEF Piece, Hole, left, first, f
  <2>9. Filled(v.dev, Piece(b), n)
    BY <2>6, <2>7, BlockFilled
  <2>10. Piece(b)[k - b * blk] \in Int
         /\ (Piece(b)[k - b * blk] = STALE \/ Covers(v.dev, Piece(b)[k - b * blk]))
    BY <2>8, <2>9 DEF Filled
  <2>11. CASE Hole(b)
    BY <2>3, <2>11 DEF STALE
  <2>12. CASE ~Hole(b)
    BY <2>3, <2>10, <2>12
  <2> QED
    BY <2>11, <2>12
<1>5. DOMAIN f = 1 .. s /\ f = [k \in 1 .. s |-> f[k]]
  OBVIOUS
<1> HIDE DEF f
<1>6. f \in [1 .. s -> Int]
  BY <1>4, <1>5
<1> QED
  BY <1>3, <1>4, <1>6 DEF Filled

LEMMA DecodedTypes ==
    ASSUME NodeInv, NEW a
    PROVE  /\ Decoded(disk.descs, a, NoDesc) \in Desc
           /\ Decoded(disk.inodes, a, NoInode) \in Inode
           /\ Decoded(disk.pointers, a, 0) \in Nat
           /\ Decoded(disk.entries, a, <<>>) \in Seq(Dirent)
<1>1. NoDesc \in Desc /\ NoInode \in Inode /\ 0 \in Nat /\ <<>> \in Seq(Dirent)
  BY EmptySeq DEF NoDesc, Desc, NoInode, Inode
<1>2. disk \in IMAGES
  BY DEF NodeInv
<1>3. a \in DOMAIN disk.descs => disk.descs[a] \in Desc
  BY <1>2, Ext2Assumption DEF Ext2Assumption
<1>4. a \in DOMAIN disk.inodes => disk.inodes[a] \in Inode
  BY <1>2, Ext2Assumption DEF Ext2Assumption
<1>5. a \in DOMAIN disk.pointers => disk.pointers[a] \in Nat
  BY <1>2, Ext2Assumption DEF Ext2Assumption
<1>6. a \in DOMAIN disk.entries => disk.entries[a] \in Seq(Dirent)
  BY <1>2, Ext2Assumption DEF Ext2Assumption
<1> QED
  BY <1>1, <1>3, <1>4, <1>5, <1>6 DEF Decoded

LEMMA PointersType ==
    ASSUME NodeInv, NEW v, NEW block, NEW ptrs, ptrs = Blksz(v) \div PTR
    PROVE  \A i \in 0 .. (ptrs - 1) : Pointers(v, block)[i] \in Nat
<1> SUFFICES ASSUME NEW i \in 0 .. (ptrs - 1) PROVE Pointers(v, block)[i] \in Nat
  OBVIOUS
<1>1. PICK bytes : bytes = ReadBlockData(v, block, 0, Blksz(v))
  OBVIOUS
<1>2. Pointers(v, block)[i] = Decoded(disk.pointers, bytes[i * PTR + 1], 0)
  BY <1>1 DEF Pointers
<1> QED
  BY <1>2, DecodedTypes

\* The indirect block with which the copy begins.
Skip(ptrs, bytes, o) ==
    CHOOSE i \in 0 .. ptrs : /\ i = ptrs \/ o - i * bytes <= bytes
                             /\ \A j \in 0 .. (i - 1) : o - j * bytes > bytes

LEMMA SkipFacts ==
    ASSUME NEW ptrs \in Nat, NEW bytes \in Nat \ {0}, NEW o \in Nat, o < ptrs * bytes,
           NEW skip, skip = Skip(ptrs, bytes, o)
    PROVE  /\ skip \in 0 .. ptrs
           /\ skip * bytes \in Nat /\ skip * bytes <= o /\ o - skip * bytes <= bytes
<1> DEFINE P(i) == i = ptrs \/ o - i * bytes <= bytes
           Q(i) == P(i) /\ \A j \in 0 .. (i - 1) : o - j * bytes > bytes
           T == {i \in 0 .. ptrs : P(i)}
<1>1. T \in SUBSET Nat /\ T # {}
  <2>1. ptrs \in T /\ T \in SUBSET Nat
    OBVIOUS
  <2> HIDE DEF T
  <2> QED
    BY <2>1
<1>2. PICK i \in T : \A j \in T : i <= j
  <2> HIDE DEF T
  <2> QED
    BY <1>1, LeastNatural
<1>3. i \in 0 .. ptrs /\ P(i)
  OBVIOUS
<1>4. ASSUME NEW j \in 0 .. (i - 1) PROVE o - j * bytes > bytes
  <2>1. j \in 0 .. ptrs /\ j < i /\ j \notin T
    BY <1>2, <1>3
  <2>2. j * bytes \in Nat /\ ~P(j)
    BY <2>1
  <2> QED
    BY <2>2
<1>5. Q(i)
  BY <1>3, <1>4
<1> HIDE DEF Q
<1>6. skip = CHOOSE x \in 0 .. ptrs : Q(x)
  BY DEF Q, Skip
<1>7. skip \in 0 .. ptrs /\ Q(skip)
  BY <1>3, <1>5, <1>6, Zenon
<1>8. skip * bytes \in Nat /\ ptrs * bytes \in Nat
  BY <1>7
<1>9. skip * bytes <= o
  <2>1. CASE skip = 0
    <3>1. 0 * bytes = 0
      OBVIOUS
    <3>2. skip * bytes = 0
      BY <2>1, <3>1, Zenon
    <3> QED
      BY <3>2
  <2>2. CASE skip # 0
    <3>1. skip - 1 \in 0 .. (skip - 1) /\ skip - 1 \in Nat
      BY <1>7, <2>2
    <3>2. o - (skip - 1) * bytes > bytes
      BY <1>7, <3>1 DEF Q
    <3>3. skip * bytes = (skip - 1) * bytes + bytes /\ (skip - 1) * bytes \in Nat
      BY <1>7, <3>1
    <3> QED
      BY <1>8, <3>2, <3>3
  <2> QED
    BY <2>1, <2>2
<1>10. skip # ptrs
  <2>1. PICK m \in Nat : m = ptrs * bytes /\ o < m
    BY <1>8
  <2>2. skip = ptrs => m <= o
    BY <1>9, <2>1
  <2> QED
    BY <2>1, <2>2
<1>11. o - skip * bytes <= bytes
  BY <1>7, <1>10 DEF Q
<1> QED
  BY <1>7, <1>8, <1>9, <1>11

\* ReadDouble from there on.
Copied(v, dibp, s, bytes, skip, start) ==
    LET left(b) == start + s - b * bytes
        from(b) == IF b = 0 THEN start ELSE 0
        Piece(b) == ReadBlockChain(v, Pointers(v, dibp[skip + b]), from(b),
                                   (IF left(b) > bytes THEN bytes ELSE left(b)) - from(b))
    IN [k \in 1 .. s |-> LET p == start + k - 1
                             b == p \div bytes
                         IN Piece(b)[p - b * bytes - from(b) + 1]]

\* Byte k of the copy is byte j of a chain read of n bytes at x, from the
\* indirect block number i.
DoublePart(v, dibp, bytes, o, s, k, i, x, n, j) ==
    /\ ReadDouble(v, dibp, o, s)[k] = ReadBlockChain(v, Pointers(v, dibp[i]), x, n)[j]
    /\ x + n <= bytes /\ i * bytes \in Nat
    /\ i * bytes + x + j = o + k /\ i * bytes + x + n <= o + s
    /\ x = 0 \/ i * bytes + x = o

LEMMA DoubleMap ==
    ASSUME NEW v, NEW dibp, NEW blk, blk = Blksz(v), NEW ptrs, ptrs = Blksz(v) \div PTR,
           NEW bytes, bytes = blk * ptrs, AsInt(bytes) = bytes, NEW o, NEW s,
           NEW skip, skip = Skip(ptrs, bytes, o), NEW start, start = o - skip * bytes
    PROVE  ReadDouble(v, dibp, o, s) = Copied(v, dibp, s, bytes, skip, start)
<1>1. ReadDouble(v, dibp, o, s)
        = LET ps == Blksz(v) \div PTR
              bs == AsInt(Blksz(v) * ps)
          IN Copied(v, dibp, s, bs, Skip(ps, bs, o), o - Skip(ps, bs, o) * bs)
  BY DEF ReadDouble, Copied, Skip
<1> QED
  BY <1>1

LEMMA DoublePiece ==
    ASSUME NEW v, NEW dibp, NEW blk \in Nat \ {0}, blk = Blksz(v),
           NEW ptrs \in Nat, ptrs = blk \div PTR, NEW bytes, bytes = ptrs * blk,
           AsInt(bytes) = bytes,
           NEW o \in Nat, NEW s \in Nat, o + s <= ptrs * bytes, NEW k \in 1 .. s
    PROVE  \E i \in 0 .. (ptrs - 1), x \in Nat, n \in Nat, j \in Nat :
              j \in 1 .. n /\ DoublePart(v, dibp, bytes, o, s, k, i, x, n, j)
<1>1. bytes \in Nat /\ bytes = blk * ptrs /\ ptrs * bytes \in Nat /\ o < ptrs * bytes
  OBVIOUS
<1>2. bytes # 0
  <2>1. ptrs * 0 = 0
    OBVIOUS
  <2> QED
    BY <1>1, <2>1
<1>3. PICK skip : skip = Skip(ptrs, bytes, o)
  OBVIOUS
<1>4. /\ skip \in 0 .. ptrs
      /\ skip * bytes \in Nat /\ skip * bytes <= o /\ o - skip * bytes <= bytes
  BY <1>1, <1>2, <1>3, SkipFacts
<1>5. PICK h, start : h = skip * bytes /\ start = o - h
  OBVIOUS
<1>6. h \in Nat /\ start \in Nat /\ start <= bytes /\ o = h + start
  <2>1. h \in Nat /\ h <= o /\ o - h <= bytes /\ start = o - h
    BY <1>4, <1>5
  <2> QED
    BY <1>1, <2>1
<1>7. ReadDouble(v, dibp, o, s) = Copied(v, dibp, s, bytes, skip, start)
  BY <1>1, <1>3, <1>5, DoubleMap
<1>8. PICK p, b : p = start + k - 1 /\ b = p \div bytes
  OBVIOUS
<1>9. p \in Nat /\ p = start + k - 1 /\ start <= p /\ p < start + s
  BY <1>6, <1>8
<1>10. PICK m : m = b * bytes
  OBVIOUS
<1>11. b \in Nat /\ m \in Nat /\ m <= p /\ p < m + bytes
  <2>1. bytes \in Nat \ {0}
    BY <1>1, <1>2
  <2> QED
    BY <1>8, <1>9, <1>10, <2>1, Division
<1>12. b = 0 => m = 0
  <2>1. 0 * bytes = 0
    BY <1>1
  <2> QED
    BY <1>10, <2>1, Zenon
<1>13. PICK i : i = skip + b
  OBVIOUS
<1>14. i \in Nat /\ i * bytes = h + m
  BY <1>1, <1>4, <1>5, <1>10, <1>11, <1>13
<1>15. i < ptrs
  <2>1. PICK room : room = ptrs * bytes /\ room \in Nat /\ o + s <= room
    BY <1>1
  <2>2. h + m < room
    BY <1>6, <1>9, <1>11, <2>1
  <2>3. i * bytes < ptrs * bytes
    BY <1>14, <2>1, <2>2
  <2> QED
    BY <1>1, <1>14, <2>3, TimesLess
<1>16. PICK x : x = IF b = 0 THEN start ELSE 0
  OBVIOUS
<1>17. x \in Nat /\ x <= p - m /\ (x = 0 \/ (m = 0 /\ x = start))
  BY <1>6, <1>9, <1>11, <1>12, <1>16
<1>18. PICK n : n = (IF start + s - m > bytes THEN bytes ELSE start + s - m) - x
  OBVIOUS
<1>19. PICK j : j = p - m - x + 1
  OBVIOUS
<1>20. /\ n \in Nat /\ x + n <= bytes /\ m + x + n <= start + s
       /\ j \in Nat /\ j \in 1 .. n /\ m + x + j = start + k
  <2>1. p - m < bytes /\ p - m < start + s - m
    BY <1>1, <1>6, <1>9, <1>11
  <2>2. CASE start + s - m > bytes
    <3>1. n = bytes - x
      BY <1>18, <2>2
    <3> QED
      BY <1>1, <1>6, <1>9, <1>11, <1>17, <1>19, <2>1, <2>2, <3>1
  <2>3. CASE ~(start + s - m > bytes)
    <3>1. n = start + s - m - x
      BY <1>1, <1>6, <1>11, <1>17, <1>18, <2>3
    <3> QED
      BY <1>1, <1>6, <1>9, <1>11, <1>17, <1>19, <2>1, <2>3, <3>1
  <2> QED
    BY <2>2, <2>3
<1>21. Copied(v, dibp, s, bytes, skip, start)[k]
         = ReadBlockChain(v, Pointers(v, dibp[i]), x, n)[j]
  BY <1>8, <1>10, <1>13, <1>16, <1>18, <1>19 DEF Copied
<1>22. /\ x + n <= bytes /\ i * bytes \in Nat
       /\ i * bytes + x + j = o + k /\ i * bytes + x + n <= o + s
       /\ x = 0 \/ i * bytes + x = o
  <2>1. PICK c : c = i * bytes /\ c = h + m
    BY <1>14
  <2>2. /\ c \in Nat /\ c + x + j = o + k /\ c + x + n <= o + s
        /\ x = 0 \/ c + x = o
    BY <1>6, <1>11, <1>17, <1>20, <2>1
  <2> QED
    BY <1>20, <2>1, <2>2
<1>23. DoublePart(v, dibp, bytes, o, s, k, i, x, n, j)
  BY <1>7, <1>21, <1>22 DEF DoublePart
<1>24. i \in 0 .. (ptrs - 1)
  BY <1>14, <1>15
<1> QED
  BY <1>17, <1>20, <1>23, <1>24

LEMMA DoubleFilled ==
    ASSUME NodeInv, TreeInv, NEW v, Vnode(v), NEW dibp, NEW ptrs \in Nat,
           ptrs = Blksz(v) \div PTR, AsInt(Blksz(v) * ptrs) = Blksz(v) * ptrs,
           NEW o \in Nat, NEW s \in Nat, o + s <= (Blksz(v) * ptrs) * ptrs
    PROVE  Filled(v.dev, ReadDouble(v, dibp, o, s), s)
<1>1. PICK blk : blk = Blksz(v)
  OBVIOUS
<1>2. blk \in Nat \ {0}
  BY <1>1 DEF Blksz, Vnode, Super
<1>3. PICK bytes : bytes = ptrs * blk
  OBVIOUS
<1>4. o + s <= ptrs * bytes /\ bytes = blk * ptrs /\ AsInt(bytes) = bytes
  <2>1. bytes = blk * ptrs
    BY <1>2, <1>3
  <2> QED
    BY <1>1, <1>2, <1>3, <2>1
<1>5. PICK f : f = ReadDouble(v, dibp, o, s)
  OBVIOUS
<1>6. ASSUME NEW k \in 1 .. s
      PROVE  f[k] \in Int /\ (f[k] = STALE \/ Covers(v.dev, f[k]))
  <2>1. PICK i \in 0 .. (ptrs - 1), x \in Nat, n \in Nat, j \in Nat :
           j \in 1 .. n /\ DoublePart(v, dibp, bytes, o, s, k, i, x, n, j)
    BY <1>1, <1>2, <1>3, <1>4, DoublePiece
  <2>2. PICK g : g = ReadBlockChain(v, Pointers(v, dibp[i]), x, n)
    OBVIOUS
  <2>3. f[k] = g[j] /\ x + n <= ptrs * Blksz(v)
    BY <1>1, <1>3, <1>5, <2>1, <2>2 DEF DoublePart
  <2>4. \A y \in 0 .. (ptrs - 1) : Pointers(v, dibp[i])[y] \in Nat
    BY PointersType
  <2>5. Filled(v.dev, g, n)
    BY <2>2, <2>3, <2>4, ChainFilled
  <2> QED
    BY <2>1, <2>3, <2>5 DEF Filled
<1>7. DOMAIN f = 1 .. s /\ f = [k \in 1 .. s |-> f[k]]
  <2>1. \A b, c, d : DOMAIN Copied(v, dibp, s, b, c, d) = 1 .. s
                    /\ Copied(v, dibp, s, b, c, d)
                         = [k \in 1 .. s |-> Copied(v, dibp, s, b, c, d)[k]]
    BY DEF Copied
  <2> QED
    BY <1>1, <1>4, <1>5, <2>1, DoubleMap
<1>8. f \in [1 .. s -> Int]
  BY <1>6, <1>7
<1> QED
  BY <1>5, <1>6, <1>8 DEF Filled

\* The part of a request that lies in a range of blocks, and what is left of
\* its offset behind them.
ShareOf(o, s, room) == IF s = 0 \/ o >= room THEN 0 ELSE IF o + s > room THEN room - o ELSE s
RestOf(o, room) == IF o < room THEN 0 ELSE o - room

LEMMA ShareFacts ==
    ASSUME NEW o \in Nat, NEW s \in Nat, NEW room \in Nat
    PROVE  /\ ShareOf(o, s, room) \in Nat /\ ShareOf(o, s, room) <= s /\ RestOf(o, room) \in Nat
           /\ ShareOf(o, s, room) # 0 => o + ShareOf(o, s, room) <= room
BY DEF ShareOf, RestOf

DataOf(v, in, s, n1, n2, n3, o, o2, o3) ==
    (IF n1 = 0 THEN <<>> ELSE ReadBlockChain(v, in.direct, o, n1))
    \o (IF n2 = 0 THEN <<>> ELSE ReadBlockChain(v, Pointers(v, in.s_indirect), o2, n2))
    \o (IF n3 = 0 THEN <<>> ELSE ReadDouble(v, Pointers(v, in.d_indirect), o3, n3))
    \o [k \in 1 .. (s - n1 - n2 - n3) |-> STALE]

\* What an int keeps of the products of a superblock's sizes.
LEMMA SmallInt ==
    ASSUME NEW x \in Nat, IntOrZero(x)
    PROVE  AsInt(x) = IF FitsInt(x) THEN x ELSE 0
<1>1. PICK h : h = W \div 2
  OBVIOUS
<1>2. /\ h \in Nat /\ h > 0 /\ W \in Nat \ {0} /\ h - W <= 0
      /\ x < h /\ x >= h - W => AsInt(x) = x
  <2>1. h \in Nat /\ h > 0 /\ W \in Nat \ {0}
    BY <1>1, HalfWord, IntFacts
  <2>2. h - W <= 0
    BY <1>1, <2>1
  <2> QED
    BY <1>1, <2>1, <2>2, IntFacts
<1>3. CASE x < h
  BY <1>1, <1>2, <1>3 DEF FitsInt
<1>4. CASE ~(x < h)
  <2>1. x % W = 0
    BY <1>1, <1>4 DEF IntOrZero, FitsInt
  <2>2. AsInt(x) = 0
    BY <1>1, <1>2, <2>1 DEF AsInt
  <2> QED
    BY <1>1, <1>4, <2>2 DEF FitsInt
<1> QED
  BY <1>3, <1>4

\* The bytes behind the direct blocks, a single and a double indirect one.
LEMMA BytesBehind ==
    ASSUME NEW blk \in Nat \ {0}, IntSizes(blk), NEW ptrs \in Nat, ptrs = PtrsIn(blk),
           NEW r1, r1 = AsInt(NDIR * blk), NEW r2, r2 = AsInt(blk * ptrs),
           NEW r3, r3 = AsInt(r2 * ptrs)
    PROVE  /\ r1 \in Nat /\ r1 = NDIR * blk
           /\ r2 \in Nat /\ (r2 # 0 => r2 = ptrs * blk /\ AsInt(r2) = r2)
           /\ r3 \in Nat /\ (r3 # 0 => r2 = ptrs * blk /\ r3 = r2 * ptrs /\ AsInt(r2) = r2)
           /\ FitsInt(blk * ptrs) =>
                 r2 = ptrs * blk /\ r3 = IF FitsInt(blk * ptrs * ptrs) THEN r2 * ptrs ELSE 0
<1>1. NDIR \in Nat
  BY Ext2Assumption DEF Ext2Assumption
<1>2. PICK x1 \in Nat, x2 \in Nat, x3 \in Nat :
         x1 = NDIR * blk /\ x2 = blk * ptrs /\ x3 = x2 * ptrs /\ x2 = ptrs * blk
  <2>1. NDIR * blk \in Nat /\ blk * ptrs \in Nat /\ blk * ptrs = ptrs * blk
    BY <1>1
  <2>2. (blk * ptrs) * ptrs \in Nat
    BY <2>1
  <2> QED
    BY <2>1, <2>2
<1>3. FitsInt(x1) /\ IntOrZero(x2) /\ IntOrZero(x3)
  BY <1>2 DEF IntSizes
<1>4. r1 = x1
  BY <1>2, <1>3, SmallInt DEF IntOrZero
<1>5. r2 = IF FitsInt(x2) THEN x2 ELSE 0
  BY <1>2, <1>3, SmallInt
<1>6. FitsInt(0) /\ AsInt(0) = 0
  <2>1. FitsInt(0)
    BY HalfWord DEF FitsInt
  <2> QED
    BY <2>1, SmallInt DEF IntOrZero
<1>7. CASE FitsInt(x2)
  <2>1. r2 = x2 /\ AsInt(r2) = r2
    BY <1>2, <1>5, <1>7, SmallInt DEF IntOrZero
  <2>2. r3 = AsInt(x3)
    BY <1>2, <2>1
  <2>3. r3 = IF FitsInt(x3) THEN x3 ELSE 0
    BY <1>2, <1>3, <2>2, SmallInt
  <2> QED
    BY <1>2, <1>4, <2>1, <2>3
<1>8. CASE ~FitsInt(x2)
  <2>1. r2 = 0
    BY <1>5, <1>8
  <2>2. r2 * ptrs = 0
    <3>1. 0 * ptrs = 0
      OBVIOUS
    <3> QED
      BY <2>1, <3>1, Zenon
  <2>3. r3 = 0
    BY <1>6, <2>2, Zenon
  <2> QED
    BY <1>2, <1>4, <1>8, <2>1, <2>3
<1> QED
  BY <1>7, <1>8

LEMMA InodeDataFilled ==
    ASSUME NodeInv, TreeInv, NEW v, Vnode(v), NEW in \in Inode, NEW o \in Nat, NEW s \in Nat
    PROVE  Filled(v.dev, ReadInodeDataEx(v, in, o, s), s)
<1>1. PICK blk, ptrs : blk = Blksz(v) /\ ptrs = Blksz(v) \div PTR
  OBVIOUS
<1>2. blk \in Nat \ {0} /\ ptrs \in Nat /\ NDIR \in Nat /\ IntSizes(blk)
  <2>1. Blksz(v) \in Nat \ {0} /\ PTR \in Nat \ {0} /\ NDIR \in Nat /\ IntSizes(Blksz(v))
    BY Ext2Assumption DEF Blksz, Vnode, Super, Ext2Assumption
  <2> QED
    BY <1>1, <2>1, Division
<1>3. PICK r1, r2, r3 : /\ r1 = AsInt(NDIR * blk) /\ r2 = AsInt(blk * ptrs)
                        /\ r3 = AsInt(r2 * ptrs)
  OBVIOUS
<1>4. /\ r1 \in Nat /\ r2 \in Nat /\ r3 \in Nat /\ r1 = NDIR * blk
      /\ r2 # 0 => r2 = ptrs * blk
      /\ r3 # 0 => r2 = ptrs * blk /\ r3 = r2 * ptrs /\ AsInt(r2) = r2
  BY <1>1, <1>2, <1>3, BytesBehind DEF PtrsIn
<1>5. PICK n1, o2 : n1 = ShareOf(o, s, r1) /\ o2 = RestOf(o, r1)
  OBVIOUS
<1>6. n1 \in Nat /\ n1 <= s /\ o2 \in Nat /\ (n1 # 0 => o + n1 <= r1)
  BY <1>4, <1>5, ShareFacts
<1>7. PICK n2, o3 : n2 = ShareOf(o2, s - n1, r2) /\ o3 = RestOf(o2, r2)
  OBVIOUS
<1>8. n2 \in Nat /\ n2 <= s - n1 /\ o3 \in Nat /\ (n2 # 0 => o2 + n2 <= r2)
  <2>1. s - n1 \in Nat
    BY <1>6
  <2> QED
    BY <1>4, <1>6, <1>7, <2>1, ShareFacts
<1>9. PICK n3 : n3 = ShareOf(o3, s - n1 - n2, r3)
  OBVIOUS
<1>10. n3 \in Nat /\ n3 <= s - n1 - n2 /\ (n3 # 0 => o3 + n3 <= r3)
  <2>1. s - n1 - n2 \in Nat
    BY <1>6, <1>8
  <2> QED
    BY <1>4, <1>8, <1>9, <2>1, ShareFacts
<1>11. ReadInodeDataEx(v, in, o, s) = DataOf(v, in, s, n1, n2, n3, o, o2, o3)
  BY <1>1, <1>3, <1>5, <1>7, <1>9 DEF ReadInodeDataEx, DataOf, ShareOf, RestOf
<1>12. Filled(v.dev, <<>>, 0)
  BY DEF Filled
<1> DEFINE p1 == IF n1 = 0 THEN <<>> ELSE ReadBlockChain(v, in.direct, o, n1)
           p2 == IF n2 = 0 THEN <<>> ELSE ReadBlockChain(v, Pointers(v, in.s_indirect), o2, n2)
           p3 == IF n3 = 0 THEN <<>> ELSE ReadDouble(v, Pointers(v, in.d_indirect), o3, n3)
           n4 == s - n1 - n2 - n3
           p4 == [k \in 1 .. n4 |-> STALE]
<1>13. Filled(v.dev, p1, n1)
  <2>1. CASE n1 = 0
    BY <1>12, <2>1
  <2>2. CASE n1 # 0
    <3>1. \A i \in 0 .. (NDIR - 1) : in.direct[i] \in Nat
      BY DEF Inode
    <3>2. o + n1 <= NDIR * Blksz(v)
      BY <1>1, <1>4, <1>6, <2>2
    <3>3. Filled(v.dev, ReadBlockChain(v, in.direct, o, n1), n1)
      BY <1>2, <1>6, <3>1, <3>2, ChainFilled
    <3> QED
      BY <2>2, <3>3
  <2> QED
    BY <2>1, <2>2
<1>14. Filled(v.dev, p2, n2)
  <2>1. CASE n2 = 0
    BY <1>12, <2>1
  <2>2. CASE n2 # 0
    <3>1. \A i \in 0 .. (ptrs - 1) : Pointers(v, in.s_indirect)[i] \in Nat
      BY <1>1, PointersType
    <3>2. o2 + n2 <= ptrs * Blksz(v)
      <4>1. o2 + n2 <= r2 /\ r2 # 0
        BY <1>4, <1>6, <1>8, <2>2
      <4> QED
        BY <1>1, <1>4, <4>1
    <3>3. Filled(v.dev, ReadBlockChain(v, Pointers(v, in.s_indirect), o2, n2), n2)
      BY <1>2, <1>6, <1>8, <3>1, <3>2, ChainFilled
    <3> QED
      BY <2>2, <3>3
  <2> QED
    BY <2>1, <2>2
<1>15. Filled(v.dev, p3, n3)
  <2>1. CASE n3 = 0
    BY <1>12, <2>1
  <2>2. CASE n3 # 0
    <3>1. /\ o3 + n3 <= (Blksz(v) * ptrs) * ptrs
          /\ AsInt(Blksz(v) * ptrs) = Blksz(v) * ptrs
      <4>1. o3 + n3 <= r3 /\ r3 # 0
        BY <1>4, <1>8, <1>10, <2>2
      <4>2. r2 = Blksz(v) * ptrs
        BY <1>1, <1>2, <1>4, <4>1
      <4> QED
        BY <1>4, <4>1, <4>2
    <3>2. Filled(v.dev, ReadDouble(v, Pointers(v, in.d_indirect), o3, n3), n3)
      BY <1>1, <1>2, <1>8, <1>10, <3>1, DoubleFilled
    <3> QED
      BY <2>2, <3>2
  <2> QED
    BY <2>1, <2>2
<1>16. n4 \in Nat /\ n1 + n2 + n3 + n4 = s
  BY <1>6, <1>8, <1>10
<1>17. Filled(v.dev, p4, n4)
  BY DEF Filled, STALE
<1>18. DataOf(v, in, s, n1, n2, n3, o, o2, o3) = p1 \o p2 \o p3 \o p4
  BY DEF DataOf
<1> HIDE DEF p1, p2, p3, p4, n4
<1>19. Filled(v.dev, p1 \o p2, n1 + n2)
  BY <1>6, <1>8, <1>13, <1>14, FilledConcat
<1>20. Filled(v.dev, p1 \o p2 \o p3, n1 + n2 + n3)
  BY <1>6, <1>8, <1>10, <1>15, <1>19, FilledConcat
<1>21. Filled(v.dev, p1 \o p2 \o p3 \o p4, n1 + n2 + n3 + n4)
  BY <1>6, <1>8, <1>10, <1>16, <1>17, <1>20, FilledConcat
<1> QED
  BY <1>11, <1>16, <1>18, <1>21

\* Every byte ext2_read returns comes from inside the device of the file.
LEMMA Ext2ReadFilled ==
    ASSUME NodeInv, TreeInv, NEW v, Vnode(v), NEW o \in Nat, NEW s \in Nat
    PROVE  \A k \in DOMAIN Ext2Read(v, o, s).data :
              LET d == Ext2Read(v, o, s).data
              IN d[k] # STALE => Covers(v.dev, d[k])
<1>1. PICK in : in = ReadInode(v)
  OBVIOUS
<1>2. in \in Inode /\ in.size \in Nat
  <2>1. \E a : in = Decoded(disk.inodes, a, NoInode)
    BY <1>1 DEF ReadInode
  <2>2. in \in Inode
    BY <2>1, DecodedTypes
  <2> QED
    BY <2>2 DEF Inode
<1>3. CASE o > in.size
  BY <1>1, <1>3 DEF Ext2Read, Failed
<1>4. CASE o <= in.size
  <2>1. PICK n \in Nat : n = IF o + s > in.size THEN in.size - o ELSE s
    BY <1>2, <1>4
  <2>2. Ext2Read(v, o, s).data = ReadInodeDataEx(v, in, o, n)
    BY <1>1, <1>2, <1>4, <2>1 DEF Ext2Read
  <2>3. Filled(v.dev, ReadInodeDataEx(v, in, o, n), n)
    BY <1>2, InodeDataFilled
  <2>4. PICK d : d = Ext2Read(v, o, s).data
    OBVIOUS
  <2>5. Filled(v.dev, d, n) /\ DOMAIN d = 1 .. n
    BY <2>2, <2>3, <2>4 DEF Filled
  <2>6. \A k \in DOMAIN d : d[k] # STALE => Covers(v.dev, d[k])
    BY <2>5 DEF Filled
  <2> QED
    BY <2>4, <2>6
<1> QED
  BY <1>2, <1>3, <1>4

(***************************************************************************)
(* A name leads to the number of an inode                                  *)
(***************************************************************************)
LEMMA FlattenType ==
    ASSUME NEW X, NEW N \in Nat, NEW ss \in [1 .. N -> Seq(X)]
    PROVE  FlattenSeq(ss) \in Seq(X)
<1>1. ss \in Seq(Seq(X)) /\ Len(ss) = N /\ DOMAIN ss = 1 .. N
  BY SeqDef, LenProperties
<1>2. CASE N = 0
  BY <1>1, <1>2, EmptySeq DEF FlattenSeq
<1>3. CASE N # 0
  <2> DEFINE D == 1 .. N
             V == Seq(X)
             Body(f, i) == IF i = 1 THEN ss[i] ELSE f[i - 1] \o ss[i]
             G == [f \in [D -> V] |-> [i \in D |-> Body(f, i)]]
             H(f) == [i \in D |-> Body(f, i)]
  <2>1. D \in SUBSET (0 .. N) /\ D \in SUBSET Nat /\ <<>> \in V
    BY EmptySeq
  <2>2. \A i \in D : ss[i] \in V /\ (i # 1 => i - 1 \in D /\ i - 1 < i)
    OBVIOUS
  <2>3. \A x, y \in V : x \o y \in V
    BY ConcatProperties
  <2> HIDE DEF D, V
  <2>4. \A f \in [D -> V] : \A i \in D : Body(f, i) \in V
    BY <2>2, <2>3
  <2>5. \A f, g \in [D -> V] : \A i \in D :
           (\A y \in D : y < i => f[y] = g[y]) => Body(f, i) = Body(g, i)
    BY <2>2
  <2>6. G \in [[D -> V] -> [D -> V]]
    <3> HIDE DEF Body
    <3> QED
      BY <2>4
  <2>7. \A f \in [D -> V] : /\ G[f] = [i \in D |-> Body(f, i)]
                            /\ \A i \in D : G[f][i] = Body(f, i)
    OBVIOUS
  <2> HIDE DEF G, Body, H
  <2>8. Local(D, V, G)
    <3> SUFFICES ASSUME NEW f \in [D -> V], NEW g \in [D -> V], NEW i \in D,
                        \A y \in D : y < i => f[y] = g[y]
                 PROVE  G[f][i] = G[g][i]
      BY Zenon DEF Local
    <3>1. Body(f, i) = Body(g, i)
      BY <2>5
    <3>2. G[f][i] = Body(f, i)
      BY <2>7
    <3>3. G[g][i] = Body(g, i)
      BY <2>7
    <3> QED
      BY <3>1, <3>2, <3>3
  <2>9. \E f \in [D -> V] : f = [i \in D |-> Body(f, i)]
    <3>1. Fixpoint(D, V, G)
      BY <2>1, <2>6, <2>8, FixpointExists
    <3> QED
      BY <2>7, <3>1 DEF Fixpoint
  <2>10. PICK h : h = CHOOSE f : f = H(f)
    OBVIOUS
  <2>11. \E f : f = H(f)
    BY <2>9 DEF H
  <2>12. h = H(h)
    BY <2>10, <2>11, Zenon
  <2>13. \A i \in D : h[i] = Body(h, i)
    BY <2>12, Zenon DEF H
  <2>14. FlattenSeq(ss) = h[N]
    BY <1>1, <1>3, <2>10 DEF FlattenSeq, H, Body, D
  <2>15. \A i \in D : h[i] \in V
    <3> DEFINE S == {i \in D : h[i] \in V}
    <3>1. ASSUME NEW i \in D, \A y \in D : y < i => y \in S PROVE i \in S
      BY <2>2, <2>3, <2>13, <3>1 DEF Body
    <3> HIDE DEF S
    <3>2. \A i \in D : i \in S
      BY <2>1, <3>1, InductionBelow
    <3> QED
      BY <3>2 DEF S
  <2> QED
    BY <1>3, <2>14, <2>15 DEF D, V
<1> QED
  BY <1>2, <1>3

\* The blocks of a directory up to the first hole.
Direct(direct) ==
    CHOOSE n \in 0 .. NDIR : /\ n = NDIR \/ direct[n] = 0
                             /\ \A q \in 0 .. (n - 1) : direct[q] # 0

LEMMA DirectType == ASSUME NEW direct PROVE Direct(direct) \in 0 .. NDIR
<1> DEFINE P(i) == i = NDIR \/ direct[i] = 0
           Q(i) == P(i) /\ \A j \in 0 .. (i - 1) : direct[j] # 0
           T == {i \in 0 .. NDIR : P(i)}
<1>0. NDIR \in Nat
  BY Ext2Assumption DEF Ext2Assumption
<1>1. T \in SUBSET Nat /\ T # {}
  <2>1. NDIR \in T /\ T \in SUBSET Nat
    BY <1>0
  <2> HIDE DEF T
  <2> QED
    BY <2>1
<1>2. PICK i \in T : \A j \in T : i <= j
  <2> HIDE DEF T
  <2> QED
    BY <1>1, LeastNatural
<1>3. i \in 0 .. NDIR /\ P(i)
  OBVIOUS
<1>4. ASSUME NEW j \in 0 .. (i - 1) PROVE direct[j] # 0
  BY <1>0, <1>2, <1>3
<1>5. Q(i)
  BY <1>3, <1>4
<1> HIDE DEF Q
<1>6. Direct(direct) = CHOOSE x \in 0 .. NDIR : Q(x)
  BY DEF Q, Direct
<1> QED
  BY <1>3, <1>5, <1>6, Zenon

LEMMA EntriesType == ASSUME NodeInv, NEW v PROVE Entries(v) \in Seq(Dirent)
<1>1. PICK direct : direct = ReadInode(v).direct
  OBVIOUS
<1>2. PICK n \in Nat : n = Direct(direct)
  BY DirectType, Ext2Assumption DEF Ext2Assumption
<1> DEFINE Block(q) == Decoded(disk.entries, Found(v, BlockAddr(v, direct[q]), Blksz(v)), <<>>)
           ss == [q \in 1 .. n |-> Block(q - 1)]
<1>3. Entries(v) = FlattenSeq(ss)
  BY <1>1, <1>2 DEF Entries, Direct
<1>4. \A q : Block(q) \in Seq(Dirent)
  BY DecodedTypes
<1> HIDE DEF Block
<1>5. ss \in [1 .. n -> Seq(Dirent)]
  BY <1>4
<1> HIDE DEF ss
<1> QED
  BY <1>3, <1>5, FlattenType

LEMMA FinddirType == ASSUME NodeInv, NEW v, NEW name PROVE Ext2Finddir(v, name) \in Nat
<1>1. PICK es \in Seq(Dirent) : es = Entries(v)
  BY EntriesType
<1> DEFINE hits == {i \in DOMAIN es : IsPrefix(es[i].name, name)}
           i == CHOOSE x \in hits : \A y \in hits : x <= y
<1>2. Ext2Finddir(v, name) = IF hits = {} THEN 0 ELSE es[i].inode
  BY <1>1 DEF Ext2Finddir
<1>3. DOMAIN es = 1 .. Len(es) /\ Len(es) \in Nat
  BY LenProperties
<1>4. hits \in SUBSET DOMAIN es
  OBVIOUS
<1> HIDE DEF hits
<1>5. hits \in SUBSET Nat
  BY <1>3, <1>4
<1>6. hits # {} => i \in hits
  <2>1. hits # {} => \E x \in hits : \A y \in hits : x <= y
    BY <1>5, LeastNatural
  <2> QED
    BY <2>1, Zenon
<1> HIDE DEF i
<1>7. hits # {} => es[i] \in Dirent
  BY <1>3, <1>4, <1>6, ElementOfSeq
<1> QED
  BY <1>2, <1>7 DEF Dirent

(***************************************************************************)
(* The calls                                                               *)
(***************************************************************************)
FileInv == file.inode # 0 => Vnode(file)

\* A result is there only while the table of devices stays as it is.
ResultInv == ret.op \in {"read", "device"} => phase \in {"run", "hung", "wild"}

WindowInv == TtyInv /\ FileInv /\ ResultInv /\ ReadsWindow

\* What a step does to the table.
LEMMA NodesGrow ==
    ASSUME DevInv, [Next]_vars
    PROVE  \/ nodes' = nodes
           \/ /\ phase \in {"add", "tty"}
              /\ \E v : nodes' = Append(nodes, v) /\ (v.dev = "part" \/ v = TtyNode)
<1>1. CASE Adding
  BY <1>1 DEF Adding, FoundTable, NoTable, ProbeHangs, AddPart, EndTable, DevfsAdd, devVars, PartNode
<1>2. CASE BootMount \/ BootMountWild
  BY <1>2, MountKeepsDevices DEF BootMount, BootMountWild, devVars
<1>3. CASE BootTty
  BY <1>3 DEF BootTty, DevfsAdd
<1>4. CASE MountCall
  BY <1>4, MountKeepsDevices DEF MountCall, devVars
<1>5. CASE Calls /\ ~MountCall
  BY <1>5 DEF Calls, Return, VfsUmount, UmountNone, VfsFinddir, VfsReaddir, ReadFile, ReadDevice
<1>6. CASE UNCHANGED vars
  BY <1>6 DEF vars
<1> QED
  BY <1>1, <1>2, <1>3, <1>4, <1>5, <1>6 DEF Next, Boot

LEMMA TtyStep == ASSUME DevInv, TtyInv, [Next]_vars PROVE TtyInv'
<1>1. CASE nodes' = nodes
  BY <1>1 DEF TtyInv
<1>2. ASSUME NEW v, nodes' = Append(nodes, v), v.dev = "part" \/ v = TtyNode
      PROVE  TtyInv'
  <2>1. nodes \in Seq(NodeType) /\ Len(nodes) \in Nat /\ DOMAIN nodes = 1 .. Len(nodes)
    BY LenProperties DEF DevInv, NodeInv
  <2>2. /\ DOMAIN nodes' = 1 .. (Len(nodes) + 1)
        /\ \A n \in 1 .. Len(nodes) : nodes'[n] = nodes[n]
        /\ nodes'[Len(nodes) + 1] = v
    BY <1>2, <2>1
  <2>3. v.dev = "tty" => v.length = 0
    BY <1>2 DEF TtyNode
  <2> QED
    BY <2>1, <2>2, <2>3 DEF TtyInv
<1> QED
  BY <1>1, <1>2, NodesGrow

LEMMA FileStep == ASSUME DevInv, DevInv', MountInv, FileInv, [Next]_vars PROVE FileInv'
<1>1. DOMAIN nodes \in SUBSET DOMAIN nodes'
  <2>1. nodes \in Seq(NodeType) /\ Len(nodes) \in Nat /\ DOMAIN nodes = 1 .. Len(nodes)
    BY LenProperties DEF DevInv, NodeInv
  <2>2. ASSUME NEW v, nodes' = Append(nodes, v) PROVE DOMAIN nodes' = 1 .. (Len(nodes) + 1)
    BY <2>1, <2>2
  <2> QED
    BY <2>1, <2>2, NodesGrow
<1>2. CASE file' = file
  BY <1>1, <1>2 DEF FileInv, Vnode
<1>3. CASE file' = NoFile
  BY <1>3 DEF FileInv, NoFile
<1>4. ASSUME NEW d \in DIRS, NEW name \in NAMES, VfsFinddir(d, name), file' # file
      PROVE  FileInv'
  <2> DEFINE v == fsnodes[ptr[d]]
             inode == Ext2Finddir(v, name)
  <2>1. /\ ptr[d] # 0
        /\ file' = [dev |-> v.dev, super |-> v.super, inode |-> inode, dir |-> d]
    <3>1. CASE flag[d] = 1 /\ ptr[d] # 0
      BY <1>4, <3>1 DEF VfsFinddir
    <3>2. CASE ~(flag[d] = 1 /\ ptr[d] # 0) /\ flag[d] = 0 /\ d = "dfs"
      BY <1>4, <3>2 DEF VfsFinddir
    <3>3. CASE ~(flag[d] = 1 /\ ptr[d] # 0) /\ ~(flag[d] = 0 /\ d = "dfs")
      BY <1>4, <3>3 DEF VfsFinddir
    <3> QED
      BY <3>1, <3>2, <3>3
  <2>2. ptr[d] \in 1 .. Len(fsnodes)
    BY <2>1, LenProperties DEF MountInv, MountTypes
  <2>3. v \in FsNode /\ v.dev \in 1 .. Len(nodes)
    BY <2>2, ElementOfSeq DEF MountInv, MountTypes
  <2>4. DOMAIN nodes = 1 .. Len(nodes)
    BY LenProperties DEF DevInv, NodeInv
  <2>5. inode \in Nat
    BY FinddirType DEF DevInv
  <2> HIDE DEF inode, v
  <2>6. file'.dev \in DOMAIN nodes' /\ file'.super \in Super /\ file'.inode \in Nat
    BY <1>1, <2>1, <2>3, <2>4, <2>5 DEF FsNode
  <2> QED
    BY <2>6 DEF FileInv, Vnode
<1>5. CASE \E d \in DIRS : VfsUmount(d)
  BY <1>2, <1>3, <1>5 DEF VfsUmount
<1>6. CASE \E d \in DIRS, name \in NAMES : VfsFinddir(d, name)
  BY <1>2, <1>4, <1>6
<1>7. ASSUME [Next]_vars, ~(\E d \in DIRS : VfsUmount(d)),
             ~(\E d \in DIRS, name \in NAMES : VfsFinddir(d, name))
      PROVE  file' = file
  BY <1>7 DEF Next, Boot, BootMount, BootMountWild, BootTty, Calls, Return, MountCall,
              UmountNone, VfsReaddir, ReadFile, ReadDevice, vars
<1> QED
  BY <1>2, <1>5, <1>6, <1>7

LEMMA ResultStep == ASSUME ResultInv, [Next]_vars PROVE ResultInv'
<1>1. CASE Boot
  <2>1. phase \in {"add", "tty"} /\ (ret' = ret \/ ret'.op = "mount")
    BY <1>1 DEF Boot, Adding, FoundTable, NoTable, ProbeHangs, AddPart, EndTable, Probing,
                Searched, BootMount, BootMountWild, BootTty, VfsMount, MountBusy, MountOther,
                MountShort, MountHangs, Mounted, MountFails, Returned
  <2> QED
    BY <2>1 DEF ResultInv
<1>2. CASE \E o \in OFFSETS, s \in SIZES : ReadFile(o, s)
  BY <1>2 DEF ReadFile, Idle, ResultInv
<1>3. CASE \E n \in 1 .. MAXNODES, o \in OFFSETS, s \in SIZES : ReadDevice(n, o, s)
  BY <1>3 DEF ReadDevice, Idle, ResultInv
<1>4. CASE MountCall
  BY <1>4 DEF MountCall, VfsMount, MountBusy, MountOther, MountShort, MountHangs, Mounted,
              MountFails, Returned, ResultInv
<1>5. CASE \E d \in DIRS, name \in NAMES : VfsFinddir(d, name)
  <2>1. PICK d \in DIRS, name \in NAMES : VfsFinddir(d, name)
    BY <1>5
  <2>2. ret'.op \in {"find", "finddev"}
    BY <2>1 DEF VfsFinddir, Returned
  <2> QED
    BY <2>2 DEF ResultInv
<1>6. CASE \E d \in DIRS, index \in 0 .. MAXNODES : VfsReaddir(d, index)
  <2>1. PICK d \in DIRS, index \in 0 .. MAXNODES : VfsReaddir(d, index)
    BY <1>6
  <2>2. ret'.op \in {"readdir", "readdev"}
    BY <2>1 DEF VfsReaddir, Returned
  <2> QED
    BY <2>2 DEF ResultInv
<1>7. CASE Return \/ \E d \in DIRS : VfsUmount(d) \/ UmountNone(d)
  <2>1. ret'.op \in {"none", "umount"}
    <3>1. CASE Return
      BY <3>1 DEF Return, Nothing, Returned
    <3>2. ASSUME NEW d \in DIRS, VfsUmount(d) PROVE ret'.op = "umount"
      BY <3>2 DEF VfsUmount, Returned
    <3>3. ASSUME NEW d \in DIRS, UmountNone(d) PROVE ret'.op = "umount"
      BY <3>3 DEF UmountNone, Returned
    <3> QED
      BY <1>7, <3>1, <3>2, <3>3
  <2> QED
    BY <2>1 DEF ResultInv
<1>8. CASE UNCHANGED vars
  BY <1>8 DEF vars, ResultInv
<1> QED
  BY <1>1, <1>2, <1>3, <1>4, <1>5, <1>6, <1>7, <1>8 DEF Next, Calls

LEMMA SameWindows ==
    ASSUME nodes' = nodes
    PROVE  StartOf' = StartOf /\ AroundOf' = AroundOf
BY DEF StartOf, AroundOf

LEMMA ReadFileStep ==
    ASSUME DevInv, FileInv, NEW o \in OFFSETS, NEW s \in SIZES, ReadFile(o, s)
    PROVE  ReadsWindow'
<1>1. o \in Nat /\ s \in Nat
  BY CallAssumption DEF CallAssumption
<1>2. PICK d : d = Ext2Read(file, o, s).data
  OBVIOUS
<1>3. Vnode(file)
  BY DEF ReadFile, FileInv
<1>4. \A k \in DOMAIN d : d[k] # STALE => Covers(file.dev, d[k])
  BY <1>1, <1>2, <1>3, Ext2ReadFilled DEF DevInv
<1>5. ret'.op = "read" /\ ret'.where = file /\ ret'.data = d /\ nodes' = nodes
  BY <1>2 DEF ReadFile, Returned
<1>6. StartOf' = StartOf /\ AroundOf' = AroundOf
  BY <1>5, SameWindows
<1>7. \A n, x : Covers(n, x)' <=> Covers(n, x)
  BY <1>5, <1>6 DEF Covers, Start, Around
<1> QED
  BY <1>4, <1>5, <1>7 DEF ReadsWindow

LEMMA ReadDeviceStep ==
    ASSUME DevInv, TtyInv, NEW n, NEW o \in OFFSETS, NEW s \in SIZES, ReadDevice(n, o, s)
    PROVE  ReadsWindow'
<1>1. o \in Nat /\ s \in Nat /\ n \in DOMAIN nodes
  BY CallAssumption DEF CallAssumption, ReadDevice
<1>2. PICK r : r = [offset |-> o, size |-> s]
  OBVIOUS
<1>3. r \in Request /\ r.offset = o /\ r.size = s
  BY <1>1, <1>2, SizeType
<1>4. PICK a : a = DeviceRead[n][r]
  OBVIOUS
<1>5. /\ ret' = Returned("device", n, o, s, a.code, a.data)
      /\ nodes' = nodes /\ disk' = disk
  BY <1>2, <1>4 DEF ReadDevice, VfsRead
<1>6. /\ ret'.op = "device" /\ ret'.where = n /\ ret'.arg = o /\ ret'.num = s
      /\ ret'.code = a.code /\ ret'.data = a.data
  BY <1>5 DEF Returned
<1>7. StartOf' = StartOf /\ AroundOf' = AroundOf
  BY <1>5, SameWindows
<1>8. Within(n, r, a)
  BY <1>1, <1>3, <1>4, DeviceWindow DEF DevInv
<1>9. Served(n, r) => Full(a, s)
  BY <1>1, <1>3, <1>4, DeviceComplete DEF DevInv
<1>10. PICK first : first = Start(n) + o
  OBVIOUS
<1>11. \A k \in DOMAIN a.data :
          a.data[k] # STALE => a.data[k] = first + k - 1 /\ Covers(n, a.data[k])
  BY <1>3, <1>8, <1>10 DEF Within
<1>12. ASSUME disk.driver = "ata" => first % SECTOR = 0 /\ s <= (MAXSEC - 1) * SECTOR,
              s > 0, FitsInt(s), \A k \in 1 .. s : Covers(n, first + k - 1)
       PROVE  Full(ret', s)
  <2>1. Served(n, r)
    BY <1>3, <1>10, <1>12 DEF Served
  <2> QED
    BY <1>6, <1>9, <2>1 DEF Full
<1>13. \A x : Covers(n, x)' <=> Covers(n, x)
  BY <1>5, <1>7 DEF Covers, Start, Around
<1>14. Start(n)' = Start(n)
  BY <1>7 DEF Start
<1> QED
  BY <1>5, <1>6, <1>10, <1>11, <1>12, <1>13, <1>14 DEF ReadsWindow

LEMMA WindowStep ==
    DevInv /\ DevInv' /\ MountInv /\ WindowInv /\ [Next]_vars => WindowInv'
<1> SUFFICES ASSUME DevInv, DevInv', MountInv, WindowInv, [Next]_vars PROVE WindowInv'
  OBVIOUS
<1>1. TtyInv' /\ FileInv' /\ ResultInv'
  BY TtyStep, FileStep, ResultStep DEF WindowInv
<1>2. CASE \E o \in OFFSETS, s \in SIZES : ReadFile(o, s)
  BY <1>1, <1>2, ReadFileStep DEF WindowInv
<1>3. CASE \E n \in 1 .. MAXNODES, o \in OFFSETS, s \in SIZES : ReadDevice(n, o, s)
  BY <1>1, <1>3, ReadDeviceStep DEF WindowInv
<1>4. CASE ret'.op \notin {"read", "device"}
  BY <1>1, <1>4 DEF WindowInv, ReadsWindow
<1>5. CASE ret' = ret /\ nodes' = nodes /\ disk' = disk
  <2>1. StartOf' = StartOf /\ AroundOf' = AroundOf
    BY <1>5, SameWindows
  <2>2. ReadsWindow'
    BY <1>5, <2>1 DEF WindowInv, ReadsWindow, Covers, Start, Around
  <2> QED
    BY <1>1, <2>2 DEF WindowInv
<1>6. CASE Boot
  <2>1. phase \in {"add", "tty"} /\ (ret' = ret \/ ret'.op = "mount")
    BY <1>6 DEF Boot, Adding, FoundTable, NoTable, ProbeHangs, AddPart, EndTable, Probing,
                Searched, BootMount, BootMountWild, BootTty, VfsMount, MountBusy, MountOther,
                MountShort, MountHangs, Mounted, MountFails, Returned
  <2> QED
    BY <1>4, <2>1 DEF WindowInv, ResultInv
<1>7. CASE MountCall
  <2>1. ret'.op = "mount"
    BY <1>7 DEF MountCall, VfsMount, MountBusy, MountOther, MountShort, MountHangs, Mounted,
                MountFails, Returned
  <2> QED
    BY <1>4, <2>1
<1>8. CASE \E d \in DIRS, name \in NAMES : VfsFinddir(d, name)
  <2>1. PICK d \in DIRS, name \in NAMES : VfsFinddir(d, name)
    BY <1>8
  <2>2. ret'.op \in {"find", "finddev"}
    BY <2>1 DEF VfsFinddir, Returned
  <2> QED
    BY <1>4, <2>2
<1>9. CASE \E d \in DIRS, index \in 0 .. MAXNODES : VfsReaddir(d, index)
  <2>1. PICK d \in DIRS, index \in 0 .. MAXNODES : VfsReaddir(d, index)
    BY <1>9
  <2>2. ret'.op \in {"readdir", "readdev"}
    BY <2>1 DEF VfsReaddir, Returned
  <2> QED
    BY <1>4, <2>2
<1>10. CASE Return \/ \E d \in DIRS : VfsUmount(d) \/ UmountNone(d)
  <2>1. ret'.op \in {"none", "umount"}
    <3>1. CASE Return
      BY <3>1 DEF Return, Nothing, Returned
    <3>2. ASSUME NEW d \in DIRS, VfsUmount(d) PROVE ret'.op = "umount"
      BY <3>2 DEF VfsUmount, Returned
    <3>3. ASSUME NEW d \in DIRS, UmountNone(d) PROVE ret'.op = "umount"
      BY <3>3 DEF UmountNone, Returned
    <3> QED
      BY <1>10, <3>1, <3>2, <3>3
  <2> QED
    BY <1>4, <2>1
<1>11. CASE UNCHANGED vars
  BY <1>5, <1>11 DEF vars
<1> QED
  BY <1>2, <1>3, <1>6, <1>7, <1>8, <1>9, <1>10, <1>11 DEF Next, Calls

LEMMA WindowInit == Init => WindowInv
<1> SUFFICES ASSUME Init PROVE WindowInv
  OBVIOUS
<1>1. ret.op = "none" /\ file.inode = 0
  BY DEF Init, Nothing, Returned, NoFile
<1>2. TtyInv
  <2>1. \A n \in DOMAIN nodes : nodes[n].dev = "main"
    BY DEF Init, MainNode
  <2> QED
    BY <2>1 DEF TtyInv
<1> QED
  BY <1>1, <1>2 DEF WindowInv, FileInv, ResultInv, ReadsWindow

\* Whatever the tables, superblocks, inodes and indirect blocks of the disk
\* hold, no read of a device or a file returns a byte from outside the windows
\* of mdpart_read (mdpart.c:102, ext2.c:141-267), and a device read that
\* ata_read can serve returns all its bytes, in order, when their number fits
\* the int it is passed on as (mdpart.c:110).
THEOREM FsReadsWindow == Spec => []ReadsWindow
<1>1. Init => DevInv /\ MountInv /\ WindowInv
  BY DevInit, MountInit, WindowInit
<1>2. DevInv /\ MountInv /\ WindowInv /\ [Next]_vars => DevInv' /\ MountInv' /\ WindowInv'
  BY DevStep, MountStep, WindowStep
<1>3. WindowInv => ReadsWindow
  BY DEF WindowInv
<1> QED
  BY <1>1, <1>2, <1>3, PTL DEF Spec

(***************************************************************************)
(* A device that holds a file system whose structures are in order         *)
(***************************************************************************)
LEMMA ModSum ==
    ASSUME NEW a \in Nat, NEW b \in Nat, NEW c \in Nat \ {0}, a % c = 0, b % c = 0
    PROVE  (a + b) % c = 0
<1>1. PICK x, y, q, r : /\ x = a \div c /\ y = b \div c
                        /\ q = (a + b) \div c /\ r = (a + b) % c
  OBVIOUS
<1>2. x \in Nat /\ y \in Nat /\ a = x * c /\ b = y * c
  BY <1>1, Division
<1>3. q \in Nat /\ r \in Nat /\ r < c /\ a + b = q * c + r /\ q * c \in Nat
  BY <1>1, Division
<1>4. (x + y) * c = x * c + y * c /\ x * c \in Nat /\ y * c \in Nat
  BY <1>2
<1>5. (x + y) * c = q * c + r
  BY <1>2, <1>3, <1>4
<1>6. (q + 1) * c = q * c + c
  BY <1>3
<1>7. x + y < q + 1
  <2>1. (x + y) * c < (q + 1) * c
    BY <1>3, <1>5, <1>6
  <2> QED
    BY <1>2, <1>3, <2>1, TimesLess
<1>8. CASE r > 0
  <2>1. q * c < (x + y) * c
    BY <1>3, <1>5, <1>8
  <2>2. q < x + y
    BY <1>2, <1>3, <2>1, TimesLess
  <2> QED
    BY <1>2, <1>3, <1>7, <2>2
<1> QED
  BY <1>1, <1>3, <1>8

LEMMA ModTimes ==
    ASSUME NEW a \in Nat, NEW b \in Nat, NEW c \in Nat \ {0}, b % c = 0
    PROVE  (a * b) % c = 0
<1> DEFINE S == {n \in Nat : (n * b) % c = 0}
<1>1. 0 \in S
  <2>1. 0 * b = 0 /\ 0 % c = 0
    OBVIOUS
  <2> QED
    BY <2>1
<1>2. ASSUME NEW n \in Nat, n \in S PROVE n + 1 \in S
  <2>1. (n + 1) * b = n * b + b /\ n * b \in Nat
    OBVIOUS
  <2>2. (n * b + b) % c = 0
    <3>1. PICK m \in Nat : m = n * b /\ m % c = 0
      BY <1>2, <2>1
    <3> QED
      BY <3>1, ModSum
  <2> QED
    BY <2>1, <2>2
<1> HIDE DEF S
<1>3. \A n \in Nat : n \in S
  BY <1>1, <1>2, SetInduction
<1> QED
  BY <1>3 DEF S

\* The first byte of an answer: what Found looks at.
Begun(n, r) ==
    /\ r.size > 0 /\ FitsInt(r.size)
    /\ disk.driver = "ata" => r.size <= (MAXSEC - 1) * SECTOR
    /\ Covers(n, Start(n) + r.offset)

LEMMA DriverFirst ==
    ASSUME NEW o \in Nat, NEW len \in Nat \ {0}
    PROVE  /\ InitrdRead(o, len).data # <<>> /\ InitrdRead(o, len).data[1] = o
           /\ len <= (MAXSEC - 1) * SECTOR =>
                 AtaRead(o, len).data # <<>> /\ AtaRead(o, len).data[1] = o
<1>1. 1 \in 1 .. len
  OBVIOUS
<1>3. InitrdRead(o, len).data # <<>> /\ InitrdRead(o, len).data[1] = o
  <2>1. PICK d : d = [k \in 1 .. len |-> o + k - 1]
    OBVIOUS
  <2>2. DOMAIN d = 1 .. len /\ d[1] = o
    BY <1>1, <2>1
  <2>3. d # <<>>
    BY <1>1, <2>2
  <2> QED
    BY <2>1, <2>2, <2>3 DEF InitrdRead
<1>4. ASSUME len <= (MAXSEC - 1) * SECTOR
      PROVE  AtaRead(o, len).data # <<>> /\ AtaRead(o, len).data[1] = o
  <2>1. SECTOR \in Nat \ {0} /\ MAXSEC \in Nat \ {0}
    BY DeviceAssumption DEF DeviceAssumption
  <2>2. PICK c : c = (len + SECTOR - 1) \div SECTOR
    OBVIOUS
  <2>3. /\ c \in Nat /\ c * SECTOR \in Nat
        /\ c * SECTOR <= len + SECTOR - 1 /\ len + SECTOR - 1 < c * SECTOR + SECTOR
    <3>1. len + SECTOR - 1 \in Nat
      BY <2>1
    <3> QED
      BY <2>1, <2>2, <3>1, Division
  <2>4. c # 0
    BY <2>1, <2>3
  <2>5. c < MAXSEC
    <3>1. (MAXSEC - 1) * SECTOR + SECTOR = MAXSEC * SECTOR /\ MAXSEC * SECTOR \in Nat
      BY <2>1
    <3>2. c * SECTOR < MAXSEC * SECTOR
      BY <1>4, <2>1, <2>3, <3>1
    <3> QED
      BY <2>1, <2>3, <3>2, TimesLess
  <2>6. AtaPioRead(c) = c
    BY <2>1, <2>3, <2>5, Division DEF AtaPioRead
  <2>7. PICK x \in Nat : x = o % SECTOR /\ x < SECTOR
    BY <2>1, Division
  <2>8. x + 1 <= c * SECTOR
    BY <2>1, <2>3, <2>4, <2>7
  <2>9. PICK d : d = [k \in 1 .. len |-> IF x + k <= c * SECTOR THEN o + k - 1 ELSE STALE]
    OBVIOUS
  <2>10. AtaRead(o, len) = [code |-> "ok", data |-> d]
    BY <2>2, <2>4, <2>6, <2>7, <2>9 DEF AtaRead
  <2>11. d[1] = o
    BY <1>1, <2>8, <2>9
  <2>12. DOMAIN d = 1 .. len
    BY <2>9
  <2>13. d # <<>>
    BY <1>1, <2>12
  <2> QED
    BY <2>10, <2>11, <2>13
<1> QED
  BY <1>3, <1>4

LEMMA DeviceFirst ==
    ASSUME NodeInv, TreeInv, TtyInv
    PROVE  \A n \in DOMAIN nodes : \A r \in Request : Begun(n, r) =>
              /\ DeviceRead[n][r].data # <<>>
              /\ DeviceRead[n][r].data[1] = Start(n) + r.offset
<1> DEFINE D == DOMAIN nodes
           First(n, r) == /\ DeviceRead[n][r].data # <<>>
                          /\ DeviceRead[n][r].data[1] = Start(n) + r.offset
           S == {n \in D : \A r \in Request : Begun(n, r) => First(n, r)}
<1>1. ASSUME NEW n \in D, \A y \in D : y < n => y \in S, NEW r \in Request, Begun(n, r)
      PROVE  First(n, r)
  <2> DEFINE v == nodes[n]
             a == DeviceRead[n][r]
             len == Cut(v, r.offset, r.size)
  <2>1. /\ v.dev \in {"main", "part", "tty"} /\ v.reserved \in Nat /\ v.length \in Nat
        /\ v.dev = "part" => v.ptr \in D /\ v.ptr < n
        /\ r.offset \in Nat /\ r.size \in Int /\ Start(n) \in Nat
    BY NodeFacts, StartDef DEF Request, Start
  <2>2. a = ReadBody(nodes, disk.driver, DeviceRead, n, r)
    BY DeviceReadDef
  <2>3. InReach(n, Start(n) + r.offset) /\ Covers(n, Start(n) + r.offset) /\ r.size > 0
    BY <1>1, CoversDef DEF Begun
  <2>4. r.offset < v.length
    BY <2>1, <2>3 DEF InReach
  <2>5. len \in Nat \ {0} /\ len <= r.size
    <3>1. len = IF r.offset + r.size <= v.length THEN r.size ELSE v.length - r.offset
      BY <1>1, <2>1, <2>3, <2>4, CutFacts DEF Begun
    <3> HIDE DEF len
    <3> QED
      BY <2>1, <2>3, <2>4, <3>1
  <2>6. v.dev # "tty"
    BY <2>1, <2>4 DEF TtyInv
  <2>7. disk.driver = "ata" => len <= (MAXSEC - 1) * SECTOR
    <3>1. (MAXSEC - 1) * SECTOR \in Int
      BY DeviceAssumption DEF DeviceAssumption
    <3> QED
      BY <1>1, <2>1, <2>5, <3>1 DEF Begun
  <2>8. CASE v.dev = "main"
    <3>1. Start(n) = 0
      BY <2>8, CoversDef
    <3>2. a = IF disk.driver = "ata" THEN AtaRead(r.offset, len) ELSE InitrdRead(r.offset, len)
      <4>1. len >= 0
        <5> HIDE DEF len
        <5> QED
          BY <2>5
      <4>2. r.offset <= v.length
        BY <2>1, <2>4
      <4> QED
        BY <2>2, <2>8, <4>1, <4>2, ReadCases, SMTT(30)
    <3> HIDE DEF a, len
    <3>3. a.data # <<>> /\ a.data[1] = r.offset
      BY <2>1, <2>5, <2>7, <3>2, DriverFirst
    <3> QED
      BY <2>1, <3>1, <3>3 DEF a
  <2>9. CASE v.dev = "part"
    <3> DEFINE p == v.ptr
               q == Onward(v, r)
    <3>1. /\ a = DeviceRead[p][q] /\ q \in Request /\ p \in D /\ p < n
          /\ q.offset = r.offset + v.reserved /\ q.size = len
      BY <2>1, <2>2, <2>4, <2>9, ReadCases, SMTT(30) DEF Onward
    <3>2. Start(n) = v.reserved + Start(p) /\ Start(p) \in Nat
      BY <2>9, <3>1, CoversDef, StartDef DEF Start
    <3>3. Covers(p, Start(n) + r.offset)
      BY <2>3, <2>9, CoversDef
    <3> HIDE DEF a, p, q, len
    <3>4. Start(p) + q.offset = Start(n) + r.offset
      BY <2>1, <3>1, <3>2
    <3>5. FitsInt(len)
      BY <1>1, <2>1, <2>5, HalfWord DEF Begun, FitsInt
    <3>6. Begun(p, q)
      BY <2>5, <2>7, <3>1, <3>3, <3>4, <3>5 DEF Begun
    <3>7. First(p, q)
      BY <1>1, <3>1, <3>6
    <3> QED
      BY <3>1, <3>4, <3>7 DEF a
  <2> QED
    BY <2>1, <2>6, <2>8, <2>9
<1>2. D \in SUBSET Nat
  BY LenProperties DEF NodeInv
<1>3. \A n \in D : (\A y \in D : y < n => y \in S) => n \in S
  BY <1>1
<1> HIDE DEF S, D
<1>4. \A n \in D : n \in S
  BY <1>2, <1>3, InductionBelow
<1> QED
  BY <1>4 DEF S, D

\* A node of the driver whose superblock is that of its device, on a device that
\* holds a file system.
Origin(v) == /\ Vnode(v)
             /\ Start(v.dev) + 2 * SECTOR \in DOMAIN disk.supers
             /\ v.super = disk.supers[Start(v.dev) + 2 * SECTOR]
Good(v) == Origin(v) /\ Holds(v.dev)

LEMMA GoodImage ==
    ASSUME NodeInv, NEW v, Good(v)
    PROVE  Ext2Image(disk, Start(v.dev), v.super, Truth(v.dev))
BY TruthAssumption DEF TruthAssumption, NodeInv, Good, Origin, Holds, Truth

LEMMA GoodFacts ==
    ASSUME NodeInv, NEW v, Good(v), NEW s, s = v.super, NEW t, t = Truth(v.dev)
    PROVE  /\ Start(v.dev) \in Nat /\ Start(v.dev) % SECTOR = 0
           /\ t.length \in Nat /\ t.length <= W
           /\ s.blk \in Nat \ {0} /\ s.blk % SECTOR = 0 /\ s.blk <= (MAXSEC - 1) * SECTOR
           /\ PTR <= s.blk /\ DESC <= s.blk /\ s.inode_size \in 1 .. s.blk
           /\ IntSizes(s.blk) /\ FitsInt(s.blk * PtrsIn(s.blk))
           /\ s \in Super /\ v.dev \in DOMAIN nodes
<1>1. Ext2Sizes(Start(v.dev), s, t)
  BY GoodImage DEF Ext2Image
<1> QED
  BY <1>1 DEF Ext2Sizes, Good, Origin, Vnode, Super

LEMMA GoodFile ==
    ASSUME NodeInv, NEW v, Good(v), NEW s, s = v.super, NEW t, t = Truth(v.dev),
           NEW ino \in DOMAIN t.blocks, NEW base, base = Start(v.dev)
    PROVE  /\ Ext2File(disk, base, s, t, ino)
           /\ Ext2Root(disk, base, s, t)
BY GoodImage DEF Ext2Image

LEMMA HeldCovers ==
    ASSUME NodeInv, TreeInv, NEW v, Good(v), NEW base, base = Start(v.dev),
           NEW t, t = Truth(v.dev), NEW a \in Nat, a < t.length
    PROVE  Covers(v.dev, base + a)
<1>1. base \in Nat /\ t.length \in Nat /\ v.dev \in DOMAIN nodes
  BY GoodFacts
<1>2. AroundOf[v.dev] \in SUBSET DOMAIN nodes
  BY <1>1, AroundDef
<1>3. ASSUME NEW k \in Around(v.dev)
      PROVE  Start(k) <= base + a /\ base + a < Start(k) + nodes[k].length
  <2>1. k \in DOMAIN nodes
    BY <1>2 DEF Around
  <2>2. Start(k) \in Nat /\ nodes[k].length \in Nat
    BY <2>1, StartDef, NodeFacts DEF Start
  <2>3. Start(k) <= base /\ base + t.length <= Start(k) + nodes[k].length
    BY DEF Good, Holds
  <2> QED
    BY <1>1, <2>2, <2>3
<1> QED
  BY <1>3 DEF Covers

\* A read of whole sectors of the file system returns its bytes.
LEMMA HeldFull ==
    ASSUME NodeInv, TreeInv, TtyInv, NEW v, Good(v), NEW base, base = Start(v.dev),
           NEW t, t = Truth(v.dev), NEW o \in Nat, NEW n \in Nat \ {0},
           o + n <= t.length, o % SECTOR = 0, n <= (MAXSEC - 1) * SECTOR
    PROVE  LET data == VfsRead(v.dev, o, n).data
           IN Len(data) = n /\ \A k \in 1 .. n : data[k] = base + o + k - 1
<1>1. base \in Nat /\ base % SECTOR = 0 /\ t.length \in Nat /\ v.dev \in DOMAIN nodes
  BY GoodFacts
<1>2. PICK r : r = [offset |-> o, size |-> n]
  OBVIOUS
<1>3. r \in Request /\ r.offset = o /\ r.size = n
  BY <1>2, SizeType
<1>4. PICK a : a = DeviceRead[v.dev][r]
  OBVIOUS
<1>5. (base + o) % SECTOR = 0
  BY <1>1, ModSum, DeviceAssumption DEF DeviceAssumption
<1>6. \A k \in 1 .. n : Covers(v.dev, base + o + k - 1)
  <2> SUFFICES ASSUME NEW k \in 1 .. n PROVE Covers(v.dev, base + o + k - 1)
    OBVIOUS
  <2>1. PICK x \in Nat : x = o + k - 1 /\ x < t.length /\ base + x = base + o + k - 1
    BY <1>1
  <2>2. Covers(v.dev, base + x)
    BY <2>1, HeldCovers
  <2> QED
    BY <2>1, <2>2
<1>7. Served(v.dev, r)
  BY <1>3, <1>5, <1>6, HalfWord DEF Served, FitsInt
<1>8. Full(a, n) /\ Within(v.dev, r, a)
  BY <1>1, <1>3, <1>4, <1>7, DeviceComplete, DeviceWindow
<1>9. Len(a.data) = n /\ \A k \in 1 .. n : a.data[k] = base + o + k - 1
  BY <1>3, <1>8 DEF Full, Within
<1> QED
  BY <1>2, <1>4, <1>9 DEF VfsRead

\* Found finds what begins inside the file system.
LEMMA HeldFound ==
    ASSUME NodeInv, TreeInv, TtyInv, NEW v, Good(v), NEW base, base = Start(v.dev),
           NEW t, t = Truth(v.dev), NEW o \in Nat, NEW n \in Nat \ {0},
           o < t.length, n <= (MAXSEC - 1) * SECTOR
    PROVE  Found(v, o, n) = base + o
<1>1. v.dev \in DOMAIN nodes
  BY GoodFacts
<1>2. PICK r : r = [offset |-> o, size |-> n]
  OBVIOUS
<1>3. r \in Request /\ r.offset = o /\ r.size = n
  BY <1>2, SizeType
<1>4. Covers(v.dev, base + o)
  BY HeldCovers
<1>5. Begun(v.dev, r)
  BY <1>3, <1>4, HalfWord DEF Begun, FitsInt
<1>6. DeviceRead[v.dev][r].data # <<>> /\ DeviceRead[v.dev][r].data[1] = base + o
  BY <1>1, <1>3, <1>5, DeviceFirst
<1> QED
  BY <1>2, <1>6 DEF Found, VfsRead

LEMMA InsideFacts ==
    ASSUME NodeInv, NEW v, Good(v), NEW s, s = v.super, NEW t, t = Truth(v.dev),
           NEW block \in Nat, Inside(s, t, block)
    PROVE  /\ BlockAddr(v, block) = block * s.blk /\ block * s.blk \in Nat
           /\ block * s.blk + s.blk <= t.length
           /\ (block * s.blk) % SECTOR = 0
<1>1. /\ s.blk \in Nat \ {0} /\ s.blk % SECTOR = 0 /\ t.length \in Nat /\ t.length <= W
      /\ W \in Nat \ {0} /\ SECTOR \in Nat \ {0}
  BY GoodFacts, DeviceAssumption DEF DeviceAssumption
<1>2. PICK x \in Nat : x = block * s.blk
  BY <1>1
<1>3. (block + 1) * s.blk = x + s.blk
  <2>1. PICK blk \in Nat : blk = s.blk
    BY <1>1
  <2>2. (block + 1) * blk = block * blk + blk
    OBVIOUS
  <2> QED
    BY <1>2, <2>1, <2>2
<1>4. x + s.blk <= t.length
  BY <1>3 DEF Inside
<1>5. x % W = x
  BY <1>1, <1>4, Division
<1>6. x % SECTOR = 0
  <2>1. PICK blk \in Nat : blk = s.blk /\ blk % SECTOR = 0
    BY <1>1
  <2>2. (block * blk) % SECTOR = 0
    BY <1>1, <2>1, ModTimes
  <2> QED
    BY <1>2, <2>1, <2>2
<1> QED
  BY <1>2, <1>4, <1>5, <1>6 DEF BlockAddr, Blksz

LEMMA BlockExact ==
    ASSUME NodeInv, TreeInv, TtyInv, NEW v, Good(v), NEW base, base = Start(v.dev),
           NEW s, s = v.super, NEW t, t = Truth(v.dev),
           NEW block \in Nat, Inside(s, t, block), NEW n \in 1 .. s.blk, NEW k \in 1 .. n
    PROVE  ReadBlockData(v, block, 0, n)[k] = base + block * s.blk + k - 1
<1>1. /\ s.blk \in Nat \ {0} /\ t.length \in Nat /\ base \in Nat
      /\ s.blk <= (MAXSEC - 1) * SECTOR /\ (MAXSEC - 1) * SECTOR \in Int
  BY GoodFacts, DeviceAssumption DEF DeviceAssumption
<1>2. PICK o \in Nat : o = BlockAddr(v, block) /\ o = block * s.blk
  BY InsideFacts
<1>3. o + s.blk <= t.length /\ o % SECTOR = 0
  BY <1>2, InsideFacts
<1>4. n \in Nat \ {0} /\ o + n <= t.length /\ n <= (MAXSEC - 1) * SECTOR
  BY <1>1, <1>3
<1>5. PICK data : data = VfsRead(v.dev, o, n).data
  OBVIOUS
<1>6. Len(data) = n /\ \A j \in 1 .. n : data[j] = base + o + j - 1
  BY <1>3, <1>4, <1>5, HeldFull
<1>7. ReadBlockData(v, block, 0, n)[k] = IF k <= Len(data) THEN data[k] ELSE STALE
  BY <1>2, <1>5 DEF ReadBlockData, Buffer
<1> QED
  BY <1>2, <1>6, <1>7

LEMMA PointersExact ==
    ASSUME NodeInv, TreeInv, TtyInv, NEW v, Good(v), NEW base, base = Start(v.dev),
           NEW s, s = v.super, NEW t, t = Truth(v.dev),
           NEW block \in Nat, Inside(s, t, block), NEW i \in 0 .. (s.blk \div PTR - 1)
    PROVE  Pointers(v, block)[i] = PtrAt(disk, base, s, block, i)
<1>1. s.blk \in Nat \ {0} /\ base \in Nat /\ PTR \in Nat \ {0}
  BY GoodFacts, Ext2Assumption DEF Ext2Assumption
<1>2. PICK ptrs : ptrs = s.blk \div PTR
  OBVIOUS
<1>3. ptrs \in Nat /\ ptrs * PTR \in Nat /\ ptrs * PTR <= s.blk
  BY <1>1, <1>2, Division
<1>4. PICK x \in Nat : x = i * PTR
  BY <1>1, <1>2, <1>3
<1>5. x < s.blk
  <2>1. PICK d \in Nat : ptrs = i + 1 + d
    <3>1. i \in Nat /\ i < ptrs
      BY <1>2, <1>3
    <3>2. ptrs - i - 1 \in Nat /\ ptrs = i + 1 + (ptrs - i - 1)
      BY <1>3, <3>1
    <3> QED
      BY <3>2
  <2>2. ptrs * PTR = x + PTR + d * PTR /\ d * PTR \in Nat
    BY <1>1, <1>4, <2>1
  <2> QED
    BY <1>1, <1>3, <2>2
<1>6. PICK bytes : bytes = ReadBlockData(v, block, 0, Blksz(v))
  OBVIOUS
<1>7. bytes[x + 1] = base + block * s.blk + (x + 1) - 1
  <2>1. s.blk \in 1 .. s.blk /\ x + 1 \in 1 .. s.blk
    BY <1>1, <1>5
  <2> QED
    BY <1>6, <2>1, BlockExact DEF Blksz
<1>8. block * s.blk \in Nat
  BY <1>1
<1>9. bytes[x + 1] = base + block * s.blk + x
  BY <1>1, <1>7, <1>8
<1>10. Pointers(v, block)[i] = Decoded(disk.pointers, bytes[i * PTR + 1], 0)
  BY <1>2, <1>6 DEF Pointers, Blksz
<1> QED
  BY <1>4, <1>9, <1>10 DEF PtrAt

(***************************************************************************)
(* A read that begins with a block spells the file                         *)
(***************************************************************************)
LEMMA DivisionUnique ==
    ASSUME NEW c \in Nat \ {0}, NEW q \in Nat, NEW r \in Nat, NEW x \in Nat, NEW y \in Nat,
           r < c, y < c, q * c + r = x * c + y
    PROVE  q = x /\ r = y
<1>1. /\ q * c \in Nat /\ x * c \in Nat
      /\ (q + 1) * c = q * c + c /\ (x + 1) * c = x * c + c
  OBVIOUS
<1>2. q * c < (x + 1) * c /\ x * c < (q + 1) * c
  BY <1>1
<1>3. q < x + 1 /\ x < q + 1
  BY <1>2, TimesLess
<1>4. q = x
  BY <1>3
<1>5. q * c = x * c
  BY <1>4
<1> QED
  BY <1>1, <1>4, <1>5

LEMMA DivisionShift ==
    ASSUME NEW a \in Nat, NEW j \in Nat, NEW c \in Nat \ {0}
    PROVE  /\ a * c \in Nat
           /\ (a * c + j) \div c = a + (j \div c) /\ (a * c + j) % c = j % c
<1>1. PICK m \in Nat : m = a * c
  OBVIOUS
<1>2. PICK x, y : x = j \div c /\ y = j % c
  OBVIOUS
<1>3. x \in Nat /\ y \in Nat /\ y < c /\ j = x * c + y /\ x * c \in Nat
  BY <1>2, Division
<1>4. PICK q, r : q = (m + j) \div c /\ r = (m + j) % c
  OBVIOUS
<1>5. q \in Nat /\ r \in Nat /\ r < c /\ m + j = q * c + r /\ q * c \in Nat
  BY <1>4, Division
<1>6. (a + x) * c = m + x * c
  BY <1>1, <1>3
<1>7. q * c + r = (a + x) * c + y
  BY <1>3, <1>5, <1>6
<1>8. q = a + x /\ r = y
  <2>1. a + x \in Nat
    BY <1>3
  <2> QED
    BY <1>3, <1>5, <1>7, <2>1, DivisionUnique
<1> QED
  BY <1>1, <1>2, <1>4, <1>8

LEMMA DivisionExact ==
    ASSUME NEW a \in Nat, NEW c \in Nat \ {0}
    PROVE  (a * c) \div c = a /\ (a * c) % c = 0
<1>1. PICK m \in Nat : m = a * c
  OBVIOUS
<1>2. PICK q, r : q = m \div c /\ r = m % c
  OBVIOUS
<1>3. q \in Nat /\ r \in Nat /\ r < c /\ m = q * c + r /\ q * c \in Nat
  BY <1>2, Division
<1>4. q * c + r = a * c + 0
  BY <1>1, <1>3
<1>5. q = a /\ r = 0
  BY <1>3, <1>4, DivisionUnique
<1> QED
  BY <1>1, <1>2, <1>5

LEMMA TimesMonotone ==
    ASSUME NEW a \in Nat, NEW b \in Nat, NEW c \in Nat, a <= b
    PROVE  a * c <= b * c
<1>1. PICK d \in Nat : b = a + d
  OBVIOUS
<1>2. b * c = a * c + d * c /\ d * c \in Nat /\ a * c \in Nat
  BY <1>1
<1> QED
  BY <1>2

\* Byte p of a file whose blocks are listed.
FileByte(base, blk, list, p) == base + list[p \div blk + 1] * blk + (p % blk)

\* That byte, j bytes behind block e.
ByteAt(base, blk, list, e, j) ==
    /\ e * blk \in Nat
    /\ FileByte(base, blk, list, e * blk + j)
         = base + list[e + (j \div blk) + 1] * blk + (j % blk)

LEMMA FileByteAt ==
    ASSUME NEW base, NEW blk \in Nat \ {0}, NEW list, NEW e \in Nat, NEW j \in Nat
    PROVE  ByteAt(base, blk, list, e, j)
BY DivisionShift DEF FileByte, ByteAt

\* The entries of a chain from first on that a copy of n bytes needs are the
\* blocks of the file from shift + first on.
Chained(s, t, chain, list, shift, first, n) ==
    \A i \in Nat : i * s.blk < n =>
       /\ shift + first + i < Len(list)
       /\ Inside(s, t, list[shift + first + i + 1])
       /\ chain[first + i] = list[shift + first + i + 1]

LEMMA PieceIndex ==
    ASSUME NEW k \in Nat, NEW n \in Nat, NEW m \in Nat, NEW blk \in Nat,
           1 <= k, k <= n, m <= k - 1, k - 1 < m + blk,
           NEW x, x = IF n - m > blk THEN blk ELSE n - m
    PROVE  x \in 1 .. blk /\ k - m \in 1 .. x
OBVIOUS

\* Byte k of a copy from a chain, beginning with its block first.
ChainByte(v, chain, base, blk, list, shift, first, n, k) ==
    ReadBlockChain(v, chain, first * blk, n)[k]
       = FileByte(base, blk, list, (shift + first) * blk + k - 1)

LEMMA ChainBytes ==
    ASSUME NodeInv, TreeInv, TtyInv, NEW v, Good(v), NEW base, base = Start(v.dev),
           NEW s, s = v.super, NEW t, t = Truth(v.dev),
           NEW chain, NEW list \in Seq(Nat), NEW shift \in Nat, NEW first \in Nat, NEW n \in Nat,
           Chained(s, t, chain, list, shift, first, n), NEW k \in 1 .. n
    PROVE  ChainByte(v, chain, base, s.blk, list, shift, first, n, k)
<1>0. PICK blk : blk = s.blk
  OBVIOUS
<1>1. blk \in Nat \ {0} /\ base \in Nat
  BY <1>0, GoodFacts
<1> DEFINE Hole(b) == \E i \in 0 .. b : chain[first + i] = 0
           left(b) == n - b * blk
           Piece(b) == ReadBlockData(v, chain[first + b], 0, IF left(b) > blk THEN blk ELSE left(b))
<1>2. PICK b : b = (k - 1) \div blk
  OBVIOUS
<1>3. (first * blk) \div blk = first /\ (first * blk) % blk = 0
  BY <1>1, DivisionExact
<1>4. ReadBlockChain(v, chain, first * blk, n)[k]
         = IF Hole(b) THEN STALE ELSE Piece(b)[k - b * blk]
  <2>1. PICK o : o = first * blk
    OBVIOUS
  <2>2. o \div blk = first /\ o % blk = 0 /\ Blksz(v) = blk
    BY <1>0, <1>3, <2>1 DEF Blksz
  <2>3. ReadBlockChain(v, chain, o, n)[k]
          = LET c == (k - 1) \div blk IN IF Hole(c) THEN STALE ELSE Piece(c)[k - c * blk]
    BY <2>2 DEF ReadBlockChain
  <2> QED
    BY <1>2, <2>1, <2>3
<1>5. PICK j \in Nat : j = k - 1 /\ j < n
  OBVIOUS
<1>6. PICK m : m = b * blk /\ m \in Nat
  BY <1>1, <1>2, <1>5, Division
<1>7. b \in Nat /\ m <= j /\ j < m + blk /\ j = m + (j % blk) /\ j % blk \in Nat
  BY <1>1, <1>2, <1>5, <1>6, Division
<1>8. ~Hole(b)
  <2> SUFFICES ASSUME NEW i \in 0 .. b PROVE chain[first + i] # 0
    OBVIOUS
  <2>1. i \in Nat /\ i * blk <= m
    <3>1. i \in Nat /\ i <= b /\ blk \in Nat
      BY <1>1, <1>7
    <3> QED
      BY <1>6, <1>7, <3>1, TimesMonotone
  <2>2. i * blk < n
    <3>1. i * blk \in Nat
      BY <1>1, <2>1
    <3> QED
      BY <1>5, <1>6, <1>7, <2>1, <3>1
  <2> QED
    BY <1>0, <2>1, <2>2 DEF Inside, Chained
<1>9. PICK block : block = list[shift + first + b + 1]
  OBVIOUS
<1>10. /\ shift + first + b < Len(list) /\ Inside(s, t, block) /\ chain[first + b] = block
  <2>1. b * blk < n
    BY <1>5, <1>6, <1>7
  <2> QED
    BY <1>0, <1>7, <1>9, <2>1 DEF Chained
<1>11. block \in Nat
  <2>1. shift + first + b + 1 \in 1 .. Len(list)
    <3>1. Len(list) \in Nat
      BY LenProperties
    <3> QED
      BY <1>7, <1>10, <3>1
  <2> QED
    BY <1>9, <2>1, ElementOfSeq
<1>12. PICK x : x = IF n - m > blk THEN blk ELSE n - m
  OBVIOUS
<1>13. x \in 1 .. blk /\ k - m \in 1 .. x
  <2>1. k \in Nat /\ 1 <= k /\ k <= n /\ m <= k - 1 /\ k - 1 < m + blk /\ blk \in Nat
    BY <1>1, <1>5, <1>7
  <2> QED
    BY <1>6, <1>12, <2>1, PieceIndex
<1>14. Piece(b) = ReadBlockData(v, block, 0, x)
  BY <1>6, <1>10, <1>12
<1> HIDE DEF Hole, Piece
<1>15. Piece(b)[k - m] = base + block * blk + (k - m) - 1
  BY <1>0, <1>11, <1>10, <1>13, <1>14, BlockExact
<1>16. PICK y, z : y = block * blk /\ z = j % blk
  OBVIOUS
<1>17. y \in Nat /\ z \in Nat /\ m \in Nat /\ base \in Nat /\ k - 1 = m + z
  BY <1>1, <1>5, <1>6, <1>7, <1>11, <1>16
<1>18. Piece(b)[k - m] = base + y + z
  <2>1. Piece(b)[k - m] = base + y + (k - m) - 1
    BY <1>15, <1>16
  <2>2. base + y + (k - m) - 1 = base + y + z
    BY <1>17
  <2> QED
    BY <2>1, <2>2
<1>19. PICK e : e = shift + first /\ e \in Nat
  OBVIOUS
<1>20. /\ e * blk \in Nat
       /\ FileByte(base, blk, list, e * blk + j)
            = base + list[e + (j \div blk) + 1] * blk + (j % blk)
  <2>1. ByteAt(base, blk, list, e, j)
    BY <1>1, <1>19, FileByteAt
  <2> QED
    BY <2>1 DEF ByteAt
<1>21. list[e + (j \div blk) + 1] = block
  BY <1>2, <1>5, <1>9, <1>19
<1>22. FileByte(base, blk, list, e * blk + j) = base + y + z
  BY <1>16, <1>20, <1>21
<1>23. e * blk + k - 1 = e * blk + j
  BY <1>5, <1>20
<1> QED
  BY <1>0, <1>4, <1>6, <1>8, <1>18, <1>19, <1>22, <1>23 DEF ChainByte

Divided(x, c, a, y) == x \div c = a /\ x % c = y

LEMMA DivisionSmall ==
    ASSUME NEW a \in Nat, NEW c \in Nat \ {0}, NEW y \in Nat, y < c, NEW x, x = a * c + y
    PROVE  Divided(x, c, a, y)
<1>1. PICK m \in Nat : m = a * c
  OBVIOUS
<1>2. PICK q, r : q = (m + y) \div c /\ r = (m + y) % c
  OBVIOUS
<1>3. q \in Nat /\ r \in Nat /\ r < c /\ m + y = q * c + r /\ q * c \in Nat
  BY <1>2, Division
<1>4. q * c + r = a * c + y
  BY <1>1, <1>3
<1>5. q = a /\ r = y
  BY <1>3, <1>4, DivisionUnique
<1> QED
  BY <1>1, <1>2, <1>5 DEF Divided

\* A piece of so many bytes behind block first needs no block at or behind room.
Reaches(first, n, room, blk) == first * blk + n <= room * blk

LEMMA BlockBefore ==
    ASSUME NEW blk \in Nat \ {0}, NEW first \in Nat, NEW c \in Nat, NEW n \in Nat,
           NEW room \in Nat, Reaches(first, n, room, blk), c * blk < n
    PROVE  first + c < room
<1>1. PICK x \in Nat, y \in Nat, z \in Nat : x = first * blk /\ y = c * blk /\ z = room * blk
  OBVIOUS
<1>2. (first + c) * blk = x + y
  BY <1>1
<1>3. x + y < z
  BY <1>1 DEF Reaches
<1>4. (first + c) * blk < room * blk
  BY <1>1, <1>2, <1>3
<1> QED
  BY <1>4, TimesLess

\* The pointers in a block.
PtrsOf(s) == s.blk \div PTR

\* The blocks of a file behind the direct and the single indirect ones.
Doubled(d, base, s, t, in, list) ==
    \A p \in Nat : NDIR + PtrsOf(s) <= p /\ p < Len(list) =>
       Inside(s, t, list[p + 1]) /\ InDouble(d, base, s, t, in, p, list[p + 1])

\* The number of the first block of the file behind indirect block i.
Behind(ptrs, i) == NDIR + ptrs + i * ptrs

LEMMA BehindType == ASSUME NEW ptrs \in Nat, NEW i \in Nat PROVE Behind(ptrs, i) \in Nat
<1>1. i * ptrs \in Nat
  OBVIOUS
<1> QED
  BY <1>1, Ext2Assumption DEF Behind, Ext2Assumption

\* Block p of a file is pointer y of indirect block i.
Numbered(p, ptrs, i, y) ==
    LET q == p - NDIR - ptrs
    IN NDIR + ptrs <= p /\ q \in Nat /\ Divided(q, ptrs, i, y)

LEMMA BehindFacts ==
    ASSUME NEW ptrs \in Nat \ {0}, NEW i \in Nat, NEW y \in Nat, y < ptrs,
           NEW shift, shift = Behind(ptrs, i), NEW p, p = shift + y
    PROVE  Numbered(p, ptrs, i, y)
<1>1. NDIR \in Nat
  BY Ext2Assumption DEF Ext2Assumption
<1>2. PICK z \in Nat : z = i * ptrs
  OBVIOUS
<1>3. p = NDIR + ptrs + z + y
  BY <1>1, <1>2 DEF Behind
<1>4. PICK q \in Nat : q = p - NDIR - ptrs /\ q = z + y
  BY <1>1, <1>3
<1>5. Divided(q, ptrs, i, y)
  BY <1>2, <1>4, DivisionSmall
<1>6. NDIR + ptrs <= p
  BY <1>1, <1>3
<1> QED
  BY <1>4, <1>5, <1>6 DEF Numbered

LEMMA IndirectChained ==
    ASSUME NodeInv, TreeInv, TtyInv, NEW v, Good(v), NEW base, base = Start(v.dev),
           NEW s, s = v.super, NEW t, t = Truth(v.dev), NEW in \in Inode, NEW list \in Seq(Nat),
           Doubled(disk, base, s, t, in, list), NEW ptrs \in Nat, ptrs = PtrsOf(s),
           NEW i \in 0 .. (ptrs - 1), NEW first \in Nat, NEW n \in Nat,
           NEW shift \in Nat, shift = Behind(ptrs, i),
           Reaches(first, n, ptrs, s.blk), Reaches(shift + first, n, Len(list), s.blk)
    PROVE  Chained(s, t, Pointers(v, Pointers(v, in.d_indirect)[i]), list, shift, first, n)
<1>1. s.blk \in Nat \ {0} /\ NDIR \in Nat /\ Len(list) \in Nat /\ ptrs \in Nat \ {0} /\ i \in Nat
  <2>1. s.blk \in Nat \ {0}
    BY GoodFacts
  <2>2. ptrs \in Nat \ {0} /\ i \in Nat
    OBVIOUS
  <2> QED
    BY <2>1, <2>2, LenProperties, Ext2Assumption DEF Ext2Assumption
<1>0. SUFFICES ASSUME NEW c \in Nat, c * s.blk < n
             PROVE  /\ shift + first + c < Len(list)
                    /\ Inside(s, t, list[shift + first + c + 1])
                    /\ Pointers(v, Pointers(v, in.d_indirect)[i])[first + c]
                         = list[shift + first + c + 1]
  BY DEF Chained
<1>2. first + c < ptrs
  BY <1>0, <1>1, BlockBefore
<1>3. (shift + first) + c < Len(list)
  <2>1. shift + first \in Nat
    OBVIOUS
  <2> QED
    BY <1>0, <1>1, <2>1, BlockBefore
<1>4. PICK y \in Nat : y = first + c
  OBVIOUS
<1>5. y < ptrs
  BY <1>2, <1>4
<1>6. PICK p \in Nat : p = shift + y
  OBVIOUS
<1>7. p = shift + first + c /\ p < Len(list)
  BY <1>1, <1>3, <1>4, <1>6, SMTT(30)
<1>8. Numbered(p, ptrs, i, y)
  BY <1>1, <1>5, <1>6, BehindFacts
<1>9. PICK q : q = p - NDIR - ptrs
  OBVIOUS
<1>10. NDIR + ptrs <= p /\ q \div ptrs = i /\ q % ptrs = y
  BY <1>8, <1>9 DEF Numbered, Divided
<1>11. PICK block : block = list[p + 1]
  OBVIOUS
<1>12. Inside(s, t, block) /\ InDouble(disk, base, s, t, in, p, block)
  BY <1>7, <1>10, <1>11 DEF Doubled
<1>13. PICK sibp : sibp = PtrAt(disk, base, s, in.d_indirect, i)
  OBVIOUS
<1>14. Inside(s, t, in.d_indirect) /\ Inside(s, t, sibp) /\ PtrAt(disk, base, s, sibp, y) = block
  BY <1>9, <1>10, <1>12, <1>13 DEF InDouble, PtrsOf
<1>15. sibp \in Nat
  BY <1>13, DecodedTypes DEF PtrAt
<1>16. in.d_indirect \in Nat
  BY DEF Inode
<1>17. Pointers(v, in.d_indirect)[i] = sibp
  BY <1>13, <1>14, <1>16, PointersExact, SMTT(30) DEF PtrsOf
<1>18. Pointers(v, sibp)[y] = block
  <2>1. y \in 0 .. (ptrs - 1)
    BY <1>5
  <2> QED
    BY <1>14, <1>15, <2>1, PointersExact, SMTT(30) DEF PtrsOf
<1> QED
  BY <1>3, <1>4, <1>7, <1>11, <1>12, <1>17, <1>18

\* The piece of a copy through a double indirect block that DoublePart names
\* begins with pointer fb of its indirect block and lies in the file.
PieceAt(blk, ptrs, first, i, x, n, j, k, len, fb) ==
    /\ x = fb * blk /\ Reaches(fb, n, ptrs, blk)
    /\ Reaches(Behind(ptrs, i) + fb, n, len, blk)
    /\ (Behind(ptrs, i) + fb) * blk + j - 1 = (NDIR + ptrs + first) * blk + k - 1

Multiple(x, blk) == \E fb \in Nat : x = fb * blk

LEMMA PieceBegins ==
    ASSUME NEW blk \in Nat \ {0}, NEW c \in Nat, NEW first \in Nat, NEW x \in Nat,
           x = 0 \/ c * blk + x = first * blk
    PROVE  Multiple(x, blk)
<1>1. CASE x = 0
  <2>1. x = 0 * blk
    BY <1>1
  <2> QED
    BY <2>1 DEF Multiple
<1>2. CASE c * blk + x = first * blk
  <2>1. c <= first
    <3>1. SUFFICES ASSUME first < c PROVE FALSE
      OBVIOUS
    <3>2. (first + 1) * blk <= c * blk
      BY <3>1, TimesMonotone
    <3>3. (first + 1) * blk = first * blk + blk
      OBVIOUS
    <3>4. PICK y \in Nat, z \in Nat : y = first * blk /\ z = c * blk
      OBVIOUS
    <3>5. y + blk <= z /\ z + x = y
      BY <1>2, <3>2, <3>3, <3>4
    <3> QED
      BY <3>5
  <2>2. PICK d \in Nat : first = c + d
    BY <2>1
  <2>3. first * blk = c * blk + d * blk
    BY <2>2
  <2>4. PICK y \in Nat, z \in Nat : y = c * blk /\ z = d * blk
    OBVIOUS
  <2>5. y + x = y + z
    BY <1>2, <2>3, <2>4
  <2>6. x = z
    BY <2>5
  <2> QED
    BY <2>4, <2>6 DEF Multiple
<1> QED
  BY <1>1, <1>2

LEMMA PieceFacts ==
    ASSUME NEW blk \in Nat \ {0}, NEW ptrs \in Nat, NEW bytes, bytes = ptrs * blk,
           NEW first \in Nat, NEW m \in Nat, NEW i \in Nat, NEW x \in Nat, NEW n \in Nat,
           NEW j \in Nat, NEW k \in Nat, NEW len \in Nat,
           i * bytes + x + j = first * blk + k, i * bytes + x + n <= first * blk + m,
           x = 0 \/ i * bytes + x = first * blk, x + n <= bytes,
           Reaches(NDIR + ptrs + first, m, len, blk)
    PROVE  \E fb \in Nat : PieceAt(blk, ptrs, first, i, x, n, j, k, len, fb)
<1>1. PICK a \in Nat : a = NDIR + ptrs
  BY Ext2Assumption DEF Ext2Assumption
<1>2. PICK c \in Nat : c = i * ptrs
  OBVIOUS
<1>3. i * bytes = c * blk
  BY <1>2
<1>4. PICK fb \in Nat : x = fb * blk
  <2>1. x = 0 \/ c * blk + x = first * blk
    BY <1>3
  <2>2. Multiple(x, blk)
    BY <2>1, PieceBegins
  <2> QED
    BY <2>2 DEF Multiple
<1>5. PICK p \in Nat, q \in Nat, r \in Nat, l \in Nat :
         p = a * blk /\ q = c * blk /\ r = first * blk /\ l = len * blk
  OBVIOUS
<1>6. Behind(ptrs, i) = a + c
  BY <1>1, <1>2 DEF Behind
<1>7. (a + c + fb) * blk = p + q + x
  BY <1>4, <1>5
<1>8. (a + first) * blk = p + r
  BY <1>5
<1>9. q + x + j = r + k /\ q + x + n <= r + m
  BY <1>3, <1>5
<1>10. p + r + m <= l
  BY <1>1, <1>5, <1>8 DEF Reaches
<1>11. p + q + x + n <= l /\ p + q + x + j - 1 = p + r + k - 1
  BY <1>9, <1>10
<1>12. Reaches(a + c + fb, n, len, blk)
  BY <1>5, <1>7, <1>11 DEF Reaches
<1>13. Reaches(fb, n, ptrs, blk)
  BY <1>4 DEF Reaches
<1>14. (a + c + fb) * blk + j - 1 = (a + first) * blk + k - 1
  BY <1>7, <1>8, <1>11
<1> QED
  BY <1>1, <1>4, <1>6, <1>12, <1>13, <1>14 DEF PieceAt

DoubleRoom(first, m, ptrs, blk) == first * blk + m <= ptrs * (ptrs * blk)

\* The bytes an indirect block stands for fit an int.
LEMMA DoubleFits ==
    ASSUME NodeInv, NEW v, Good(v), NEW s, s = v.super, NEW ptrs \in Nat, ptrs = PtrsOf(s)
    PROVE  AsInt(s.blk * ptrs) = s.blk * ptrs
<1>1. ptrs = PtrsIn(s.blk) /\ s.blk \in Nat \ {0} /\ FitsInt(s.blk * PtrsIn(s.blk))
  BY GoodFacts DEF PtrsOf, PtrsIn
<1>2. PICK x \in Nat : x = s.blk * ptrs
  BY <1>1
<1> QED
  BY <1>1, <1>2, SmallInt DEF IntOrZero

LEMMA DoubleBytes ==
    ASSUME NodeInv, TreeInv, TtyInv, NEW v, Good(v), NEW base, base = Start(v.dev),
           NEW s, s = v.super, NEW t, t = Truth(v.dev), NEW in \in Inode, NEW list \in Seq(Nat),
           Doubled(disk, base, s, t, in, list), NEW ptrs \in Nat, ptrs = PtrsOf(s),
           NEW first \in Nat, NEW m \in Nat, DoubleRoom(first, m, ptrs, s.blk),
           Reaches(NDIR + ptrs + first, m, Len(list), s.blk), NEW k \in 1 .. m
    PROVE  ReadDouble(v, Pointers(v, in.d_indirect), first * s.blk, m)[k]
              = FileByte(base, s.blk, list, (NDIR + ptrs + first) * s.blk + k - 1)
<1>1. PICK blk \in Nat \ {0} : blk = s.blk
  BY GoodFacts
<1>2. PICK o \in Nat, bytes \in Nat : o = first * blk /\ bytes = ptrs * blk
  <2>1. first * blk \in Nat /\ ptrs * blk \in Nat
    OBVIOUS
  <2> QED
    BY <2>1, Zenon
<1>3. /\ blk = Blksz(v) /\ ptrs = blk \div PTR /\ o + m <= ptrs * bytes
      /\ AsInt(bytes) = bytes
  <2>1. AsInt(s.blk * ptrs) = s.blk * ptrs
    BY DoubleFits
  <2>2. bytes = s.blk * ptrs
    BY <1>1, <1>2
  <2> QED
    BY <1>1, <1>2, <2>1, <2>2 DEF Blksz, PtrsOf, DoubleRoom
<1>4. PICK dibp : dibp = Pointers(v, in.d_indirect)
  OBVIOUS
<1>5. PICK i \in 0 .. (ptrs - 1), x \in Nat, n \in Nat, j \in Nat :
         j \in 1 .. n /\ DoublePart(v, dibp, bytes, o, m, k, i, x, n, j)
  BY <1>2, <1>3, DoublePiece, ZenonT(40)
<1>6. PICK len \in Nat : len = Len(list)
  BY LenProperties
<1>7. PICK fb \in Nat : PieceAt(blk, ptrs, first, i, x, n, j, k, len, fb)
  <2>1. /\ i * bytes + x + j = first * blk + k /\ i * bytes + x + n <= first * blk + m
        /\ x = 0 \/ i * bytes + x = first * blk
        /\ x + n <= bytes
    BY <1>2, <1>5 DEF DoublePart
  <2>2. Reaches(NDIR + ptrs + first, m, len, blk)
    BY <1>1, <1>6
  <2>3. i \in Nat /\ k \in Nat
    OBVIOUS
  <2> QED
    BY <1>2, <2>1, <2>2, <2>3, PieceFacts
<1>8. PICK shift : shift = Behind(ptrs, i)
  OBVIOUS
<1>9. shift \in Nat
  BY <1>8, BehindType
<1>10. Chained(s, t, Pointers(v, dibp[i]), list, shift, fb, n)
  <2>1. Reaches(fb, n, ptrs, s.blk) /\ Reaches(shift + fb, n, Len(list), s.blk)
    BY <1>1, <1>6, <1>7, <1>8 DEF PieceAt
  <2> QED
    BY <1>4, <1>8, <1>9, <2>1, IndirectChained
<1>11. ChainByte(v, Pointers(v, dibp[i]), base, s.blk, list, shift, fb, n, j)
  BY <1>5, <1>9, <1>10, ChainBytes
<1>12. ReadDouble(v, dibp, o, m)[k] = ReadBlockChain(v, Pointers(v, dibp[i]), x, n)[j]
  BY <1>5 DEF DoublePart
<1>13. /\ x = fb * s.blk
       /\ (shift + fb) * s.blk + j - 1 = (NDIR + ptrs + first) * s.blk + k - 1
  BY <1>1, <1>7, <1>8 DEF PieceAt
<1> QED
  BY <1>1, <1>2, <1>4, <1>11, <1>12, <1>13 DEF ChainByte

(***************************************************************************)
(* The three parts of a request together are the request                   *)
(***************************************************************************)
Shared(o, n, room, m, rest) ==
    /\ m \in Nat /\ m <= n /\ rest \in Nat
    /\ m # 0 => o + m <= room
    /\ m < n => room + rest = o + m

LEMMA SharedFacts ==
    ASSUME NEW o \in Nat, NEW n \in Nat, NEW room \in Nat
    PROVE  Shared(o, n, room, ShareOf(o, n, room), RestOf(o, room))
BY DEF Shared, ShareOf, RestOf

\* Behind whole blocks a block begins.
LEMMA RestBlocks ==
    ASSUME NEW blk \in Nat \ {0}, NEW first \in Nat, NEW room \in Nat
    PROVE  Multiple(RestOf(first * blk, room * blk), blk)
<1>1. PICK o \in Nat, r \in Nat : o = first * blk /\ r = room * blk
  OBVIOUS
<1>2. CASE o < r
  <2>1. RestOf(o, r) = 0 /\ 0 = 0 * blk
    BY <1>2 DEF RestOf
  <2> QED
    BY <1>1, <2>1 DEF Multiple
<1>3. CASE r <= o
  <2>1. RestOf(o, r) = o - r /\ o - r \in Nat
    BY <1>3 DEF RestOf
  <2>2. PICK x \in Nat : x = o - r /\ r + x = o
    BY <2>1
  <2>3. room * blk + x = first * blk
    BY <1>1, <2>2
  <2>4. Multiple(x, blk)
    BY <2>3, PieceBegins
  <2> QED
    BY <1>1, <2>1, <2>2, <2>4
<1> QED
  BY <1>2, <1>3

\* Of n bytes from o on the first m are in reach, which ends at end.
Ends(o, n, m, end) ==
    /\ m \in Nat /\ m <= n
    /\ m # 0 => o + m <= end
    /\ m < n => end <= o + m

\* What the parts are: n1 bytes from direct block first, n2 from block first2
\* of the single indirect ones, n3 from block first3 of the double indirect ones.
Parts(blk, ptrs, len, first, n, end, n1, first2, n2, first3, n3) ==
    /\ n1 \in Nat /\ n2 \in Nat /\ n3 \in Nat /\ Ends(first * blk, n, n1 + n2 + n3, end)
    /\ n1 # 0 => Reaches(first, n1, NDIR, blk) /\ Reaches(first, n1, len, blk)
    /\ n2 # 0 => /\ Reaches(first2, n2, ptrs, blk) /\ Reaches(NDIR + first2, n2, len, blk)
                 /\ (NDIR + first2) * blk = first * blk + n1
    /\ n3 # 0 => /\ DoubleRoom(first3, n3, ptrs, blk)
                 /\ Reaches(NDIR + ptrs + first3, n3, len, blk)
                 /\ (NDIR + ptrs + first3) * blk = first * blk + n1 + n2

Split(blk, ptrs, len, first, n, end, n1, o2, n2, o3, n3) ==
    \E first2 \in Nat, first3 \in Nat :
       /\ o2 = first2 * blk /\ o3 = first3 * blk
       /\ Parts(blk, ptrs, len, first, n, end, n1, first2, n2, first3, n3)

\* The bytes before block first, and behind each kind of pointer that the driver
\* follows.
Measured(blk, ptrs, first, o, r1, r2, r3) ==
    /\ o = first * blk /\ r1 = NDIR * blk /\ r2 = ptrs * blk
    /\ r3 = ptrs * (ptrs * blk) \/ r3 = 0

LEMMA PartsFacts ==
    ASSUME NEW blk \in Nat \ {0}, NEW ptrs \in Nat, NEW len \in Nat,
           NEW first \in Nat, NEW n \in Nat, Reaches(first, n, len, blk),
           NEW o, NEW r1, NEW r2, NEW r3, Measured(blk, ptrs, first, o, r1, r2, r3),
           NEW end, end = r1 + r2 + r3,
           NEW n1, Shared(o, n, r1, n1, RestOf(o, r1)),
           NEW o2, o2 = RestOf(o, r1), NEW n2, Shared(o2, n - n1, r2, n2, RestOf(o2, r2)),
           NEW o3, o3 = RestOf(o2, r2), NEW n3, NEW o4, Shared(o3, n - n1 - n2, r3, n3, o4)
    PROVE  Split(blk, ptrs, len, first, n, end, n1, o2, n2, o3, n3)
<1>0. /\ o = first * blk /\ r1 = NDIR * blk /\ r2 = ptrs * blk
      /\ r3 = ptrs * (ptrs * blk) \/ r3 = 0
  BY DEF Measured
<1>1. PICK nd \in Nat : nd = NDIR
  BY Ext2Assumption DEF Ext2Assumption
<1>2. PICK l \in Nat, room \in Nat : l = len * blk /\ room = ptrs * (ptrs * blk)
  <2>1. len * blk \in Nat /\ ptrs * blk \in Nat
    OBVIOUS
  <2>2. ptrs * (ptrs * blk) \in Nat
    BY <2>1
  <2> QED
    BY <2>1, <2>2
<1>3. o \in Nat /\ r1 \in Nat /\ r2 \in Nat /\ r3 \in Nat /\ (r3 = room \/ r3 = 0)
  BY <1>0, <1>1, <1>2
<1>4. PICK first2 \in Nat : o2 = first2 * blk
  <2>1. Multiple(RestOf(first * blk, nd * blk), blk)
    BY RestBlocks
  <2> QED
    BY <1>0, <1>1, <2>1 DEF Multiple
<1>5. PICK first3 \in Nat : o3 = first3 * blk
  <2>1. Multiple(RestOf(first2 * blk, ptrs * blk), blk)
    BY RestBlocks
  <2> QED
    BY <1>0, <1>4, <2>1 DEF Multiple
<1>6. o + n <= l
  BY <1>0, <1>2 DEF Reaches
<1>7. /\ n1 \in Nat /\ n1 <= n /\ o2 \in Nat
      /\ n1 # 0 => o + n1 <= r1
      /\ n1 < n => r1 + o2 = o + n1
  BY DEF Shared
<1>8. /\ n2 \in Nat /\ n2 <= n - n1 /\ o3 \in Nat
      /\ n2 # 0 => o2 + n2 <= r2
      /\ n2 < n - n1 => r2 + o3 = o2 + n2
  BY DEF Shared
<1>9. /\ n3 \in Nat /\ n3 <= n - n1 - n2 /\ o4 \in Nat
      /\ n3 # 0 => o3 + n3 <= r3
      /\ n3 < n - n1 - n2 => r3 + o4 = o3 + n3
  BY DEF Shared
<1>10. n2 # 0 => r1 + o2 = o + n1 /\ o2 + n2 <= r2 /\ r1 + o2 + n2 <= l
  BY <1>3, <1>6, <1>7, <1>8
<1>11. n3 # 0 => /\ r1 + r2 + o3 = o + n1 + n2 /\ o3 + n3 <= r3 /\ r3 = room
                 /\ r1 + r2 + o3 + n3 <= l
  <2>1. n3 # 0 => n2 < n - n1 /\ n1 < n
    BY <1>7, <1>8, <1>9
  <2> QED
    BY <1>2, <1>3, <1>6, <1>7, <1>8, <1>9, <2>1
<1>12. Ends(o, n, n1 + n2 + n3, end)
  <2>1. PICK m \in Nat : m = n1 + n2 + n3 /\ m <= n
    BY <1>7, <1>8, <1>9
  <2>2. m # 0 => o + m <= end
    <3>1. CASE n3 # 0
      BY <1>3, <1>7, <1>8, <1>9, <1>11, <2>1, <3>1
    <3>2. CASE n3 = 0 /\ n2 # 0
      BY <1>3, <1>7, <1>8, <1>9, <1>10, <2>1, <3>2
    <3>3. CASE n3 = 0 /\ n2 = 0
      BY <1>3, <1>7, <1>8, <1>9, <2>1, <3>3
    <3> QED
      BY <3>1, <3>2, <3>3
  <2>3. m < n => end <= o + m
    <3>1. m < n => n1 < n /\ n2 < n - n1 /\ n3 < n - n1 - n2
      BY <1>7, <1>8, <1>9, <2>1
    <3> QED
      BY <1>3, <1>7, <1>8, <1>9, <2>1, <3>1
  <2> QED
    BY <2>1, <2>2, <2>3 DEF Ends
<1>13. (nd + first2) * blk = r1 + o2 /\ (nd + ptrs + first3) * blk = r1 + r2 + o3
  <2>1. (nd + first2) * blk = nd * blk + first2 * blk
    OBVIOUS
  <2>2. (nd + ptrs + first3) * blk = nd * blk + ptrs * blk + first3 * blk
    OBVIOUS
  <2> QED
    BY <1>0, <1>1, <1>4, <1>5, <2>1, <2>2
<1>14. n1 # 0 => Reaches(first, n1, nd, blk) /\ Reaches(first, n1, len, blk)
  <2>1. o + n1 <= l
    BY <1>2, <1>3, <1>6, <1>7
  <2> QED
    BY <1>0, <1>1, <1>2, <1>7, <2>1 DEF Reaches
<1>15. n2 # 0 => /\ Reaches(first2, n2, ptrs, blk) /\ Reaches(nd + first2, n2, len, blk)
                 /\ (nd + first2) * blk = first * blk + n1
  BY <1>0, <1>2, <1>4, <1>10, <1>13 DEF Reaches
<1>16. n3 # 0 => /\ DoubleRoom(first3, n3, ptrs, blk)
                 /\ Reaches(nd + ptrs + first3, n3, len, blk)
                 /\ (nd + ptrs + first3) * blk = first * blk + n1 + n2
  BY <1>0, <1>2, <1>5, <1>11, <1>13 DEF Reaches, DoubleRoom
<1>17. Parts(blk, ptrs, len, first, n, end, n1, first2, n2, first3, n3)
  <2>1. Ends(first * blk, n, n1 + n2 + n3, end)
    BY <1>0, <1>12
  <2> QED
    BY <1>1, <1>7, <1>8, <1>9, <1>14, <1>15, <1>16, <2>1 DEF Parts
<1> QED
  BY <1>4, <1>5, <1>17 DEF Split

\* Every block of a file is where the inode says.
FileBlocks(d, base, s, t, in, list) ==
    \A p \in 0 .. (Len(list) - 1) :
       /\ Inside(s, t, list[p + 1])
       /\ \/ InDirect(in, p, list[p + 1])
          \/ InSingle(d, base, s, t, in, p, list[p + 1])
          \/ InDouble(d, base, s, t, in, p, list[p + 1])

\* Each of the three ways is taken for its own blocks.
LEMMA WaysApart ==
    ASSUME NEW d, NEW base, NEW s, NEW t, NEW in, NEW block, NEW p \in Nat,
           NEW ptrs \in Nat, ptrs = PtrsOf(s)
    PROVE  /\ p < NDIR => ~InSingle(d, base, s, t, in, p, block)
           /\ p < NDIR + ptrs => ~InDouble(d, base, s, t, in, p, block)
           /\ NDIR <= p => ~InDirect(in, p, block)
           /\ NDIR + ptrs <= p => ~InSingle(d, base, s, t, in, p, block)
<1>1. PICK nd \in Nat : nd = NDIR
  BY Ext2Assumption DEF Ext2Assumption
<1>2. NDIR <= p => ~InDirect(in, p, block)
  BY <1>1 DEF InDirect
<1>3. InSingle(d, base, s, t, in, p, block) => p \in nd .. (nd + ptrs - 1)
  BY <1>1 DEF InSingle, PtrsOf
<1>4. PICK sq \in Nat : sq = ptrs * ptrs
  OBVIOUS
<1>5. InDouble(d, base, s, t, in, p, block) => p - nd - ptrs \in 0 .. (sq - 1)
  BY <1>1, <1>4 DEF InDouble, PtrsOf
<1> QED
  BY <1>1, <1>2, <1>3, <1>4, <1>5

LEMMA FileDoubled ==
    ASSUME NEW base, NEW s, NEW t, NEW in, NEW list \in Seq(Nat),
           FileBlocks(disk, base, s, t, in, list), NEW ptrs \in Nat, ptrs = PtrsOf(s)
    PROVE  Doubled(disk, base, s, t, in, list)
<1>1. PICK nd \in Nat : nd = NDIR
  BY Ext2Assumption DEF Ext2Assumption
<1>2. PICK len \in Nat : len = Len(list)
  BY LenProperties
<1>3. ASSUME NEW p \in Nat, NDIR + ptrs <= p, p < Len(list)
      PROVE  Inside(s, t, list[p + 1]) /\ InDouble(disk, base, s, t, in, p, list[p + 1])
  <2>1. p \in 0 .. (Len(list) - 1) /\ NDIR <= p
    BY <1>1, <1>2, <1>3
  <2>2. /\ ~InDirect(in, p, list[p + 1])
        /\ ~InSingle(disk, base, s, t, in, p, list[p + 1])
    BY <1>3, <2>1, WaysApart
  <2> QED
    BY <2>1, <2>2 DEF FileBlocks
<1> QED
  BY <1>3 DEF Doubled

LEMMA DirectChained ==
    ASSUME NEW base, NEW s, s.blk \in Nat \ {0}, NEW t, NEW in, NEW list \in Seq(Nat),
           FileBlocks(disk, base, s, t, in, list), NEW ptrs \in Nat, ptrs = PtrsOf(s),
           NEW first \in Nat, NEW n \in Nat,
           Reaches(first, n, NDIR, s.blk), Reaches(first, n, Len(list), s.blk)
    PROVE  Chained(s, t, in.direct, list, 0, first, n)
<1>1. PICK nd \in Nat, len \in Nat : nd = NDIR /\ len = Len(list)
  BY LenProperties, Ext2Assumption DEF Ext2Assumption
<1>2. ASSUME NEW c \in Nat, c * s.blk < n
      PROVE  /\ 0 + first + c < Len(list)
             /\ Inside(s, t, list[0 + first + c + 1])
             /\ in.direct[first + c] = list[0 + first + c + 1]
  <2>1. PICK p \in Nat : p = first + c
    OBVIOUS
  <2>2. first + c < nd /\ first + c < len
    BY <1>1, <1>2, BlockBefore
  <2>3. p < NDIR /\ p \in 0 .. (Len(list) - 1)
    BY <1>1, <2>1, <2>2
  <2>4. p < NDIR + ptrs
    BY <1>1, <2>3
  <2>5. Inside(s, t, list[p + 1]) /\ InDirect(in, p, list[p + 1])
    BY <2>3, <2>4, WaysApart DEF FileBlocks
  <2>6. 0 + first + c = p
    BY <2>1
  <2> QED
    BY <1>1, <2>1, <2>2, <2>5, <2>6 DEF InDirect
<1> QED
  BY <1>2 DEF Chained

LEMMA SingleChained ==
    ASSUME NodeInv, TreeInv, TtyInv, NEW v, Good(v), NEW base, base = Start(v.dev),
           NEW s, s = v.super, NEW t, t = Truth(v.dev), NEW in \in Inode, NEW list \in Seq(Nat),
           FileBlocks(disk, base, s, t, in, list), NEW ptrs \in Nat, ptrs = PtrsOf(s),
           NEW first \in Nat, NEW n \in Nat,
           Reaches(first, n, ptrs, s.blk), Reaches(NDIR + first, n, Len(list), s.blk)
    PROVE  Chained(s, t, Pointers(v, in.s_indirect), list, NDIR, first, n)
<1>1. PICK nd \in Nat, len \in Nat : nd = NDIR /\ len = Len(list)
  BY LenProperties, Ext2Assumption DEF Ext2Assumption
<1>2. s.blk \in Nat \ {0}
  BY GoodFacts
<1>3. ASSUME NEW c \in Nat, c * s.blk < n
      PROVE  /\ NDIR + first + c < Len(list)
             /\ Inside(s, t, list[NDIR + first + c + 1])
             /\ Pointers(v, in.s_indirect)[first + c] = list[NDIR + first + c + 1]
  <2>1. PICK y \in Nat : y = first + c
    OBVIOUS
  <2>2. y < ptrs
    BY <1>2, <1>3, <2>1, BlockBefore
  <2>3. (nd + first) + c < len
    <3>1. nd + first \in Nat /\ Reaches(nd + first, n, len, s.blk)
      BY <1>1
    <3> QED
      BY <1>2, <1>3, <3>1, BlockBefore
  <2>4. PICK p \in Nat : p = nd + y
    OBVIOUS
  <2>5. NDIR <= p /\ p < NDIR + ptrs /\ p - NDIR = y
    BY <1>1, <2>2, <2>4
  <2>6. p \in 0 .. (Len(list) - 1) /\ p = NDIR + first + c
    BY <1>1, <2>1, <2>3, <2>4
  <2>7. PICK block : block = list[p + 1]
    OBVIOUS
  <2>8. Inside(s, t, block) /\ InSingle(disk, base, s, t, in, p, block)
    BY <2>5, <2>6, <2>7, WaysApart DEF FileBlocks
  <2>9. Inside(s, t, in.s_indirect) /\ PtrAt(disk, base, s, in.s_indirect, y) = block
    BY <2>5, <2>8 DEF InSingle
  <2>10. in.s_indirect \in Nat /\ y \in 0 .. (ptrs - 1)
    BY <2>2 DEF Inode
  <2>11. Pointers(v, in.s_indirect)[y] = block
    BY <2>9, <2>10, PointersExact DEF PtrsOf
  <2> QED
    BY <1>1, <2>1, <2>3, <2>6, <2>7, <2>8, <2>11
<1> QED
  BY <1>3 DEF Chained

\* The n bytes of the file from byte a on.
Spelled(f, base, blk, list, a, n) ==
    /\ f \in [1 .. n -> Int]
    /\ \A k \in 1 .. n : f[k] = FileByte(base, blk, list, a + k - 1)

LEMMA SpelledConcat ==
    ASSUME NEW base, NEW blk, NEW list, NEW a \in Nat, NEW f, NEW g, NEW m \in Nat, NEW n \in Nat,
           NEW c, c = a + m,
           Spelled(f, base, blk, list, a, m), Spelled(g, base, blk, list, c, n)
    PROVE  Spelled(f \o g, base, blk, list, a, m + n)
<1>1. f \in Seq(Int) /\ Len(f) = m /\ g \in Seq(Int) /\ Len(g) = n
  <2>1. \A l \in Nat : \A h \in [1 .. l -> Int] : h \in Seq(Int) /\ Len(h) = l
    BY SeqDef, LenProperties
  <2> QED
    BY <2>1 DEF Spelled
<1>2. /\ f \o g \in Seq(Int) /\ Len(f \o g) = m + n
      /\ \A k \in 1 .. (m + n) : (f \o g)[k] = IF k <= m THEN f[k] ELSE g[k - m]
  BY <1>1, ConcatProperties
<1>3. PICK h : h = f \o g
  OBVIOUS
<1>4. h \in [1 .. (m + n) -> Int]
  BY <1>2, <1>3, LenProperties, ElementOfSeq
<1>5. ASSUME NEW k \in 1 .. (m + n) PROVE h[k] = FileByte(base, blk, list, a + k - 1)
  <2>1. CASE k <= m
    <3>1. k \in 1 .. m /\ h[k] = f[k]
      BY <1>2, <1>3, <2>1
    <3> QED
      BY <3>1 DEF Spelled
  <2>2. CASE ~(k <= m)
    <3>1. PICK j \in 1 .. n : j = k - m
      BY <2>2
    <3>2. h[k] = g[j]
      BY <1>2, <1>3, <2>2, <3>1
    <3>3. g[j] = FileByte(base, blk, list, c + j - 1)
      BY DEF Spelled
    <3>4. c + j - 1 = a + k - 1
      BY <3>1
    <3> QED
      BY <3>2, <3>3, <3>4
  <2> QED
    BY <2>1, <2>2
<1> QED
  BY <1>3, <1>4, <1>5 DEF Spelled

LEMMA ChainSpelled ==
    ASSUME NodeInv, TreeInv, TtyInv, NEW v, Good(v), NEW base, base = Start(v.dev),
           NEW s, s = v.super, NEW t, t = Truth(v.dev), NEW chain, NEW list \in Seq(Nat),
           NEW room \in Nat, \A i \in 0 .. (room - 1) : chain[i] \in Nat,
           NEW shift \in Nat, NEW first \in Nat, NEW n \in Nat, Reaches(first, n, room, s.blk),
           Chained(s, t, chain, list, shift, first, n),
           NEW o, o = first * s.blk, NEW a, a = (shift + first) * s.blk
    PROVE  Spelled(ReadBlockChain(v, chain, o, n), base, s.blk, list, a, n)
<1>1. PICK f : f = ReadBlockChain(v, chain, o, n)
  OBVIOUS
<1>2. Vnode(v) /\ s.blk \in Nat \ {0} /\ s.blk = Blksz(v)
  BY GoodFacts DEF Good, Origin, Blksz
<1>3. o \in Nat /\ o + n <= room * Blksz(v)
  BY <1>2 DEF Reaches
<1>4. Filled(v.dev, f, n)
  BY <1>1, <1>2, <1>3, ChainFilled
<1>5. ASSUME NEW k \in 1 .. n PROVE f[k] = FileByte(base, s.blk, list, a + k - 1)
  <2>1. ChainByte(v, chain, base, s.blk, list, shift, first, n, k)
    BY ChainBytes
  <2> QED
    BY <1>1, <2>1 DEF ChainByte
<1> QED
  BY <1>1, <1>4, <1>5 DEF Spelled, Filled

LEMMA DoubleSpelled ==
    ASSUME NodeInv, TreeInv, TtyInv, NEW v, Good(v), NEW base, base = Start(v.dev),
           NEW s, s = v.super, NEW t, t = Truth(v.dev), NEW in \in Inode, NEW list \in Seq(Nat),
           Doubled(disk, base, s, t, in, list), NEW ptrs \in Nat, ptrs = PtrsOf(s),
           NEW first \in Nat, NEW n \in Nat, DoubleRoom(first, n, ptrs, s.blk),
           Reaches(NDIR + ptrs + first, n, Len(list), s.blk),
           NEW o, o = first * s.blk, NEW a, a = (NDIR + ptrs + first) * s.blk
    PROVE  Spelled(ReadDouble(v, Pointers(v, in.d_indirect), o, n), base, s.blk, list, a, n)
<1>1. PICK f : f = ReadDouble(v, Pointers(v, in.d_indirect), o, n)
  OBVIOUS
<1>2. Vnode(v) /\ s.blk \in Nat \ {0} /\ s.blk = Blksz(v)
  BY GoodFacts DEF Good, Origin, Blksz
<1>3. o \in Nat /\ o + n <= (Blksz(v) * ptrs) * ptrs
  <2>1. PICK blk \in Nat \ {0} : blk = s.blk
    BY <1>2
  <2>2. o = first * blk /\ o + n <= ptrs * (ptrs * blk)
    BY <2>1 DEF DoubleRoom
  <2>3. ptrs * (ptrs * blk) = (blk * ptrs) * ptrs
    OBVIOUS
  <2> QED
    BY <1>2, <2>1, <2>2, <2>3
<1>4. Filled(v.dev, f, n)
  <2>1. AsInt(Blksz(v) * ptrs) = Blksz(v) * ptrs
    BY <1>2, DoubleFits
  <2> QED
    BY <1>1, <1>2, <1>3, <2>1, DoubleFilled DEF PtrsOf
<1>5. ASSUME NEW k \in 1 .. n PROVE f[k] = FileByte(base, s.blk, list, a + k - 1)
  BY <1>1, DoubleBytes
<1> QED
  BY <1>1, <1>4, <1>5 DEF Spelled, Filled

\* What is in reach of the driver.
LEMMA ReachSum ==
    ASSUME NodeInv, NEW v, Good(v), NEW s, s = v.super, NEW ptrs \in Nat, ptrs = PtrsOf(s),
           NEW r1, r1 = AsInt(NDIR * s.blk), NEW r2, r2 = AsInt(s.blk * ptrs),
           NEW r3, r3 = AsInt(r2 * ptrs)
    PROVE  /\ r1 \in Nat /\ r1 = NDIR * s.blk /\ r2 \in Nat /\ r2 = ptrs * s.blk
           /\ r3 \in Nat /\ (r3 = ptrs * (ptrs * s.blk) \/ r3 = 0)
           /\ Reach(s.blk) = r1 + r2 + r3
<1>1. PICK blk \in Nat \ {0}, nd \in Nat : blk = s.blk /\ nd = NDIR
  BY GoodFacts, Ext2Assumption DEF Ext2Assumption
<1>2. IntSizes(blk) /\ FitsInt(blk * ptrs) /\ ptrs = PtrsIn(blk)
  BY <1>1, GoodFacts DEF PtrsOf, PtrsIn
<1>3. /\ r1 \in Nat /\ r1 = nd * blk /\ r2 \in Nat /\ r2 = ptrs * blk /\ r3 \in Nat
      /\ r3 = IF FitsInt(blk * ptrs * ptrs) THEN r2 * ptrs ELSE 0
  BY <1>1, <1>2, BytesBehind
<1>4. PICK sq \in Nat : sq = IF FitsInt(blk * ptrs * ptrs) THEN ptrs * ptrs ELSE 0
  <2>1. ptrs * ptrs \in Nat
    OBVIOUS
  <2> QED
    BY <2>1
<1>5. Reach(blk) = blk * (nd + ptrs + sq)
  BY <1>1, <1>2, <1>4 DEF Reach
<1>6. blk * (nd + ptrs + sq) = nd * blk + ptrs * blk + sq * blk
  OBVIOUS
<1>7. r3 = sq * blk /\ (r3 = ptrs * (ptrs * blk) \/ r3 = 0)
  <2>1. CASE FitsInt(blk * ptrs * ptrs)
    <3>1. sq = ptrs * ptrs /\ r3 = (ptrs * blk) * ptrs
      BY <1>3, <1>4, <2>1
    <3>2. (ptrs * blk) * ptrs = (ptrs * ptrs) * blk /\ (ptrs * blk) * ptrs = ptrs * (ptrs * blk)
      OBVIOUS
    <3> QED
      BY <3>1, <3>2
  <2>2. CASE ~FitsInt(blk * ptrs * ptrs)
    <3>1. sq = 0 /\ r3 = 0
      BY <1>3, <1>4, <2>2
    <3>2. 0 * blk = 0
      OBVIOUS
    <3> QED
      BY <3>1, <3>2
  <2> QED
    BY <2>1, <2>2
<1>8. Reach(blk) = r1 + r2 + r3
  BY <1>3, <1>5, <1>6, <1>7
<1> QED
  BY <1>1, <1>3, <1>7, <1>8

\* The copy is made of such parts.
Parted(v, in, blk, ptrs, len, first, n) ==
    \E n1 \in Nat, n2 \in Nat, n3 \in Nat, first2 \in Nat, first3 \in Nat :
       /\ Parts(blk, ptrs, len, first, n, Reach(blk), n1, first2, n2, first3, n3)
       /\ ReadInodeDataEx(v, in, first * blk, n)
            = DataOf(v, in, n, n1, n2, n3, first * blk, first2 * blk, first3 * blk)

LEMMA PartsOf ==
    ASSUME NodeInv, NEW v, Good(v), NEW s, s = v.super, NEW ptrs \in Nat, ptrs = PtrsOf(s),
           NEW in, NEW len \in Nat,
           NEW first \in Nat, NEW n \in Nat, Reaches(first, n, len, s.blk)
    PROVE  Parted(v, in, s.blk, ptrs, len, first, n)
<1>1. PICK blk \in Nat \ {0} : blk = s.blk
  BY GoodFacts
<1>2. blk = Blksz(v) /\ ptrs = Blksz(v) \div PTR
  BY <1>1 DEF Blksz, PtrsOf
<1>3. PICK o, r1, r2, r3 : /\ o = first * blk /\ r1 = AsInt(NDIR * blk)
                           /\ r2 = AsInt(blk * ptrs) /\ r3 = AsInt(r2 * ptrs)
  OBVIOUS
<1>4. /\ o \in Nat /\ r1 \in Nat /\ r2 \in Nat /\ r3 \in Nat
      /\ r1 = NDIR * blk /\ r2 = ptrs * blk /\ (r3 = ptrs * (ptrs * blk) \/ r3 = 0)
      /\ Reach(blk) = r1 + r2 + r3
  <2>1. o \in Nat
    BY <1>3
  <2> QED
    BY <1>1, <1>3, <2>1, ReachSum
<1>5. PICK n1, o2 : n1 = ShareOf(o, n, r1) /\ o2 = RestOf(o, r1)
  OBVIOUS
<1>6. Shared(o, n, r1, n1, RestOf(o, r1))
  BY <1>4, <1>5, SharedFacts
<1>7. n1 \in Nat /\ n - n1 \in Nat /\ o2 \in Nat
  BY <1>5, <1>6 DEF Shared
<1>8. PICK n2, o3 : n2 = ShareOf(o2, n - n1, r2) /\ o3 = RestOf(o2, r2)
  OBVIOUS
<1>9. Shared(o2, n - n1, r2, n2, RestOf(o2, r2))
  BY <1>4, <1>7, <1>8, SharedFacts
<1>10. n2 \in Nat /\ n - n1 - n2 \in Nat /\ o3 \in Nat
  BY <1>7, <1>8, <1>9 DEF Shared
<1>11. PICK n3, o4 : n3 = ShareOf(o3, n - n1 - n2, r3) /\ o4 = RestOf(o3, r3)
  OBVIOUS
<1>12. Shared(o3, n - n1 - n2, r3, n3, o4)
  BY <1>4, <1>10, <1>11, SharedFacts
<1>13. PICK first2 \in Nat, first3 \in Nat :
          /\ o2 = first2 * blk /\ o3 = first3 * blk
          /\ Parts(blk, ptrs, len, first, n, Reach(blk), n1, first2, n2, first3, n3)
  <2>1. Measured(blk, ptrs, first, o, r1, r2, r3)
    BY <1>3, <1>4 DEF Measured
  <2>2. Reaches(first, n, len, blk)
    BY <1>1
  <2>3. Split(blk, ptrs, len, first, n, Reach(blk), n1, o2, n2, o3, n3)
    <3>1. Reach(blk) = r1 + r2 + r3
      BY <1>4
    <3> QED
      BY <1>5, <1>6, <1>8, <1>9, <1>12, <2>1, <2>2, <3>1, PartsFacts
  <2> QED
    BY <2>3 DEF Split
<1>14. ReadInodeDataEx(v, in, o, n) = DataOf(v, in, n, n1, n2, n3, o, o2, o3)
  BY <1>2, <1>3, <1>5, <1>8, <1>11 DEF ReadInodeDataEx, DataOf, ShareOf, RestOf
<1>15. n1 \in Nat /\ n2 \in Nat /\ n3 \in Nat
  BY <1>13 DEF Parts
<1> QED
  <2>1. ReadInodeDataEx(v, in, first * blk, n)
          = DataOf(v, in, n, n1, n2, n3, first * blk, first2 * blk, first3 * blk)
    BY <1>3, <1>13, <1>14
  <2>2. Parted(v, in, blk, ptrs, len, first, n)
    BY <1>13, <1>15, <2>1 DEF Parted
  <2> QED
    BY <1>1, <2>2

\* The n bytes of the file from byte a on, as far as end; behind that the buffer
\* is as it was.
SpelledTo(f, base, blk, list, a, n, end) ==
    /\ f \in [1 .. n -> Int]
    /\ \A k \in 1 .. n :
          f[k] = IF a + k - 1 < end THEN FileByte(base, blk, list, a + k - 1) ELSE STALE

LEMMA SpelledTail ==
    ASSUME NEW base, NEW blk, NEW list, NEW a \in Nat, NEW n \in Nat, NEW end \in Nat,
           NEW m, Ends(a, n, m, end), NEW f, Spelled(f, base, blk, list, a, m),
           NEW g, g = [k \in 1 .. (n - m) |-> STALE]
    PROVE  SpelledTo(f \o g, base, blk, list, a, n, end)
<1>1. m \in Nat /\ m <= n /\ (m # 0 => a + m <= end) /\ (m < n => end <= a + m)
  BY DEF Ends
<1>0. PICK rest \in Nat : rest = n - m
  BY <1>1
<1>2. f \in Seq(Int) /\ Len(f) = m /\ g \in Seq(Int) /\ Len(g) = rest
  <2>1. \A l \in Nat : \A h \in [1 .. l -> Int] : h \in Seq(Int) /\ Len(h) = l
    BY SeqDef, LenProperties
  <2>2. g \in [1 .. rest -> Int]
    BY <1>0 DEF STALE
  <2> QED
    BY <1>1, <2>1, <2>2 DEF Spelled
<1>3. /\ f \o g \in Seq(Int) /\ Len(f \o g) = m + rest
      /\ \A k \in 1 .. (m + rest) : (f \o g)[k] = IF k <= m THEN f[k] ELSE g[k - m]
  <2>1. /\ f \o g \in Seq(Int) /\ Len(f \o g) = Len(f) + Len(g)
        /\ \A k \in 1 .. (Len(f) + Len(g)) :
              (f \o g)[k] = IF k <= Len(f) THEN f[k] ELSE g[k - Len(f)]
    <3>1. \A s, t \in Seq(Int) :
            /\ s \o t \in Seq(Int) /\ Len(s \o t) = Len(s) + Len(t)
            /\ \A k \in 1 .. (Len(s) + Len(t)) :
                  (s \o t)[k] = IF k <= Len(s) THEN s[k] ELSE t[k - Len(s)]
      BY ConcatProperties
    <3> QED
      BY <1>2, <3>1, Zenon
  <2>2. Len(f) = m /\ Len(g) = rest
    BY <1>2
  <2> QED
    BY <2>1, <2>2, Zenon
<1>4. PICK h : h = f \o g
  OBVIOUS
<1>5. m + rest = n /\ h \in [1 .. n -> Int]
  <2>1. m + rest = n
    BY <1>0, <1>1
  <2> QED
    BY <1>1, <1>3, <1>4, <2>1, LenProperties, ElementOfSeq
<1>6. ASSUME NEW k \in 1 .. n
      PROVE  h[k] = IF a + k - 1 < end THEN FileByte(base, blk, list, a + k - 1) ELSE STALE
  <2>1. CASE k <= m
    <3>1. k \in 1 .. m /\ h[k] = f[k]
      BY <1>1, <1>3, <1>4, <1>5, <2>1
    <3>2. a + k - 1 < end
      BY <1>1, <2>1
    <3> QED
      BY <3>1, <3>2 DEF Spelled
  <2>2. CASE ~(k <= m)
    <3>1. PICK j \in 1 .. rest : j = k - m
      BY <1>0, <1>1, <2>2
    <3>2. h[k] = STALE
      BY <1>0, <1>3, <1>4, <1>5, <2>2, <3>1
    <3>3. ~(a + k - 1 < end)
      BY <1>1, <2>2
    <3> QED
      BY <3>2, <3>3
  <2> QED
    BY <2>1, <2>2
<1> QED
  BY <1>4, <1>5, <1>6 DEF SpelledTo

\* A copy from the beginning of a block spells the file, as far as the driver
\* gets.
LEMMA DataSpelled ==
    ASSUME NodeInv, TreeInv, TtyInv, NEW v, Good(v), NEW base, base = Start(v.dev),
           NEW s, s = v.super, NEW t, t = Truth(v.dev), NEW in \in Inode, NEW list \in Seq(Nat),
           FileBlocks(disk, base, s, t, in, list),
           NEW first \in Nat, NEW n \in Nat, Reaches(first, n, Len(list), s.blk),
           NEW o, o = first * s.blk
    PROVE  SpelledTo(ReadInodeDataEx(v, in, o, n), base, s.blk, list, o, n, Reach(s.blk))
<1>1. PICK blk \in Nat \ {0} : blk = s.blk
  BY GoodFacts
<1>2. PICK ptrs \in Nat : ptrs = PtrsOf(s)
  BY <1>1, Division, Ext2Assumption DEF Ext2Assumption, PtrsOf
<1>3. PICK nd \in Nat, len \in Nat : nd = NDIR /\ len = Len(list)
  BY LenProperties, Ext2Assumption DEF Ext2Assumption
<1>4. Doubled(disk, base, s, t, in, list)
  BY <1>2, FileDoubled
<1>5. PICK n1 \in Nat, n2 \in Nat, n3 \in Nat, first2 \in Nat, first3 \in Nat :
         /\ Parts(s.blk, ptrs, len, first, n, Reach(s.blk), n1, first2, n2, first3, n3)
         /\ ReadInodeDataEx(v, in, first * s.blk, n)
              = DataOf(v, in, n, n1, n2, n3, first * s.blk, first2 * s.blk, first3 * s.blk)
  <2>1. Parted(v, in, s.blk, ptrs, len, first, n)
    BY <1>2, <1>3, PartsOf
  <2> QED
    BY <2>1 DEF Parted
<1>6. PICK o2, o3 : o2 = first2 * s.blk /\ o3 = first3 * s.blk
  OBVIOUS
<1> DEFINE p1 == IF n1 = 0 THEN <<>> ELSE ReadBlockChain(v, in.direct, o, n1)
           p2 == IF n2 = 0 THEN <<>> ELSE ReadBlockChain(v, Pointers(v, in.s_indirect), o2, n2)
           p3 == IF n3 = 0 THEN <<>> ELSE ReadDouble(v, Pointers(v, in.d_indirect), o3, n3)
           p4 == [k \in 1 .. (n - n1 - n2 - n3) |-> STALE]
<1>7. ReadInodeDataEx(v, in, o, n) = p1 \o p2 \o p3 \o p4
  BY <1>5, <1>6 DEF DataOf
<1>8. \A a \in Nat : Spelled(<<>>, base, s.blk, list, a, 0)
  BY DEF Spelled
<1>9. o \in Nat /\ o + n1 \in Nat /\ o + n1 + n2 \in Nat
  <2>1. o \in Nat
    BY <1>1
  <2> QED
    BY <2>1, SMTT(30)
<1>10. Spelled(p1, base, s.blk, list, o, n1)
  <2>1. CASE n1 = 0
    BY <1>8, <1>9, <2>1
  <2>2. CASE n1 # 0
    <3>1. Reaches(first, n1, NDIR, s.blk) /\ Reaches(first, n1, len, s.blk)
      BY <1>5, <2>2 DEF Parts
    <3>2. Chained(s, t, in.direct, list, 0, first, n1)
      BY <1>1, <1>2, <1>3, <3>1, DirectChained
    <3>3. \A i \in 0 .. (nd - 1) : in.direct[i] \in Nat
      BY <1>3 DEF Inode
    <3>4. 0 + first = first
      OBVIOUS
    <3>5. Spelled(ReadBlockChain(v, in.direct, o, n1), base, s.blk, list, o, n1)
      BY <1>3, <3>1, <3>2, <3>3, <3>4, ChainSpelled
    <3> QED
      BY <2>2, <3>5
  <2> QED
    BY <2>1, <2>2
<1>11. Spelled(p2, base, s.blk, list, o + n1, n2)
  <2>1. CASE n2 = 0
    BY <1>8, <1>9, <2>1
  <2>2. CASE n2 # 0
    <3>1. /\ Reaches(first2, n2, ptrs, s.blk) /\ Reaches(NDIR + first2, n2, len, s.blk)
          /\ (NDIR + first2) * s.blk = o + n1
      BY <1>5, <2>2 DEF Parts
    <3>2. Chained(s, t, Pointers(v, in.s_indirect), list, nd, first2, n2)
      BY <1>2, <1>3, <3>1, SingleChained
    <3>3. \A i \in 0 .. (ptrs - 1) : Pointers(v, in.s_indirect)[i] \in Nat
      BY <1>1, <1>2, PointersType DEF PtrsOf, Blksz
    <3>4. Spelled(ReadBlockChain(v, Pointers(v, in.s_indirect), o2, n2),
                  base, s.blk, list, o + n1, n2)
      BY <1>3, <1>6, <3>1, <3>2, <3>3, ChainSpelled
    <3> QED
      BY <2>2, <3>4
  <2> QED
    BY <2>1, <2>2
<1>12. Spelled(p3, base, s.blk, list, o + n1 + n2, n3)
  <2>1. CASE n3 = 0
    BY <1>8, <1>9, <2>1
  <2>2. CASE n3 # 0
    <3>1. /\ DoubleRoom(first3, n3, ptrs, s.blk)
          /\ Reaches(NDIR + ptrs + first3, n3, len, s.blk)
          /\ (NDIR + ptrs + first3) * s.blk = o + n1 + n2
      BY <1>5, <2>2 DEF Parts
    <3>2. Spelled(ReadDouble(v, Pointers(v, in.d_indirect), o3, n3),
                  base, s.blk, list, o + n1 + n2, n3)
      BY <1>2, <1>3, <1>4, <1>6, <3>1, DoubleSpelled
    <3> QED
      BY <2>2, <3>2
  <2> QED
    BY <2>1, <2>2
<1> HIDE DEF p1, p2, p3, p4
<1>13. Spelled(p1 \o p2, base, s.blk, list, o, n1 + n2)
  BY <1>9, <1>10, <1>11, SpelledConcat
<1>14. Spelled(p1 \o p2 \o p3, base, s.blk, list, o, n1 + n2 + n3)
  <2>1. \A a \in Nat, b \in Nat, c \in Nat : a + (b + c) = a + b + c /\ b + c \in Nat
    OBVIOUS
  <2>2. o + (n1 + n2) = o + n1 + n2 /\ n1 + n2 \in Nat
    BY <1>9, <2>1, SMTT(30)
  <2> QED
    BY <1>9, <1>12, <1>13, <2>2, SpelledConcat
<1>15. Ends(o, n, n1 + n2 + n3, Reach(s.blk)) /\ Reach(s.blk) \in Nat
  <2>1. Ends(o, n, n1 + n2 + n3, Reach(s.blk))
    BY <1>5 DEF Parts
  <2>2. PICK r1, r2, r3 : /\ r1 = AsInt(NDIR * s.blk) /\ r2 = AsInt(s.blk * ptrs)
                          /\ r3 = AsInt(r2 * ptrs)
    OBVIOUS
  <2>3. r1 \in Nat /\ r2 \in Nat /\ r3 \in Nat /\ Reach(s.blk) = r1 + r2 + r3
    BY <1>2, <2>2, ReachSum, SMTT(30)
  <2> QED
    BY <2>1, <2>3
<1>16. p4 = [k \in 1 .. (n - (n1 + n2 + n3)) |-> STALE]
  <2>1. n - n1 - n2 - n3 = n - (n1 + n2 + n3)
    OBVIOUS
  <2> QED
    BY <2>1 DEF p4
<1>17. SpelledTo(p1 \o p2 \o p3 \o p4, base, s.blk, list, o, n, Reach(s.blk))
  BY <1>9, <1>14, <1>15, <1>16, SpelledTail
<1> QED
  BY <1>7, <1>17

(***************************************************************************)
(* The inode of a file                                                     *)
(***************************************************************************)
LEMMA InodeExact ==
    ASSUME NodeInv, TreeInv, TtyInv, NEW v, Good(v), NEW base, base = Start(v.dev),
           NEW s, s = v.super, NEW t, t = Truth(v.dev), v.inode \in DOMAIN t.blocks
    PROVE  ReadInode(v) = InodeAt(disk, base, s, v.inode)
<1>1. PICK ino : ino = v.inode
  OBVIOUS
<1>2. Ext2File(disk, base, s, t, ino)
  BY <1>1, GoodFile
<1>3. /\ ino \in Nat \ {0} /\ GroupAt(s, ino) < t.length /\ PlaceAt(disk, base, s, ino) < t.length
  BY <1>2 DEF Ext2File
<1>4. /\ base \in Nat /\ t.length \in Nat /\ t.length <= W /\ W \in Nat \ {0}
      /\ s.blk \in Nat \ {0} /\ DESC \in Nat \ {0} /\ s.inode_size \in Nat \ {0}
      /\ DESC <= (MAXSEC - 1) * SECTOR /\ s.inode_size <= (MAXSEC - 1) * SECTOR
  <2>1. (MAXSEC - 1) * SECTOR \in Int
    BY DeviceAssumption DEF DeviceAssumption
  <2>2. PICK most \in Int : most = (MAXSEC - 1) * SECTOR
    BY <2>1
  <2>3. /\ DESC \in Nat \ {0} /\ DESC <= s.blk /\ s.blk <= most /\ s.blk \in Nat \ {0}
        /\ s.inode_size \in 1 .. s.blk
    BY <2>2, GoodFacts, Ext2Assumption DEF Ext2Assumption
  <2>4. DESC <= most /\ s.inode_size <= most /\ s.inode_size \in Nat \ {0}
    BY <2>3
  <2> QED
    BY <2>2, <2>3, <2>4, GoodFacts, DeviceAssumption DEF DeviceAssumption
<1>5. s.sblock_num \in Nat /\ s.ind_in_grp \in Nat \ {0}
  BY GoodFacts DEF Super
<1>6. PICK bg, id : bg = (ino - 1) \div s.ind_in_grp /\ id = (ino - 1) % s.ind_in_grp
  OBVIOUS
<1>7. bg \in Nat /\ id \in Nat
  <2>1. ino - 1 \in Nat
    BY <1>3
  <2> QED
    BY <1>5, <1>6, <2>1, Division
<1>8. PICK g \in Nat, d \in Nat : g = (s.sblock_num + 1) * s.blk /\ d = bg * DESC
  BY <1>4, <1>5, <1>7
<1>9. GroupAt(s, ino) = g + d
  BY <1>6, <1>8 DEF GroupAt
<1>10. BlockAddr(v, s.sblock_num + 1) = g
  <2>1. g < W
    BY <1>3, <1>4, <1>9
  <2>2. g % W = g
    BY <1>4, <2>1, Division
  <2> QED
    BY <1>8, <2>2 DEF BlockAddr, Blksz
<1>11. Found(v, g + d, DESC) = base + GroupAt(s, ino)
  <2>1. g + d \in Nat /\ g + d < t.length
    BY <1>3, <1>9
  <2> QED
    BY <1>4, <1>9, <2>1, HeldFound
<1>12. PICK desc \in Desc : desc = Decoded(disk.descs, base + GroupAt(s, ino), NoDesc)
  BY DecodedTypes
<1>13. PICK p \in Nat, x \in Nat : p = desc.inode_st * s.blk /\ x = id * s.inode_size
  <2>1. desc.inode_st \in Nat
    BY DEF Desc
  <2> QED
    BY <1>4, <1>7, <2>1
<1>14. PlaceAt(disk, base, s, ino) = p + x
  BY <1>6, <1>12, <1>13 DEF PlaceAt
<1>15. BlockAddr(v, desc.inode_st) = p
  <2>1. p < W
    BY <1>3, <1>4, <1>14
  <2>2. p % W = p
    BY <1>4, <2>1, Division
  <2> QED
    BY <1>13, <2>2 DEF BlockAddr, Blksz
<1>16. PICK e \in Nat : e = p + x /\ e < t.length /\ e % W = e
  <2>1. p + x \in Nat /\ p + x < t.length /\ p + x < W
    BY <1>3, <1>4, <1>14
  <2> QED
    BY <1>4, <2>1, Division
<1>17. Found(v, e, s.inode_size) = base + e
  BY <1>4, <1>16, HeldFound
<1>18. ReadInode(v) = Decoded(disk.inodes, Found(v, e, s.inode_size), NoInode)
  <2>1. desc = Decoded(disk.descs,
                       Found(v, BlockAddr(v, s.sblock_num + 1) + bg * DESC, DESC), NoDesc)
    BY <1>8, <1>10, <1>11, <1>12
  <2>2. (BlockAddr(v, desc.inode_st) + id * s.inode_size) % W = e
    BY <1>13, <1>15, <1>16
  <2> QED
    BY <1>1, <1>6, <2>1, <2>2 DEF ReadInode
<1> QED
  BY <1>1, <1>14, <1>16, <1>17, <1>18 DEF InodeAt

\* ext2_read from the beginning of a block.
LEMMA ReadExact ==
    ASSUME NodeInv, TreeInv, TtyInv, NEW v, Good(v), NEW base, base = Start(v.dev),
           NEW s, s = v.super, NEW t, t = Truth(v.dev), v.inode \in DOMAIN t.blocks,
           NEW o \in Nat, o % s.blk = 0, NEW num \in Nat,
           NEW left, left = t.sizes[v.inode] - o, NEW r, r = Ext2Read(v, o, num)
    PROVE  IF left < 0 THEN r.code = "EINVAL"
           ELSE LET n == IF num > left THEN left ELSE num
                IN r.code = "ok"
                   /\ SpelledTo(r.data, base, s.blk, t.blocks[v.inode], o, n, Reach(s.blk))
<1>1. PICK in : in = ReadInode(v)
  OBVIOUS
<1>2. in = InodeAt(disk, base, s, v.inode)
  BY <1>1, InodeExact
<1>3. in \in Inode /\ in.size \in Nat
  <2>1. in \in Inode
    BY <1>2, DecodedTypes DEF InodeAt
  <2> QED
    BY <2>1 DEF Inode
<1>4. PICK list : list = t.blocks[v.inode]
  OBVIOUS
<1>5. /\ list \in Seq(Nat) /\ in.size = t.sizes[v.inode] /\ in.size <= Len(list) * s.blk
      /\ FileBlocks(disk, base, s, t, in, list)
  <2>1. Ext2File(disk, base, s, t, v.inode)
    BY GoodFile
  <2> QED
    BY <1>2, <1>4, <2>1 DEF Ext2File, FileBlocks
<1>6. CASE o > in.size
  <2>1. left < 0
    BY <1>3, <1>5, <1>6
  <2>2. r.code = "EINVAL"
    BY <1>1, <1>6 DEF Ext2Read, Failed
  <2> QED
    BY <2>1, <2>2
<1>7. CASE o <= in.size
  <2>1. PICK n \in Nat : n = (IF num > left THEN left ELSE num) /\ o + n <= in.size
    BY <1>3, <1>5, <1>7
  <2>2. ~(left < 0) /\ n = IF o + num > in.size THEN in.size - o ELSE num
    BY <1>3, <1>5, <1>7, <2>1, SMTT(30)
  <2>3. r.code = "ok" /\ r.data = ReadInodeDataEx(v, in, o, n)
    BY <1>1, <1>3, <1>7, <2>2 DEF Ext2Read
  <2>4. PICK first \in Nat : o = first * s.blk
    <3>1. s.blk \in Nat \ {0}
      BY GoodFacts
    <3>2. o = (o \div s.blk) * s.blk + 0 /\ o \div s.blk \in Nat
      BY <3>1, Division
    <3> QED
      BY <3>1, <3>2
  <2>5. Reaches(first, n, Len(list), s.blk)
    <3>1. PICK l \in Nat : l = Len(list) * s.blk
      BY <1>5, LenProperties, GoodFacts
    <3>2. o + n <= l
      BY <1>3, <1>5, <2>1, <3>1, SMTT(30)
    <3> QED
      BY <2>4, <3>1, <3>2 DEF Reaches
  <2>6. SpelledTo(ReadInodeDataEx(v, in, o, n), base, s.blk, list, o, n, Reach(s.blk))
    BY <1>3, <1>5, <2>4, <2>5, DataSpelled
  <2> QED
    BY <1>4, <2>1, <2>2, <2>3, <2>6
<1> QED
  BY <1>3, <1>6, <1>7

(***************************************************************************)
(* The root directory                                                      *)
(***************************************************************************)
LEMMA DirectExact ==
    ASSUME NEW direct, NEW r \in 0 .. NDIR,
           \A q \in 0 .. (r - 1) : direct[q] # 0, r = NDIR \/ direct[r] = 0
    PROVE  Direct(direct) = r
<1> DEFINE Q(n) == /\ n = NDIR \/ direct[n] = 0
                   /\ \A q \in 0 .. (n - 1) : direct[q] # 0
<1>1. PICK nd \in Nat : nd = NDIR
  BY Ext2Assumption DEF Ext2Assumption
<1>2. Q(r)
  OBVIOUS
<1>3. ASSUME NEW n \in 0 .. NDIR, Q(n) PROVE n = r
  <2>1. n \in 0 .. nd /\ r \in 0 .. nd
    BY <1>1
  <2>2. ~(n < r)
    <3>1. SUFFICES ASSUME n < r PROVE FALSE
      OBVIOUS
    <3>2. n \in 0 .. (r - 1) /\ n # nd
      BY <2>1, <3>1
    <3> QED
      BY <1>1, <1>3, <3>2
  <2>3. ~(r < n)
    <3>1. SUFFICES ASSUME r < n PROVE FALSE
      OBVIOUS
    <3>2. r \in 0 .. (n - 1) /\ r # nd
      BY <2>1, <3>1
    <3> QED
      BY <1>1, <1>3, <3>2
  <2> QED
    BY <2>1, <2>2, <2>3
<1>4. Direct(direct) = CHOOSE n \in 0 .. NDIR : Q(n)
  BY DEF Direct
<1> HIDE DEF Q
<1>5. PICK c : c = CHOOSE n \in 0 .. NDIR : Q(n)
  OBVIOUS
<1>6. c \in 0 .. NDIR /\ Q(c)
  BY <1>2, <1>5, Zenon
<1> QED
  BY <1>3, <1>4, <1>5, <1>6

\* The walk over the root directory meets the entries that were put there.
LEMMA EntriesExact ==
    ASSUME NodeInv, TreeInv, TtyInv, NEW v, Good(v), v.inode = EXT2_ROOT_INODE
    PROVE  /\ Entries(v) = Truth(v.dev).names
           /\ \A i \in DOMAIN Entries(v) : Entries(v)[i].inode \in DOMAIN Truth(v.dev).blocks
<1>1. PICK base, s, t : base = Start(v.dev) /\ s = v.super /\ t = Truth(v.dev)
  OBVIOUS
<1>2. PICK root : root = t.blocks[EXT2_ROOT_INODE]
  OBVIOUS
<1>3. PICK in : in = InodeAt(disk, base, s, EXT2_ROOT_INODE)
  OBVIOUS
<1>4. /\ EXT2_ROOT_INODE \in DOMAIN t.blocks /\ Len(root) <= NDIR
      /\ Len(root) < NDIR => in.direct[Len(root)] = 0
      /\ t.names = FlattenSeq([q \in 1 .. Len(root) |->
                                 Decoded(disk.entries, base + root[q] * s.blk, <<>>)])
      /\ \A i \in DOMAIN t.names : t.names[i].inode \in DOMAIN t.blocks
  <2>1. Ext2Root(disk, base, s, t)
    BY <1>1, GoodImage DEF Ext2Image
  <2> QED
    BY <1>2, <1>3, <2>1 DEF Ext2Root
<1>5. ReadInode(v) = in
  BY <1>1, <1>3, <1>4, InodeExact
<1>6. root \in Seq(Nat) /\ FileBlocks(disk, base, s, t, in, root)
  <2>1. Ext2File(disk, base, s, t, EXT2_ROOT_INODE)
    BY <1>1, <1>4, GoodFile
  <2> QED
    BY <1>2, <1>3, <2>1 DEF Ext2File, FileBlocks
<1>7. PICK nd \in Nat, r \in Nat : nd = NDIR /\ r = Len(root) /\ r <= nd
  BY <1>4, <1>6, LenProperties, Ext2Assumption DEF Ext2Assumption
<1>8. /\ base \in Nat /\ t.length \in Nat /\ s.blk \in Nat \ {0}
      /\ s.blk <= (MAXSEC - 1) * SECTOR
  BY <1>1, GoodFacts
<1>9. PICK ptrs \in Nat : ptrs = PtrsOf(s)
  BY <1>8, Division, Ext2Assumption DEF Ext2Assumption, PtrsOf
<1>10. PICK direct : direct = in.direct
  OBVIOUS
<1>11. ASSUME NEW q \in 0 .. (r - 1)
       PROVE  /\ direct[q] = root[q + 1] /\ direct[q] # 0
              /\ Found(v, BlockAddr(v, direct[q]), Blksz(v)) = base + root[q + 1] * s.blk
  <2>1. q \in Nat /\ q \in 0 .. (Len(root) - 1) /\ q < nd
    BY <1>7
  <2>2. q < NDIR /\ q < NDIR + ptrs
    BY <1>7, <2>1
  <2>3. PICK block : block = root[q + 1]
    OBVIOUS
  <2>4. Inside(s, t, block) /\ InDirect(in, q, block)
    BY <1>6, <1>9, <2>1, <2>2, <2>3, WaysApart DEF FileBlocks
  <2>5. direct[q] = block /\ block # 0
    BY <1>10, <2>4 DEF InDirect, Inside
  <2>6. block \in Nat
    <3>1. q + 1 \in 1 .. Len(root)
      BY <1>7, <2>1
    <3> QED
      BY <1>6, <2>3, <3>1, ElementOfSeq
  <2>7. PICK o \in Nat : o = block * s.blk /\ BlockAddr(v, block) = o /\ o + s.blk <= t.length
    BY <1>1, <2>4, <2>6, InsideFacts
  <2>8. o < t.length
    BY <1>8, <2>7
  <2>9. Found(v, o, s.blk) = base + o
    BY <1>1, <1>8, <2>8, HeldFound
  <2> QED
    BY <1>1, <2>3, <2>5, <2>7, <2>9 DEF Blksz
<1>12. Direct(direct) = r
  <2>1. r \in 0 .. NDIR /\ (r = NDIR \/ direct[r] = 0)
    BY <1>4, <1>7, <1>10
  <2> QED
    BY <1>11, <2>1, DirectExact
<1> DEFINE Block(q) == Decoded(disk.entries, Found(v, BlockAddr(v, direct[q]), Blksz(v)), <<>>)
           At(q) == Decoded(disk.entries, base + root[q] * s.blk, <<>>)
<1>13. Entries(v) = FlattenSeq([q \in 1 .. r |-> Block(q - 1)])
  BY <1>5, <1>10, <1>12 DEF Entries, Direct
<1>14. ASSUME NEW q \in 1 .. r PROVE Block(q - 1) = At(q)
  <2>1. q - 1 \in 0 .. (r - 1) /\ (q - 1) + 1 = q
    BY <1>7
  <2> QED
    BY <1>11, <2>1
<1>15. t.names = FlattenSeq([q \in 1 .. r |-> At(q)])
  BY <1>4, <1>7
<1> HIDE DEF Block, At
<1>16. [q \in 1 .. r |-> Block(q - 1)] = [q \in 1 .. r |-> At(q)]
  BY <1>14
<1>17. Entries(v) = t.names
  BY <1>13, <1>15, <1>16
<1> QED
  BY <1>1, <1>4, <1>17

\* What ext2_finddir answers about a directory with these entries.
Answers(names, name, num) ==
    \/ \E i \in DOMAIN names : names[i].name = name /\ names[i].inode = num
    \/ num = 0 /\ \A i \in DOMAIN names : names[i].name # name
    \/ \E i \in DOMAIN names : IsStrictPrefix(names[i].name, name) /\ names[i].inode = num

LEMMA FinddirExact ==
    ASSUME NodeInv, NEW v, NEW name, NEW num, num = Ext2Finddir(v, name)
    PROVE  /\ Answers(Entries(v), name, num)
           /\ num # 0 => \E i \in DOMAIN Entries(v) : Entries(v)[i].inode = num
<1>1. PICK es \in Seq(Dirent) : es = Entries(v)
  BY EntriesType
<1> DEFINE hits == {i \in DOMAIN es : IsPrefix(es[i].name, name)}
           i == CHOOSE x \in hits : \A y \in hits : x <= y
<1>2. num = IF hits = {} THEN 0 ELSE es[i].inode
  BY <1>1 DEF Ext2Finddir
<1>3. DOMAIN es = 1 .. Len(es) /\ Len(es) \in Nat
  BY LenProperties
<1>4. CASE hits = {}
  <2>1. ASSUME NEW j \in DOMAIN es PROVE es[j].name # name
    <3>1. es[j].name \in Seq(STRING)
      <4>1. es[j] \in Dirent
        BY <1>3, ElementOfSeq
      <4> QED
        BY <4>1 DEF Dirent
    <3>2. IsPrefix(es[j].name, es[j].name)
      BY <3>1, LenProperties DEF IsPrefix
    <3> QED
      BY <1>4, <3>2
  <2> HIDE DEF hits
  <2> QED
    BY <1>1, <1>2, <1>4, <2>1 DEF Answers
<1>5. CASE hits # {}
  <2>1. hits \in SUBSET DOMAIN es
    OBVIOUS
  <2> HIDE DEF hits
  <2>2. hits \in SUBSET Nat
    BY <1>3, <2>1
  <2>3. i \in hits
    <3>1. \E x \in hits : \A y \in hits : x <= y
      BY <1>5, <2>2, LeastNatural
    <3> QED
      BY <3>1, Zenon
  <2> HIDE DEF i
  <2>4. i \in DOMAIN es /\ IsPrefix(es[i].name, name)
    BY <2>3 DEF hits
  <2>5. es[i].name = name \/ IsStrictPrefix(es[i].name, name)
    BY <2>4 DEF IsStrictPrefix
  <2>6. num = es[i].inode
    BY <1>2, <1>5
  <2> QED
    BY <1>1, <2>4, <2>5, <2>6 DEF Answers
<1> QED
  BY <1>4, <1>5

(***************************************************************************)
(* Mounted nodes and files keep the superblock of their device             *)
(***************************************************************************)
StartRule == \A n \in DOMAIN nodes : StartOf[n] = StartBody(nodes, StartOf, n)

LEMMA StartNext == NodeInv' /\ TreeInv' => StartRule'
<1>1. NodeInv /\ TreeInv => StartRule
  BY StartDef DEF StartRule
<1> QED
  BY <1>1, PTL

\* Devices stay where they begin.
LEMMA StartKept ==
    ASSUME DevInv, DevInv', [Next]_vars
    PROVE  \A n \in DOMAIN nodes : n \in DOMAIN nodes' /\ StartOf'[n] = StartOf[n]
<1>1. CASE nodes' = nodes
  BY <1>1, SameWindows
<1>2. ASSUME NEW v, nodes' = Append(nodes, v)
      PROVE  \A n \in DOMAIN nodes : n \in DOMAIN nodes' /\ StartOf'[n] = StartOf[n]
  <2> DEFINE D == DOMAIN nodes
             S == {n \in D : StartOf'[n] = StartOf[n]}
  <2>1. nodes \in Seq(NodeType) /\ Len(nodes) \in Nat /\ D = 1 .. Len(nodes)
    BY LenProperties DEF DevInv, NodeInv
  <2>2. /\ DOMAIN nodes' = 1 .. (Len(nodes) + 1)
        /\ \A n \in 1 .. Len(nodes) : nodes'[n] = nodes[n]
    BY <1>2, <2>1
  <2>3. D \in SUBSET Nat /\ D \in SUBSET DOMAIN nodes'
    BY <2>1, <2>2
  <2>4. \A n \in D : StartOf[n] = StartBody(nodes, StartOf, n)
    BY StartDef DEF DevInv
  <2>5. \A n \in DOMAIN nodes' : StartOf'[n] = StartBody(nodes', StartOf', n)
    BY StartNext DEF DevInv, StartRule
  <2>6. ASSUME NEW n \in D, \A y \in D : y < n => y \in S PROVE n \in S
    <3>1. nodes'[n] = nodes[n] /\ n \in DOMAIN nodes'
      BY <2>1, <2>2, <2>3
    <3>2. nodes[n].dev = "part" => nodes[n].ptr \in D /\ nodes[n].ptr < n
      BY NodeFacts DEF DevInv
    <3>3. StartBody(nodes', StartOf', n) = StartBody(nodes, StartOf, n)
      BY <2>6, <3>1, <3>2 DEF StartBody
    <3> QED
      BY <2>4, <2>5, <3>1, <3>3
  <2> HIDE DEF S, D
  <2>7. \A n \in D : n \in S
    BY <2>3, <2>6, InductionBelow
  <2> QED
    BY <2>3, <2>7 DEF S, D
<1> QED
  BY <1>1, <1>2, NodesGrow

\* Origin of a node in a table of devices that begin where start says.
OriginIn(v, ns, start, d) ==
    /\ v.dev \in DOMAIN ns /\ v.super \in Super /\ v.inode \in Nat
    /\ start[v.dev] + 2 * SECTOR \in DOMAIN d.supers
    /\ v.super = d.supers[start[v.dev] + 2 * SECTOR]

LEMMA DiskKept == ASSUME DevInv, [Next]_vars PROVE disk' = disk
<1>1. CASE Adding
  BY <1>1 DEF Adding, FoundTable, NoTable, ProbeHangs, AddPart, EndTable, devVars
<1>2. CASE BootMount \/ BootMountWild
  BY <1>2, MountKeepsDevices DEF BootMount, BootMountWild, devVars
<1>3. CASE BootTty
  BY <1>3 DEF BootTty
<1>4. CASE MountCall
  BY <1>4, MountKeepsDevices DEF MountCall, devVars
<1>5. CASE Calls /\ ~MountCall
  BY <1>5 DEF Calls, Return, VfsUmount, UmountNone, VfsFinddir, VfsReaddir, ReadFile, ReadDevice
<1>6. CASE UNCHANGED vars
  BY <1>6 DEF vars
<1> QED
  BY <1>1, <1>2, <1>3, <1>4, <1>5, <1>6 DEF Next, Boot

LEMMA OriginMoves ==
    ASSUME DevInv, DevInv', [Next]_vars, NEW v, OriginIn(v, nodes, StartOf, disk)
    PROVE  OriginIn(v, nodes', StartOf', disk')
<1>1. disk' = disk
  BY DiskKept
<1>2. v.dev \in DOMAIN nodes' /\ StartOf'[v.dev] = StartOf[v.dev]
  BY StartKept DEF OriginIn
<1> QED
  BY <1>1, <1>2 DEF OriginIn

MountOrigin ==
    \A i \in DOMAIN fsnodes : /\ OriginIn(fsnodes[i], nodes, StartOf, disk)
                              /\ fsnodes[i].inode = EXT2_ROOT_INODE

\* ext2_init takes the superblock from its place behind the start of the device.
LEMMA MountedOrigin ==
    ASSUME DevInv, MountInv, MountOrigin, NEW n \in DOMAIN nodes, NEW d \in DIRS, NEW done,
           Mounted(n, d, done)
    PROVE  MountOrigin'
<1>1. PICK a : a = SuperRead(n).data[1]
  OBVIOUS
<1>2. PICK v : v = [dev |-> n, super |-> disk.supers[a], inode |-> EXT2_ROOT_INODE, live |-> 1]
  OBVIOUS
<1>3. /\ fsnodes' = Append(fsnodes, v) /\ nodes' = nodes /\ disk' = disk
      /\ a \in DOMAIN disk.supers /\ Full(SuperRead(n), 2 * SECTOR)
  BY <1>1, <1>2 DEF Mounted
<1>4. StartOf' = StartOf
  BY <1>3, SameWindows
<1>5. a = StartOf[n] + 2 * SECTOR
  <2>1. SECTOR \in Nat \ {0}
    BY DeviceAssumption DEF DeviceAssumption
  <2>2. PICK r : r = [offset |-> 2 * SECTOR, size |-> 2 * SECTOR]
    OBVIOUS
  <2>3. r \in Request /\ r.offset = 2 * SECTOR
    BY <2>1, <2>2, SizeType DEF Request
  <2>4. PICK x : x = DeviceRead[n][r]
    OBVIOUS
  <2>5. Within(n, r, x)
    BY <2>3, <2>4, DeviceWindow DEF DevInv
  <2>6. x = SuperRead(n)
    BY <2>2, <2>4 DEF SuperRead, VfsRead
  <2>7. 1 \in DOMAIN x.data /\ x.data[1] # STALE
    <3>1. Len(x.data) = 2 * SECTOR /\ \A k \in 1 .. (2 * SECTOR) : x.data[k] # STALE
      BY <1>3, <2>6 DEF Full
    <3>2. 1 \in 1 .. (2 * SECTOR)
      BY <2>1
    <3> QED
      BY <2>5, <3>1, <3>2 DEF Within
  <2>8. a = Start(n) + r.offset + 1 - 1
    BY <1>1, <2>5, <2>6, <2>7 DEF Within
  <2>9. StartOf[n] \in Nat
    BY StartDef DEF DevInv
  <2> QED
    BY <2>1, <2>3, <2>8, <2>9 DEF Start
<1>6. OriginIn(v, nodes, StartOf, disk) /\ v.inode = EXT2_ROOT_INODE
  <2>1. disk.supers[a] \in Super
    BY <1>3, Ext2Assumption DEF Ext2Assumption, DevInv, NodeInv
  <2> QED
    BY <1>2, <1>3, <1>5, <2>1 DEF OriginIn, EXT2_ROOT_INODE
<1>7. fsnodes \in Seq(FsNode) /\ DOMAIN fsnodes = 1 .. Len(fsnodes) /\ Len(fsnodes) \in Nat
  BY LenProperties DEF MountInv, MountTypes
<1>8. /\ DOMAIN fsnodes' = 1 .. (Len(fsnodes) + 1)
      /\ \A i \in 1 .. Len(fsnodes) : fsnodes'[i] = fsnodes[i]
      /\ fsnodes'[Len(fsnodes) + 1] = v
  BY <1>3, <1>7
<1> SUFFICES ASSUME NEW i \in DOMAIN fsnodes'
             PROVE  OriginIn(fsnodes'[i], nodes', StartOf', disk')
                    /\ fsnodes'[i].inode = EXT2_ROOT_INODE
  BY DEF MountOrigin
<1>9. CASE i = Len(fsnodes) + 1
  BY <1>3, <1>4, <1>6, <1>8, <1>9
<1>10. CASE i \in 1 .. Len(fsnodes)
  BY <1>3, <1>4, <1>7, <1>8, <1>10 DEF MountOrigin
<1> QED
  BY <1>7, <1>8, <1>9, <1>10

LEMMA OriginStep ==
    ASSUME DevInv, DevInv', MountInv, MountOrigin, [Next]_vars PROVE MountOrigin'
<1>1. CASE fsnodes' = fsnodes
  BY <1>1, OriginMoves DEF MountOrigin
<1>2. ASSUME NEW n \in DOMAIN nodes, NEW d \in DIRS, NEW done, VfsMount(n, d, done)
      PROVE  MountOrigin'
  <2>1. CASE Mounted(n, d, done)
    BY <2>1, MountedOrigin
  <2>2. CASE ~Mounted(n, d, done)
    BY <1>1, <1>2, <2>2 DEF VfsMount, MountBusy, MountOther, MountShort, MountHangs, MountFails
  <2> QED
    BY <2>1, <2>2
<1>3. CASE BootMount
  <2>1. DevfsFinddir(RootName) \in DOMAIN nodes
    BY <1>3, FindsNode, LenProperties DEF BootMount, DevInv, NodeInv
  <2>2. "root" \in DIRS
    BY DEF DIRS
  <2> QED
    BY <1>2, <1>3, <2>1, <2>2 DEF BootMount
<1>4. CASE MountCall
  BY <1>2, <1>4 DEF MountCall
<1>5. ASSUME NEW d \in DIRS, VfsUmount(d), fsnodes' # fsnodes PROVE MountOrigin'
  <2>1. PICK p : p = ptr[d]
    OBVIOUS
  <2>2. fsnodes' = [fsnodes EXCEPT ![p].live = 0] /\ p # 0
    BY <1>5, <2>1 DEF VfsUmount
  <2>3. DOMAIN fsnodes' = DOMAIN fsnodes
    BY <2>2
  <2>4. ASSUME NEW i \in DOMAIN fsnodes
        PROVE  /\ fsnodes'[i].dev = fsnodes[i].dev /\ fsnodes'[i].super = fsnodes[i].super
               /\ fsnodes'[i].inode = fsnodes[i].inode
    <3>1. fsnodes[i] \in FsNode
      BY LenProperties, ElementOfSeq DEF MountInv, MountTypes
    <3>2. \A w \in FsNode : LET u == [w EXCEPT !.live = 0]
                            IN u.dev = w.dev /\ u.super = w.super /\ u.inode = w.inode
      BY DEF FsNode
    <3>3. fsnodes'[i] = IF i = p THEN [fsnodes[i] EXCEPT !.live = 0] ELSE fsnodes[i]
      BY <2>2
    <3> QED
      BY <3>1, <3>2, <3>3
  <2>5. ASSUME NEW i \in DOMAIN fsnodes
        PROVE  OriginIn(fsnodes'[i], nodes', StartOf', disk')
               /\ fsnodes'[i].inode = EXT2_ROOT_INODE
    <3>1. OriginIn(fsnodes[i], nodes', StartOf', disk') /\ fsnodes[i].inode = EXT2_ROOT_INODE
      BY OriginMoves DEF MountOrigin
    <3> QED
      BY <2>4, <3>1 DEF OriginIn
  <2> QED
    BY <2>3, <2>5 DEF MountOrigin
<1>6. CASE Calls
  BY <1>1, <1>4, <1>5, <1>6 DEF Calls, Return, UmountNone, VfsFinddir, VfsReaddir, ReadFile,
     ReadDevice
<1>7. CASE Boot
  BY <1>1, <1>3, <1>7 DEF Boot, BootMountWild, BootTty
<1>8. CASE UNCHANGED vars
  BY <1>1, <1>8 DEF vars
<1> QED
  BY <1>6, <1>7, <1>8 DEF Next

(***************************************************************************)
(* What the calls answer                                                   *)
(***************************************************************************)
\* The file in use was found while devfs could not grow any more, on a device
\* with its superblock, and if that holds a file system it has such an inode.
FileOrigin ==
    /\ phase \in {"add", "tty"} => file.inode = 0
    /\ file.inode # 0 =>
          /\ OriginIn(file, nodes, StartOf, disk)
          /\ Holds(file.dev) => file.inode \in DOMAIN Truth(file.dev).blocks

\* A result is there only while the table of devices stays as it is.
CallInv == ret.op \in {"read", "find", "readdir"} => phase \notin {"add", "tty"}

AnswerInv == MountOrigin /\ FileOrigin /\ CallInv /\ FilesRead /\ DirectoryAnswers

LEMMA SameTruth ==
    ASSUME nodes' = nodes, disk' = disk
    PROVE  \A n : /\ Start(n)' = Start(n) /\ Truth(n)' = Truth(n)
                  /\ Holds(n)' <=> Holds(n)
<1>1. StartOf' = StartOf /\ AroundOf' = AroundOf
  BY SameWindows
<1>2. \A n : Start(n)' = Start(n) /\ Around(n)' = Around(n)
  BY <1>1 DEF Start, Around
<1>3. \A n : Truth(n)' = Truth(n)
  BY <1>2 DEF Truth
<1> QED
  BY <1>2, <1>3 DEF Holds

\* fs_init is done once.
LEMMA BootOver ==
    ASSUME [Next]_vars, phase \notin {"add", "tty"}
    PROVE  phase' \notin {"add", "tty"}
<1>1. CASE MountCall
  BY <1>1 DEF MountCall, VfsMount, MountBusy, MountOther, MountShort, MountHangs, Mounted,
              MountFails
<1>2. CASE Calls /\ ~MountCall
  BY <1>2 DEF Calls, Return, VfsUmount, UmountNone, VfsFinddir, VfsReaddir, ReadFile, ReadDevice
<1>3. CASE Boot
  BY <1>3 DEF Boot, Adding, FoundTable, NoTable, ProbeHangs, AddPart, EndTable, Probing,
              Searched, BootMount, BootMountWild, BootTty
<1>4. CASE UNCHANGED vars
  BY <1>4 DEF vars
<1> QED
  BY <1>1, <1>2, <1>3, <1>4 DEF Next

LEMMA CallStep == ASSUME CallInv, [Next]_vars PROVE CallInv'
<1>1. CASE Boot
  <2>1. phase \in {"add", "tty"} /\ (ret' = ret \/ ret'.op = "mount")
    BY <1>1 DEF Boot, Adding, FoundTable, NoTable, ProbeHangs, AddPart, EndTable, Probing,
                Searched, BootMount, BootMountWild, BootTty, VfsMount, MountBusy, MountOther,
                MountShort, MountHangs, Mounted, MountFails, Returned
  <2> QED
    BY <2>1 DEF CallInv
<1>2. CASE Calls
  <2>1. phase = "run"
    BY <1>2 DEF Calls, Return, MountCall, VfsUmount, UmountNone, VfsFinddir, VfsReaddir, ReadFile,
                ReadDevice, Idle
  <2> QED
    BY <2>1, BootOver DEF CallInv
<1>3. CASE UNCHANGED vars
  BY <1>3 DEF vars, CallInv
<1> QED
  BY <1>1, <1>2, <1>3 DEF Next

\* What vfs_finddir and vfs_readdir hand to ext2 is a mounted root directory.
LEMMA MountedNode ==
    ASSUME DevInv, MountInv, MountOrigin, NEW d \in DIRS, ptr[d] # 0, NEW v, v = fsnodes[ptr[d]]
    PROVE  /\ OriginIn(v, nodes, StartOf, disk) /\ v.inode = EXT2_ROOT_INODE
           /\ Holds(v.dev) => Good(v)
<1>1. ptr[d] \in DOMAIN fsnodes
  BY LenProperties DEF MountInv, MountTypes
<1>2. OriginIn(v, nodes, StartOf, disk) /\ v.inode = EXT2_ROOT_INODE
  BY <1>1 DEF MountOrigin
<1> QED
  BY <1>2 DEF OriginIn, Good, Origin, Vnode, Start

\* The answer of vfs_finddir.
LEMMA FindCases ==
    ASSUME NEW d \in DIRS, NEW name, VfsFinddir(d, name)
    PROVE  \/ /\ file' = file /\ ret'.op \in {"find", "finddev"}
              /\ ret'.op = "find" => ret'.code = "EBADF"
           \/ /\ ptr[d] # 0 /\ ret'.op = "find" /\ ret'.where = d /\ ret'.arg = name
              /\ ret'.num = Ext2Finddir(fsnodes[ptr[d]], name)
              /\ file' = IF ret'.num = 0 THEN file
                         ELSE [dev |-> fsnodes[ptr[d]].dev, super |-> fsnodes[ptr[d]].super,
                               inode |-> ret'.num, dir |-> d]
<1>1. CASE flag[d] = 1 /\ ptr[d] # 0
  BY <1>1 DEF VfsFinddir, Returned
<1>2. CASE ~(flag[d] = 1 /\ ptr[d] # 0) /\ flag[d] = 0 /\ d = "dfs"
  BY <1>2 DEF VfsFinddir, Returned
<1>3. CASE ~(flag[d] = 1 /\ ptr[d] # 0) /\ ~(flag[d] = 0 /\ d = "dfs")
  BY <1>3 DEF VfsFinddir, Returned
<1> QED
  BY <1>1, <1>2, <1>3

LEMMA FileOriginKept ==
    ASSUME DevInv, DevInv', FileOrigin, [Next]_vars, file' = file
    PROVE  FileOrigin'
<1>1. CASE file.inode = 0
  BY <1>1 DEF FileOrigin
<1>2. CASE file.inode # 0
  <2>1. phase \notin {"add", "tty"} /\ phase' \notin {"add", "tty"}
    BY <1>2, BootOver DEF FileOrigin
  <2>2. nodes' = nodes /\ disk' = disk
    BY <2>1, NodesGrow, DiskKept
  <2>3. StartOf' = StartOf
    BY <2>2, SameWindows
  <2>4. \A n : Truth(n)' = Truth(n) /\ (Holds(n)' <=> Holds(n))
    BY <2>2, SameTruth
  <2> QED
    BY <2>1, <2>2, <2>3, <2>4 DEF FileOrigin
<1> QED
  BY <1>1, <1>2

LEMMA FoundFile ==
    ASSUME DevInv, TtyInv, MountInv, MountOrigin, NEW d \in DIRS, NEW name, VfsFinddir(d, name),
           file' # file
    PROVE  FileOrigin'
<1>1. PICK v, num : v = fsnodes[ptr[d]] /\ num = Ext2Finddir(v, name)
  OBVIOUS
<1>2. /\ ptr[d] # 0 /\ num # 0
      /\ file' = [dev |-> v.dev, super |-> v.super, inode |-> num, dir |-> d]
  BY <1>1, FindCases
<1>3. file'.dev = v.dev /\ file'.super = v.super /\ file'.inode = num
  BY <1>2
<1>4. nodes' = nodes /\ disk' = disk /\ phase' = "run"
  BY DEF VfsFinddir, Idle
<1>5. StartOf' = StartOf
  BY <1>4, SameWindows
<1>6. /\ OriginIn(v, nodes, StartOf, disk) /\ v.inode = EXT2_ROOT_INODE
      /\ Holds(v.dev) => Good(v)
  BY <1>1, <1>2, MountedNode
<1>7. num \in Nat
  BY <1>1, FinddirType DEF DevInv
<1>8. Holds(v.dev) => num \in DOMAIN Truth(v.dev).blocks
  <2>1. \E i \in DOMAIN Entries(v) : Entries(v)[i].inode = num
    BY <1>1, <1>2, FinddirExact DEF DevInv
  <2>2. Good(v) => \A i \in DOMAIN Entries(v) : Entries(v)[i].inode \in DOMAIN Truth(v.dev).blocks
    BY <1>6, EntriesExact DEF DevInv
  <2> QED
    BY <1>6, <2>1, <2>2
<1>9. OriginIn(file', nodes', StartOf', disk')
  BY <1>3, <1>4, <1>5, <1>6, <1>7 DEF OriginIn
<1>10. \A n : Truth(n)' = Truth(n) /\ (Holds(n)' <=> Holds(n))
  BY <1>4, SameTruth
<1> QED
  BY <1>3, <1>4, <1>8, <1>9, <1>10 DEF FileOrigin

LEMMA FileOriginStep ==
    ASSUME DevInv, DevInv', TtyInv, MountInv, MountOrigin, FileOrigin, [Next]_vars
    PROVE  FileOrigin'
<1>1. CASE file' = file
  BY <1>1, FileOriginKept
<1>2. CASE file' = NoFile
  BY <1>2 DEF FileOrigin, NoFile
<1>3. CASE \E d \in DIRS : VfsUmount(d)
  BY <1>1, <1>2, <1>3 DEF VfsUmount
<1>4. CASE \E d \in DIRS, name \in NAMES : VfsFinddir(d, name)
  BY <1>1, <1>4, FoundFile
<1>5. ASSUME ~(\E d \in DIRS : VfsUmount(d)),
             ~(\E d \in DIRS, name \in NAMES : VfsFinddir(d, name))
      PROVE  file' = file
  BY <1>5 DEF Next, Boot, BootMount, BootMountWild, BootTty, Calls, Return, MountCall,
              UmountNone, VfsReaddir, ReadFile, ReadDevice, vars
<1> QED
  BY <1>1, <1>3, <1>4, <1>5

\* FilesRead, with its arithmetic under two names.
AtBlock(v, o) == o % Blksz(v) = 0
ReadRight(v, o, num, code, data, base, t) ==
    LET left == t.sizes[v.inode] - o
        n == IF num > left THEN left ELSE num
    IN IF left < 0 THEN code = "EINVAL"
       ELSE code = "ok" /\ data = [k \in 1 .. n |->
               IF o + k - 1 < Reach(Blksz(v))
               THEN base + t.blocks[v.inode][(o + k - 1) \div Blksz(v) + 1] * Blksz(v)
                      + ((o + k - 1) % Blksz(v))
               ELSE STALE]

ReadRule ==
    FilesRead <=> (ret.op = "read" /\ Holds(ret.where.dev) /\ AtBlock(ret.where, ret.arg) =>
                     ReadRight(ret.where, ret.arg, ret.num, ret.code, ret.data,
                               Start(ret.where.dev), Truth(ret.where.dev)))

LEMMA ReadRules == ReadRule /\ ReadRule'
<1>1. ReadRule
  BY DEF ReadRule, FilesRead, AtBlock, ReadRight
<1> QED
  BY <1>1, PTL

\* vfs_read of a file.
LEMMA ReadAnswers ==
    ASSUME DevInv, TtyInv, FileOrigin, NEW o \in OFFSETS, NEW size \in SIZES, ReadFile(o, size)
    PROVE  FilesRead'
<1>1. PICK v, r : v = file /\ r = Ext2Read(v, o, size)
  OBVIOUS
<1>2. PICK out : out = ret'
  OBVIOUS
<1>3. /\ out.op = "read" /\ out.where = v /\ out.arg = o /\ out.num = size
      /\ out.code = r.code /\ out.data = r.data
      /\ v.inode # 0 /\ nodes' = nodes /\ disk' = disk
  BY <1>1, <1>2 DEF ReadFile, Returned
<1>4. \A n : /\ Start(n)' = Start(n) /\ Truth(n)' = Truth(n)
             /\ Holds(n)' <=> Holds(n)
  BY <1>3, SameTruth
<1>5. o \in Nat /\ size \in Nat
  BY CallAssumption DEF CallAssumption
<1>6. PICK base, s, t : base = Start(v.dev) /\ s = v.super /\ t = Truth(v.dev)
  OBVIOUS
<1>7. PICK list, left : list = t.blocks[v.inode] /\ left = t.sizes[v.inode] - o
  OBVIOUS
<1>8. PICK n : n = IF size > left THEN left ELSE size
  OBVIOUS
<1>9. ASSUME Holds(v.dev), o % s.blk = 0
      PROVE  IF left < 0 THEN r.code = "EINVAL"
             ELSE r.code = "ok" /\ r.data = [k \in 1 .. n |->
                     IF o + k - 1 < Reach(s.blk) THEN FileByte(base, s.blk, list, o + k - 1)
                     ELSE STALE]
  <2>1. Good(v) /\ v.inode \in DOMAIN t.blocks
    BY <1>1, <1>3, <1>6, <1>9 DEF FileOrigin, OriginIn, Good, Origin, Vnode, Start
  <2>2. IF left < 0 THEN r.code = "EINVAL"
        ELSE r.code = "ok" /\ SpelledTo(r.data, base, s.blk, list, o, n, Reach(s.blk))
    BY <1>1, <1>5, <1>6, <1>7, <1>8, <1>9, <2>1, ReadExact DEF DevInv
  <2>3. SpelledTo(r.data, base, s.blk, list, o, n, Reach(s.blk)) =>
            r.data = [k \in 1 .. n |->
                IF o + k - 1 < Reach(s.blk) THEN FileByte(base, s.blk, list, o + k - 1)
                ELSE STALE]
    BY DEF SpelledTo
  <2> QED
    BY <2>2, <2>3
<1>10. ASSUME Holds(v.dev), AtBlock(v, o)
       PROVE  ReadRight(v, o, size, r.code, r.data, base, t)
  <2>1. o % s.blk = 0
    BY <1>6, <1>10 DEF AtBlock, Blksz
  <2> QED
    BY <1>6, <1>7, <1>8, <1>9, <1>10, <2>1 DEF ReadRight, FileByte, Blksz
<1> QED
  BY <1>2, <1>3, <1>4, <1>6, <1>10, ReadRules DEF ReadRule

\* The answer of vfs_readdir.
LEMMA ReaddirCases ==
    ASSUME NEW d \in DIRS, NEW index, VfsReaddir(d, index)
    PROVE  \/ /\ ret'.op \in {"readdir", "readdev"}
              /\ ret'.op = "readdir" => ret'.code = "EBADF"
           \/ /\ ptr[d] # 0 /\ ret'.op = "readdir" /\ ret'.where = d /\ ret'.arg = index
              /\ ret'.num = Ext2Readdir(fsnodes[ptr[d]], index)
<1>1. CASE flag[d] = 1 /\ ptr[d] # 0
  BY <1>1 DEF VfsReaddir, Returned
<1>2. CASE ~(flag[d] = 1 /\ ptr[d] # 0) /\ flag[d] = 0 /\ d = "dfs"
  BY <1>2 DEF VfsReaddir, Returned
<1>3. CASE ~(flag[d] = 1 /\ ptr[d] # 0) /\ ~(flag[d] = 0 /\ d = "dfs")
  BY <1>3 DEF VfsReaddir, Returned
<1> QED
  BY <1>1, <1>2, <1>3

LEMMA FindAnswers ==
    ASSUME DevInv, TtyInv, MountInv, MountOrigin, NEW d \in DIRS, NEW name, VfsFinddir(d, name)
    PROVE  DirectoryAnswers'
<1>1. /\ nodes' = nodes /\ disk' = disk /\ fsnodes' = fsnodes /\ ptr' = ptr
  BY DEF VfsFinddir
<1>2. PICK out : out = ret'
  OBVIOUS
<1>3. PICK v : v = fsnodes[ptr[d]]
  OBVIOUS
<1>4. \A n : Truth(n)' = Truth(n) /\ (Holds(n)' <=> Holds(n))
  BY <1>1, SameTruth
<1>5. CASE out.op \notin {"find", "readdir"} \/ out.code = "EBADF"
  BY <1>2, <1>5, Zenon DEF DirectoryAnswers
<1>6. CASE /\ ptr[d] # 0 /\ out.op = "find" /\ out.where = d /\ out.arg = name
           /\ out.num = Ext2Finddir(v, name)
  <2>1. ASSUME Holds(v.dev) PROVE Answers(Truth(v.dev).names, name, out.num)
    <3>1. Good(v) /\ v.inode = EXT2_ROOT_INODE
      BY <1>3, <1>6, <2>1, MountedNode
    <3>2. Entries(v) = Truth(v.dev).names
      BY <3>1, EntriesExact DEF DevInv
    <3>3. Answers(Entries(v), name, out.num)
      BY <1>6, FinddirExact DEF DevInv
    <3> QED
      BY <3>2, <3>3
  <2> QED
    BY <1>1, <1>2, <1>3, <1>4, <1>6, <2>1 DEF DirectoryAnswers, Answers
<1> QED
  BY <1>2, <1>3, <1>5, <1>6, FindCases

LEMMA ReaddirAnswers ==
    ASSUME DevInv, TtyInv, MountInv, MountOrigin, NEW d \in DIRS, NEW index, VfsReaddir(d, index)
    PROVE  DirectoryAnswers'
<1>1. /\ nodes' = nodes /\ disk' = disk /\ fsnodes' = fsnodes /\ ptr' = ptr
  BY DEF VfsReaddir
<1>2. PICK out : out = ret'
  OBVIOUS
<1>3. PICK v : v = fsnodes[ptr[d]]
  OBVIOUS
<1>4. \A n : Truth(n)' = Truth(n) /\ (Holds(n)' <=> Holds(n))
  BY <1>1, SameTruth
<1>5. CASE out.op \notin {"find", "readdir"} \/ out.code = "EBADF"
  BY <1>2, <1>5, Zenon DEF DirectoryAnswers
<1>6. CASE /\ ptr[d] # 0 /\ out.op = "readdir" /\ out.where = d /\ out.arg = index
           /\ out.num = Ext2Readdir(v, index)
  <2>1. PICK names : names = Truth(v.dev).names
    OBVIOUS
  <2>2. ASSUME Holds(v.dev)
        PROVE  out.num = IF index < Len(names) THEN names[index + 1].inode ELSE 0
    <3>1. Good(v) /\ v.inode = EXT2_ROOT_INODE
      BY <1>3, <1>6, <2>2, MountedNode
    <3>2. Entries(v) = names
      BY <2>1, <3>1, EntriesExact DEF DevInv
    <3> QED
      BY <1>6, <3>2 DEF Ext2Readdir
  <2> QED
    BY <1>1, <1>2, <1>3, <1>4, <1>6, <2>1, <2>2 DEF DirectoryAnswers
<1> QED
  BY <1>2, <1>3, <1>5, <1>6, ReaddirCases

LEMMA AnswerStep ==
    DevInv /\ DevInv' /\ MountInv /\ TtyInv /\ AnswerInv /\ [Next]_vars => AnswerInv'
<1> SUFFICES ASSUME DevInv, DevInv', MountInv, TtyInv, AnswerInv, [Next]_vars PROVE AnswerInv'
  OBVIOUS
<1>1. MountOrigin /\ FileOrigin /\ CallInv
  BY DEF AnswerInv
<1>2. MountOrigin' /\ FileOrigin' /\ CallInv'
  BY <1>1, OriginStep, FileOriginStep, CallStep
<1>3. CASE ret'.op \notin {"read", "find", "readdir"}
  <2>1. FilesRead' /\ DirectoryAnswers'
    BY <1>3, Zenon DEF FilesRead, DirectoryAnswers
  <2> QED
    BY <1>2, <2>1 DEF AnswerInv
<1>4. CASE \E o \in OFFSETS, s \in SIZES : ReadFile(o, s)
  <2>1. PICK o \in OFFSETS, s \in SIZES : ReadFile(o, s)
    BY <1>4
  <2>2. ret'.op = "read"
    BY <2>1 DEF ReadFile, Returned
  <2>3. FilesRead'
    BY <1>1, <2>1, ReadAnswers
  <2>4. DirectoryAnswers'
    BY <2>2 DEF DirectoryAnswers
  <2> QED
    BY <1>2, <2>3, <2>4 DEF AnswerInv
<1>5. CASE \E d \in DIRS, name \in NAMES : VfsFinddir(d, name)
  <2>1. PICK d \in DIRS, name \in NAMES : VfsFinddir(d, name)
    BY <1>5
  <2>2. ret'.op # "read"
    BY <2>1, FindCases
  <2>3. DirectoryAnswers'
    BY <1>1, <2>1, FindAnswers, SMTT(30)
  <2>4. FilesRead'
    BY <2>2 DEF FilesRead
  <2> QED
    BY <1>2, <2>3, <2>4 DEF AnswerInv
<1>6. CASE \E d \in DIRS, index \in 0 .. MAXNODES : VfsReaddir(d, index)
  <2>1. PICK d \in DIRS, index \in 0 .. MAXNODES : VfsReaddir(d, index)
    BY <1>6
  <2>2. ret'.op # "read"
    BY <2>1, ReaddirCases
  <2>3. DirectoryAnswers'
    BY <1>1, <2>1, ReaddirAnswers, SMTT(30)
  <2>4. FilesRead'
    BY <2>2 DEF FilesRead
  <2> QED
    BY <1>2, <2>3, <2>4 DEF AnswerInv
<1>7. CASE Boot
  <2>1. phase \in {"add", "tty"} /\ (ret' = ret \/ ret'.op = "mount")
    BY <1>7 DEF Boot, Adding, FoundTable, NoTable, ProbeHangs, AddPart, EndTable, Probing,
                Searched, BootMount, BootMountWild, BootTty, VfsMount, MountBusy, MountOther,
                MountShort, MountHangs, Mounted, MountFails, Returned
  <2> QED
    BY <1>1, <1>3, <2>1 DEF CallInv
<1>8. CASE MountCall
  <2>1. ret'.op = "mount"
    BY <1>8 DEF MountCall, VfsMount, MountBusy, MountOther, MountShort, MountHangs, Mounted,
                MountFails, Returned
  <2> QED
    BY <1>3, <2>1
<1>9. CASE \E n \in 1 .. MAXNODES, o \in OFFSETS, s \in SIZES : ReadDevice(n, o, s)
  <2>1. ret'.op = "device"
    BY <1>9 DEF ReadDevice, Returned
  <2> QED
    BY <1>3, <2>1
<1>10. CASE Return \/ \E d \in DIRS : VfsUmount(d) \/ UmountNone(d)
  <2>1. ret'.op \in {"none", "umount"}
    <3>1. CASE Return
      BY <3>1 DEF Return, Nothing, Returned
    <3>2. ASSUME NEW d \in DIRS, VfsUmount(d) PROVE ret'.op = "umount"
      BY <3>2 DEF VfsUmount, Returned
    <3>3. ASSUME NEW d \in DIRS, UmountNone(d) PROVE ret'.op = "umount"
      BY <3>3 DEF UmountNone, Returned
    <3> QED
      BY <1>10, <3>1, <3>2, <3>3
  <2> QED
    BY <1>3, <2>1
<1>11. CASE UNCHANGED vars
  <2>1. ret' = ret /\ nodes' = nodes /\ disk' = disk /\ fsnodes' = fsnodes /\ ptr' = ptr
    BY <1>11 DEF vars
  <2>2. \A n : /\ Start(n)' = Start(n) /\ Truth(n)' = Truth(n)
               /\ Holds(n)' <=> Holds(n)
    BY <2>1, SameTruth
  <2>3. FilesRead'
    BY <2>1, <2>2, ReadRules DEF AnswerInv, ReadRule
  <2>4. DirectoryAnswers'
    BY <2>1, <2>2, Zenon DEF AnswerInv, DirectoryAnswers
  <2> QED
    BY <1>2, <2>3, <2>4 DEF AnswerInv
<1> QED
  BY <1>4, <1>5, <1>6, <1>7, <1>8, <1>9, <1>10, <1>11 DEF Next, Calls

LEMMA AnswerInit == Init => AnswerInv
<1> SUFFICES ASSUME Init PROVE AnswerInv
  OBVIOUS
<1>1. ret.op = "none" /\ file.inode = 0 /\ fsnodes = <<>>
  BY DEF Init, Nothing, Returned, NoFile
<1> QED
  BY <1>1 DEF AnswerInv, MountOrigin, FileOrigin, CallInv, FilesRead, DirectoryAnswers

\* The invariants of the devices, the mounts, the reads and the answers.
FsInv == DevInv /\ MountInv /\ WindowInv /\ AnswerInv

LEMMA FsInvariant == Spec => []FsInv
<1>1. Init => FsInv
  BY DevInit, MountInit, WindowInit, AnswerInit DEF FsInv
<1>2. FsInv /\ [Next]_vars => FsInv'
  <2>1. WindowInv => TtyInv
    BY DEF WindowInv
  <2> QED
    BY <2>1, DevStep, MountStep, WindowStep, AnswerStep DEF FsInv
<1> QED
  BY <1>1, <1>2, PTL DEF Spec

\* On every device that holds an ext2 file system whose structures are in order
\* and has room for it, ext2_read (ext2.c:337, 185-267) from the beginning of a
\* block returns the bytes of the file it was asked for, in order and up to the end of
\* the file, through direct, single and double indirect blocks, over any mounts,
\* umounts and look-ups before it: as far as the driver gets.  Where the size of
\* the double indirect part is 0 as an int (ext2.c:196) it stops in front of that
\* part and leaves the rest of the buffer as it was.
THEOREM FsFilesRead == Spec => []FilesRead
<1>1. FsInv => FilesRead
  BY DEF FsInv, AnswerInv
<1> QED
  BY <1>1, FsInvariant, PTL

\* On such a device ext2_readdir and ext2_finddir (ext2.c:431, 473) answer from the
\* entries of the root directory, all of them and no other: a name leads to its
\* own inode or to an entry whose name begins it (the strncmp of ext2.c:494), an
\* index to the entry of that number.
THEOREM FsDirectoryAnswers == Spec => []DirectoryAnswers
<1>1. FsInv => DirectoryAnswers
  BY DEF FsInv, AnswerInv
<1> QED
  BY <1>1, FsInvariant, PTL
=============================================================================
