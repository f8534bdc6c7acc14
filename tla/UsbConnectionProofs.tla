------------------------- MODULE UsbConnectionProofs -------------------------
(***************************************************************************)
(* For any number of disks, partitions and rounds: the table names what is *)
(* mounted (Listed), a mount that succeeds has mounted all partitions      *)
(* listed (AllMounted), files are only lost in the ways named (Preserved), *)
(* and what is told to be unmounted is (AllReleased).                      *)
(***************************************************************************)
EXTENDS UsbConnection, FiniteSetTheorems, SequenceTheorems, TLAPS

\* The names listed are different.
Distinct == \A i, j \in 1 .. Len(nodes) : nodes[i] = nodes[j] => i = j

\* Where the task and the user interface can be, and what their locals are at
\* the beginning of a call.
Resting  == pc["task"] \in {"loop", "again", "settle", "gone"}
Visiting == pc["task"] \in {"mount", "attach", "store"}
Removing(x) == pc[x] \in {"detach", "look", "remove"}
Placed ==
    /\ pc["task"] # "idle"
    /\ pc["ui"] \in {"idle", "umount", "detach", "look", "remove", "finish"}
    /\ Resting \/ pc["task"] \in {"scan", "failed"} => at["task"] = 1
    /\ pc["ui"] = "idle" => at["ui"] = 1
    /\ Visiting => at["task"] <= count
    /\ Resting \/ (Umounting("task") /\ ret = "loop") => success = 0
    /\ \A x \in Threads : Removing(x) => at[x] \in Slots

\* While the task mounts or unmounts, the user interface does not begin to.
Apart ==
    /\ Mounting \/ Umounting("task")
         => status # "mounted" /\ (Umounting("ui") => "both" \in trouble)
    /\ Mounting /\ "both" \notin trouble => status = "connected"

\* The entry the task is about to write.
Written ==
    /\ Visiting => \A d \in Slots : d >= at["task"] => table[d] = None
    /\ pc["task"] \in {"attach", "store"} => names[at["task"]] \in {None, dev}
    /\ pc["task"] = "store" =>
         /\ dev \in Partitions
         /\ ~Umounting("ui") /\ names[at["task"]] # None
              => ~Bare(at["task"]) /\ Last(mnt[at["task"]]).part = dev

\* The partitions that are mounted at their place bound the successes counted,
\* and the one about to be.
Places  == {d \in 1 .. Len(nodes) : Shows(d, nodes[d])}
Pending == IF pc["task"] = "store" THEN 1 ELSE 0
Counted ==
    calm /\ Mounting
        => /\ success + Pending <= Cardinality(Places)
           /\ pc["task"] # "scan" => names = Listing /\ count = Len(nodes)
           /\ pc["task"] = "attach" => dev = names[at["task"]]
           /\ pc["task"] = "mounted" => success = count

\* Only what is on top is of a disk that is plugged in, and no other partition
\* is about to be mounted over it.
OnTop ==
    "shifted" \notin trouble =>
        /\ \A d \in Slots : \A i \in 1 .. Len(mnt[d]) - 1 : ~mnt[d][i].live
        /\ \A d \in Slots : ~Bare(d) /\ Last(mnt[d]).live =>
             /\ Visiting => names[d] \in {None, Last(mnt[d]).part}
             /\ pc["task"] = "attach" /\ d = at["task"] => dev \in {None, Last(mnt[d]).part}

\* What umount and rm find.
Popped ==
    trouble \cap {"busy", "shifted", "both"} = {} => \A x \in Threads :
        /\ pc[x] = "detach" => dir[x] \/ at[x] \notin dirs
        /\ pc[x] = "look" => at[x] \notin dirs \/ Bare(at[x]) \/ ~Last(mnt[at[x]]).live
        /\ pc[x] = "remove" => ~dir[x] \/ Bare(at[x]) \/ ~Last(mnt[at[x]]).live

\* What is mounted is in the table, or about to be, and nothing is mounted on it.
Clean == trouble \subseteq {"refused"}
Held ==
    Clean => \A d \in Slots : ~Bare(d) =>
        /\ d <= count /\ Len(mnt[d]) = 1
        /\ d \in dirs \/ (pc["task"] = "store" /\ d = at["task"])

\* The directories the loops have yet to use, and those they have left, are bare.
Passed ==
    Clean =>
        /\ \A x \in Threads :
             /\ pc[x] \in {"umount", "detach"} => \A d \in Slots : d < at[x] => Bare(d)
             /\ pc[x] = "detach" => dir[x] \/ Bare(at[x])
             /\ pc[x] \in {"look", "remove"} => \A d \in Slots : d <= at[x] => Bare(d)
             /\ pc[x] = "finish" => \A d \in Slots : Bare(d)
        /\ pc["task"] \in {"mount", "attach"} => \A d \in Slots : d >= at["task"] => Bare(d)
        /\ pc["task"] = "store" => \A d \in Slots : d > at["task"] => Bare(d)

Typed == TypeOK /\ Distinct
IInv ==
    /\ Typed /\ Placed /\ Apart /\ Written /\ Listed /\ Counted /\ OnTop /\ Popped
    /\ Preserved /\ Held /\ Passed /\ AllReleased

-----------------------------------------------------------------------------
(* Constants, sequences, and the parts of the type invariant. *)

LEMMA Constants ==
  /\ IsFiniteSet(Partitions) /\ None \notin Partitions
  /\ DiskOf \in [Partitions -> Disks] /\ Tries \in Nat \ {0} /\ MaxPlugs \in Nat
  /\ Cardinality(Partitions) \in Nat
BY UsbAssumption, FS_CardinalityType

LEMMA Inserted ==
  ASSUME NEW s \in Seq(Partitions), NEW i \in 1 .. Len(s) + 1, NEW e \in Partitions
  PROVE  /\ InsertAt(s, i, e) \in Seq(Partitions)
         /\ Len(InsertAt(s, i, e)) = Len(s) + 1
         /\ \A j \in 1 .. Len(s) + 1 :
              InsertAt(s, i, e)[j] = IF j < i THEN s[j] ELSE IF j = i THEN e ELSE s[j - 1]
<1> DEFINE a == SubSeq(s, 1, i - 1)  b == SubSeq(s, i, Len(s))
<1>0. s \in Seq(Partitions) /\ Len(s) \in Nat /\ i \in 1 .. Len(s) + 1
  OBVIOUS
<1>1. a \in Seq(Partitions) /\ Len(a) = i - 1 /\ \A j \in 1 .. i - 1 : a[j] = s[j]
  BY <1>0
<1>2. b \in Seq(Partitions) /\ Len(b) = Len(s) - i + 1 /\ \A j \in 1 .. Len(s) - i + 1 : b[j] = s[i + j - 1]
  BY <1>0
<1>3. <<e>> \in Seq(Partitions) /\ Len(<<e>>) = 1 /\ <<e>>[1] = e
  OBVIOUS
<1> HIDE DEF a, b
<1>4. a \o <<e>> \in Seq(Partitions) /\ Len(a \o <<e>>) = i
      /\ \A j \in 1 .. i : (a \o <<e>>)[j] = IF j < i THEN s[j] ELSE e
  BY <1>0, <1>1, <1>3
<1> DEFINE c == a \o <<e>>
<1> HIDE DEF c
<1>5. c \in Seq(Partitions) /\ Len(c) = i /\ \A j \in 1 .. i : c[j] = IF j < i THEN s[j] ELSE e
  BY <1>4 DEF c
<1>6. /\ c \o b \in Seq(Partitions) /\ Len(c \o b) = Len(s) + 1
      /\ \A j \in 1 .. Len(s) + 1 : (c \o b)[j] = IF j <= i THEN c[j] ELSE b[j - i]
  <2>1. /\ c \o b \in Seq(Partitions) /\ Len(c \o b) = Len(c) + Len(b)
        /\ \A j \in 1 .. Len(c) + Len(b) :
             (c \o b)[j] = IF j <= Len(c) THEN c[j] ELSE b[j - Len(c)]
    BY <1>2, <1>5, ConcatProperties
  <2>2. Len(c) = i /\ Len(c) + Len(b) = Len(s) + 1
    BY <1>0, <1>2, <1>5
  <2> QED BY <2>1, <2>2
<1>7. InsertAt(s, i, e) = c \o b
  BY DEF InsertAt, a, b, c
<1> QED BY <1>0, <1>2, <1>5, <1>6, <1>7

LEMMA Removed ==
  ASSUME NEW S, NEW s \in Seq(S), NEW i \in 1 .. Len(s)
  PROVE  /\ RemoveAt(s, i) \in Seq(S)
         /\ Len(RemoveAt(s, i)) = Len(s) - 1
         /\ \A j \in 1 .. Len(s) - 1 :
              RemoveAt(s, i)[j] = IF j < i THEN s[j] ELSE s[j + 1]
<1> DEFINE a == SubSeq(s, 1, i - 1)  b == SubSeq(s, i + 1, Len(s))
<1>0. s \in Seq(S) /\ Len(s) \in Nat /\ i \in 1 .. Len(s)
  OBVIOUS
<1>1. a \in Seq(S) /\ Len(a) = i - 1 /\ \A j \in 1 .. i - 1 : a[j] = s[j]
  BY <1>0
<1>2. b \in Seq(S) /\ Len(b) = Len(s) - i /\ \A j \in 1 .. Len(s) - i : b[j] = s[i + j]
  BY <1>0
<1> HIDE DEF a, b
<1>3. /\ a \o b \in Seq(S) /\ Len(a \o b) = Len(s) - 1
      /\ \A j \in 1 .. Len(s) - 1 : (a \o b)[j] = IF j < i THEN s[j] ELSE s[j + 1]
  <2>1. /\ a \o b \in Seq(S) /\ Len(a \o b) = Len(a) + Len(b)
        /\ \A j \in 1 .. Len(a) + Len(b) :
             (a \o b)[j] = IF j <= Len(a) THEN a[j] ELSE b[j - Len(a)]
    BY <1>1, <1>2, ConcatProperties
  <2>2. Len(a) = i - 1 /\ Len(a) + Len(b) = Len(s) - 1
    BY <1>0, <1>1, <1>2
  <2>3. ASSUME NEW j \in 1 .. Len(s) - 1
        PROVE  (a \o b)[j] = IF j < i THEN s[j] ELSE s[j + 1]
    <3>1. (a \o b)[j] = IF j <= i - 1 THEN a[j] ELSE b[j - (i - 1)]
      BY <2>1, <2>2
    <3>2. CASE j < i
      BY <3>1, <3>2, <1>0, <1>1
    <3>3. CASE ~(j < i)
      <4>1. j - (i - 1) \in 1 .. Len(s) - i /\ ~(j <= i - 1) /\ i + (j - (i - 1)) = j + 1
        BY <3>3, <1>0
      <4> QED BY <3>1, <3>3, <4>1, <1>2
    <3> QED BY <3>2, <3>3
  <2> QED BY <2>1, <2>2, <2>3
<1>4. RemoveAt(s, i) = a \o b
  BY DEF RemoveAt, a, b
<1> QED BY <1>3, <1>4

\* Different names are no more than there are partitions.
LEMMA Short ==
  ASSUME NEW s \in Seq(Partitions),
         \A i, j \in 1 .. Len(s) : s[i] = s[j] => i = j
  PROVE  Len(s) <= Cardinality(Partitions)
<1>1. s \in [1 .. Len(s) -> Partitions] /\ Len(s) \in Nat
  OBVIOUS
<1>2. IsFiniteSet(1 .. Len(s)) /\ Cardinality(1 .. Len(s)) = Len(s)
  <2>1. Len(s) \in Int /\ 1 \in Int /\ (1 > Len(s) => Len(s) = 0)
    BY <1>1
  <2>2. IsFiniteSet(1 .. Len(s)) /\ Cardinality(1 .. Len(s)) = IF 1 > Len(s) THEN 0 ELSE Len(s) - 1 + 1
    BY <2>1, FS_Interval, Zenon
  <2> QED BY <2>1, <2>2
<1>3. ~(Cardinality(Partitions) < Cardinality(1 .. Len(s)))
  BY <1>1, <1>2, Constants, FS_PigeonHole
<1> QED BY <1>1, <1>2, <1>3, Constants

LEMMA NamesChange ==
  ASSUME Typed, NEW p \in Partitions, Appear(p) \/ Vanish
  PROVE  /\ nodes' \in Seq(Partitions) /\ Distinct'
         /\ Len(nodes') <= Cardinality(Partitions)
<1>1. CASE Appear(p)
  <2>1. PICK i \in 1 .. Len(nodes) + 1 : nodes' = InsertAt(nodes, i, p)
    BY <1>1 DEF Appear
  <2>2. p \notin ToSet(nodes) /\ nodes \in Seq(Partitions)
    BY <1>1 DEF Appear, Typed, TypeOK
  <2>3. nodes' \in Seq(Partitions) /\ Len(nodes') = Len(nodes) + 1
        /\ \A j \in 1 .. Len(nodes) + 1 :
             nodes'[j] = IF j < i THEN nodes[j] ELSE IF j = i THEN p ELSE nodes[j - 1]
    <3>1. p \in Partitions /\ i \in 1 .. Len(nodes) + 1 /\ nodes \in Seq(Partitions)
      BY <2>2
    <3>2. /\ InsertAt(nodes, i, p) \in Seq(Partitions)
          /\ Len(InsertAt(nodes, i, p)) = Len(nodes) + 1
          /\ \A j \in 1 .. Len(nodes) + 1 :
               InsertAt(nodes, i, p)[j] = IF j < i THEN nodes[j] ELSE IF j = i THEN p ELSE nodes[j - 1]
      BY ONLY <3>1, Inserted, ZenonT(40)
    <3> QED BY ONLY <3>2, <2>1, Zenon
  <2>4. Distinct'
    <3>1. \A j \in 1 .. Len(nodes) : nodes[j] # p
      BY <2>2 DEF ToSet
    <3>2. \A j, k \in 1 .. Len(nodes) : nodes[j] = nodes[k] => j = k
      BY DEF Distinct, Typed
    <3> HIDE DEF Distinct
    <3>3. ASSUME NEW j \in 1 .. Len(nodes) + 1, NEW k \in 1 .. Len(nodes) + 1,
                 nodes'[j] = nodes'[k]
          PROVE  j = k
      <4> DEFINE n == Len(nodes)
      <4>0. n \in Nat /\ Len(nodes) = n /\ i \in 1 .. n + 1 /\ j \in 1 .. n + 1 /\ k \in 1 .. n + 1
        BY <2>2
      <4> HIDE DEF n
      <4>1. \A m \in 1 .. n + 1 :
              IF m = i THEN nodes'[m] = p
              ELSE nodes'[m] = nodes[IF m < i THEN m ELSE m - 1] /\ (IF m < i THEN m ELSE m - 1) \in 1 .. n
        BY <2>3, <4>0
      <4>2. CASE j = i \/ k = i
        BY <4>0, <4>1, <4>2, <3>1, <3>3
      <4>3. CASE j # i /\ k # i
        <5>1. (IF j < i THEN j ELSE j - 1) = (IF k < i THEN k ELSE k - 1)
          BY <4>0, <4>1, <4>3, <3>2, <3>3
        <5> QED BY <5>1, <4>0, <4>3
      <4> QED BY <4>2, <4>3
    <3> QED BY <2>3, <3>3 DEF Distinct
  <2> QED BY <2>3, <2>4, Short DEF Distinct
<1>2. CASE Vanish
  <2>1. PICK i \in 1 .. Len(nodes) : nodes' = RemoveAt(nodes, i)
    BY <1>2 DEF Vanish
  <2>2. nodes \in Seq(Partitions)
    BY DEF Typed, TypeOK
  <2>3. nodes' \in Seq(Partitions) /\ Len(nodes') = Len(nodes) - 1
        /\ \A j \in 1 .. Len(nodes) - 1 :
             nodes'[j] = IF j < i THEN nodes[j] ELSE nodes[j + 1]
    BY <2>1, <2>2, Removed
  <2>4. Distinct'
    BY <2>2, <2>3 DEF Distinct, Typed
  <2> QED BY <2>3, <2>4, Short DEF Distinct
<1> QED BY <1>1, <1>2

-----------------------------------------------------------------------------
(* What is mounted changes in three ways. *)

\* The file systems are the same, of the same partitions, and no disk is back.
SameLayers ==
  \A d \in Slots :
    /\ Len(mnt'[d]) = Len(mnt[d])
    /\ \A i \in 1 .. Len(mnt[d]) : /\ mnt'[d][i].part = mnt[d][i].part
                                   /\ mnt'[d][i].live => mnt[d][i].live

SameLives ==
  \A d \in Slots : \A i \in 1 .. Len(mnt[d]) : mnt'[d][i].live = mnt[d][i].live

\* One more on top of one directory.
Pushed(d, p) ==
  /\ Len(mnt'[d]) = Len(mnt[d]) + 1
  /\ mnt'[d][Len(mnt[d]) + 1] = [part |-> p, live |-> TRUE, used |-> FALSE]
  /\ \A i \in 1 .. Len(mnt[d]) : mnt'[d][i] = mnt[d][i]
  /\ \A q \in Slots \ {d} : mnt'[q] = mnt[q]

\* One less on one directory.
Popping(d) ==
  /\ ~Bare(d) /\ Len(mnt'[d]) = Len(mnt[d]) - 1
  /\ \A i \in 1 .. Len(mnt[d]) - 1 : mnt'[d][i] = mnt[d][i]
  /\ \A q \in Slots \ {d} : mnt'[q] = mnt[q]

LEMMA MountPushes ==
  ASSUME Typed, Placed, MountSlot
  PROVE  /\ at["task"] \in Slots /\ at["task"] <= count /\ dev \in Partitions
         /\ mnt' \in [Slots -> Seq(Layers)]
         /\ Pushed(at["task"], dev)
<1> DEFINE d == at["task"]
<1>1. d \in Slots /\ d <= count
  BY Constants DEF MountSlot, Goto, Placed, Visiting, Typed, TypeOK, Slots, Threads
<1>2. dev \in Partitions
  <2>1. dev \in ToSet(nodes)
    BY DEF MountSlot, Mountable
  <2> QED BY <2>1 DEF ToSet, Typed, TypeOK
<1>3. mnt \in [Slots -> Seq(Layers)]
  BY DEF Typed, TypeOK
<1> DEFINE e == [part |-> dev, live |-> TRUE, used |-> FALSE]
<1>4. e \in Layers
  BY <1>2 DEF Layers
<1>5. mnt' = [mnt EXCEPT ![d] = Append(mnt[d], e)]
  BY DEF MountSlot
<1> HIDE DEF d, e
<1>6. /\ Append(mnt[d], e) \in Seq(Layers) /\ Len(Append(mnt[d], e)) = Len(mnt[d]) + 1
      /\ Append(mnt[d], e)[Len(mnt[d]) + 1] = e
      /\ \A i \in 1 .. Len(mnt[d]) : Append(mnt[d], e)[i] = mnt[d][i]
  BY <1>1, <1>3, <1>4
<1>7. mnt' \in [Slots -> Seq(Layers)] /\ mnt'[d] = Append(mnt[d], e)
      /\ \A q \in Slots \ {d} : mnt'[q] = mnt[q]
  BY <1>1, <1>3, <1>5, <1>6
<1>8. Pushed(d, dev)
  BY <1>6, <1>7 DEF Pushed, e
<1> QED BY <1>1, <1>2, <1>7, <1>8 DEF d

LEMMA DetachPops ==
  ASSUME Typed, Placed, NEW x \in Threads, Detach(x), mnt' # mnt
  PROVE  /\ at[x] \in Slots /\ dir[x] /\ ~Last(mnt[at[x]]).used
         /\ pc' = [pc EXCEPT ![x] = "look"]
         /\ mnt' \in [Slots -> Seq(Layers)] /\ Popping(at[x])
         /\ trouble' = trouble
<1> DEFINE d == at[x]
<1>1. /\ dir[x] /\ ~Bare(d) /\ ~Last(mnt[d]).used
      /\ mnt' = [mnt EXCEPT ![d] = Front(mnt[d])] /\ trouble' = trouble
      /\ pc' = [pc EXCEPT ![x] = "look"] /\ pc[x] = "detach"
  BY DEF Detach, Goto
<1>2. d \in Slots
  BY <1>1 DEF Placed, Removing
<1>3. mnt \in [Slots -> Seq(Layers)]
  BY DEF Typed, TypeOK
<1> HIDE DEF d
<1>4. mnt[d] \in Seq(Layers) /\ mnt[d] # <<>> /\ Len(mnt[d]) \in Nat \ {0}
  BY <1>1, <1>2, <1>3 DEF Bare
<1>5. /\ Front(mnt[d]) \in Seq(Layers) /\ Len(Front(mnt[d])) = Len(mnt[d]) - 1
      /\ \A i \in 1 .. Len(mnt[d]) - 1 : Front(mnt[d])[i] = mnt[d][i]
  BY <1>4 DEF Front
<1>6. mnt' \in [Slots -> Seq(Layers)] /\ mnt'[d] = Front(mnt[d])
      /\ \A q \in Slots \ {d} : mnt'[q] = mnt[q]
  BY <1>1, <1>2, <1>3, <1>5
<1>7. Popping(d)
  BY <1>1, <1>5, <1>6 DEF Popping
<1> QED BY <1>1, <1>2, <1>6, <1>7 DEF d

LEMMA OthersKeep ==
  ASSUME Typed, NEW k, NEW d, Pull(k) \/ Open(d) \/ Close(d), d \in Slots
  PROVE  /\ mnt' \in [Slots -> Seq(Layers)] /\ SameLayers
         /\ Open(d) \/ Close(d) => SameLives
<1>1. mnt \in [Slots -> Seq(Layers)]
  BY DEF Typed, TypeOK
<1>2. CASE Pull(k) /\ ~(Open(d) \/ Close(d))
  <2> DEFINE Row(q) == [i \in 1 .. Len(mnt[q]) |->
                          [mnt[q][i] EXCEPT !.live = @ /\ DiskOf[mnt[q][i].part] # k]]
  <2>1. mnt' = [q \in Slots |-> Row(q)]
    BY <1>2 DEF Pull
  <2>2. ASSUME NEW q \in Slots
        PROVE  /\ Row(q) \in Seq(Layers) /\ Len(Row(q)) = Len(mnt[q])
               /\ \A i \in 1 .. Len(mnt[q]) : /\ Row(q)[i].part = mnt[q][i].part
                                              /\ Row(q)[i].live => mnt[q][i].live
    <3>1. mnt[q] \in Seq(Layers) /\ Len(mnt[q]) \in Nat
      BY <1>1
    <3>2. ASSUME NEW i \in 1 .. Len(mnt[q])
          PROVE  /\ Row(q)[i] \in Layers /\ Row(q)[i].part = mnt[q][i].part
                 /\ Row(q)[i].live => mnt[q][i].live
      <4>1. mnt[q][i] \in Layers
        BY <3>1
      <4>2. Row(q)[i] = [mnt[q][i] EXCEPT !.live = mnt[q][i].live /\ DiskOf[mnt[q][i].part] # k]
        OBVIOUS
      <4> HIDE DEF Row
      <4> QED BY <4>1, <4>2 DEF Layers
    <3>3. Row(q) = [i \in 1 .. Len(mnt[q]) |-> Row(q)[i]]
      OBVIOUS
    <3> HIDE DEF Row
    <3>4. Row(q) \in Seq(Layers) /\ Len(Row(q)) = Len(mnt[q])
      BY <3>1, <3>2, <3>3, IsASeq, SMTT(30)
    <3> QED BY <3>2, <3>4
  <2> HIDE DEF Row
  <2> QED BY <1>2, <2>1, <2>2 DEF SameLayers
<1>3. CASE Open(d) \/ Close(d)
  <2>1. PICK i \in 1 .. Len(mnt[d]), v \in BOOLEAN : mnt' = [mnt EXCEPT ![d][i].used = v]
    <3>1. CASE Open(d)
      <4>1. Len(mnt[d]) \in 1 .. Len(mnt[d])
        BY <1>1, <3>1 DEF Open, Bare
      <4> QED BY <3>1, <4>1, Zenon DEF Open
    <3>2. CASE Close(d)
      BY <3>2, Zenon DEF Close
    <3> QED BY <1>3, <3>1, <3>2
  <2>2. mnt[d] \in Seq(Layers) /\ mnt[d][i] \in Layers
    BY <1>1
  <2> DEFINE e == [mnt[d][i] EXCEPT !.used = v]
  <2>3. e \in Layers /\ e.part = mnt[d][i].part /\ e.live = mnt[d][i].live
    BY <2>2 DEF Layers
  <2>4. mnt' = [mnt EXCEPT ![d] = [mnt[d] EXCEPT ![i] = e]]
    BY <2>1
  <2> HIDE DEF e
  <2>5. /\ [mnt[d] EXCEPT ![i] = e] \in Seq(Layers)
        /\ Len([mnt[d] EXCEPT ![i] = e]) = Len(mnt[d])
        /\ \A j \in 1 .. Len(mnt[d]) :
             [mnt[d] EXCEPT ![i] = e][j] = IF j = i THEN e ELSE mnt[d][j]
    BY <2>2, <2>3, ExceptSeq
  <2> QED BY <1>1, <2>3, <2>4, <2>5 DEF SameLayers, SameLives
<1> QED BY <1>2, <1>3

LEMMA Stack ==
  ASSUME NEW s \in Seq(Layers)
  PROVE  /\ Len(s) \in Nat /\ (s = <<>> <=> Len(s) = 0) /\ Last(s) = s[Len(s)]
         /\ \A i \in 1 .. Len(s) : s[i].part \in Partitions /\ s[i].live \in BOOLEAN
<1>1. \A i \in 1 .. Len(s) : s[i] \in Layers
  OBVIOUS
<1> QED BY <1>1 DEF Last, Layers

\* How the top of a directory changes.
LEMMA Tops ==
  ASSUME Typed, mnt' \in [Slots -> Seq(Layers)], SameLayers, NEW d \in Slots
  PROVE  /\ Bare(d)' <=> Bare(d)
         /\ ~Bare(d) => /\ Last(mnt'[d]).part = Last(mnt[d]).part
                        /\ Last(mnt'[d]).live => Last(mnt[d]).live
<1>1. mnt[d] \in Seq(Layers) /\ mnt'[d] \in Seq(Layers)
  BY DEF Typed, TypeOK
<1>2. Len(mnt[d]) \in Nat /\ (mnt[d] = <<>> <=> Len(mnt[d]) = 0) /\ Last(mnt[d]) = mnt[d][Len(mnt[d])]
  BY <1>1, Stack
<1>3. (mnt'[d] = <<>> <=> Len(mnt'[d]) = 0) /\ Last(mnt'[d]) = mnt'[d][Len(mnt'[d])]
  BY <1>1, Stack
<1>4. Len(mnt'[d]) = Len(mnt[d])
  BY DEF SameLayers
<1>5. CASE Bare(d)
  BY <1>2, <1>3, <1>4, <1>5 DEF Bare
<1>6. CASE ~Bare(d)
  <2>1. Len(mnt[d]) \in 1 .. Len(mnt[d])
    BY <1>2, <1>6 DEF Bare
  <2> QED BY <1>2, <1>3, <1>4, <1>6, <2>1 DEF Bare, SameLayers
<1> QED BY <1>5, <1>6

LEMMA TopPushed ==
  ASSUME Typed, mnt' \in [Slots -> Seq(Layers)], NEW d \in Slots, NEW p, Pushed(d, p)
  PROVE  /\ ~Bare(d)'
         /\ Last(mnt'[d]) = [part |-> p, live |-> TRUE, used |-> FALSE]
         /\ \A q \in Slots \ {d} : mnt'[q] = mnt[q]
<1>1. mnt[d] \in Seq(Layers) /\ mnt'[d] \in Seq(Layers)
  BY DEF Typed, TypeOK
<1>2. Len(mnt[d]) \in Nat
  BY <1>1
<1>3. (mnt'[d] = <<>> <=> Len(mnt'[d]) = 0) /\ Last(mnt'[d]) = mnt'[d][Len(mnt'[d])]
  BY <1>1, Stack
<1> QED BY <1>2, <1>3 DEF Pushed, Bare

LEMMA Growing ==
  ASSUME Typed, Next
  PROVE  trouble \subseteq trouble'
<1> USE DEF history, locals, shared, tables, system
<1>1. CASE Environment
  BY <1>1 DEF Environment, Plug, Pull, Vanish, Appear, Open, Close
<1>2. CASE Eject
  BY <1>2 DEF Eject
<1>3. ASSUME NEW x \in Threads, UmountStep(x) PROVE trouble \subseteq trouble'
  BY <1>3 DEF UmountStep, Umount, Detach, Look, RemoveDir, Finish
<1>4. CASE Watch \/ Again \/ SetMounted \/ SetMountFailed
  BY <1>4 DEF Watch, Again, SetMounted, SetMountFailed
<1>5. CASE Settle \/ Gone
  BY <1>5 DEF Settle, Gone, Meet
<1>6. CASE Scan \/ MakeDir \/ MountSlot \/ MountRefused \/ Store
  BY <1>6 DEF Scan, MakeDir, MountSlot, MountRefused, Store
<1> QED BY <1>1, <1>2, <1>3, <1>4, <1>5, <1>6 DEF Next, TaskStep, Threads

\* The steps that leave what is mounted, or change it without a mount or umount.
LEMMA MntStep ==
  ASSUME Typed, Placed, [Next]_vars
  PROVE  /\ mnt' \in [Slots -> Seq(Layers)]
         /\ \/ SameLayers
            \/ MountSlot
            \/ \E x \in Threads : Detach(x) /\ mnt' # mnt
<1>0. mnt \in [Slots -> Seq(Layers)]
  BY DEF Typed, TypeOK
<1>1. CASE mnt' = mnt
  BY <1>0, <1>1 DEF SameLayers
<1>2. CASE MountSlot
  BY <1>2, MountPushes
<1>3. ASSUME NEW x \in Threads, Detach(x), mnt' # mnt
      PROVE  mnt' \in [Slots -> Seq(Layers)]
  BY <1>3, DetachPops
<1>4. ASSUME NEW k, Pull(k) PROVE mnt' \in [Slots -> Seq(Layers)] /\ SameLayers
  <2>1. CASE Slots = {}
    <3>1. mnt' = [d \in Slots |-> [i \in 1 .. Len(mnt[d]) |->
             [mnt[d][i] EXCEPT !.live = mnt[d][i].live /\ DiskOf[mnt[d][i].part] # k]]]
      BY <1>4 DEF Pull
    <3> QED BY <2>1, <3>1 DEF SameLayers
  <2>2. CASE Slots # {}
    BY <1>4, <2>2, OthersKeep
  <2> QED BY <2>1, <2>2
<1>5. ASSUME NEW d \in Slots, Open(d) \/ Close(d)
      PROVE  mnt' \in [Slots -> Seq(Layers)] /\ SameLayers
  BY <1>5, OthersKeep
<1>6. CASE mnt' # mnt
  <2>1. ~UNCHANGED vars
    BY <1>6 DEF vars, system
  <2>2. ASSUME NEW x \in Threads, UmountStep(x) PROVE Detach(x)
    BY <1>6, <2>2 DEF UmountStep, Umount, Look, RemoveDir, Finish, system
  <2>3. CASE Environment
    BY <1>4, <1>5, <1>6, <2>3 DEF Environment, Plug, Vanish, Appear
  <2>4. TaskStep => MountSlot \/ UmountStep("task")
    BY <1>6 DEF TaskStep, Watch, Again, Settle, Gone, SetMounted, SetMountFailed, Scan,
                MakeDir, MountRefused, Store, system
  <2>5. ~Eject
    BY <1>6 DEF Eject, system
  <2> QED BY <1>2, <1>3, <1>6, <2>1, <2>2, <2>3, <2>4, <2>5 DEF Next, Threads
<1> QED BY <1>1, <1>6

-----------------------------------------------------------------------------
(* Types and places. *)

LEMMA TypeInit == Init => Typed
<1>1. Empty \in [Slots -> Names]
  BY DEF Empty, Names
<1>2. [d \in Slots |-> <<>>] \in [Slots -> Seq(Layers)]
  OBVIOUS
<1>3. ASSUME Init
      PROVE  /\ calm \in BOOLEAN
             /\ failed \in [Threads -> BOOLEAN] /\ dir \in [Threads -> BOOLEAN]
  BY <1>3, Zenon DEF Init
<1>4. ASSUME Init PROVE Distinct /\ nodes \in Seq(Partitions) /\ Len(nodes) = 0
  BY <1>4 DEF Init, Distinct
<1>5. ASSUME Init
      PROVE  /\ pc \in [Threads -> Points]
             /\ at \in [Threads -> Nat \ {0}]
  BY <1>5 DEF Init, Threads, Points
<1>6. ASSUME Init PROVE Typed
  <2>1. Tries \in Nat \ {0} /\ MaxPlugs \in Nat /\ Cardinality(Partitions) \in Nat
    BY Constants
  <2>2. /\ disks \subseteq Disks /\ plugs \in 0 .. MaxPlugs
        /\ status \in Waiting \cup Present \cup {"unmounted"}
        /\ count \in 0 .. Cardinality(Partitions)
    BY <1>6, <2>1 DEF Init, Waiting
  <2>3. /\ try \in 1 .. Tries /\ success \in Nat /\ ret \in {"loop", "failed"}
        /\ erased \subseteq Partitions
        /\ trouble \subseteq {"busy", "refused", "retry", "shifted", "both"}
    BY <1>6, <2>1 DEF Init
  <2>4. /\ names = Empty /\ table = Empty /\ mnt = [d \in Slots |-> <<>>]
        /\ dirs \subseteq Slots /\ dev \in Names
    BY <1>6 DEF Init, Names
  <2> QED BY <1>1, <1>2, <1>3, <1>4, <1>5, <1>6, <2>1, <2>2, <2>3, <2>4 DEF Typed, TypeOK
<1> QED BY <1>6

\* The names in /dev are typed and different after every step.
LEMMA NamesStep ==
  ASSUME Typed, [Next]_vars
  PROVE  nodes' \in Seq(Partitions) /\ Distinct' /\ Len(nodes') <= Cardinality(Partitions)
<1>1. CASE nodes' = nodes
  BY <1>1 DEF Typed, TypeOK, Distinct
<1>2. CASE Vanish \/ \E p \in Partitions : Appear(p)
  <2>1. CASE \E p \in Partitions : Appear(p)
    BY <2>1, NamesChange
  <2>2. CASE Vanish
    <3>1. CASE Partitions = {}
      BY <2>2, <3>1 DEF Vanish, Typed, TypeOK
    <3>2. CASE Partitions # {}
      BY <2>2, <3>2, NamesChange
    <3> QED BY <3>1, <3>2
  <2> QED BY <1>2, <2>1, <2>2
<1>3. CASE nodes' # nodes
  <2>1. ~UNCHANGED vars
    BY <1>3 DEF vars, system
  <2>2. Environment => Vanish \/ \E p \in Partitions : Appear(p)
    BY <1>3 DEF Environment, Plug, Pull, Open, Close
  <2>3. ~TaskStep /\ ~Eject /\ ~UmountStep("ui")
    BY <1>3 DEF TaskStep, Watch, Again, Settle, Gone, SetMounted, SetMountFailed, Scan,
                MakeDir, MountSlot, MountRefused, Store, UmountStep, Umount, Detach, Look,
                RemoveDir, Finish, Eject, system
  <2> QED BY <1>2, <2>1, <2>2, <2>3 DEF Next
<1> QED BY <1>1, <1>3

LEMMA ListingType ==
  ASSUME Typed
  PROVE  Listing \in [Slots -> Names] /\ Len(nodes) \in 0 .. Cardinality(Partitions)
<1>1. nodes \in Seq(Partitions) /\ Len(nodes) \in Nat /\ Len(nodes) <= Cardinality(Partitions)
  BY DEF Typed, TypeOK
<1>2. ASSUME NEW i \in Slots PROVE Listing[i] \in Names
  BY <1>1, <1>2 DEF Listing, Slots, Names
<1> QED BY <1>1, <1>2, Constants DEF Listing

\* The types but those of mnt and nodes.
Rest ==
  /\ disks \subseteq Disks /\ plugs \in 0 .. MaxPlugs
  /\ status \in Waiting \cup Present \cup {"unmounted"}
  /\ names \in [Slots -> Names] /\ table \in [Slots -> Names]
  /\ dirs \subseteq Slots /\ dev \in Names /\ dir \in [Threads -> BOOLEAN]
  /\ count \in 0 .. Cardinality(Partitions)
  /\ pc \in [Threads -> Points]
  /\ at \in [Threads -> Nat \ {0}] /\ failed \in [Threads -> BOOLEAN]
  /\ try \in 1 .. Tries /\ success \in Nat /\ ret \in {"loop", "failed"}
  /\ erased \subseteq Partitions
  /\ trouble \subseteq {"busy", "refused", "retry", "shifted", "both"}
  /\ calm \in BOOLEAN

LEMMA RestStep ==
  ASSUME Typed, Placed, [Next]_vars
  PROVE  Rest'
<1> USE DEF system, shared, tables, locals, history, Goto, Rewind
<1>0. Rest /\ "task" \in Threads /\ "ui" \in Threads /\ Empty \in [Slots -> Names]
  BY DEF Rest, Typed, TypeOK, Threads, Empty, Names
<1>c. Tries \in Nat \ {0} /\ MaxPlugs \in Nat /\ Cardinality(Partitions) \in Nat
      /\ None \in Names
  BY Constants DEF Names
<1>p. {"loop", "scan", "mount", "attach", "store", "mounted", "failed", "again", "settle",
       "gone", "idle", "umount", "detach", "look", "remove", "finish"} \subseteq Points
  BY DEF Points
<1>1. CASE UNCHANGED vars
  BY <1>0, <1>1 DEF vars, Rest
<1>2. CASE Environment
  <2>1. ASSUME NEW k \in Disks, Plug(k) \/ Pull(k) PROVE Rest'
    <3>1. disks' \subseteq Disks /\ plugs' \in 0 .. MaxPlugs
      BY <1>0, <1>c, <2>1 DEF Plug, Pull, Rest
    <3>2. calm' \in BOOLEAN
      BY <1>0, <2>1, Zenon DEF Plug, Pull, Rest
    <3>3. UNCHANGED <<shared, pc, locals, erased, trouble>>
      BY <2>1 DEF Plug, Pull
    <3> QED BY <1>0, <3>1, <3>2, <3>3 DEF Rest
  <2>2. CASE Vanish \/ (\E p \in Partitions : Appear(p)) \/ \E d \in Slots : Open(d) \/ Close(d)
    BY <1>0, <2>2 DEF Vanish, Appear, Open, Close, Rest
  <2> QED BY <1>2, <2>1, <2>2 DEF Environment
<1>3. CASE Eject
  BY <1>0, <1>3, <1>p DEF Eject, Rest
<1>b. \A x \in Threads : (at[x] \in dirs) \in BOOLEAN
  OBVIOUS
<1>4. ASSUME NEW x \in Threads, Umount(x) \/ Look(x) PROVE Rest'
  <2>1. pc' \in [Threads -> Points]
    BY <1>0, <1>4, <1>p DEF Umount, Look, Rest
  <2>2. dir' \in [Threads -> BOOLEAN] /\ calm' \in BOOLEAN
    BY <1>0, <1>4, <1>b, Zenon DEF Umount, Look, Rest
  <2>3. UNCHANGED <<system, shared, at, dev, failed, try, success, ret, erased, trouble>>
    BY <1>4 DEF Umount, Look
  <2> QED BY <1>0, <2>1, <2>2, <2>3 DEF Rest
<1>d. ASSUME NEW x \in Threads, Detach(x) PROVE Rest'
  BY <1>0, <1>d, <1>p DEF Detach, Rest
<1>5. ASSUME NEW x \in Threads, RemoveDir(x) PROVE Rest'
  <2>1. at[x] \in Slots /\ at[x] \in Nat
    BY <1>5, <1>0 DEF RemoveDir, Placed, Removing, Rest
  <2>2. ~Bare(at[x]) => Last(mnt[at[x]]).part \in Partitions
    <3>1. mnt[at[x]] \in Seq(Layers)
      BY <2>1 DEF Typed, TypeOK
    <3> QED BY <3>1, Stack DEF Bare
  <2>3. erased' \subseteq Partitions
    BY <1>0, <1>5, <2>2 DEF RemoveDir, Rest
  <2>4. failed' \in [Threads -> BOOLEAN] /\ dir' \in [Threads -> BOOLEAN]
    <3>1. failed' = [failed EXCEPT ![x] = dir[x] /\ ~Bare(at[x])]
          /\ dir' = [dir EXCEPT ![x] = FALSE]
      BY <1>5 DEF RemoveDir
    <3>2. (dir[x] /\ ~Bare(at[x])) \in BOOLEAN
      OBVIOUS
    <3> QED BY <1>0, <3>1, <3>2, Zenon DEF Rest
  <2>5. at' \in [Threads -> Nat \ {0}]
    BY <1>0, <1>5, <2>1 DEF RemoveDir, Rest
  <2>6. pc' = [pc EXCEPT ![x] = "umount"]
        /\ UNCHANGED <<system, shared, dev, try, success, ret, trouble, calm>>
    BY <1>5 DEF RemoveDir
  <2> QED BY <1>0, <1>p, <2>3, <2>4, <2>5, <2>6 DEF Rest
<1>6. ASSUME NEW x \in Threads, Finish(x) PROVE Rest'
  <2>1. ret \in {"loop", "failed"}
    BY <1>0 DEF Rest
  <2>2. (IF x = "ui" THEN "idle" ELSE ret) \in Points
    BY <2>1, <1>p
  <2>3. failed' \in [Threads -> BOOLEAN] /\ calm' \in BOOLEAN
    BY <1>0, <1>6, Zenon DEF Finish, Rest
  <2> QED BY <1>0, <1>6, <2>2, <2>3 DEF Finish, Rest
<1>7. CASE Watch \/ Again
  <2>1. /\ status' \in {status, "disconnect"}
        /\ pc' = pc \/ \E q \in {"again", "gone", "settle", "loop"} :
             pc' = [pc EXCEPT !["task"] = q]
        /\ UNCHANGED <<system, tables, locals, history>>
    BY <1>7 DEF Watch, Again
  <2>2. pc' \in [Threads -> Points]
    <3>1. {"again", "gone", "settle", "loop", "scan", "umount"} \subseteq Points
      BY DEF Points
    <3>2. pc \in [Threads -> Points]
      BY <1>0 DEF Rest
    <3> QED BY <2>1, <3>1, <3>2
  <2>3. status' \in Waiting \cup Present \cup {"unmounted"}
    BY <1>0, <2>1 DEF Rest, Waiting
  <2> QED BY <1>0, <2>1, <2>2, <2>3 DEF Rest
<1>8. CASE Settle \/ Gone
  <2>1. /\ status' \in {status, "connected", "disconnect"} /\ ret' \in {ret, "loop"}
        /\ \E q \in {"scan", "umount", "loop"} : pc' = [pc EXCEPT !["task"] = q]
        /\ trouble' \subseteq trouble \cup {"both"}
        /\ UNCHANGED <<system, tables, at, dev, dir, failed, try, success, erased>>
    BY <1>8 DEF Settle, Gone, Meet
  <2>2. calm' \in BOOLEAN
    <3>1. Umounting("ui") \in BOOLEAN
      BY DEF Umounting
    <3> QED BY <1>0, <1>8, <3>1, Zenon DEF Settle, Gone, Rest
  <2>3. pc' \in [Threads -> Points]
    <3>1. {"again", "gone", "settle", "loop", "scan", "umount"} \subseteq Points
      BY DEF Points
    <3>2. pc \in [Threads -> Points]
      BY <1>0 DEF Rest
    <3> QED BY <2>1, <3>1, <3>2
  <2>4. status' \in Waiting \cup Present \cup {"unmounted"} /\ ret' \in {"loop", "failed"}
    BY <1>0, <2>1 DEF Rest, Waiting, Present
  <2>5. trouble' \subseteq {"busy", "refused", "retry", "shifted", "both"}
    BY <1>0, <2>1 DEF Rest
  <2> QED BY <1>0, <2>1, <2>2, <2>3, <2>4, <2>5 DEF Rest
<1>9. CASE SetMounted \/ SetMountFailed
  <2>1. calm' \in BOOLEAN
    BY <1>0, <1>9, Zenon DEF SetMounted, SetMountFailed, Rest
  <2>2. /\ status' \in Waiting \cup Present /\ try' = 1 /\ success' = 0
        /\ ret' \in {"loop", "failed"} /\ trouble' = trouble /\ erased' = erased
    BY <1>0, <1>9 DEF SetMounted, SetMountFailed, Rest, Waiting, Present
  <2>3. at' \in [Threads -> Nat \ {0}] /\ pc' = [pc EXCEPT !["task"] = "loop"]
    BY <1>0, <1>9 DEF SetMounted, SetMountFailed, Rest
  <2>4. UNCHANGED <<system, tables, dev, dir, failed>>
    BY <1>9 DEF SetMounted, SetMountFailed
  <2> QED BY <1>0, <1>c, <1>p, <2>1, <2>2, <2>3, <2>4 DEF Rest
<1>10. ASSUME NEW from \in {"scan", "attach", "store"}, NextTry(from)
       PROVE  /\ try' \in 1 .. Tries /\ ret' \in {"loop", "failed"}
              /\ at' \in [Threads -> Nat \ {0}] /\ pc' \in [Threads -> Points]
  BY <1>0, <1>c, <1>p, <1>10 DEF NextTry, Rest
<1>11. CASE Scan
  <2>1. /\ names' = Listing /\ count' = Len(nodes) /\ table' = Empty /\ dirs' = {}
        /\ UNCHANGED <<system, status, dev, dir, failed, success, erased, calm>>
    BY <1>11 DEF Scan
  <2>2. trouble' \subseteq {"busy", "refused", "retry", "shifted", "both"}
    BY <1>0, <1>11 DEF Scan, Rest
  <2>3. CASE NextTry("scan")
    BY <1>0, <1>10, <2>1, <2>2, <2>3, ListingType DEF Rest
  <2>4. CASE ~NextTry("scan")
    <3>1. pc' = [pc EXCEPT !["task"] = "mount"] /\ UNCHANGED <<at, try, ret>>
      BY <1>11, <2>4 DEF Scan
    <3> QED BY <1>0, <1>p, <2>1, <2>2, <3>1, ListingType DEF Rest
  <2> QED BY <2>3, <2>4
<1>12. ASSUME NEW from \in {"attach", "store"}, Advance(from)
       PROVE  /\ try' \in 1 .. Tries /\ ret' \in {"loop", "failed"}
              /\ at' \in [Threads -> Nat \ {0}] /\ pc' \in [Threads -> Points]
  <2>1. CASE NextTry(from)
    BY <1>10, <2>1
  <2>2. CASE ~NextTry(from)
    BY <1>0, <1>12, <1>p, <2>2 DEF Advance, Rest
  <2> QED BY <2>1, <2>2
<1>13. CASE MountRefused
  BY <1>0, <1>c, <1>12, <1>13 DEF MountRefused, Rest
<1>14. CASE MakeDir
  <2>1. at["task"] \in Slots
    BY <1>14, <1>0, Constants DEF MakeDir, Placed, Visiting, Rest, Slots
  <2>2. dev' \in Names
    BY <1>0, <1>14, <2>1 DEF MakeDir, Rest
  <2> QED BY <1>0, <1>14, <1>p, <2>2 DEF MakeDir, Rest
<1>15. CASE MountSlot
  BY <1>0, <1>15, <1>p DEF MountSlot, Rest
<1>16. CASE Store
  <2>1. at["task"] \in Slots
    BY <1>16, <1>0, Constants DEF Store, Advance, NextTry, Placed, Visiting, Rest, Slots
  <2>2. /\ table' = [table EXCEPT ![at["task"]] = names[at["task"]]]
        /\ dirs' = dirs \cup {at["task"]} /\ success' = success + 1 /\ dev' = None
        /\ UNCHANGED <<system, status, names, count, dir, failed, history>>
    BY <1>16 DEF Store, Label
  <2>3. /\ table' \in [Slots -> Names] /\ success' \in Nat
        /\ dirs' \subseteq Slots /\ dev' \in Names
    BY <1>0, <1>c, <2>1, <2>2 DEF Rest
  <2>4. CASE Advance("store")
    BY <1>0, <1>12, <2>2, <2>3, <2>4 DEF Rest
  <2>5. CASE ~Advance("store")
    BY <1>0, <1>16, <1>p, <2>2, <2>3, <2>5 DEF Store, Rest
  <2> QED BY <2>4, <2>5
<1>17. ASSUME NEW x \in Threads, UmountStep(x) PROVE Rest'
  BY <1>4, <1>d, <1>5, <1>6, <1>17 DEF UmountStep
<1>18. CASE TaskStep
  BY <1>0, <1>7, <1>8, <1>9, <1>11, <1>13, <1>14, <1>15, <1>16, <1>17, <1>18 DEF TaskStep
<1> QED BY <1>0, <1>1, <1>2, <1>3, <1>17, <1>18 DEF Next

LEMMA TypeStep ==
  ASSUME Typed, Placed, [Next]_vars
  PROVE  Typed'
BY MntStep, NamesStep, RestStep DEF Rest, Typed, TypeOK

-----------------------------------------------------------------------------
(* Where the two are, and what keeps them apart. *)

\* The steps of the world outside and of the loops that leave the control.
Outside ==
  UNCHANGED <<status, names, count, table, dirs, pc, at, dev, dir, failed, try,
              success, ret>>

LEMMA EnvironmentOutside == Environment => Outside
BY DEF Environment, Plug, Pull, Vanish, Appear, Open, Close, Outside, shared, tables,
   locals, history

LEMMA PlacedStep ==
  ASSUME Typed, Placed, [Next]_vars
  PROVE  Placed'
<1> USE DEF system, shared, tables, locals, history, Goto, Rewind, Threads
<1>0. /\ pc \in [Threads -> Points]
      /\ at \in [Threads -> Nat \ {0}] /\ count \in 0 .. Cardinality(Partitions)
      /\ ret \in {"loop", "failed"} /\ Cardinality(Partitions) \in Nat
  BY Constants DEF Typed, TypeOK
<1> USE DEF Resting, Umounting, Visiting, Removing
<1>1. CASE UNCHANGED vars \/ Environment
  <2>1. Outside
    BY <1>1, EnvironmentOutside DEF vars, Outside
  <2> QED BY <2>1 DEF Outside, Placed
<1>2. CASE Eject
  BY <1>0, <1>2 DEF Eject, Placed
<1>3. ASSUME NEW x \in Threads, Umount(x) PROVE Placed'
  <2>1. ~Past(at[x]) => at[x] \in Slots
    BY <1>0 DEF Past, Slots
  <2>2. pc' = [pc EXCEPT ![x] = IF Past(at[x]) THEN "finish" ELSE "detach"] /\ pc[x] = "umount"
        /\ UNCHANGED <<at, count, ret, success>>
    BY <1>3 DEF Umount
  <2> QED BY <1>0, <2>1, <2>2 DEF Placed
<1>d. ASSUME NEW x \in Threads, Detach(x) \/ Look(x) PROVE Placed'
  <2>1. /\ \/ pc[x] = "detach" /\ pc' = [pc EXCEPT ![x] = "look"]
           \/ pc[x] = "look" /\ pc' = [pc EXCEPT ![x] = "remove"]
        /\ UNCHANGED <<at, count, ret, success>>
    BY <1>d DEF Detach, Look
  <2> QED BY <1>0, <2>1 DEF Placed
<1>4. ASSUME NEW x \in Threads, RemoveDir(x) PROVE Placed'
  <2>1. /\ pc[x] = "remove" /\ pc' = [pc EXCEPT ![x] = "umount"]
        /\ at' = [at EXCEPT ![x] = at[x] + 1] /\ UNCHANGED <<count, ret, success>>
    BY <1>4 DEF RemoveDir
  <2> QED BY <1>0, <2>1 DEF Placed
<1>5. ASSUME NEW x \in Threads, Finish(x) PROVE Placed'
  BY <1>0, <1>5 DEF Finish, Placed
<1>6. CASE Watch \/ Again
  BY <1>0, <1>6 DEF Watch, Again, Placed
<1>7. CASE Settle \/ Gone
  BY <1>0, <1>7 DEF Settle, Gone, Placed
<1>8. CASE SetMounted \/ SetMountFailed
  BY <1>0, <1>8 DEF SetMounted, SetMountFailed, Placed
<1>9. ASSUME NEW from \in {"scan", "attach", "store"}, NextTry(from)
      PROVE  /\ pc["task"] = from /\ (pc' = [pc EXCEPT !["task"] = "scan"]
                \/ (pc' = [pc EXCEPT !["task"] = "umount"] /\ ret' = "failed"))
             /\ at' = [at EXCEPT !["task"] = 1]
  BY <1>9 DEF NextTry
<1>10. CASE Scan
  <2>1. CASE NextTry("scan")
    BY <1>0, <1>9, <2>1 DEF Placed
  <2>2. CASE ~NextTry("scan")
    <3>1. nodes # <<>> /\ pc["task"] = "scan" /\ pc' = [pc EXCEPT !["task"] = "mount"]
          /\ count' = Len(nodes) /\ UNCHANGED <<at, ret, success>>
      BY <1>10, <2>2 DEF Scan
    <3>2. 1 <= Len(nodes)
      BY <3>1 DEF Typed, TypeOK
    <3> QED BY <1>0, <3>1, <3>2 DEF Placed
  <2> QED BY <2>1, <2>2
<1>11. CASE MakeDir \/ MountSlot
  <2>1. /\ \/ pc["task"] = "mount" /\ pc' = [pc EXCEPT !["task"] = "attach"]
           \/ pc["task"] = "attach" /\ pc' = [pc EXCEPT !["task"] = "store"]
        /\ UNCHANGED <<at, count, ret, success>>
    BY <1>11 DEF MakeDir, MountSlot
  <2> QED BY <1>0, <2>1 DEF Placed
<1>m. CASE MountRefused \/ Store
  <2>0. PICK from \in {"attach", "store"} :
          /\ pc["task"] = from /\ count' = count
          /\ \/ Advance(from)
             \/ pc' = [pc EXCEPT !["task"] = "mounted"] /\ UNCHANGED <<at, ret>>
    <3>1. CASE MountRefused
      BY <3>1 DEF MountRefused
    <3>2. CASE Store
      BY <3>2 DEF Store
    <3> QED BY <1>m, <3>1, <3>2
  <2>1. CASE NextTry(from)
    BY <1>0, <1>9, <2>0, <2>1 DEF Placed
  <2>2. CASE ~NextTry(from) /\ Advance(from)
    <3>1. /\ pc["task"] = from /\ at["task"] < count /\ at' = [at EXCEPT !["task"] = at["task"] + 1]
          /\ pc' = [pc EXCEPT !["task"] = "mount"] /\ UNCHANGED <<try, ret>>
      BY <2>2 DEF Advance
    <3> QED BY <1>0, <2>0, <3>1 DEF Placed
  <2>3. CASE ~Advance(from)
    BY <1>0, <2>0, <2>3 DEF Placed
  <2> QED BY <2>1, <2>2, <2>3
<1>12. ASSUME NEW x \in Threads, UmountStep(x) PROVE Placed'
  BY <1>3, <1>d, <1>4, <1>5, <1>12 DEF UmountStep
<1> QED BY <1>1, <1>2, <1>6, <1>7, <1>8, <1>10, <1>11, <1>m, <1>12 DEF Next, TaskStep

LEMMA ApartStep ==
  ASSUME Typed, Placed, Apart, [Next]_vars
  PROVE  Apart'
<1> USE DEF system, shared, tables, locals, history, Goto, Rewind, Threads
<1>0. /\ pc \in [Threads -> Points]
      /\ pc["task"] # "idle"
      /\ ret \in {"loop", "failed"}
  BY DEF Typed, TypeOK, Placed
<1>t. Next => trouble \subseteq trouble'
  BY Growing
<1> USE DEF Mounting, Umounting, Visiting
<1>1. CASE UNCHANGED vars
  BY <1>1 DEF vars, Apart
<1>2. CASE Environment
  <2>1. Outside
    BY <1>2, EnvironmentOutside
  <2>2. trouble' = trouble
    BY <1>2 DEF Environment, Plug, Pull, Vanish, Appear, Open, Close
  <2> QED BY <2>1, <2>2 DEF Outside, Apart
<1>3. CASE Eject
  BY <1>0, <1>3 DEF Eject, Apart
<1>4. ASSUME NEW x \in Threads, Umount(x) \/ Detach(x) \/ Look(x) \/ RemoveDir(x), Next
      PROVE  Apart'
  <2>1. PICK point \in {"finish", "detach", "look", "remove", "umount"} :
          pc' = [pc EXCEPT ![x] = point]
    BY <1>4 DEF Umount, Detach, Look, RemoveDir
  <2>2. Umounting(x) /\ status' = status
    BY <1>4 DEF Umount, Detach, Look, RemoveDir
  <2>3. CASE x = "ui"
    BY <1>0, <1>t, <1>4, <2>1, <2>2, <2>3 DEF Apart
  <2>4. CASE x = "task"
    BY <1>0, <1>t, <1>4, <2>1, <2>2, <2>4 DEF Apart
  <2> QED BY <2>3, <2>4
<1>5. ASSUME NEW x \in Threads, Finish(x) PROVE Apart'
  BY <1>0, <1>5 DEF Finish, Apart
<1>6. CASE Watch \/ Again
  BY <1>0, <1>6 DEF Watch, Again, Apart
<1>7. CASE Settle \/ Gone
  BY <1>0, <1>7 DEF Settle, Gone, Meet, Apart
<1>8. CASE SetMounted \/ SetMountFailed
  BY <1>0, <1>8 DEF SetMounted, SetMountFailed, Apart
<1>9. CASE Scan /\ Next
  <2>1. /\ pc["task"] = "scan" /\ status' = status /\ pc'["ui"] = pc["ui"]
        /\ pc'["task"] \in {"scan", "mount", "umount"}
    BY <1>0, <1>9 DEF Scan, NextTry
  <2> QED BY <1>9, <1>t, <2>1 DEF Apart
<1>m. CASE (MakeDir \/ MountSlot \/ MountRefused \/ Store) /\ Next
  <2>1. /\ pc["task"] \in {"mount", "attach", "store"} /\ status' = status /\ pc'["ui"] = pc["ui"]
        /\ pc'["task"] \in {"scan", "mount", "attach", "store", "mounted", "umount"}
    BY <1>0, <1>m DEF MakeDir, MountRefused, MountSlot, Store, Advance, NextTry
  <2> QED BY <1>m, <1>t, <2>1 DEF Apart
<1>10. ASSUME NEW x \in Threads, UmountStep(x), Next PROVE Apart'
  BY <1>4, <1>5, <1>10 DEF UmountStep
<1> QED BY <1>1, <1>2, <1>3, <1>6, <1>7, <1>8, <1>9, <1>m, <1>10 DEF Next, TaskStep

-----------------------------------------------------------------------------
(* The table. *)

\* What a step other than a mount, an umount, a listing or a return leaves.
LEMMA TableKept ==
  ASSUME Next, ~Scan, ~Store, \A x \in Threads : ~Finish(x)
  PROVE  names' = names /\ count' = count /\ table' = table /\ dirs' = dirs
<1> USE DEF shared, tables
<1>1. CASE Environment
  BY <1>1, EnvironmentOutside DEF Outside
<1>2. ASSUME NEW x \in Threads, UmountStep(x)
      PROVE  names' = names /\ count' = count /\ table' = table /\ dirs' = dirs
  BY <1>2 DEF UmountStep, Umount, Detach, Look, RemoveDir
<1>3. CASE TaskStep
  BY <1>2, <1>3 DEF TaskStep, Threads, Watch, Again, Settle, Gone, SetMounted,
     SetMountFailed, MakeDir, MountSlot, MountRefused
<1>4. CASE Eject
  BY <1>4 DEF Eject
<1> QED BY <1>1, <1>2, <1>3, <1>4 DEF Next, Threads

\* Who is unmounting after a step was before, or begins to.
LEMMA UmountingBefore ==
  ASSUME Typed, Placed, Next, NEW x \in Threads, Umounting(x), ~Finish(x)
  PROVE  Umounting(x)'
<1> USE DEF Goto, Threads, system, shared, tables, locals, history, Umounting
<1>0. pc \in [Threads -> Points]
  BY DEF Typed, TypeOK
<1>1. CASE Environment
  BY <1>1, EnvironmentOutside DEF Outside
<1>2. ASSUME NEW y \in Threads, UmountStep(y) PROVE Umounting(x)'
  <2>1. CASE Finish(y)
    <3>1. x # y
      BY <2>1
    <3> QED BY <1>0, <2>1, <3>1 DEF Finish
  <2>2. CASE ~Finish(y)
    <3>1. PICK point \in {"finish", "detach", "look", "remove", "umount"} :
            pc' = [pc EXCEPT ![y] = point]
      BY <1>2, <2>2 DEF UmountStep, Umount, Detach, Look, RemoveDir
    <3> QED BY <1>0, <3>1
  <2> QED BY <2>1, <2>2
<1>3. CASE Eject
  BY <1>0, <1>3 DEF Eject
<1>4. CASE TaskStep /\ ~UmountStep("task")
  <2>1. x # "task" /\ pc'["ui"] = pc["ui"]
    BY <1>0, <1>4 DEF TaskStep, Watch, Again, Settle, Gone, SetMounted, SetMountFailed, Scan,
       MakeDir, MountSlot, MountRefused, Store, Advance, NextTry
  <2> QED BY <2>1
<1> QED BY <1>1, <1>2, <1>3, <1>4 DEF Next

\* How the two come to the places the invariants speak of.
LEMMA Control ==
  ASSUME Typed, Placed, Next
  PROVE  /\ pc'["task"] = "mount" =>
              \/ Scan \/ ((MountRefused \/ Store) /\ at'["task"] = at["task"] + 1)
              \/ pc["task"] = "mount" /\ at'["task"] = at["task"]
         /\ pc'["task"] = "attach" =>
              MakeDir \/ (pc["task"] = "attach" /\ at'["task"] = at["task"] /\ dev' = dev)
         /\ pc'["task"] = "store" =>
              MountSlot \/ (pc["task"] = "store" /\ at'["task"] = at["task"] /\ dev' = dev)
         /\ \A x \in Threads :
              /\ pc'[x] = "umount" => \/ RemoveDir(x) \/ at'[x] = 1
                                      \/ pc[x] = "umount" /\ at'[x] = at[x]
              /\ pc'[x] = "detach" =>
                   Umount(x) \/ (pc[x] = "detach" /\ at'[x] = at[x] /\ dir'[x] = dir[x])
              /\ pc'[x] = "look" => Detach(x) \/ (pc[x] = "look" /\ at'[x] = at[x])
              /\ pc'[x] = "remove" =>
                   Look(x) \/ (pc[x] = "remove" /\ at'[x] = at[x] /\ dir'[x] = dir[x])
              /\ pc'[x] = "finish" => Umount(x) \/ pc[x] = "finish"
<1> USE DEF system, shared, tables, locals, history, Goto, Rewind, Threads
<1>0. /\ pc \in [Threads -> Points] /\ dir \in [Threads -> BOOLEAN]
      /\ at \in [Threads -> Nat \ {0}] /\ ret \in {"loop", "failed"}
  BY DEF Typed, TypeOK
<1> DEFINE Task ==
        /\ pc'["task"] = "mount" =>
             \/ Scan \/ ((MountRefused \/ Store) /\ at'["task"] = at["task"] + 1)
             \/ pc["task"] = "mount" /\ at'["task"] = at["task"]
        /\ pc'["task"] = "attach" =>
             MakeDir \/ (pc["task"] = "attach" /\ at'["task"] = at["task"] /\ dev' = dev)
        /\ pc'["task"] = "store" =>
             MountSlot \/ (pc["task"] = "store" /\ at'["task"] = at["task"] /\ dev' = dev)
      Both(x) ==
        /\ pc'[x] = "umount" => \/ RemoveDir(x) \/ at'[x] = 1
                                \/ pc[x] = "umount" /\ at'[x] = at[x]
        /\ pc'[x] = "detach" =>
             Umount(x) \/ (pc[x] = "detach" /\ at'[x] = at[x] /\ dir'[x] = dir[x])
        /\ pc'[x] = "look" => Detach(x) \/ (pc[x] = "look" /\ at'[x] = at[x])
        /\ pc'[x] = "remove" =>
             Look(x) \/ (pc[x] = "remove" /\ at'[x] = at[x] /\ dir'[x] = dir[x])
        /\ pc'[x] = "finish" => Umount(x) \/ pc[x] = "finish"
      Goal == Task /\ \A x \in Threads : Both(x)
<1>k. ASSUME NEW x \in Threads, pc'[x] = pc[x], at'[x] = at[x], dir'[x] = dir[x] PROVE Both(x)
  BY <1>k
<1>t. ASSUME pc'["task"] = pc["task"], at'["task"] = at["task"], dev' = dev PROVE Task
  BY <1>t
<1>1. CASE Environment
  <2>1. pc' = pc /\ at' = at /\ dir' = dir /\ dev' = dev
    BY <1>1, EnvironmentOutside DEF Outside
  <2> HIDE DEF Task, Both
  <2> QED BY <1>k, <1>t, <2>1
<1>2. CASE Eject
  <2>1. /\ pc' = [pc EXCEPT !["ui"] = "umount"] /\ at' = at /\ at["ui"] = 1
        /\ dir' = dir /\ dev' = dev
    BY <1>2 DEF Eject, Placed
  <2>2. ASSUME NEW x \in Threads, x = "ui" PROVE Both(x)
    BY <1>0, <2>1, <2>2
  <2>3. pc'["task"] = pc["task"]
    BY <1>0, <2>1
  <2>4. ASSUME NEW x \in Threads, x # "ui" PROVE pc'[x] = pc[x] /\ at'[x] = at[x] /\ dir'[x] = dir[x]
    BY <2>1, <2>3, <2>4
  <2>5. Task
    BY <1>t, <2>1, <2>3
  <2>6. ASSUME NEW x \in Threads PROVE Both(x)
    <3>1. CASE x = "ui"
      BY <2>2, <3>1
    <3>2. CASE x # "ui"
      BY <1>k, <2>4, <3>2
    <3> QED BY <3>1, <3>2
  <2> QED BY <2>5, <2>6
<1>3. ASSUME NEW y \in Threads, UmountStep(y) PROVE Goal
  <2>1. Both(y)
    <3>1. CASE Umount(y)
      BY <1>0, <3>1 DEF Umount
    <3>2. CASE Detach(y)
      BY <1>0, <3>2 DEF Detach
    <3>3. CASE Look(y)
      BY <1>0, <3>3 DEF Look
    <3>4. CASE RemoveDir(y)
      BY <1>0, <3>4 DEF RemoveDir
    <3>5. CASE Finish(y)
      <4>1. pc' = [pc EXCEPT ![y] = IF y = "ui" THEN "idle" ELSE ret]
            /\ at' = [at EXCEPT ![y] = 1]
        BY <3>5 DEF Finish
      <4> QED BY <1>0, <4>1
    <3> QED BY <1>3, <3>1, <3>2, <3>3, <3>4, <3>5 DEF UmountStep
  <2>2. ASSUME NEW x \in Threads, x # y
        PROVE  pc'[x] = pc[x] /\ at'[x] = at[x] /\ dir'[x] = dir[x]
    BY <1>0, <1>3, <2>2 DEF UmountStep, Umount, Detach, Look, RemoveDir, Finish
  <2>3. dev' = dev
    BY <1>3 DEF UmountStep, Umount, Detach, Look, RemoveDir, Finish
  <2>4. y = "task" => pc'["task"] \in {"umount", "detach", "look", "remove", "finish", "loop", "failed"}
    BY <1>0, <1>3 DEF UmountStep, Umount, Detach, Look, RemoveDir, Finish
  <2>5. CASE y = "task"
    <3>1. Task
      BY <2>4, <2>5
    <3> HIDE DEF Task, Both
    <3> QED BY <1>k, <2>1, <2>2, <2>5, <3>1
  <2>6. CASE y = "ui"
    <3> HIDE DEF Task, Both
    <3> QED BY <1>k, <1>t, <2>1, <2>2, <2>3, <2>6
  <2> QED BY <2>5, <2>6
<1>4. CASE TaskStep /\ ~UmountStep("task")
  <2>1. pc'["ui"] = pc["ui"] /\ at'["ui"] = at["ui"] /\ dir' = dir
    BY <1>0, <1>4 DEF TaskStep, Watch, Again, Settle, Gone, SetMounted, SetMountFailed, Scan,
       MakeDir, MountSlot, MountRefused, Store, Advance, NextTry
  <2>2. pc'["task"] \notin {"detach", "look", "remove", "finish"}
    BY <1>0, <1>4 DEF TaskStep, Watch, Again, Settle, Gone, SetMounted, SetMountFailed, Scan,
       MakeDir, MountSlot, MountRefused, Store, Advance, NextTry
  <2>3. pc'["task"] = "umount" => at'["task"] = 1
    <3>1. CASE Gone
      BY <1>0, <3>1 DEF Gone, Placed, Resting
    <3>2. CASE Scan \/ MountRefused \/ Store
      BY <1>0, <3>2 DEF Scan, MountRefused, Store, Advance, NextTry
    <3>3. CASE Watch \/ Again \/ Settle \/ SetMounted \/ SetMountFailed \/ MakeDir \/ MountSlot
      BY <1>0, <3>3 DEF Watch, Again, Settle, SetMounted, SetMountFailed, MakeDir, MountSlot
    <3> QED BY <1>4, <3>1, <3>2, <3>3 DEF TaskStep
  <2>4. Task
    <3>1. CASE MountRefused \/ Store
      <4>1. /\ pc'["task"] \notin {"attach", "store"}
            /\ pc'["task"] = "mount" => at'["task"] = at["task"] + 1
        BY <1>0, <3>1 DEF MountRefused, Store, Advance, NextTry
      <4> QED BY <3>1, <4>1
    <3>2. CASE Scan \/ MakeDir \/ MountSlot
      <4>1. /\ pc'["task"] = "mount" => Scan
            /\ pc'["task"] = "attach" => MakeDir
            /\ pc'["task"] = "store" => MountSlot
        BY <1>0, <3>2 DEF Scan, MakeDir, MountSlot, NextTry
      <4> QED BY <4>1
    <3>3. CASE Watch \/ Again \/ Settle \/ Gone \/ SetMounted \/ SetMountFailed
      <4>1. pc'["task"] \notin {"mount", "attach", "store"}
        BY <1>0, <3>3 DEF Watch, Again, Settle, Gone, SetMounted, SetMountFailed
      <4> QED BY <4>1
    <3> QED BY <1>4, <3>1, <3>2, <3>3 DEF TaskStep
  <2>5. ASSUME NEW x \in Threads, x = "task" PROVE Both(x)
    BY <2>2, <2>3, <2>5
  <2>6. ASSUME NEW x \in Threads, x # "task" PROVE pc'[x] = pc[x] /\ at'[x] = at[x] /\ dir'[x] = dir[x]
    BY <2>1, <2>6
  <2>7. ASSUME NEW x \in Threads PROVE Both(x)
    <3>1. CASE x = "task"
      BY <2>5, <3>1
    <3>2. CASE x # "task"
      BY <1>k, <2>6, <3>2
    <3> QED BY <3>1, <3>2
  <2> QED BY <2>4, <2>7
<1> QED BY <1>1, <1>2, <1>3, <1>4 DEF Next

LEMMA MountTop ==
  ASSUME Typed, Placed, MountSlot
  PROVE  \E d \in Slots :
           /\ d = at["task"] /\ dev \in Partitions /\ d <= count /\ ~Shows(d, dev)
           /\ Len(mnt[d]) \in Nat /\ Len(mnt'[d]) = Len(mnt[d]) + 1 /\ mnt'[d] # <<>>
           /\ Last(mnt'[d]) = [part |-> dev, live |-> TRUE, used |-> FALSE]
           /\ mnt'[d][Len(mnt[d]) + 1] = [part |-> dev, live |-> TRUE, used |-> FALSE]
           /\ \A i \in 1 .. Len(mnt[d]) : mnt'[d][i] = mnt[d][i]
           /\ \A q \in Slots \ {d} : mnt'[q] = mnt[q]
<1>1. PICK d : d = at["task"]
  OBVIOUS
<1>2. d \in Slots /\ dev \in Partitions /\ d <= count /\ Pushed(d, dev) /\ mnt' \in [Slots -> Seq(Layers)]
  BY <1>1, MountPushes
<1>3. ~Bare(d)' /\ Last(mnt'[d]) = [part |-> dev, live |-> TRUE, used |-> FALSE]
  BY <1>2, TopPushed
<1>4. ~Shows(d, dev)
  BY <1>1 DEF MountSlot, Mountable
<1>5. Len(mnt[d]) \in Nat
  BY <1>2 DEF Typed, TypeOK
<1> QED BY <1>1, <1>2, <1>3, <1>4, <1>5 DEF Pushed, Bare

LEMMA DetachTop ==
  ASSUME Typed, Placed, NEW x \in Threads, Detach(x), mnt' # mnt
  PROVE  \E d \in Slots :
           /\ d = at[x] /\ ~Bare(d) /\ pc' = [pc EXCEPT ![x] = "look"]
           /\ Len(mnt[d]) \in Nat \ {0} /\ Len(mnt'[d]) = Len(mnt[d]) - 1
           /\ Len(mnt[d]) = 1 => mnt'[d] = <<>>
           /\ Len(mnt[d]) > 1 => Last(mnt'[d]) = mnt[d][Len(mnt[d]) - 1]
           /\ \A i \in 1 .. Len(mnt[d]) - 1 : mnt'[d][i] = mnt[d][i]
           /\ \A q \in Slots \ {d} : mnt'[q] = mnt[q]
<1>1. PICK d : d = at[x]
  OBVIOUS
<1>2. d \in Slots /\ Popping(d) /\ mnt' \in [Slots -> Seq(Layers)]
      /\ pc' = [pc EXCEPT ![x] = "look"]
  BY <1>1, DetachPops
<1>3. mnt[d] \in Seq(Layers) /\ mnt'[d] \in Seq(Layers)
  BY <1>2 DEF Typed, TypeOK
<1>4. Len(mnt[d]) \in Nat \ {0}
  BY <1>2, <1>3, Stack DEF Popping, Bare
<1>5. (mnt'[d] = <<>> <=> Len(mnt'[d]) = 0) /\ Last(mnt'[d]) = mnt'[d][Len(mnt'[d])]
  BY <1>3, Stack
<1>6. Len(mnt[d]) > 1 => Last(mnt'[d]) = mnt[d][Len(mnt[d]) - 1]
  BY <1>2, <1>4, <1>5 DEF Popping
<1>8. /\ ~Bare(d) /\ Len(mnt'[d]) = Len(mnt[d]) - 1
      /\ \A i \in 1 .. Len(mnt[d]) - 1 : mnt'[d][i] = mnt[d][i]
      /\ \A q \in Slots \ {d} : mnt'[q] = mnt[q]
  BY <1>2 DEF Popping
<1>9. Len(mnt[d]) = 1 => mnt'[d] = <<>>
  BY <1>5, <1>8
<1>10. /\ d \in Slots /\ d = at[x] /\ ~Bare(d) /\ pc' = [pc EXCEPT ![x] = "look"]
       /\ Len(mnt[d]) \in Nat \ {0}
  BY <1>1, <1>2, <1>4, <1>8
<1> QED BY <1>6, <1>8, <1>9, <1>10

\* The top of a directory that nothing is mounted on or taken from.
LEMMA TopStays ==
  ASSUME Typed, Placed, Next, ~MountSlot, \A x \in Threads : ~(Detach(x) /\ mnt' # mnt),
         NEW d \in Slots
  PROVE  /\ Bare(d)' <=> Bare(d)
         /\ ~Bare(d) => /\ Last(mnt'[d]).part = Last(mnt[d]).part
                        /\ Last(mnt'[d]).live => Last(mnt[d]).live
BY MntStep, Tops

LEMMA WrittenStep ==
  ASSUME Typed, Placed, Apart, Written, [Next]_vars
  PROVE  Written'
<1>0. /\ at \in [Threads -> Nat \ {0}] /\ Slots \subseteq Nat /\ None \notin Partitions
      /\ table \in [Slots -> Names] /\ pc \in [Threads -> Points]
  BY Constants DEF Typed, TypeOK, Slots
<1>1. CASE UNCHANGED vars
  BY <1>1 DEF vars, system, shared, tables, locals, history, Written, Visiting, Bare, Umounting
<1> SUFFICES ASSUME Next PROVE Written'
  BY <1>1
<1>2. ASSUME Visiting', NEW d \in Slots, d >= at'["task"] PROVE table'[d] = None
  <2>1. CASE Scan
    BY <2>1, <1>2 DEF Scan, Empty
  <2>2. CASE \E x \in Threads : Finish(x)
    BY <2>2, <1>2 DEF Finish, Empty
  <2>3. CASE ~Scan /\ ~(\E x \in Threads : Finish(x))
    <3>1. /\ Visiting
          /\ \/ at'["task"] = at["task"]
             \/ (MountRefused \/ Store) /\ at'["task"] = at["task"] + 1
          /\ Store => at'["task"] = at["task"] + 1
      <4>1. Visiting /\ (\/ at'["task"] = at["task"]
                         \/ (MountRefused \/ Store) /\ at'["task"] = at["task"] + 1)
        BY <1>2, <2>3, Control DEF Visiting, MountRefused, Store, MakeDir, MountSlot, Advance,
           NextTry, Goto, locals
      <4>2. Store => at'["task"] = at["task"] + 1
        BY <1>0, <1>2 DEF Store, Advance, NextTry, Goto, Visiting, Threads
      <4> QED BY <4>1, <4>2
    <3>2. d >= at["task"] /\ table[d] = None
      BY <1>0, <1>2, <3>1 DEF Written, Threads
    <3>3. CASE Store
      <4>1. d # at["task"]
        BY <1>0, <1>2, <3>1, <3>3 DEF Threads
      <4>2. table' = [table EXCEPT ![at["task"]] = names[at["task"]]]
        BY <3>3 DEF Store, Label
      <4> QED BY <1>0, <3>2, <4>1, <4>2
    <3>4. CASE ~Store
      BY <2>3, <3>2, <3>4, TableKept
    <3> QED BY <3>3, <3>4
  <2> QED BY <2>1, <2>2, <2>3
<1>3. ASSUME pc'["task"] \in {"attach", "store"}
      PROVE  /\ names'[at'["task"]] \in {None, dev'}
             /\ at["task"] \in Slots /\ at'["task"] = at["task"] /\ Visiting
             /\ MakeDir \/ (\E x \in Threads : Finish(x)) \/ names' = names
             /\ (\E x \in Threads : Finish(x)) => names'[at'["task"]] = None
  <2>1. /\ Visiting /\ at'["task"] = at["task"] /\ ~Scan /\ ~Store
        /\ MakeDir \/ (pc["task"] \in {"attach", "store"} /\ dev' = dev)
    <3>1. ~Scan /\ ~Store
      BY <1>0, <1>3 DEF Scan, Store, Advance, NextTry, Goto, Threads
    <3> QED BY <1>3, <3>1, Control DEF Visiting, MakeDir, MountSlot, Goto, locals
  <2>2. at["task"] \in Slots
    BY <1>0, <2>1, Constants DEF Placed, Typed, TypeOK, Slots, Threads
  <2>3. CASE \E x \in Threads : Finish(x)
    BY <2>1, <2>2, <2>3 DEF Finish, Empty
  <2>4. CASE ~(\E x \in Threads : Finish(x))
    <3>1. names' = names
      BY <2>1, <2>4, TableKept
    <3>2. CASE MakeDir
      BY <2>1, <2>2, <2>4, <3>1, <3>2 DEF MakeDir
    <3>3. CASE ~MakeDir
      BY <2>1, <2>2, <2>4, <3>1, <3>3 DEF Written
    <3> QED BY <3>2, <3>3
  <2> QED BY <2>3, <2>4
<1>4. ASSUME pc'["task"] = "store"
      PROVE  /\ dev' \in Partitions
             /\ ~Umounting("ui")' /\ names'[at'["task"]] # None
                  => mnt'[at'["task"]] # <<>> /\ Last(mnt'[at'["task"]]).part = dev'
  <2>1. CASE MountSlot
    <3>1. PICK d \in Slots : /\ d = at["task"] /\ dev \in Partitions /\ mnt'[d] # <<>>
                             /\ Last(mnt'[d]) = [part |-> dev, live |-> TRUE, used |-> FALSE]
      BY <2>1, MountTop
    <3>2. dev' = dev /\ at' = at
      BY <2>1 DEF MountSlot, locals
    <3> QED BY <3>1, <3>2
  <2>2. CASE ~MountSlot
    <3>1. pc["task"] = "store" /\ at'["task"] = at["task"] /\ dev' = dev
      BY <1>4, <2>2, Control
    <3>2. at["task"] \in Slots /\ Visiting
      BY <1>3, <1>4
    <3>3. ASSUME ~Umounting("ui")', names'[at["task"]] # None
          PROVE  mnt'[at["task"]] # <<>> /\ Last(mnt'[at["task"]]).part = dev
      <4>1. ~(\E x \in Threads : Finish(x))
        BY <1>3, <1>4, <3>1, <3>3
      <4>2. ~Umounting("ui") /\ ~Umounting("task")
        BY <3>2, <3>3, <4>1, UmountingBefore DEF Threads, Visiting, Umounting
      <4>3. \A x \in Threads : ~Detach(x)
        BY <4>2 DEF Threads, Detach, Umounting, Goto
      <4>4. names' = names
        BY <1>3, <1>4, <3>1, <4>1 DEF MakeDir, Goto
      <4>5. ~Bare(at["task"]) /\ Last(mnt[at["task"]]).part = dev
        BY <3>1, <3>3, <4>2, <4>4 DEF Written
      <4> QED BY <2>2, <3>2, <4>3, <4>5, TopStays DEF Bare
    <3> QED BY <3>1, <3>2, <3>3 DEF Written
  <2> QED BY <2>1, <2>2
<1> QED BY <1>2, <1>3, <1>4 DEF Written, Bare

LEMMA ListedStep ==
  ASSUME Typed, Placed, Apart, Written, Listed, [Next]_vars
  PROVE  Listed'
<1>0. /\ table \in [Slots -> Names] /\ pc \in [Threads -> Points]
      /\ at \in [Threads -> Nat \ {0}] /\ None \notin Partitions
  BY Constants DEF Typed, TypeOK
<1>1. CASE UNCHANGED vars
  BY <1>1 DEF vars, system, shared, tables, history, Listed, Umounting, Bare
<1>2. CASE Next /\ \E x \in Threads : Finish(x)
  BY <1>2 DEF Finish, Listed, Empty
<1>3. CASE Scan
  BY <1>3 DEF Scan, Listed, Empty
<1>4. CASE Next /\ ~Scan /\ \A x \in Threads : ~Finish(x)
  <2> SUFFICES ASSUME \A x \in Threads : ~Umounting(x)',
                      NEW d \in Slots, table'[d] # None
               PROVE  mnt'[d] # <<>> /\ Last(mnt'[d]).part = table'[d]
    BY DEF Listed, Bare
  <2>1. \A x \in Threads : ~Umounting(x)
    BY <1>4, UmountingBefore
  <2>2. \A x \in Threads : ~Detach(x)
    BY <2>1 DEF Detach, Umounting, Goto
  <2>3. CASE MountSlot
    <3>1. PICK e \in Slots : e = at["task"] /\ \A q \in Slots \ {e} : mnt'[q] = mnt[q]
      BY <2>3, MountTop
    <3>2. table' = table /\ pc["task"] = "attach"
      BY <2>3 DEF MountSlot, shared, tables, Goto
    <3>3. table[e] = None
      BY <1>0, <3>1, <3>2 DEF Written, Visiting, Threads
    <3>4. mnt'[d] = mnt[d]
      BY <3>1, <3>2, <3>3
    <3> QED BY <2>1, <3>2, <3>4 DEF Listed, Bare
  <2>4. CASE ~MountSlot
    <3>1. /\ Bare(d)' <=> Bare(d)
          /\ ~Bare(d) => Last(mnt'[d]).part = Last(mnt[d]).part
      BY <1>4, <2>2, <2>4, TopStays
    <3>2. CASE Store
      <4>1. /\ pc["task"] = "store" /\ table' = [table EXCEPT ![at["task"]] = names[at["task"]]]
        BY <3>2 DEF Store, Label, Goto, Advance, NextTry
      <4>2. CASE d = at["task"]
        BY <1>0, <2>1, <3>1, <4>1, <4>2 DEF Written, Bare, Threads
      <4>3. CASE d # at["task"]
        BY <1>0, <2>1, <3>1, <4>1, <4>3 DEF Listed, Bare
      <4> QED BY <4>2, <4>3
    <3>3. CASE ~Store
      <4>1. table' = table
        BY <1>4, <3>3, TableKept
      <4> QED BY <2>1, <3>1, <4>1 DEF Listed, Bare
    <3> QED BY <3>2, <3>3
  <2> QED BY <2>3, <2>4
<1> QED BY <1>1, <1>2, <1>3, <1>4

-----------------------------------------------------------------------------
(* The successes counted. *)

LEMMA Within ==
  ASSUME NEW n \in Nat, NEW S, S \subseteq 1 .. n
  PROVE  /\ IsFiniteSet(S) /\ Cardinality(S) \in Nat /\ Cardinality(S) <= n
         /\ Cardinality(S) = n => S = 1 .. n
<1>1. IsFiniteSet(1 .. n) /\ Cardinality(1 .. n) = n
  <2>1. n \in Int /\ 1 \in Int /\ (1 > n => n = 0)
    OBVIOUS
  <2>2. IsFiniteSet(1 .. n) /\ Cardinality(1 .. n) = IF 1 > n THEN 0 ELSE n - 1 + 1
    BY <2>1, FS_Interval, Zenon
  <2> QED BY <2>1, <2>2
<1>2. /\ IsFiniteSet(S) /\ Cardinality(S) \in Nat /\ Cardinality(S) <= Cardinality(1 .. n)
      /\ Cardinality(S) = Cardinality(1 .. n) => S = 1 .. n
  BY <1>1, FS_Subset, FS_CardinalityType
<1> QED BY <1>1, <1>2

LEMMA Indices ==
  ASSUME Typed
  PROVE  Len(nodes) \in Nat /\ 1 .. Len(nodes) \subseteq Slots
BY Constants DEF Typed, TypeOK, Slots

\* A mount adds a place, and takes none away.
LEMMA PlacesGrow ==
  ASSUME Typed, Placed, MountSlot, names = Listing, count = Len(nodes),
         dev = names[at["task"]]
  PROVE  Cardinality(Places') >= Cardinality(Places) + 1
<1>1. PICK d \in Slots :
           /\ d = at["task"] /\ dev = names[d] /\ d <= count /\ ~Shows(d, dev)
           /\ mnt'[d] # <<>>
           /\ Last(mnt'[d]) = [part |-> dev, live |-> TRUE, used |-> FALSE]
           /\ \A q \in Slots \ {d} : mnt'[q] = mnt[q]
  BY MountTop
<1>2. d \in 1 .. Len(nodes) /\ dev = nodes[d]
  BY <1>1 DEF Listing, Slots
<1>3. nodes' = nodes
  BY DEF MountSlot
<1>4. d \notin Places
  BY <1>1, <1>2 DEF Places
<1>5. d \in Places'
  BY <1>1, <1>2, <1>3 DEF Places, Shows, Bare
<1>6. Places \subseteq Places'
  <2>1. ASSUME NEW q \in Places PROVE q \in Places'
    <3>1. q \in 1 .. Len(nodes) /\ Shows(q, nodes[q]) /\ q # d
      BY <1>4, <2>1 DEF Places
    <3>2. mnt'[q] = mnt[q]
      BY <1>1, <3>1, Indices
    <3> QED BY <1>3, <3>1, <3>2 DEF Places, Shows, Bare
  <2> QED BY <2>1
<1>7. Places' \subseteq 1 .. Len(nodes)
  BY <1>3 DEF Places
<1>8. Places \subseteq 1 .. Len(nodes) /\ Len(nodes) \in Nat
  BY Indices DEF Places
<1>9. IsFiniteSet(Places) /\ Cardinality(Places) \in Nat
      /\ IsFiniteSet(Places') /\ Cardinality(Places') \in Nat
  BY <1>7, <1>8, Within
<1>10. Cardinality(Places \cup {d}) = Cardinality(Places) + 1 /\ IsFiniteSet(Places \cup {d})
  BY <1>4, <1>9, FS_AddElement
<1>11. Places \cup {d} \subseteq Places'
  BY <1>5, <1>6
<1>12. Cardinality(Places \cup {d}) <= Cardinality(Places')
  BY <1>9, <1>11, FS_Subset
<1> QED BY <1>10, <1>12

\* Opening and closing a file keep the places.
LEMMA PlacesStay ==
  ASSUME Typed, NEW e \in Slots, Open(e) \/ Close(e)
  PROVE  Places' = Places
<1>1. mnt' \in [Slots -> Seq(Layers)] /\ SameLayers /\ SameLives
  BY OthersKeep
<1>2. nodes' = nodes
  BY DEF Open, Close
<1>3. ASSUME NEW d \in Slots
      PROVE  /\ Bare(d)' <=> Bare(d)
             /\ ~Bare(d) => /\ Last(mnt'[d]).part = Last(mnt[d]).part
                            /\ Last(mnt'[d]).live = Last(mnt[d]).live
  <2>1. /\ Bare(d)' <=> Bare(d)
        /\ ~Bare(d) => Last(mnt'[d]).part = Last(mnt[d]).part
    BY <1>1, Tops
  <2>2. mnt[d] \in Seq(Layers) /\ mnt'[d] \in Seq(Layers)
    BY <1>1 DEF Typed, TypeOK
  <2>3. Len(mnt[d]) \in Nat /\ (mnt[d] = <<>> <=> Len(mnt[d]) = 0) /\ Last(mnt[d]) = mnt[d][Len(mnt[d])]
        /\ Last(mnt'[d]) = mnt'[d][Len(mnt'[d])]
    BY <2>2, Stack
  <2>4. Len(mnt'[d]) = Len(mnt[d])
    BY <1>1 DEF SameLayers
  <2>5. ~Bare(d) => Last(mnt'[d]).live = Last(mnt[d]).live
    BY <1>1, <2>3, <2>4 DEF SameLives, Bare
  <2> QED BY <2>1, <2>5
<1>4. ASSUME NEW d \in 1 .. Len(nodes)
      PROVE  Shows(d, nodes[d])' <=> Shows(d, nodes[d])
  <2>1. d \in Slots
    BY Indices
  <2> QED BY <1>2, <1>3, <2>1 DEF Shows
<1> QED BY <1>2, <1>4 DEF Places

LEMMA CountedStep ==
  ASSUME Typed, Placed, Apart, Counted, [Next]_vars
  PROVE  Counted'
<1> USE DEF system, shared, tables, locals, history, Goto, Rewind, Threads
<1>0. /\ pc \in [Threads -> Points] /\ at \in [Threads -> Nat \ {0}]
      /\ ret \in {"loop", "failed"} /\ success \in Nat
  BY DEF Typed, TypeOK
<1>n. Len(nodes) \in Nat /\ Cardinality(Places) \in Nat
  <2>1. Places \subseteq 1 .. Len(nodes) /\ Len(nodes) \in Nat
    BY Indices DEF Places
  <2> QED BY <2>1, Within
<1>1. ASSUME UNCHANGED <<nodes, names, count, success, dev>>, Places' = Places,
             calm' => calm, pc'["task"] = pc["task"], at'["task"] = at["task"]
      PROVE  Counted'
  BY <1>1 DEF Counted, Mounting, Listing, Pending
<1>2. ASSUME UNCHANGED <<nodes, mnt>> PROVE Places' = Places /\ Listing' = Listing
  BY <1>2 DEF Places, Shows, Bare, Listing
<1>3. ASSUME ~(calm /\ Mounting)' PROVE Counted'
  BY <1>3 DEF Counted
<1>4. CASE UNCHANGED vars
  BY <1>1, <1>2, <1>4 DEF vars
<1>5. CASE Environment
  <2>1. UNCHANGED <<names, count, success, pc, dev, at>>
    BY <1>5, EnvironmentOutside DEF Outside
  <2>2. ASSUME NEW k \in Disks, Plug(k) PROVE Counted'
    BY <1>1, <1>2, <2>1, <2>2 DEF Plug
  <2>3. ASSUME NEW e \in Slots, Open(e) \/ Close(e) PROVE Counted'
    <3>1. nodes' = nodes /\ calm' = calm
      BY <2>3 DEF Open, Close
    <3>2. Places' = Places
      BY <2>3, PlacesStay
    <3> QED BY <1>1, <2>1, <3>1, <3>2
  <2>4. CASE Vanish \/ (\E p \in Partitions : Appear(p)) \/ (\E k \in Disks : Pull(k))
    BY <1>3, <2>4 DEF Vanish, Appear, Pull
  <2> QED BY <1>5, <2>2, <2>3, <2>4 DEF Environment
<1>6. CASE Eject
  <2>1. /\ UNCHANGED <<nodes, mnt, names, count, success, dev, calm>>
        /\ pc'["task"] = pc["task"] /\ at'["task"] = at["task"]
    BY <1>0, <1>6 DEF Eject
  <2> QED BY <1>1, <1>2, <2>1
<1>7. ASSUME NEW x \in Threads, UmountStep(x) PROVE Counted'
  <2>1. CASE Umount(x) \/ Detach(x) \/ Finish(x)
    BY <1>3, <2>1 DEF Umount, Detach, Finish
  <2>2. CASE (Look(x) \/ RemoveDir(x)) /\ x = "ui"
    <3>1. /\ UNCHANGED <<nodes, mnt, names, count, success, dev, calm>>
          /\ pc'["task"] = pc["task"] /\ at'["task"] = at["task"]
      BY <1>0, <2>2 DEF Look, RemoveDir
    <3> QED BY <1>1, <1>2, <3>1
  <2>3. CASE (Look(x) \/ RemoveDir(x)) /\ x = "task"
    BY <1>0, <1>3, <2>3 DEF Look, RemoveDir, Mounting
  <2> QED BY <1>7, <2>1, <2>2, <2>3 DEF UmountStep
<1>8. CASE Watch \/ Again \/ Gone \/ SetMounted \/ SetMountFailed
  <2>1. pc'["task"] \notin {"scan", "mount", "attach", "store", "mounted"}
    BY <1>0, <1>8 DEF Watch, Again, Gone, SetMounted, SetMountFailed
  <2> QED BY <1>3, <2>1 DEF Mounting
<1>9. CASE Settle
  <2>1. pc["task"] = "settle" /\ pc'["task"] \in {"scan", "loop"}
        /\ UNCHANGED <<nodes, mnt, success>>
    BY <1>0, <1>9 DEF Settle
  <2>2. success = 0
    BY <2>1 DEF Placed, Resting
  <2> QED BY <1>n, <1>2, <2>1, <2>2 DEF Counted, Mounting, Pending
<1>10. CASE Scan
  <2>1. /\ pc["task"] = "scan" /\ pc'["task"] \in {"scan", "mount", "umount"}
        /\ UNCHANGED <<nodes, mnt, success, calm>> /\ names' = Listing /\ count' = Len(nodes)
    BY <1>0, <1>10 DEF Scan, NextTry
  <2> QED BY <1>2, <2>1 DEF Counted, Mounting, Pending
<1>11. CASE MakeDir
  <2>1. /\ pc["task"] = "mount" /\ pc'["task"] = "attach" /\ dev' = names[at["task"]]
        /\ UNCHANGED <<nodes, mnt, names, count, success, at, calm>>
    BY <1>0, <1>11 DEF MakeDir
  <2> QED BY <1>2, <2>1 DEF Counted, Mounting, Pending
<1>12. CASE MountRefused
  <2>1. /\ pc["task"] = "attach" /\ pc'["task"] \in {"scan", "mount", "umount"}
        /\ UNCHANGED <<nodes, mnt, names, count, success, calm>>
    BY <1>0, <1>12 DEF MountRefused, Advance, NextTry
  <2> QED BY <1>2, <2>1 DEF Counted, Mounting, Pending
<1>13. CASE MountSlot
  <2>1. /\ pc["task"] = "attach" /\ pc'["task"] = "store"
        /\ UNCHANGED <<nodes, names, count, success, calm>>
    BY <1>0, <1>13 DEF MountSlot
  <2>2. CASE calm
    <3>1. /\ success <= Cardinality(Places) /\ names = Listing /\ count = Len(nodes)
          /\ dev = names[at["task"]]
      BY <1>0, <1>n, <2>1, <2>2 DEF Counted, Mounting, Pending
    <3>2. Cardinality(Places') >= Cardinality(Places) + 1
      BY <1>13, <3>1, PlacesGrow
    <3>3. Places' \subseteq 1 .. Len(nodes)
      BY <2>1 DEF Places
    <3>4. Cardinality(Places') \in Nat
      BY <1>n, <3>3, Within
    <3>5. Listing' = Listing
      BY <2>1 DEF Listing
    <3>6. success' + Pending' <= Cardinality(Places')
      BY <1>0, <1>n, <2>1, <3>1, <3>2, <3>4 DEF Pending
    <3>7. names' = Listing' /\ count' = Len(nodes')
      BY <2>1, <3>1, <3>5
    <3> QED BY <2>1, <3>6, <3>7 DEF Counted
  <2>3. CASE ~calm
    BY <1>3, <2>1, <2>3
  <2> QED BY <2>2, <2>3
<1>14. CASE Store
  <2>1. /\ pc["task"] = "store" /\ success' = success + 1
        /\ UNCHANGED <<nodes, mnt, names, count, calm>>
        /\ pc'["task"] \in {"scan", "mount", "umount", "mounted"}
        /\ pc'["task"] = "mounted" => success' = count
    BY <1>0, <1>14 DEF Store, Advance, NextTry
  <2>2. calm => success' + Pending' <= Cardinality(Places')
    BY <1>0, <1>n, <1>2, <2>1 DEF Counted, Mounting, Pending
  <2>3. calm => names = Listing /\ count = Len(nodes)
    BY <2>1 DEF Counted, Mounting
  <2> QED BY <1>2, <2>1, <2>2, <2>3 DEF Counted
<1> QED BY <1>4, <1>5, <1>6, <1>7, <1>8, <1>9, <1>10, <1>11, <1>12, <1>13, <1>14 DEF Next, TaskStep

LEMMA CountedMounts == Typed /\ Counted => AllMounted
<1> SUFFICES ASSUME Typed, Counted, pc["task"] = "mounted", calm, NEW d \in 1 .. count
             PROVE  Shows(d, names[d])
  BY DEF AllMounted
<1>1. /\ success + 0 <= Cardinality(Places) /\ names = Listing /\ count = Len(nodes)
      /\ success = count /\ count \in Nat
  BY Indices DEF Counted, Mounting, Pending
<1>2. Len(nodes) \in Nat /\ 1 .. Len(nodes) \subseteq Slots /\ Places \subseteq 1 .. Len(nodes)
  BY Indices DEF Places
<1>3. Cardinality(Places) \in Nat /\ Cardinality(Places) <= Len(nodes)
      /\ (Cardinality(Places) = Len(nodes) => Places = 1 .. Len(nodes))
  BY <1>2, Within
<1>4. d \in Places
  BY <1>1, <1>2, <1>3
<1>5. Shows(d, nodes[d]) /\ d \in 1 .. Len(nodes)
  BY <1>4 DEF Places
<1>6. names[d] = nodes[d]
  BY <1>1, <1>2, <1>5 DEF Listing
<1> QED BY <1>5, <1>6

-----------------------------------------------------------------------------
(* What is on top, and what rm deletes. *)

LEMMA OnTopStep ==
  ASSUME Typed, Placed, Written, OnTop, [Next]_vars
  PROVE  OnTop'
<1>0. mnt' \in [Slots -> Seq(Layers)] /\ None \notin Partitions
  BY MntStep, Constants
<1>1. CASE UNCHANGED vars
  BY <1>1 DEF vars, system, shared, tables, locals, history, OnTop, Bare, Visiting
<1> SUFFICES ASSUME Next, "shifted" \notin trouble'
             PROVE  /\ \A d \in Slots : \A i \in 1 .. Len(mnt'[d]) - 1 : ~mnt'[d][i].live
                    /\ \A d \in Slots : ~Bare(d)' /\ Last(mnt'[d]).live =>
                         /\ Visiting' => names'[d] \in {None, Last(mnt'[d]).part}
                         /\ pc'["task"] = "attach" /\ d = at'["task"]
                              => dev' \in {None, Last(mnt'[d]).part}
  BY <1>1 DEF OnTop
<1>2. /\ \A d \in Slots : \A i \in 1 .. Len(mnt[d]) - 1 : ~mnt[d][i].live
      /\ \A d \in Slots : ~Bare(d) /\ Last(mnt[d]).live =>
           /\ Visiting => names[d] \in {None, Last(mnt[d]).part}
           /\ pc["task"] = "attach" /\ d = at["task"] => dev \in {None, Last(mnt[d]).part}
  BY Growing DEF OnTop
<1>3. CASE SameLayers
  <2>1. ASSUME NEW d \in Slots, NEW i \in 1 .. Len(mnt'[d]) - 1 PROVE ~mnt'[d][i].live
    <3>1. Len(mnt[d]) \in Nat
      BY DEF Typed, TypeOK
    <3>2. i \in 1 .. Len(mnt[d]) - 1 /\ (mnt'[d][i].live => mnt[d][i].live)
      BY <1>3, <3>1 DEF SameLayers
    <3> QED BY <1>2, <3>2
  <2>m. ~MountSlot
    <3>1. ASSUME MountSlot PROVE FALSE
      <4>1. PICK e \in Slots : Len(mnt[e]) \in Nat /\ Len(mnt'[e]) = Len(mnt[e]) + 1
        BY <3>1, MountTop
      <4> QED BY <1>3, <4>1 DEF SameLayers
    <3> QED BY <3>1
  <2>2. ASSUME NEW d \in Slots, ~Bare(d)', Last(mnt'[d]).live
        PROVE  ~Bare(d) /\ Last(mnt[d]).live /\ Last(mnt'[d]).part = Last(mnt[d]).part
    BY <1>0, <1>3, <2>2, Tops
  <2>3. ASSUME Visiting', NEW d \in Slots, ~Bare(d)', Last(mnt'[d]).live
        PROVE  names'[d] \in {None, Last(mnt'[d]).part}
    <3>1. ~Bare(d) /\ Last(mnt[d]).live /\ Last(mnt'[d]).part = Last(mnt[d]).part
      BY <2>2, <2>3
    <3>2. CASE Scan
      <4>1. names' = Listing
        BY <3>2 DEF Scan
      <4>2. mnt[d] \in Seq(Layers) /\ mnt[d] # <<>>
        BY <3>1 DEF Typed, TypeOK, Bare
      <4>3. Last(mnt[d]) = mnt[d][Len(mnt[d])] /\ Len(mnt[d]) \in 1 .. Len(mnt[d])
        BY <4>2, Stack
      <4>4. ~ \E e \in Slots : \E i \in 1 .. Len(mnt[e]) :
               mnt[e][i].live /\ mnt[e][i].part # Listing[e]
        BY <3>2 DEF Scan
      <4> QED BY <3>1, <4>1, <4>3, <4>4
    <3>3. CASE \E x \in Threads : Finish(x)
      BY <3>3 DEF Finish, Empty
    <3>4. CASE ~Scan /\ ~(\E x \in Threads : Finish(x))
      <4>1. Visiting
        BY <2>3, <3>4, Control DEF Visiting, MountRefused, Store, MakeDir, MountSlot, Advance,
           NextTry, Goto
      <4>2. names' = names
        <5>1. CASE Store
          BY <5>1 DEF Store
        <5>2. CASE ~Store
          BY <3>4, <5>2, TableKept
        <5> QED BY <5>1, <5>2
      <4> QED BY <1>2, <3>1, <4>1, <4>2
    <3> QED BY <3>2, <3>3, <3>4
  <2>4. ASSUME pc'["task"] = "attach", NEW d \in Slots, d = at'["task"], ~Bare(d)',
               Last(mnt'[d]).live
        PROVE  dev' \in {None, Last(mnt'[d]).part}
    <3>1. ~Bare(d) /\ Last(mnt[d]).live /\ Last(mnt'[d]).part = Last(mnt[d]).part
      BY <2>2, <2>4
    <3>2. CASE MakeDir
      BY <1>2, <2>4, <3>1, <3>2 DEF MakeDir, Goto, Visiting
    <3>3. CASE ~MakeDir
      BY <1>2, <2>4, <3>1, <3>3, Control
    <3> QED BY <3>2, <3>3
  <2> QED BY <2>1, <2>3, <2>4
<1>4. CASE MountSlot
  <2>1. PICK d \in Slots :
           /\ d = at["task"] /\ dev \in Partitions /\ ~Shows(d, dev)
           /\ Len(mnt[d]) \in Nat /\ Len(mnt'[d]) = Len(mnt[d]) + 1
           /\ Last(mnt'[d]) = [part |-> dev, live |-> TRUE, used |-> FALSE]
           /\ \A i \in 1 .. Len(mnt[d]) : mnt'[d][i] = mnt[d][i]
           /\ \A q \in Slots \ {d} : mnt'[q] = mnt[q]
    BY <1>4, MountTop
  <2>2. pc["task"] = "attach" /\ names' = names /\ pc'["task"] = "store"
    BY <1>4 DEF MountSlot, Goto, shared, tables, Typed, TypeOK, Threads
  <2>3. Bare(d) \/ ~Last(mnt[d]).live
    <3>1. ASSUME ~Bare(d), Last(mnt[d]).live PROVE FALSE
      <4>1. dev = Last(mnt[d]).part
        BY <1>0, <1>2, <2>1, <2>2, <3>1
      <4> QED BY <2>1, <3>1, <4>1 DEF Shows
    <3> QED BY <3>1
  <2>4. ASSUME NEW i \in 1 .. Len(mnt'[d]) - 1 PROVE ~mnt'[d][i].live
    <3>1. i \in 1 .. Len(mnt[d]) /\ mnt'[d][i] = mnt[d][i]
      BY <2>1
    <3>2. CASE i = Len(mnt[d])
      <4>1. mnt[d] \in Seq(Layers)
        BY DEF Typed, TypeOK
      <4>2. ~Bare(d) /\ Last(mnt[d]) = mnt[d][i]
        BY <3>1, <3>2, <4>1, Stack DEF Bare
      <4> QED BY <2>3, <3>1, <4>2
    <3>3. CASE i # Len(mnt[d])
      <4>1. i \in 1 .. Len(mnt[d]) - 1
        BY <2>1, <3>1, <3>3
      <4> QED BY <1>2, <3>1, <4>1
    <3> QED BY <3>2, <3>3
  <2>5. ASSUME NEW q \in Slots, q # d
        PROVE  /\ \A i \in 1 .. Len(mnt'[q]) - 1 : ~mnt'[q][i].live
               /\ ~Bare(q)' /\ Last(mnt'[q]).live => names'[q] \in {None, Last(mnt'[q]).part}
    <3>1. mnt'[q] = mnt[q]
      BY <2>1, <2>5
    <3> QED BY <1>2, <2>2, <3>1 DEF Bare, Visiting
  <2>6. names'[d] \in {None, Last(mnt'[d]).part}
    BY <2>1, <2>2 DEF Written
  <2> QED BY <2>2, <2>4, <2>5, <2>6
<1>5. CASE \E x \in Threads : Detach(x) /\ mnt' # mnt
  <2>1. PICK x \in Threads : Detach(x) /\ mnt' # mnt
    BY <1>5
  <2>2. PICK d \in Slots :
           /\ ~Bare(d) /\ Len(mnt[d]) \in Nat \ {0} /\ Len(mnt'[d]) = Len(mnt[d]) - 1
           /\ Len(mnt[d]) = 1 => mnt'[d] = <<>>
           /\ Len(mnt[d]) > 1 => Last(mnt'[d]) = mnt[d][Len(mnt[d]) - 1]
           /\ \A i \in 1 .. Len(mnt[d]) - 1 : mnt'[d][i] = mnt[d][i]
           /\ \A q \in Slots \ {d} : mnt'[q] = mnt[q]
    BY <2>1, DetachTop
  <2>3. /\ names' = names /\ dev' = dev /\ at' = at
        /\ Visiting' => Visiting /\ pc'["task"] = pc["task"]
    <3>1. /\ names' = names /\ dev' = dev /\ at' = at
          /\ pc[x] = "detach" /\ pc' = [pc EXCEPT ![x] = "look"]
      BY <2>1 DEF Detach, shared, tables, locals, Goto
    <3> QED BY <3>1 DEF Visiting, Typed, TypeOK, Threads
  <2>4. ASSUME NEW i \in 1 .. Len(mnt'[d]) - 1 PROVE ~mnt'[d][i].live
    <3>1. i \in 1 .. Len(mnt[d]) - 1
      BY <2>2
    <3>2. mnt'[d][i] = mnt[d][i]
      BY <2>2, <3>1
    <3> QED BY <1>2, <3>1, <3>2
  <2>5. ~Bare(d)' => ~Last(mnt'[d]).live
    <3>1. ASSUME ~Bare(d)' PROVE ~Last(mnt'[d]).live
      <4>1. Len(mnt[d]) > 1
        BY <2>2, <3>1 DEF Bare
      <4>2. Len(mnt[d]) - 1 \in 1 .. Len(mnt[d]) - 1
        BY <2>2, <4>1
      <4> QED BY <1>2, <2>2, <4>1, <4>2
    <3> QED BY <3>1
  <2>6. ASSUME NEW q \in Slots, q # d
        PROVE  /\ \A i \in 1 .. Len(mnt'[q]) - 1 : ~mnt'[q][i].live
               /\ ~Bare(q)' /\ Last(mnt'[q]).live =>
                    /\ Visiting' => names'[q] \in {None, Last(mnt'[q]).part}
                    /\ pc'["task"] = "attach" /\ q = at'["task"]
                         => dev' \in {None, Last(mnt'[q]).part}
    <3>1. mnt'[q] = mnt[q]
      BY <2>2, <2>6
    <3> QED BY <1>2, <2>3, <3>1 DEF Bare, Visiting
  <2> QED BY <2>4, <2>5, <2>6
<1> QED BY <1>3, <1>4, <1>5, MntStep

\* An umount that changes nothing had nothing to do or was refused.
LEMMA DetachKeeps ==
  ASSUME Typed, Placed, NEW x \in Threads, Detach(x), mnt' = mnt
  PROVE  ~dir[x] \/ Bare(at[x]) \/ "busy" \in trouble'
<1> SUFFICES ASSUME dir[x], ~Bare(at[x]), ~Last(mnt[at[x]]).used
             PROVE  FALSE
  BY DEF Detach
<1>1. PICK d : d = at[x]
  OBVIOUS
<1>2. d \in Slots
  BY <1>1 DEF Detach, Goto, Placed, Removing
<1>3. mnt' = [mnt EXCEPT ![d] = Front(mnt[d])]
  BY <1>1 DEF Detach
<1>4. mnt[d] \in Seq(Layers) /\ mnt[d] # <<>>
  BY <1>1, <1>2 DEF Typed, TypeOK, Bare
<1>5. Len(Front(mnt[d])) = Len(mnt[d]) - 1 /\ Len(mnt[d]) \in Nat
  BY <1>4, SMTT(30) DEF Front
<1>6. mnt'[d] = Front(mnt[d])
  BY <1>2, <1>3 DEF Typed, TypeOK
<1> QED BY <1>5, <1>6

LEMMA Above ==
  ASSUME NEW n \in Nat \ {0}, n # 1
  PROVE  n > 1 /\ n - 1 \in 1 .. n - 1
OBVIOUS

\* What is bare, or of a disk that is gone, stays so while nothing is mounted.
LEMMA DeadStays ==
  ASSUME Typed, Placed, Next, ~MountSlot, OnTop, "shifted" \notin trouble,
         NEW d \in Slots, Bare(d) \/ ~Last(mnt[d]).live
  PROVE  mnt'[d] = <<>> \/ ~Last(mnt'[d]).live
<1>1. CASE \A x \in Threads : ~(Detach(x) /\ mnt' # mnt)
  BY <1>1, TopStays DEF Bare
<1>2. ASSUME NEW x \in Threads, Detach(x), mnt' # mnt
      PROVE  mnt'[d] = <<>> \/ ~Last(mnt'[d]).live
  <2>1. PICK e \in Slots :
           /\ Len(mnt[e]) \in Nat \ {0}
           /\ Len(mnt[e]) = 1 => mnt'[e] = <<>>
           /\ Len(mnt[e]) > 1 => Last(mnt'[e]) = mnt[e][Len(mnt[e]) - 1]
           /\ \A q \in Slots \ {e} : mnt'[q] = mnt[q]
    BY <1>2, DetachTop
  <2>2. CASE d # e
    <3>1. mnt'[d] = mnt[d]
      BY <2>1, <2>2
    <3> QED BY <3>1 DEF Bare
  <2>3. CASE d = e /\ Len(mnt[e]) = 1
    BY <2>1, <2>3
  <2>4. CASE d = e /\ Len(mnt[e]) # 1
    <3>1. Len(mnt[e]) > 1 /\ Len(mnt[e]) - 1 \in 1 .. Len(mnt[e]) - 1
      BY <2>1, <2>4, Above
    <3>2. \A i \in 1 .. Len(mnt[e]) - 1 : ~mnt[e][i].live
      BY DEF OnTop
    <3> QED BY <2>1, <2>4, <3>1, <3>2
  <2> QED BY <2>2, <2>3, <2>4
<1> QED BY <1>1, <1>2

\* Nothing is mounted and no entry is stored while only one thread unmounts.
LEMMA NoMounting ==
  ASSUME Apart, "both" \notin trouble, NEW x \in Threads, Umounting(x)
  PROVE  ~Mounting /\ ~Scan /\ ~MountSlot /\ ~Store
<1>1. ~Mounting
  BY DEF Apart, Mounting, Umounting, Threads
<1> QED BY <1>1 DEF Scan, MountSlot, Store, Mounting, NextTry, Advance, Goto

LEMMA PoppedStep ==
  ASSUME Typed, Placed, Apart, OnTop, Popped, [Next]_vars
  PROVE  Popped'
<1>1. CASE UNCHANGED vars
  BY <1>1 DEF vars, system, shared, tables, locals, history, Popped, Bare
<1> SUFFICES ASSUME Next, trouble' \cap {"busy", "shifted", "both"} = {}, NEW x \in Threads
             PROVE  /\ pc'[x] = "detach" => dir'[x] \/ at'[x] \notin dirs'
                    /\ pc'[x] = "look" => \/ at'[x] \notin dirs' \/ mnt'[at'[x]] = <<>>
                                         \/ ~Last(mnt'[at'[x]]).live
                    /\ pc'[x] = "remove" => \/ ~dir'[x] \/ mnt'[at'[x]] = <<>>
                                           \/ ~Last(mnt'[at'[x]]).live
  BY <1>1 DEF Popped, Bare
<1>0. dir \in [Threads -> BOOLEAN] /\ pc \in [Threads -> Points]
  BY DEF Typed, TypeOK
<1>2. trouble \cap {"busy", "shifted", "both"} = {} /\ trouble \subseteq trouble'
  BY Growing
<1>3. /\ pc[x] = "detach" => dir[x] \/ at[x] \notin dirs
      /\ pc[x] = "look" => at[x] \notin dirs \/ Bare(at[x]) \/ ~Last(mnt[at[x]]).live
      /\ pc[x] = "remove" => ~dir[x] \/ Bare(at[x]) \/ ~Last(mnt[at[x]]).live
  BY <1>2 DEF Popped
<1>4. ASSUME Umounting(x)
      PROVE  /\ ~MountSlot /\ dirs' \subseteq dirs
             /\ \A d \in Slots : Bare(d) \/ ~Last(mnt[d]).live
                  => mnt'[d] = <<>> \/ ~Last(mnt'[d]).live
  <2>1. ~Scan /\ ~MountSlot /\ ~Store
    BY <1>2, <1>4, NoMounting
  <2>2. dirs' \subseteq dirs
    <3>1. CASE \E y \in Threads : Finish(y)
      BY <3>1 DEF Finish
    <3>2. CASE ~ \E y \in Threads : Finish(y)
      BY <2>1, <3>2, TableKept
    <3> QED BY <3>1, <3>2
  <2>3. ASSUME NEW d \in Slots, Bare(d) \/ ~Last(mnt[d]).live
        PROVE  mnt'[d] = <<>> \/ ~Last(mnt'[d]).live
    BY <1>2, <2>1, <2>3, DeadStays
  <2> QED BY <2>1, <2>2, <2>3
<1>5. ASSUME pc'[x] = "detach" PROVE dir'[x] \/ at'[x] \notin dirs'
  <2>1. CASE Umount(x)
    <3>1. at' = at /\ dirs' = dirs /\ pc[x] = "umount"
          /\ (~Past(at[x]) => dir' = [dir EXCEPT ![x] = at[x] \in dirs])
      BY <2>1 DEF Umount, shared, tables, Goto
    <3>2. ~Past(at[x])
      BY <1>0, <1>5, <2>1 DEF Umount, Goto
    <3>3. dir'[x] = (at[x] \in dirs)
      BY <1>0, <3>1, <3>2, Zenon
    <3> QED BY <3>1, <3>3
  <2>2. CASE pc[x] = "detach" /\ at'[x] = at[x] /\ dir'[x] = dir[x]
    BY <1>3, <1>4, <2>2 DEF Umounting
  <2> QED BY <1>5, <2>1, <2>2, Control
<1>6. ASSUME pc'[x] = "look"
      PROVE  at'[x] \notin dirs' \/ mnt'[at'[x]] = <<>> \/ ~Last(mnt'[at'[x]]).live
  <2>1. CASE Detach(x)
    <3>1. pc[x] = "detach" /\ dirs' = dirs /\ at' = at /\ at[x] \in Slots
      BY <2>1 DEF Detach, Goto, shared, tables, locals, Placed, Removing
    <3>2. CASE mnt' = mnt
      BY <1>2, <1>3, <2>1, <3>1, <3>2, DetachKeeps DEF Bare
    <3>3. CASE mnt' # mnt
      <4>1. PICK d \in Slots :
               /\ d = at[x] /\ Len(mnt[d]) \in Nat \ {0}
               /\ Len(mnt[d]) = 1 => mnt'[d] = <<>>
               /\ Len(mnt[d]) > 1 => Last(mnt'[d]) = mnt[d][Len(mnt[d]) - 1]
        BY <2>1, <3>3, DetachTop
      <4>2. CASE Len(mnt[d]) = 1
        BY <3>1, <4>1, <4>2
      <4>3. CASE Len(mnt[d]) # 1
        <5>1. Len(mnt[d]) > 1 /\ Len(mnt[d]) - 1 \in 1 .. Len(mnt[d]) - 1
          BY <4>1, <4>3, Above
        <5>2. \A i \in 1 .. Len(mnt[d]) - 1 : ~mnt[d][i].live
          BY <1>2 DEF OnTop
        <5> QED BY <3>1, <4>1, <5>1, <5>2
      <4> QED BY <4>2, <4>3
    <3> QED BY <3>2, <3>3
  <2>2. CASE pc[x] = "look" /\ at'[x] = at[x]
    BY <1>3, <1>4, <2>2 DEF Umounting, Placed, Removing
  <2> QED BY <1>6, <2>1, <2>2, Control
<1>7. ASSUME pc'[x] = "remove"
      PROVE  ~dir'[x] \/ mnt'[at'[x]] = <<>> \/ ~Last(mnt'[at'[x]]).live
  <2>1. CASE Look(x)
    <3>1. pc[x] = "look" /\ at' = at /\ mnt' = mnt /\ dir' = [dir EXCEPT ![x] = at[x] \in dirs]
      BY <2>1 DEF Look, Goto, system
    <3>2. dir'[x] = (at[x] \in dirs)
      BY <1>0, <3>1, Zenon
    <3> QED BY <1>3, <3>1, <3>2 DEF Bare
  <2>2. CASE pc[x] = "remove" /\ at'[x] = at[x] /\ dir'[x] = dir[x]
    BY <1>3, <1>4, <2>2 DEF Umounting, Placed, Removing
  <2> QED BY <1>7, <2>1, <2>2, Control
<1> QED BY <1>5, <1>6, <1>7

LEMMA PreservedStep ==
  ASSUME Typed, Placed, Popped, Preserved, [Next]_vars
  PROVE  Preserved'
<1>1. CASE UNCHANGED vars
  BY <1>1 DEF vars, history, Preserved
<1>2. CASE erased' = erased /\ Next
  BY <1>2, Growing DEF Preserved
<1>3. ASSUME NEW x \in Threads, RemoveDir(x) PROVE Preserved'
  <2>1. pc[x] = "remove" /\ trouble' = trouble
    BY <1>3 DEF RemoveDir, Goto
  <2>2. CASE trouble \cap {"busy", "shifted", "both"} = {}
    <3>1. ~dir[x] \/ Bare(at[x]) \/ ~Last(mnt[at[x]]).live
      BY <2>1, <2>2 DEF Popped
    <3>2. erased' = erased
      BY <1>3, <3>1 DEF RemoveDir
    <3> QED BY <2>1, <3>2 DEF Preserved
  <2>3. CASE trouble \cap {"busy", "shifted", "both"} # {}
    BY <2>1, <2>3 DEF Preserved
  <2> QED BY <2>2, <2>3
<1>4. CASE Next /\ \A x \in Threads : ~RemoveDir(x)
  <2>1. erased' = erased
    <3>1. Environment => erased' = erased
      BY DEF Environment, Plug, Pull, Vanish, Appear, Open, Close, history
    <3>2. \A x \in Threads : Umount(x) \/ Detach(x) \/ Look(x) \/ Finish(x) => erased' = erased
      BY DEF Umount, Detach, Look, Finish, history
    <3>3. Eject \/ Watch \/ Again \/ Settle \/ Gone \/ SetMounted \/ SetMountFailed
            => erased' = erased
      BY DEF Eject, Watch, Again, Settle, Gone, SetMounted, SetMountFailed, history
    <3>4. Scan \/ MakeDir \/ MountSlot \/ MountRefused \/ Store => erased' = erased
      BY DEF Scan, MakeDir, MountSlot, MountRefused, Store, history
    <3> QED BY <1>4, <3>1, <3>2, <3>3, <3>4 DEF Next, TaskStep, UmountStep, Threads
  <2> QED BY <1>2, <1>4, <2>1
<1> QED BY <1>1, <1>3, <1>4

-----------------------------------------------------------------------------
(* What is bare. *)

LEMMA CleanBefore == Typed /\ Next /\ Clean' => Clean
BY Growing DEF Clean

LEMMA BareStays ==
  ASSUME Typed, Placed, Next, ~MountSlot, NEW d \in Slots, Bare(d)
  PROVE  mnt'[d] = <<>>
<1>1. CASE SameLayers
  <2>1. mnt' \in [Slots -> Seq(Layers)]
    BY MntStep
  <2> QED BY <1>1, <2>1, Tops DEF Bare
<1>2. ASSUME NEW x \in Threads, Detach(x), mnt' # mnt PROVE mnt'[d] = <<>>
  <2>1. PICK e \in Slots : ~Bare(e) /\ \A q \in Slots \ {e} : mnt'[q] = mnt[q]
    BY <1>2, DetachTop
  <2>2. mnt'[d] = mnt[d]
    BY <2>1
  <2> QED BY <2>2 DEF Bare
<1> QED BY <1>1, <1>2, MntStep

LEMMA AllBareAfterScan ==
  ASSUME Typed, Scan, Clean', NEW d \in Slots
  PROVE  Bare(d) /\ mnt' = mnt
BY DEF Scan, Clean, system

\* The task stays where it has mounted until it has stored the entry.
LEMMA Storing ==
  ASSUME Typed, Placed, Next, pc["task"] = "store", ~Store
  PROVE  pc'["task"] = "store" /\ at'["task"] = at["task"]
<1> USE DEF Goto, locals, Threads
<1>0. pc \in [Threads -> Points] /\ at \in [Threads -> Nat \ {0}]
  BY DEF Typed, TypeOK
<1>1. CASE Environment
  BY <1>1, EnvironmentOutside DEF Outside
<1>2. CASE Eject
  BY <1>0, <1>2 DEF Eject
<1>3. CASE UmountStep("ui")
  BY <1>0, <1>3 DEF UmountStep, Umount, Detach, Look, RemoveDir, Finish, Rewind
<1>4. ~TaskStep
  BY DEF TaskStep, UmountStep, Umount, Detach, Look, RemoveDir, Finish, Watch, Again, Settle,
     Gone, SetMounted, SetMountFailed, Scan, MakeDir, MountSlot, MountRefused, Advance, NextTry
<1> QED BY <1>1, <1>2, <1>3, <1>4 DEF Next

LEMMA HeldStep ==
  ASSUME Typed, Placed, Held, Passed, [Next]_vars
  PROVE  Held'
<1>1. CASE UNCHANGED vars
  BY <1>1 DEF vars, system, shared, tables, locals, history, Held, Clean, Bare
<1> SUFFICES ASSUME Next, Clean', NEW d \in Slots, mnt'[d] # <<>>
             PROVE  /\ d <= count' /\ Len(mnt'[d]) = 1
                    /\ d \in dirs' \/ (pc'["task"] = "store" /\ d = at'["task"])
  BY <1>1 DEF Held, Bare
<1>0. /\ pc \in [Threads -> Points] /\ at \in [Threads -> Nat \ {0}]
      /\ Slots \subseteq Nat
  BY Constants DEF Typed, TypeOK, Slots
<1>2. Clean
  BY CleanBefore
<1>3. ~Bare(d) => /\ d <= count /\ Len(mnt[d]) = 1
                  /\ d \in dirs \/ (pc["task"] = "store" /\ d = at["task"])
  BY <1>2 DEF Held
<1>4. CASE Scan
  BY <1>4, AllBareAfterScan DEF Bare
<1>5. CASE MountSlot
  <2>1. PICK e \in Slots :
           /\ e = at["task"] /\ e <= count
           /\ Len(mnt[e]) \in Nat /\ Len(mnt'[e]) = Len(mnt[e]) + 1
           /\ \A q \in Slots \ {e} : mnt'[q] = mnt[q]
    BY <1>5, MountTop
  <2>2. /\ pc["task"] = "attach" /\ count' = count /\ dirs' = dirs /\ at' = at
        /\ pc'["task"] = "store"
    BY <1>0, <1>5 DEF MountSlot, shared, tables, locals, Goto, Threads
  <2>3. CASE d = e
    <3>1. Bare(e)
      BY <1>0, <1>2, <2>1, <2>2 DEF Passed, Threads
    <3>2. Len(mnt[e]) = 0
      BY <3>1 DEF Bare
    <3> QED BY <2>1, <2>2, <2>3, <3>2
  <2>4. CASE d # e
    <3>1. mnt'[d] = mnt[d]
      BY <2>1, <2>4
    <3> QED BY <1>3, <2>2, <3>1 DEF Bare
  <2> QED BY <2>3, <2>4
<1>6. ASSUME NEW x \in Threads, Finish(x) PROVE FALSE
  <2>1. pc[x] = "finish" /\ mnt' = mnt
    BY <1>6 DEF Finish, Goto, system
  <2> QED BY <1>2, <2>1 DEF Passed, Bare
<1>7. CASE Store
  <2>1. pc["task"] = "store" /\ dirs' = dirs \cup {at["task"]} /\ count' = count /\ mnt' = mnt
    BY <1>7 DEF Store, Goto, Advance, NextTry, system
  <2> QED BY <1>3, <2>1 DEF Bare
<1>8. CASE ~Scan /\ ~MountSlot /\ ~Store /\ \A x \in Threads : ~Finish(x)
  <2>1. count' = count /\ dirs' = dirs
    BY <1>8, TableKept
  <2>2. ~Bare(d)
    BY <1>8, BareStays
  <2>3. d \in dirs' \/ (pc'["task"] = "store" /\ d = at'["task"])
    BY <1>3, <1>8, <2>1, <2>2, Storing
  <2>4. CASE SameLayers
    BY <1>3, <2>1, <2>2, <2>3, <2>4 DEF SameLayers
  <2>5. ASSUME NEW x \in Threads, Detach(x), mnt' # mnt PROVE mnt'[d] = mnt[d]
    <3>1. PICK e \in Slots : /\ ~Bare(e) /\ (Len(mnt[e]) = 1 => mnt'[e] = <<>>)
                             /\ \A q \in Slots \ {e} : mnt'[q] = mnt[q]
      BY <2>5, DetachTop
    <3>2. Len(mnt[e]) = 1
      BY <1>2, <3>1 DEF Held
    <3>3. d # e
      BY <3>1, <3>2
    <3> QED BY <3>1, <3>3
  <2> QED BY <1>3, <1>8, <2>1, <2>2, <2>3, <2>4, <2>5, MntStep
<1> QED BY <1>4, <1>5, <1>6, <1>7, <1>8

LEMMA PassedStep ==
  ASSUME Typed, Placed, Apart, Held, Passed, [Next]_vars
  PROVE  Passed'
<1>0. /\ at \in [Threads -> Nat \ {0}] /\ Slots \subseteq Nat \ {0} /\ count \in Nat
      /\ pc \in [Threads -> Points] /\ dir \in [Threads -> BOOLEAN]
  BY Constants DEF Typed, TypeOK, Slots
<1>1. CASE UNCHANGED vars
  BY <1>1 DEF vars, system, shared, tables, locals, history, Passed, Clean, Bare
<1> SUFFICES ASSUME Next, Clean'
             PROVE  /\ \A x \in Threads :
                         /\ pc'[x] \in {"umount", "detach"} =>
                              \A d \in Slots : d < at'[x] => mnt'[d] = <<>>
                         /\ pc'[x] = "detach" => dir'[x] \/ mnt'[at'[x]] = <<>>
                         /\ pc'[x] \in {"look", "remove"} =>
                              \A d \in Slots : d <= at'[x] => mnt'[d] = <<>>
                         /\ pc'[x] = "finish" => \A d \in Slots : mnt'[d] = <<>>
                    /\ pc'["task"] \in {"mount", "attach"} =>
                         \A d \in Slots : d >= at'["task"] => mnt'[d] = <<>>
                    /\ pc'["task"] = "store" =>
                         \A d \in Slots : d > at'["task"] => mnt'[d] = <<>>
  BY <1>1 DEF Passed, Bare
<1>2. Clean
  BY CleanBefore
<1>3. /\ \A x \in Threads :
           /\ pc[x] \in {"umount", "detach"} => \A d \in Slots : d < at[x] => Bare(d)
           /\ pc[x] = "detach" => dir[x] \/ Bare(at[x])
           /\ pc[x] \in {"look", "remove"} => \A d \in Slots : d <= at[x] => Bare(d)
           /\ pc[x] = "finish" => \A d \in Slots : Bare(d)
      /\ pc["task"] \in {"mount", "attach"} => \A d \in Slots : d >= at["task"] => Bare(d)
      /\ pc["task"] = "store" => \A d \in Slots : d > at["task"] => Bare(d)
  BY <1>2 DEF Passed
<1>4. ASSUME NEW x \in Threads, Umounting(x) PROVE ~MountSlot /\ pc["task"] # "store"
  <2>1. ~Mounting /\ ~MountSlot
    BY <1>2, <1>4, NoMounting DEF Clean
  <2> QED BY <2>1 DEF Mounting
<1>5. ASSUME NEW x \in Threads, Umounting(x), NEW d \in Slots, Bare(d) PROVE mnt'[d] = <<>>
  BY <1>4, <1>5, BareStays
<1>6. ASSUME NEW x \in Threads, pc'[x] = "umount", NEW d \in Slots, d < at'[x]
      PROVE  mnt'[d] = <<>>
  <2>1. CASE RemoveDir(x)
    <3>1. at'[x] = at[x] + 1 /\ pc[x] = "remove"
      BY <1>0, <2>1 DEF RemoveDir, Goto
    <3>2. d <= at[x]
      BY <1>0, <1>6, <3>1
    <3> QED BY <1>3, <1>5, <3>1, <3>2 DEF Umounting
  <2>2. CASE at'[x] = 1
    BY <1>0, <1>6, <2>2
  <2>3. CASE pc[x] = "umount" /\ at'[x] = at[x]
    BY <1>3, <1>5, <1>6, <2>3 DEF Umounting
  <2> QED BY <1>6, <2>1, <2>2, <2>3, Control
<1>7. ASSUME NEW x \in Threads, Umount(x)
      PROVE  /\ at' = at /\ mnt' = mnt /\ pc[x] = "umount"
             /\ pc'[x] = "detach" => /\ ~Past(at[x]) /\ dir'[x] = (at[x] \in dirs)
                                    /\ at[x] \in Slots
             /\ pc'[x] = "finish" => Past(at[x])
  <2>1. /\ at' = at /\ mnt' = mnt /\ pc[x] = "umount"
        /\ Past(at[x]) => pc' = [pc EXCEPT ![x] = "finish"]
        /\ ~Past(at[x]) => /\ pc' = [pc EXCEPT ![x] = "detach"]
                           /\ dir' = [dir EXCEPT ![x] = at[x] \in dirs]
    BY <1>7 DEF Umount, Goto, system
  <2>2. ~Past(at[x]) => at[x] \in Slots
    BY <1>0, Constants DEF Past, Typed, TypeOK, Slots
  <2>3. ~Past(at[x]) => dir'[x] = (at[x] \in dirs)
    BY <1>0, <2>1, Zenon
  <2> QED BY <1>0, <2>1, <2>2, <2>3
<1>8. ASSUME NEW x \in Threads, pc'[x] = "detach"
      PROVE  /\ \A d \in Slots : d < at'[x] => mnt'[d] = <<>>
             /\ dir'[x] \/ mnt'[at'[x]] = <<>>
  <2>1. CASE Umount(x)
    <3>1. at' = at /\ mnt' = mnt /\ pc[x] = "umount" /\ dir'[x] = (at[x] \in dirs) /\ at[x] \in Slots
      BY <1>7, <1>8, <2>1
    <3>2. pc["task"] # "store"
      BY <1>4, <3>1 DEF Umounting
    <3>3. at[x] \in dirs \/ Bare(at[x])
      BY <1>2, <3>1, <3>2 DEF Held
    <3> QED BY <1>3, <3>1, <3>3 DEF Bare
  <2>2. CASE pc[x] = "detach" /\ at'[x] = at[x] /\ dir'[x] = dir[x]
    <3>1. at[x] \in Slots /\ Umounting(x)
      BY <2>2 DEF Placed, Removing, Umounting
    <3> QED BY <1>3, <1>5, <2>2, <3>1
  <2> QED BY <1>8, <2>1, <2>2, Control
<1>9. ASSUME NEW x \in Threads, pc'[x] = "look", NEW d \in Slots, d <= at'[x]
      PROVE  mnt'[d] = <<>>
  <2>1. CASE Detach(x)
    <3>1. at' = at /\ pc[x] = "detach"
      BY <2>1 DEF Detach, Goto, locals
    <3>2. CASE d < at[x]
      BY <1>3, <1>5, <3>1, <3>2 DEF Umounting
    <3>3. CASE ~(d < at[x])
      <4>1. d = at[x]
        BY <1>0, <1>9, <3>1, <3>3
      <4>2. CASE Bare(d)
        BY <1>5, <3>1, <4>2 DEF Umounting
      <4>3. CASE ~Bare(d)
        <5>1. dir[x] /\ Len(mnt[d]) = 1
          BY <1>2, <1>3, <3>1, <4>1, <4>3 DEF Held
        <5>2. mnt' # mnt
          BY <2>1, <4>1, <4>3, <5>1, DetachKeeps DEF Clean
        <5>3. PICK e \in Slots : e = at[x] /\ (Len(mnt[e]) = 1 => mnt'[e] = <<>>)
          BY <2>1, <5>2, DetachTop
        <5> QED BY <4>1, <5>1, <5>3
      <4> QED BY <4>2, <4>3
    <3> QED BY <3>2, <3>3
  <2>2. CASE pc[x] = "look" /\ at'[x] = at[x]
    BY <1>3, <1>5, <1>9, <2>2 DEF Umounting
  <2> QED BY <1>9, <2>1, <2>2, Control
<1>10. ASSUME NEW x \in Threads, pc'[x] = "remove", NEW d \in Slots, d <= at'[x]
       PROVE  mnt'[d] = <<>>
  <2>1. pc[x] \in {"look", "remove"} /\ at'[x] = at[x]
    BY <1>10, Control DEF Look, Goto
  <2> QED BY <1>3, <1>5, <1>10, <2>1 DEF Umounting
<1>11. ASSUME NEW x \in Threads, pc'[x] = "finish", NEW d \in Slots
       PROVE  mnt'[d] = <<>>
  <2>1. CASE Umount(x)
    <3>1. Past(at[x]) /\ mnt' = mnt /\ pc[x] = "umount"
      BY <1>7, <1>11, <2>1
    <3>2. CASE d < at[x]
      BY <1>3, <3>1, <3>2 DEF Bare
    <3>3. CASE ~(d < at[x])
      <4>1. ~(d <= count)
        BY <1>0, <3>1, <3>3 DEF Past
      <4> QED BY <1>2, <3>1, <4>1 DEF Held, Bare
    <3> QED BY <3>2, <3>3
  <2>2. CASE pc[x] = "finish"
    BY <1>3, <1>5, <2>2 DEF Umounting
  <2> QED BY <1>11, <2>1, <2>2, Control
<1>12. ASSUME pc'["task"] = "mount", NEW d \in Slots, d >= at'["task"]
       PROVE  mnt'[d] = <<>>
  <2>1. CASE Scan
    BY <2>1, AllBareAfterScan DEF Bare
  <2>2. CASE ~Scan
    <3>1. ~MountSlot
      BY <1>0, <1>12 DEF MountSlot, Goto, Threads
    <3>2. \/ (MountRefused \/ Store) /\ at'["task"] = at["task"] + 1
          \/ pc["task"] = "mount" /\ at'["task"] = at["task"]
      BY <1>12, <2>2, Control
    <3>3. CASE (MountRefused \/ Store) /\ at'["task"] = at["task"] + 1
      <4>1. pc["task"] \in {"attach", "store"}
        BY <3>3 DEF MountRefused, Store, Goto, Advance, NextTry
      <4>2. d > at["task"] /\ d >= at["task"]
        BY <1>0, <1>12, <3>3 DEF Threads
      <4> QED BY <1>3, <3>1, <4>1, <4>2, BareStays
    <3>4. CASE pc["task"] = "mount" /\ at'["task"] = at["task"]
      BY <1>3, <1>12, <3>1, <3>4, BareStays
    <3> QED BY <3>2, <3>3, <3>4
  <2> QED BY <2>1, <2>2
<1>13. ASSUME pc'["task"] = "attach", NEW d \in Slots, d >= at'["task"]
       PROVE  mnt'[d] = <<>>
  <2>1. ~MountSlot
    BY <1>0, <1>13 DEF MountSlot, Goto, Threads
  <2>2. pc["task"] \in {"mount", "attach"} /\ at'["task"] = at["task"]
    BY <1>13, Control DEF MakeDir, Goto
  <2> QED BY <1>3, <1>13, <2>1, <2>2, BareStays
<1>14. ASSUME pc'["task"] = "store", NEW d \in Slots, d > at'["task"]
       PROVE  mnt'[d] = <<>>
  <2>1. CASE MountSlot
    <3>1. PICK e \in Slots : e = at["task"] /\ \A q \in Slots \ {e} : mnt'[q] = mnt[q]
      BY <2>1, MountTop
    <3>2. pc["task"] = "attach" /\ at' = at
      BY <2>1 DEF MountSlot, Goto, locals
    <3>3. d # e /\ d >= at["task"]
      BY <1>0, <1>14, <3>1, <3>2 DEF Threads
    <3>4. mnt'[d] = mnt[d]
      BY <3>1, <3>3
    <3> QED BY <1>3, <3>2, <3>3, <3>4 DEF Bare
  <2>2. CASE ~MountSlot
    <3>1. pc["task"] = "store" /\ at'["task"] = at["task"]
      BY <1>14, <2>2, Control
    <3> QED BY <1>3, <1>14, <2>2, <3>1, BareStays
  <2> QED BY <2>1, <2>2
<1> QED BY <1>6, <1>8, <1>9, <1>10, <1>11, <1>12, <1>13, <1>14

LEMMA ReleasedStep ==
  ASSUME Typed, Placed, Apart, Held, Passed, AllReleased, [Next]_vars
  PROVE  AllReleased'
<1>1. CASE UNCHANGED vars
  BY <1>1 DEF vars, system, shared, history, AllReleased, Bare
<1> SUFFICES ASSUME Next, status' = "unmounted", Clean', NEW d \in Slots
             PROVE  mnt'[d] = <<>>
  BY <1>1 DEF AllReleased, Clean, Bare
<1>2. Clean
  BY CleanBefore
<1>3. CASE status = "unmounted"
  <2>1. ~MountSlot
    BY <1>2, <1>3 DEF Apart, Clean, MountSlot, Mounting, Goto
  <2>2. Bare(d)
    BY <1>2, <1>3 DEF AllReleased, Clean
  <2> QED BY <2>1, <2>2, BareStays
<1>4. CASE status # "unmounted"
  <2>1. ASSUME NEW x \in Threads, Finish(x) PROVE mnt'[d] = <<>>
    <3>1. pc[x] = "finish" /\ mnt' = mnt
      BY <2>1 DEF Finish, Goto, system
    <3> QED BY <1>2, <3>1 DEF Passed, Bare
  <2>2. \E x \in Threads : Finish(x)
    <3>1. Environment => status' = status
      BY EnvironmentOutside DEF Outside
    <3>2. \A x \in Threads : Umount(x) \/ Detach(x) \/ Look(x) \/ RemoveDir(x) => status' = status
      BY DEF Umount, Detach, Look, RemoveDir, shared
    <3>3. Eject \/ Watch \/ Again \/ Settle \/ Gone \/ SetMounted \/ SetMountFailed
            => status' # "unmounted" \/ status' = status
      BY DEF Eject, Watch, Again, Settle, Gone, SetMounted, SetMountFailed, shared
    <3>4. Scan \/ MakeDir \/ MountSlot \/ MountRefused \/ Store => status' = status
      BY DEF Scan, MakeDir, MountSlot, MountRefused, Store, shared
    <3> QED BY <1>4, <3>1, <3>2, <3>3, <3>4 DEF Next, TaskStep, UmountStep, Threads
  <2> QED BY <2>1, <2>2
<1> QED BY <1>3, <1>4

-----------------------------------------------------------------------------
(* The theorems. *)

LEMMA InvInit == Init => IInv
<1> SUFFICES ASSUME Init PROVE IInv
  OBVIOUS
<1>1. Typed
  BY TypeInit
<1>2. Placed /\ Apart /\ Written
  BY DEF Init, Placed, Apart, Written, Resting, Visiting, Removing, Mounting, Umounting, Threads
<1>3. Listed /\ Preserved /\ AllReleased
  BY DEF Init, Listed, Empty, Preserved, AllReleased
<1>4. Counted /\ Popped
  BY DEF Init, Counted, Popped, Threads
<1>5. OnTop /\ Held
  BY DEF Init, OnTop, Held, Bare, Visiting
<1>6. Passed
  BY DEF Init, Passed, Bare, Threads
<1> QED BY <1>1, <1>2, <1>3, <1>4, <1>5, <1>6 DEF IInv

LEMMA InvStep == IInv /\ [Next]_vars => IInv'
<1> SUFFICES ASSUME IInv, [Next]_vars PROVE IInv'
  OBVIOUS
<1>1. Typed /\ Placed /\ Apart /\ Written /\ Listed /\ Counted /\ OnTop /\ Popped /\ Preserved
      /\ Held /\ Passed /\ AllReleased
  BY DEF IInv
<1>2. Typed' /\ Placed' /\ Apart' /\ Written' /\ Listed'
  BY <1>1, TypeStep, PlacedStep, ApartStep, WrittenStep, ListedStep
<1>3. Counted' /\ OnTop' /\ Popped' /\ Preserved'
  BY <1>1, CountedStep, OnTopStep, PoppedStep, PreservedStep
<1>4. Held' /\ Passed' /\ AllReleased'
  BY <1>1, HeldStep, PassedStep, ReleasedStep
<1> QED BY <1>2, <1>3, <1>4 DEF IInv

THEOREM Inductive == Spec => []IInv
BY InvInit, InvStep, PTL DEF Spec

\* Every variable of UsbConnection keeps its type, whatever is plugged in or out.
THEOREM UsbType == Spec => []TypeOK
<1>1. IInv => TypeOK
  BY DEF IInv, Typed
<1> QED BY <1>1, Inductive, PTL

\* The table names what is mounted, although the task and the user interface
\* share it without a lock and a command stands between reading an entry and
\* acting on it: only a mount writes an entry, and whoever unmounts clears them
\* all before it returns (csmpr_usb.c, UsbCon_Umount).  The round that begins
\* while the user interface still unmounts is left out, as Listed says.
THEOREM TableNamesMounted == Spec => []Listed
<1>1. IInv => Listed
  BY DEF IInv
<1> QED BY <1>1, Inductive, PTL

\* A mount that succeeds has mounted all partitions listed: Success_Count, which
\* is not reset between the rounds, never counts a partition twice.
THEOREM MountsAll == Spec => []AllMounted
<1>1. IInv => AllMounted
  BY CountedMounts DEF IInv
<1> QED BY <1>1, Inductive, PTL

\* rm deletes files of a disk that is plugged in only after one of the three
\* accidents named.
THEOREM FilesPreserved == Spec => []Preserved
<1>1. IInv => Preserved
  BY DEF IInv
<1> QED BY <1>1, Inductive, PTL

\* What the status tells to be unmounted is, for any number of partitions.
THEOREM UnmountedTruly == Spec => []AllReleased
<1>1. IInv => AllReleased
  BY DEF IInv
<1> QED BY <1>1, Inductive, PTL

=============================================================================
