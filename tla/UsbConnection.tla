---------------------------- MODULE UsbConnection ----------------------------
(***************************************************************************)
(* csmpr_usb.c: the task that watches for USB disks, mounts their          *)
(* partitions and unmounts them, and the removal the user asks for in the  *)
(* main menu.  The task and the user interface share the status and two    *)
(* tables without a lock.  /dev, the mounted file systems and the shell    *)
(* commands mount, umount and rm are external.                             *)
(***************************************************************************)
EXTENDS Integers, SequencesExt

CONSTANTS Disks,        \* /dev/sda to /dev/sde, as far as they are used
          Partitions,   \* their partitions, no more than PARTITION_NUM
          DiskOf,       \* the disk of a partition
          Tries,        \* rounds of UsbCon_Mount: 3
          MaxPlugs,     \* bound: how often a disk is plugged in
          None          \* an empty name

ASSUME UsbAssumption ==
    /\ IsFiniteSet(Partitions) /\ None \notin Partitions
    /\ DiskOf \in [Partitions -> Disks]
    /\ Tries \in Nat \ {0} /\ MaxPlugs \in Nat

\* The entries of the tables; entry i belongs to the directory USB_MOUNT_DIR i.
Slots  == 1 .. Cardinality(Partitions)
Names  == Partitions \cup {None}
Empty  == [i \in Slots |-> None]
Layers == [part : Partitions, live : BOOLEAN, used : BOOLEAN]

\* UsbStatus_t; USB_STATUS_UNMOUNT_FAILED is never assigned.
Waiting == {"unknown", "disconnect", "mount_failed"}
Present == {"connected", "mounted"}

VARIABLES
    disks,    \* the disks that can be opened
    nodes,    \* the partitions in /dev, in the order readdir returns them
    mnt,      \* per directory the file systems mounted on it, the last on top
    plugs,    \* how often a disk was plugged in
    status,   \* lv_UsbConStatus
    names,    \* acUsbDevFileName
    count,    \* acUsbDevCount
    table,    \* acPartition_Data of stPartition_data
    dirs,     \* its entries whose acPartition_Dir is filled
    pc,       \* where the task and the user interface are
    at,       \* their loop index, j or i
    dev,      \* ShellCommand of UsbCon_Mount: the partition it names
    dir,      \* ShellCommand of UsbCon_Umount: whether it names the directory
    failed,   \* Result of UsbCon_Umount
    try, success,  \* nTry, Success_Count of UsbCon_Mount
    ret,      \* where the task returns from UsbCon_Umount
    erased,   \* history: partitions whose files rm has deleted
    trouble,  \* history: what has gone on that can lead to that
    calm      \* history: nothing has disturbed the mount in progress

system  == <<disks, nodes, mnt, plugs>>
tables  == <<names, count, table, dirs>>
shared  == <<status, tables>>
locals  == <<at, dev, dir, failed, try, success, ret>>
history == <<erased, trouble, calm>>
vars    == <<system, shared, pc, locals, history>>

Threads  == {"task", "ui"}
Listing  == [i \in Slots |-> IF i <= Len(nodes) THEN nodes[i] ELSE None]
Goto(x, from, to) == pc[x] = from /\ pc' = [pc EXCEPT ![x] = to]

\* What is mounted on top of a directory.
Bare(d)      == mnt[d] = <<>>
Shows(d, p)  == ~Bare(d) /\ Last(mnt[d]).part = p /\ Last(mnt[d]).live

Umounting(x) == pc[x] \in {"umount", "detach", "look", "remove", "finish"}
Mounting     == pc["task"] \in {"scan", "mount", "attach", "store", "mounted"}
-----------------------------------------------------------------------------
Init ==
    /\ disks = {} /\ nodes = <<>> /\ plugs = 0
    /\ mnt = [d \in Slots |-> <<>>]
    /\ status = "unknown" /\ names = Empty /\ count = 0 /\ table = Empty
    /\ dirs = {} /\ dev = None /\ dir = [x \in Threads |-> FALSE]
    /\ pc = [x \in Threads |-> IF x = "task" THEN "loop" ELSE "idle"]
    /\ at = [x \in Threads |-> 1] /\ failed = [x \in Threads |-> FALSE]
    /\ try = 1 /\ success = 0 /\ ret = "loop"
    /\ erased = {} /\ trouble = {} /\ calm = FALSE
-----------------------------------------------------------------------------
(* External: the user, the kernel, and the files others have open.         *)

Plug(k) ==
    /\ k \notin disks /\ plugs < MaxPlugs
    /\ \A p \in ToSet(nodes) : DiskOf[p] # k
    /\ disks' = disks \cup {k} /\ plugs' = plugs + 1
    /\ UNCHANGED <<nodes, mnt, shared, pc, locals, history>>

\* The kernel has read the partition table; a new name may be listed anywhere.
Appear(p) ==
    /\ DiskOf[p] \in disks /\ p \notin ToSet(nodes)
    /\ \E i \in 1 .. Len(nodes) + 1 : nodes' = InsertAt(nodes, i, p)
    /\ calm' = FALSE
    /\ UNCHANGED <<disks, mnt, plugs, shared, pc, locals, erased, trouble>>

\* What is mounted of a disk that is pulled out stays mounted, and its names
\* go one after the other.
Pull(k) ==
    /\ k \in disks
    /\ disks' = disks \ {k}
    /\ mnt' = [d \in Slots |-> [i \in 1 .. Len(mnt[d]) |->
                 [mnt[d][i] EXCEPT !.live = @ /\ DiskOf[mnt[d][i].part] # k]]]
    /\ calm' = FALSE
    /\ UNCHANGED <<nodes, plugs, shared, pc, locals, erased, trouble>>

Vanish ==
    /\ \E i \in 1 .. Len(nodes) :
         DiskOf[nodes[i]] \notin disks /\ nodes' = RemoveAt(nodes, i)
    /\ calm' = FALSE
    /\ UNCHANGED <<disks, mnt, plugs, shared, pc, locals, erased, trouble>>

\* A recording or a player opens a file, whatever the status is (a recording
\* that goes on opens its next file), and closes it.
Open(d) ==
    /\ ~Bare(d) /\ Last(mnt[d]).live
    /\ mnt' = [mnt EXCEPT ![d][Len(mnt[d])].used = TRUE]
    /\ UNCHANGED <<disks, nodes, plugs, shared, pc, locals, history>>

Close(d) ==
    /\ \E i \in 1 .. Len(mnt[d]) :
         mnt[d][i].used /\ mnt' = [mnt EXCEPT ![d][i].used = FALSE]
    /\ UNCHANGED <<disks, nodes, plugs, shared, pc, locals, history>>
-----------------------------------------------------------------------------
(* UsbCon_Task.  Every test is a UsbCon_DetectConnection, with a sleep      *)
(* before the next one.                                                    *)

\* Fault: the case of a mounted disk is missing.
WatchedAsConnected == status = "connected"

\* The cases of the switch.
Watched == status \in Present

\* Fault: after a failure no disk is waited for.
AwaitedOnce == status \in Waiting \ {"mount_failed"}

Awaited == status \in Waiting

\* The switch on the status, every two seconds.
Watch ==
    /\ \/ /\ status = "unmounted" /\ disks = {} /\ pc["task"] = "loop"
          /\ status' = "disconnect" /\ UNCHANGED pc
       \/ Awaited /\ disks # {} /\ Goto("task", "loop", "again") /\ UNCHANGED status
       \/ Watched /\ disks = {} /\ Goto("task", "loop", "gone") /\ UNCHANGED status
    /\ UNCHANGED <<system, tables, locals, history>>

Again ==
    /\ Goto("task", "again", IF disks # {} THEN "settle" ELSE "loop")
    /\ UNCHANGED <<system, shared, locals, history>>

\* The task begins to mount or to unmount while the user interface unmounts.
Meet == trouble' = IF Umounting("ui") THEN trouble \cup {"both"} ELSE trouble

\* After two seconds the disk is still there: UsbCon_Mount is called.
Settle ==
    /\ IF disks # {}
       THEN /\ status' = "connected"
            /\ calm' = ~Umounting("ui") /\ Meet
            /\ Goto("task", "settle", "scan")
       ELSE /\ UNCHANGED <<status, calm, trouble>>
            /\ Goto("task", "settle", "loop")
    /\ UNCHANGED <<system, tables, locals, erased>>

\* The index at the beginning of a loop.
Rewind(x) == at' = [at EXCEPT ![x] = 1]

\* The disk is still away after 200 ms.
Gone ==
    /\ IF disks = {}
       THEN /\ status' = "disconnect" /\ ret' = "loop"
            /\ Goto("task", "gone", "umount") /\ Meet
       ELSE /\ UNCHANGED <<status, ret, trouble>>
            /\ Goto("task", "gone", "loop")
    /\ UNCHANGED <<system, tables, at, dev, dir, failed, try, success, erased, calm>>

\* Fault: the successes of this call are counted in the next one.
SetMountedCounting ==
    /\ Goto("task", "mounted", "loop") /\ status' = "mounted"
    /\ Rewind("task") /\ try' = 1 /\ calm' = FALSE
    /\ UNCHANGED <<system, tables, dev, dir, failed, success, ret, erased, trouble>>

SetMounted ==
    /\ Goto("task", "mounted", "loop") /\ status' = "mounted"
    /\ Rewind("task") /\ try' = 1 /\ success' = 0 /\ calm' = FALSE
    /\ UNCHANGED <<system, tables, dev, dir, failed, ret, erased, trouble>>

SetMountFailed ==
    /\ Goto("task", "failed", "loop") /\ status' = "mount_failed"
    /\ try' = 1 /\ success' = 0 /\ ret' = "loop"
    /\ UNCHANGED <<system, tables, at, dev, dir, failed, history>>
-----------------------------------------------------------------------------
(* UsbCon_Mount.                                                           *)

\* The next round, or after the last one UsbCon_Umount.
NextTry(from) ==
    /\ IF try < Tries
       THEN try' = try + 1 /\ Goto("task", from, "scan") /\ UNCHANGED ret
       ELSE ret' = "failed" /\ Goto("task", from, "umount") /\ UNCHANGED try
    /\ Rewind("task")

\* The names and the table are cleared, and /dev is listed anew, whatever is
\* mounted; a partition that is mounted may be listed at another place.
Scan ==
    /\ names' = Listing /\ count' = Len(nodes) /\ table' = Empty /\ dirs' = {}
    /\ trouble' = trouble
         \cup (IF \E d \in Slots : ~Bare(d) THEN {"retry"} ELSE {})
         \cup (IF \E d \in Slots : \E i \in 1 .. Len(mnt[d]) :
                    mnt[d][i].live /\ mnt[d][i].part # Listing[d]
               THEN {"shifted"} ELSE {})
    /\ IF nodes = <<>> THEN NextTry("scan")
       ELSE Goto("task", "scan", "mount") /\ UNCHANGED <<at, try, ret>>
    /\ UNCHANGED <<system, status, dev, dir, failed, success, erased, calm>>

\* The next partition, or the next round.
Advance(from) ==
    IF at["task"] < count
    THEN /\ Goto("task", from, "mount") /\ at' = [at EXCEPT !["task"] = @ + 1]
         /\ UNCHANGED <<try, ret>>
    ELSE NextTry(from)

\* mkdir, and the command with the name as it is in the table now; of the up to
\* three commands the last one tried, which alone can have an effect.
MakeDir ==
    /\ Goto("task", "mount", "attach") /\ dev' = names[at["task"]]
    /\ UNCHANGED <<system, shared, at, dir, failed, try, success, ret, history>>

\* A partition that is there is not mounted on itself.
Mountable(d, p) ==
    p \in ToSet(nodes) /\ DiskOf[p] \in disks /\ ~Shows(d, p)

\* The command succeeds.
MountSlot ==
    LET d == at["task"]
    IN  /\ Goto("task", "attach", "store") /\ Mountable(d, dev)
        /\ mnt' = [mnt EXCEPT ![d] =
                     Append(@, [part |-> dev, live |-> TRUE, used |-> FALSE])]
        /\ UNCHANGED <<disks, nodes, plugs, shared, locals, history>>

\* It fails; also for want of the directory, which another thread removes.
MountRefused ==
    /\ pc["task"] = "attach" /\ Advance("attach") /\ dev' = None
    /\ trouble' = IF Mountable(at["task"], dev)
                  THEN trouble \cup {"refused"} ELSE trouble
    /\ UNCHANGED <<system, shared, dir, failed, success, erased, calm>>

\* Fault: the entry has the partition of the command.
LabelMounted(d) == dev

\* The name an entry gets: the one in acUsbDevFileName by now.
Label(d) == names[d]

\* The entry of the table, and the count.
Store ==
    LET d == at["task"]
    IN  /\ pc["task"] = "store"
        /\ table' = [table EXCEPT ![d] = Label(d)] /\ dirs' = dirs \cup {d}
        /\ success' = success + 1 /\ dev' = None
        /\ IF success' = count
           THEN Goto("task", "store", "mounted") /\ UNCHANGED <<at, try, ret>>
           ELSE Advance("store")
        /\ UNCHANGED <<system, status, names, count, dir, failed, history>>
-----------------------------------------------------------------------------
(* UsbCon_Umount, in the task and in the user interface.                   *)

\* Fault: the status is not asked for.
EjectAnyTime ==
    /\ Goto("ui", "idle", "umount")
    /\ UNCHANGED <<system, shared, locals, history>>

\* The main menu calls it while the status is mounted.
Eject ==
    /\ Goto("ui", "idle", "umount") /\ status = "mounted"
    /\ UNCHANGED <<system, shared, locals, history>>

\* Fault: the last directory is left out.
PastButLast(d) == d >= count

\* The end of the loop; the user interface and the task share the count.
Past(d) == d > count

\* The test of the loop, and the command with the directory as it is in the
\* table now.
Umount(x) ==
    /\ IF Past(at[x])
       THEN Goto(x, "umount", "finish") /\ UNCHANGED dir
       ELSE /\ Goto(x, "umount", "detach")
            /\ dir' = [dir EXCEPT ![x] = at[x] \in dirs]
    /\ calm' = FALSE
    /\ UNCHANGED <<system, shared, at, dev, failed, try, success, ret,
                   erased, trouble>>

\* umount, whose result is overwritten by the next command's; it is refused
\* while a file is open.
Detach(x) ==
    LET d == at[x]
    IN  /\ Goto(x, "detach", "look")
        /\ IF ~dir[x] \/ Bare(d) THEN UNCHANGED <<mnt, trouble>>
           ELSE IF Last(mnt[d]).used
           THEN trouble' = trouble \cup {"busy"} /\ UNCHANGED mnt
           ELSE mnt' = [mnt EXCEPT ![d] = Front(@)] /\ UNCHANGED trouble
        /\ calm' = FALSE
        /\ UNCHANGED <<disks, nodes, plugs, shared, locals, erased>>

\* The next command; the table may have been cleared meanwhile.
Look(x) ==
    /\ Goto(x, "look", "remove") /\ dir' = [dir EXCEPT ![x] = at[x] \in dirs]
    /\ UNCHANGED <<system, shared, at, dev, failed, try, success, ret, history>>

\* rm -rf of the directory; it fails on one that is still mounted on, after it
\* has deleted what that holds.
RemoveDir(x) ==
    LET d == at[x]
        hit == dir[x] /\ ~Bare(d)
    IN  /\ Goto(x, "remove", "umount")
        /\ erased' = IF hit /\ Last(mnt[d]).live
                     THEN erased \cup {Last(mnt[d]).part} ELSE erased
        /\ failed' = [failed EXCEPT ![x] = hit]
        /\ dir' = [dir EXCEPT ![x] = FALSE] /\ at' = [at EXCEPT ![x] = d + 1]
        /\ UNCHANGED <<system, shared, dev, try, success, ret, trouble, calm>>

\* The status, if the last command succeeded, and then the tables; the number
\* of devices is left.
Finish(x) ==
    /\ Goto(x, "finish", IF x = "ui" THEN "idle" ELSE ret)
    /\ status' = IF failed[x] THEN status ELSE "unmounted"
    /\ names' = Empty /\ table' = Empty /\ dirs' = {}
    /\ Rewind(x) /\ failed' = [failed EXCEPT ![x] = FALSE]
    /\ calm' = FALSE
    /\ UNCHANGED <<system, count, dev, dir, try, success, ret, erased, trouble>>
-----------------------------------------------------------------------------
Environment ==
    \/ \E k \in Disks : Plug(k) \/ Pull(k)
    \/ Vanish \/ \E p \in Partitions : Appear(p)
    \/ \E d \in Slots : Open(d) \/ Close(d)

UmountStep(x) ==
    Umount(x) \/ Detach(x) \/ Look(x) \/ RemoveDir(x) \/ Finish(x)
TaskStep ==
    \/ Watch \/ Again \/ Settle \/ Gone \/ SetMounted \/ SetMountFailed
    \/ Scan \/ MakeDir \/ MountSlot \/ MountRefused \/ Store \/ UmountStep("task")

Next == Environment \/ TaskStep \/ Eject \/ UmountStep("ui")
Spec == Init /\ [][Next]_vars

\* The task is scheduled, its sleeps end, and so do the user interface's calls.
FairSpec ==
    Spec /\ WF_vars(TaskStep) /\ WF_vars(UmountStep("ui")) /\ WF_vars(Vanish)
-----------------------------------------------------------------------------
(* Properties.                                                             *)

Points == {"loop", "again", "settle", "gone", "scan", "mount", "attach", "store",
           "mounted", "failed", "idle", "umount", "detach", "look", "remove", "finish"}

\* Every variable has its type.
TypeOK ==
    /\ disks \subseteq Disks /\ plugs \in 0 .. MaxPlugs
    /\ nodes \in Seq(Partitions) /\ Len(nodes) <= Cardinality(Partitions)
    /\ mnt \in [Slots -> Seq(Layers)]
    /\ status \in Waiting \cup Present \cup {"unmounted"}
    /\ names \in [Slots -> Names] /\ table \in [Slots -> Names]
    /\ count \in 0 .. Cardinality(Partitions)
    /\ dirs \subseteq Slots /\ dev \in Names /\ dir \in [Threads -> BOOLEAN]
    /\ pc \in [Threads -> Points]
    /\ at \in [Threads -> Nat \ {0}] /\ failed \in [Threads -> BOOLEAN]
    /\ try \in 1 .. Tries /\ success \in Nat /\ ret \in {"loop", "failed"}
    /\ erased \subseteq Partitions
    /\ trouble \subseteq {"busy", "refused", "retry", "shifted", "both"}
    /\ calm \in BOOLEAN

\* rm -rf runs on the directories whose umount has just been tried, and its
\* result stands for the umount's.  No file of a disk that is plugged in is
\* deleted by it, unless a file of the disk was open, the partitions were listed
\* in another order while some were mounted, or the task and the user interface
\* have unmounted or mounted at the same time; all three do lose files.
Preserved == erased # {} => trouble \cap {"busy", "shifted", "both"} # {}

\* Success_Count counts on through the rounds and is compared with the number of
\* this round's partitions.  When they are equal every partition listed is
\* mounted on its own directory, if no disk, no name and no call of the user
\* interface has come between.
AllMounted ==
    pc["task"] = "mounted" /\ calm
        => \A d \in 1 .. count : Shows(d, names[d])

\* Without a lock between the task and the user interface, and whatever is
\* plugged in or out: outside UsbCon_Umount an entry of stPartition_data names
\* what was last mounted on its directory, so the files shown are the files of
\* the partition named; also when the user interface takes away what the task has
\* just mounted and clears the names before the task stores its entry.
Listed ==
    (\A x \in Threads : ~Umounting(x))
        => \A d \in Slots : table[d] # None
             => ~Bare(d) /\ Last(mnt[d]).part = table[d]

\* "Unmounted" is only told when nothing is mounted, although no result of
\* umount is looked at; left out are files that were open, partitions that were
\* mounted when the next round cleared the table, and the two callers at once.
AllReleased ==
    status = "unmounted" /\ trouble \subseteq {"refused"} => \A d \in Slots : Bare(d)

\* When the disks are gone for good the status does not stay mounted.
PullNoticed == <>[](disks = {}) => <>[](status \notin Present)

\* A partition that stays is mounted at last (or has been unmounted), also when
\* its name appears only after the rounds of the first call; left out are mounts
\* that fail, and partitions mounted when the next round cleared the table, which
\* are never counted again.
MountedAtLast ==
    /\ []({"refused", "retry"} \cap trouble = {})
    /\ <>[](\E p \in ToSet(nodes) : DiskOf[p] \in disks)
    => <>[](status \in {"mounted", "unmounted"})
==============================================================================
