--------------------------- MODULE EventDispatcher ---------------------------
(***************************************************************************)
(* The event dispatcher csapi/csevt: a table of descriptors, the calls     *)
(* that edit it under evt_mutex, and the thread notify_proc, which waits   *)
(* in select with the mutex and releases it around every callback.         *)
(*                                                                         *)
(* Reading, writing and exceptions are treated alike by the code; "io"     *)
(* stands for the three.  A call that edits the table holds the mutex from *)
(* its first access to its last, so each is one step.  An entry in use has *)
(* a callback and a free one has none, so the callback is not a field.     *)
(***************************************************************************)
EXTENDS Integers, FiniteSets

CONSTANTS
  MAX_NUM_FDS,   \* descriptors, and entries of the table
  Masks          \* the sets of events clients register for

ASSUME SizeAssumption == MAX_NUM_FDS \in Nat \ {0}
ASSUME MasksAssumption == Masks \subseteq SUBSET {"io", "user"}

Fds    == 0 .. MAX_NUM_FDS - 1
Slots  == 0 .. MAX_NUM_FDS - 1
Free   == -1
NoSlot == MAX_NUM_FDS

VARIABLES
  flist,     \* the table: [fd, events, flag] per entry (flag: dispatch_flags)
  max_fd,
  stopped,   \* is_stopped
  lock,      \* evt_mutex: "free", "notify", or "leaked" by a call
  pc,        \* where notify_proc is
  loop,      \* the loop it is in: "build", "dispatch" or "poll"
  ii,        \* its index
  sets,      \* the descriptors in its fd_sets
  open,      \* descriptors open in the process
  ready,     \* open descriptors with something to read
  due,       \* history: reported descriptors no user callback was made for since
  lost       \* history: those whose mark was cleared without a callback

table  == <<flist, max_fd>>
thread == <<pc, loop, ii, sets>>
device == <<open, ready>>
history == <<due, lost>>
vars   == <<table, stopped, lock, thread, device, history>>

Entry == [fd : Fds \cup {Free}, events : SUBSET {"io", "user"}, flag : {0, 1}]

EmptyEntry == [fd |-> Free, events |-> {}, flag |-> 0]

InUse(s) == flist[s].fd # Free

-----------------------------------------------------------------------------
(* The table. *)

\* The first slot of a set, NoSlot when there is none.
First(S) == IF S = {} THEN NoSlot ELSE CHOOSE s \in S : \A t \in S : s <= t

\* Fault: the free entry is looked for first.
FindFreeFirst(fd) == First({s \in Slots : flist[s].fd \in {fd, Free}})

\* Fault: the search stops one entry early.
FindShort(fd) ==
  LET Holding(x) == {s \in Slots \ {MAX_NUM_FDS - 1} : flist[s].fd = x}
  IN  IF Holding(fd) # {} THEN First(Holding(fd)) ELSE First(Holding(Free))

\* fds_find: the entry of the descriptor, else the first free entry.
Find(fd) ==
  LET Holding(x) == {s \in Slots : flist[s].fd = x}
  IN  IF Holding(fd) # {} THEN First(Holding(fd)) ELSE First(Holding(Free))

\* fds_free: memset to 0, then fd = -1.
Freed(e) == EmptyEntry

\* Fault: the last descriptor is taken for the highest.
RaisedToLast(fd) == fd

\* "update the max fd" of CSEVT_Register.
Raised(fd) == IF fd >= max_fd THEN fd ELSE max_fd

\* update_max_fd, over a table: it only ever raises max_fd.
Updated(t) ==
  LET Above == {t[s].fd : s \in Slots} \cap (max_fd + 1 .. MAX_NUM_FDS - 1)
  IN  IF Above = {} THEN max_fd ELSE CHOOSE m \in Above : \A x \in Above : x <= m

\* Fault: the mark of the entry is not reset.
NewEntryMarked(e, fd, mask) == [fd |-> fd, events |-> mask, flag |-> e.flag]

NewEntry(e, fd, mask) == [fd |-> fd, events |-> mask, flag |-> 0]

-----------------------------------------------------------------------------
(* The calls.  None is made after CSEVT_Term has returned. *)

Running  == pc # "crash"
Callable == Running /\ pc # "done" /\ lock = "free"

\* No report of a descriptor is outstanding any more.
Settle(fd) == due' = due \ {fd} /\ lost' = lost \ {fd}

\* CSEVT_Register; without an entry it returns with the mutex held.
Register(fd, mask) ==
  LET s == Find(fd) IN
  /\ Callable
  /\ IF s = NoSlot
       THEN lock' = "leaked" /\ UNCHANGED <<table, history>>
       ELSE /\ flist' = [flist EXCEPT ![s] = NewEntry(@, fd, mask)]
            /\ max_fd' = Raised(fd)
            /\ Settle(fd)
            /\ UNCHANGED lock
  /\ UNCHANGED <<stopped, thread, device>>

\* CSEVT_UnRegister; for an unknown descriptor it clears a free entry.
UnRegister(fd) ==
  LET s == Find(fd)
      t == [flist EXCEPT ![s] = Freed(@)] IN
  /\ Callable
  /\ IF s = NoSlot
       THEN UNCHANGED table
       ELSE flist' = t /\ max_fd' = IF max_fd = fd THEN Updated(t) ELSE max_fd
  /\ Settle(fd)
  /\ UNCHANGED <<stopped, lock, thread, device>>

\* CSEVT_ReportEvent; for an unknown descriptor it marks a free entry.
ReportEvent(fd) ==
  LET s == Find(fd) IN
  /\ Callable
  /\ flist' = IF s = NoSlot THEN flist ELSE [flist EXCEPT ![s].flag = 1]
  /\ IF s # NoSlot /\ flist[s].fd = fd
       THEN due' = due \cup {fd} /\ lost' = lost \ {fd}
       ELSE UNCHANGED history
  /\ UNCHANGED <<max_fd, stopped, lock, thread, device>>

\* CSEVT_Term up to pthread_join; it returns when the thread is done.
Term ==
  /\ Running /\ ~stopped /\ stopped' = TRUE
  /\ UNCHANGED <<table, lock, thread, device, history>>

\* The rest of the process opens and closes descriptors, and data arrives.
Open(fd) ==
  /\ Running /\ fd \notin open /\ open' = open \cup {fd}
  /\ UNCHANGED <<table, stopped, lock, thread, ready, history>>

Close(fd) ==
  /\ Running /\ fd \in open /\ open' = open \ {fd} /\ ready' = ready \ {fd}
  /\ UNCHANGED <<table, stopped, lock, thread, history>>

Arrive(fd) ==
  /\ Running /\ fd \in open \ ready /\ ready' = ready \cup {fd}
  /\ UNCHANGED <<table, stopped, lock, thread, open, history>>

-----------------------------------------------------------------------------
(* notify_proc. *)

Goto(p) == pc' = p /\ UNCHANGED <<loop, ii, sets>>

\* Fault: is_stopped is tested once only.
SleepOn == pc' = "scan" /\ loop' = "build" /\ ii' = 0 /\ sets' = {}

\* Back to the outer loop, after usleep; what the loops kept is dead.
Sleep == pc' = "top" /\ loop' = "build" /\ ii' = 0 /\ sets' = {}

\* The test of the outer loop.
Top ==
  /\ pc = "top"
  /\ Goto(IF stopped THEN "done" ELSE "scan")
  /\ UNCHANGED <<table, stopped, lock, device, history>>

\* The scan for an entry in use reads the table without the mutex.
Scan ==
  /\ pc = "scan"
  /\ \/ InUse(ii) /\ pc' = "lock" /\ ii' = 0 /\ UNCHANGED <<loop, sets>>
     \/ ~InUse(ii) /\ ii # MAX_NUM_FDS - 1 /\ ii' = ii + 1 /\ UNCHANGED <<pc, loop, sets>>
     \/ ~InUse(ii) /\ ii = MAX_NUM_FDS - 1 /\ Sleep
  /\ UNCHANGED <<table, stopped, lock, device, history>>

Lock ==
  /\ pc = "lock" /\ lock = "free"
  /\ lock' = "notify" /\ Goto("loop")
  /\ UNCHANGED <<table, stopped, device, history>>

\* Fault: the first entry is passed over.
CalledAfterFirst ==
  {s \in ii .. MAX_NUM_FDS - 1 :
     /\ InUse(s) /\ s # 0
     /\ \/ loop = "build" /\ "user" \in flist[s].events /\ flist[s].flag = 1
        \/ loop = "dispatch" /\ flist[s].fd \in sets
        \/ loop = "poll" /\ flist[s].fd \notin open}

\* The entries from ii on for which the loop makes a callback.
Called ==
  {s \in ii .. MAX_NUM_FDS - 1 :
     /\ InUse(s)
     /\ \/ loop = "build" /\ "user" \in flist[s].events /\ flist[s].flag = 1
        \/ loop = "dispatch" /\ flist[s].fd \in sets
        \/ loop = "poll" /\ flist[s].fd \notin open}

\* A loop runs to its next callback and releases the mutex for it.
Reach ==
  /\ pc = "loop" /\ Called # {}
  /\ ii' = First(Called)
  /\ sets' = IF loop # "build" THEN sets ELSE
               sets \cup {flist[s].fd : s \in {t \in ii .. First(Called) :
                                                 InUse(t) /\ "io" \in flist[t].events}}
  /\ lock' = "free" /\ pc' = "unlocked" /\ UNCHANGED loop
  /\ UNCHANGED <<table, stopped, device, history>>

\* It loads the callback and its arguments after the release.  An entry that
\* was cleared meanwhile has no callback, and the call through NULL ends the
\* process.  The callback of an "io" event consumes it.
Call ==
  LET fd == flist[ii].fd IN
  /\ pc = "unlocked"
  /\ Goto(IF InUse(ii) THEN "called" ELSE "crash")
  /\ ready' = IF loop = "dispatch" THEN ready \ {fd} ELSE ready
  /\ IF loop = "build" THEN Settle(fd) ELSE UNCHANGED history
  /\ UNCHANGED <<table, stopped, lock, open>>

\* Fault: the entry of a closed descriptor stays.
ReturnKeepsClosed ==
  /\ pc = "called" /\ lock = "free"
  /\ lock' = "notify" /\ pc' = "loop" /\ ii' = ii + 1
  /\ flist' = IF loop = "build" THEN [flist EXCEPT ![ii].flag = 0] ELSE flist
  /\ UNCHANGED <<max_fd, stopped, loop, sets, device, history>>

\* The callback returns, the mutex is taken again: the build loop clears the
\* flag, the poll loop frees the entry, whatever the entry is by now.  A report
\* made during the callback is lost with the flag, be it of the registration
\* called or of one that has taken its entry.
Return ==
  /\ pc = "called" /\ lock = "free"
  /\ lock' = "notify" /\ pc' = "loop" /\ ii' = ii + 1
  /\ flist' = CASE loop = "build"    -> [flist EXCEPT ![ii].flag = 0]
                [] loop = "poll"     -> [flist EXCEPT ![ii] = Freed(@)]
                [] loop = "dispatch" -> flist
  /\ lost' = IF loop = "build" THEN lost \cup ({flist[ii].fd} \cap due) ELSE lost
  /\ UNCHANGED <<max_fd, stopped, loop, sets, device, due>>

\* The end of the build loop: select, with the mutex.  It looks at descriptors
\* up to max_fd; one that is closed makes it fail with EBADF; it times out
\* when nothing is ready.
Selected ==
  sets \cup {flist[s].fd : s \in {t \in ii .. MAX_NUM_FDS - 1 :
                                    InUse(t) /\ "io" \in flist[t].events}}

Select ==
  LET seen == Selected \cap (0 .. max_fd) IN
  /\ pc = "loop" /\ loop = "build" /\ Called = {}
  /\ \/ /\ ~(seen \subseteq open)
        /\ loop' = "poll" /\ ii' = 0 /\ sets' = {} /\ UNCHANGED <<pc, lock>>
     \/ /\ seen \subseteq open /\ seen \cap ready # {}
        /\ loop' = "dispatch" /\ ii' = 0 /\ sets' = seen \cap ready
        /\ UNCHANGED <<pc, lock>>
     \/ /\ seen \subseteq open /\ seen \cap ready = {}
        /\ lock' = "free" /\ Sleep
  /\ UNCHANGED <<table, stopped, device, history>>

\* Fault: the loop is left with the mutex.
UnlockForgotten ==
  /\ pc = "loop" /\ loop # "build" /\ Called = {}
  /\ Sleep
  /\ UNCHANGED <<table, stopped, lock, device, history>>

\* The end of the other loops.
Unlock ==
  /\ pc = "loop" /\ loop # "build" /\ Called = {}
  /\ lock' = "free" /\ Sleep
  /\ UNCHANGED <<table, stopped, device, history>>

-----------------------------------------------------------------------------
\* CSEVT_Init; some descriptors are open already.
Init ==
  /\ flist = [s \in Slots |-> EmptyEntry] /\ max_fd = 0
  /\ stopped = FALSE /\ lock = "free"
  /\ pc = "top" /\ loop = "build" /\ ii = 0 /\ sets = {}
  /\ open \in SUBSET Fds /\ ready = {}
  /\ due = {} /\ lost = {}

Edit(fd) ==
  \/ \E mask \in Masks : Register(fd, mask)
  \/ UnRegister(fd)

Notify == Top \/ Scan \/ Lock \/ Reach \/ Call \/ Return \/ Select \/ Unlock

Next ==
  \/ \E fd \in Fds : Edit(fd) \/ ReportEvent(fd)
  \/ \E fd \in Fds : Open(fd) \/ Close(fd) \/ Arrive(fd)
  \/ Term
  \/ Notify

Spec == Init /\ [][Next]_vars

\* The thread is scheduled, its callbacks return and it gets the mutex.
FairSpec == Spec /\ WF_vars(Notify)

-----------------------------------------------------------------------------
TypeOK ==
  /\ flist \in [Slots -> Entry] /\ max_fd \in Fds
  /\ stopped \in BOOLEAN /\ lock \in {"free", "notify", "leaked"}
  /\ pc \in {"top", "scan", "lock", "loop", "unlocked", "called", "done", "crash"}
  /\ loop \in {"build", "dispatch", "poll"}
  /\ ii \in 0 .. MAX_NUM_FDS
  /\ (pc # "loop" => ii \in Slots)
  /\ sets \subseteq Fds /\ open \subseteq Fds /\ ready \subseteq open
  /\ due \subseteq Fds /\ lost \subseteq Fds

\* A descriptor has at most one entry, whatever was freed and used again: the
\* search for the descriptor comes before the search for a free entry.
Unique ==
  \A s, t \in Slots : InUse(s) /\ flist[s].fd = flist[t].fd => s = t

\* No call finds the table full, so CSEVT_Register never takes its way out
\* that keeps the mutex locked.
NeverFull == \A fd \in Fds : Find(fd) # NoSlot

\* select looks at every registered descriptor.
MaxCovers == \A s \in Slots : flist[s].fd <= max_fd

\* The entry whose mark the build loop clears next, after its callback.
Clearing(s) == pc = "called" /\ loop = "build" /\ ii = s

\* A mark stands for a report: one left on a free entry is never taken for a
\* report of the registration that gets the entry.  And a report has a mark,
\* unless it was made while a callback ran in its entry: no step of the clients,
\* no search and no other clearing loses one.
FlagIsReport ==
  \A s \in Slots : InUse(s) =>
    /\ flist[s].flag = 1 => flist[s].fd \in due \/ Clearing(s)
    /\ flist[s].fd \in due => (flist[s].flag = 1 <=> flist[s].fd \notin lost)

\* The abstract state behind the table: the entries in use without their
\* places, and the callback the thread has released the mutex for.
Registrations == {flist[s] : s \in {t \in Slots : InUse(t)}}

InCallback == pc \in {"unlocked", "called"}

Stage == CASE pc = "unlocked" -> "chosen"
           [] pc = "called"   -> "called"
           [] pc = "crash"    -> "crash"
           [] OTHER           -> "idle"

Reason == IF ~InCallback THEN "none"
          ELSE CASE loop = "build"    -> "user"
                 [] loop = "dispatch" -> "io"
                 [] loop = "poll"     -> "closed"

Target == IF InCallback /\ InUse(ii) THEN flist[ii].fd ELSE Free

Registry == INSTANCE EventRegistry WITH
              registered <- Registrations, stage <- Stage,
              reason <- Reason, target <- Target

\* The table is a map from descriptors to registrations, whatever entries were
\* freed and used again: a call changes the registration of its descriptor and
\* no other, and the thread changes one only when a callback it was chosen for
\* returns, in the place of that one.
ImplementsRegistry == Registry!RegistrySpec

Registered(fd, event) == \E s \in Slots : flist[s].fd = fd /\ event \in flist[s].events

Over == stopped \/ pc = "crash"

\* A report reaches a callback or its registration ends, or the end of the
\* callback it was made during clears its mark.
ReportDelivered ==
  \A fd \in Fds :
    (fd \in due /\ Registered(fd, "user"))
      ~> (fd \notin due \/ fd \in lost \/ ~Registered(fd, "user") \/ Over)

\* Once the clients leave the table and the descriptors alone, data on a
\* registered descriptor reaches its callback.
Quiet == <>[][\A fd \in Fds : ~Edit(fd) /\ ~Close(fd)]_vars

DataDelivered ==
  Quiet => \A fd \in Fds :
    (fd \in ready /\ Registered(fd, "io")) ~> (fd \notin ready \/ ~Registered(fd, "io") \/ Over)

\* The mutex is free again and again, so every call gets it.
LockReleased == []<>(lock = "free")

\* CSEVT_Term gets its join.
TermReturns == stopped ~> pc \in {"done", "crash"}
=============================================================================
