------------------------ MODULE EventDispatcherProofs ------------------------
(***************************************************************************)
(* For any number of descriptors: the table of EventDispatcher has one     *)
(* entry per descriptor and is never full, select looks at every           *)
(* descriptor, and an entry is marked exactly when its descriptor was      *)
(* reported.                                                               *)
(***************************************************************************)
EXTENDS EventDispatcher, FiniteSetTheorems, WellFoundedInduction, TLAPS

IInv == TypeOK /\ Unique /\ MaxCovers /\ FlagIsReport

-----------------------------------------------------------------------------
(* The search. *)

\* A non-empty set of slots has a first one: the loops of fds_find stop there.
LEMMA FirstIn ==
  ASSUME NEW S \in SUBSET Slots, S # {}
  PROVE  First(S) \in S
<1> DEFINE R == OpToRel(<, Nat)
<1>1. S \subseteq Nat BY SizeAssumption DEF Slots
<1>2. PICK x \in S : \A y \in S : <<y, x>> \notin R
  BY <1>1, WFMin, NatLessThanWellFounded
<1>3. \A y \in S : <<y, x>> \in Nat \X Nat BY <1>1
<1>4. \A y \in S : ~(y < x) BY <1>2, <1>3 DEF OpToRel
<1>5. \A y \in S : x <= y BY <1>1, <1>4
<1> QED BY <1>5 DEF First

\* What fds_find returns: the entry of the descriptor if there is one, else a
\* free one if there is one, else nothing.
LEMMA Found ==
  ASSUME TypeOK, NEW fd \in Fds
  PROVE  /\ Find(fd) \in Slots \cup {NoSlot}
         /\ Find(fd) = NoSlot => \A s \in Slots : flist[s].fd \notin {fd, Free}
         /\ Find(fd) # NoSlot =>
              /\ Find(fd) \in Slots
              /\ \/ flist[Find(fd)].fd = fd
                 \/ /\ flist[Find(fd)].fd = Free
                    /\ \A s \in Slots : flist[s].fd # fd
<1> DEFINE H(x) == {s \in Slots : flist[s].fd = x}
<1>1. NoSlot \notin Slots BY SizeAssumption DEF NoSlot, Slots
<1>2. CASE H(fd) # {}
  <2>1. First(H(fd)) \in H(fd) BY <1>2, FirstIn
  <2>2. Find(fd) = First(H(fd)) BY <1>2 DEF Find
  <2> QED BY <1>1, <2>1, <2>2
<1>3. CASE H(fd) = {} /\ H(Free) # {}
  <2>1. First(H(Free)) \in H(Free) BY <1>3, FirstIn
  <2>2. Find(fd) = First(H(Free)) BY <1>3 DEF Find
  <2> QED BY <1>1, <1>3, <2>1, <2>2
<1>4. CASE H(fd) = {} /\ H(Free) = {}
  <2>1. Find(fd) = NoSlot BY <1>4 DEF Find, First
  <2> QED BY <1>4, <2>1
<1> QED BY <1>2, <1>3, <1>4

-----------------------------------------------------------------------------
(* Each conjunct is preserved. *)

LEMMA TypeStep ==
  ASSUME IInv, [Next]_vars
  PROVE  TypeOK'
<1> USE SizeAssumption DEF history, Settle
<1>1. ASSUME NEW fd \in Fds, NEW mask \in Masks, Register(fd, mask) PROVE TypeOK'
  <2> DEFINE s == Find(fd)
  <2>1. NewEntry(flist[s], fd, mask) \in Entry
    BY MasksAssumption DEF NewEntry, Entry
  <2>2. Raised(fd) \in Fds BY DEF IInv, TypeOK, Raised
  <2>3. s = NoSlot \/ s \in Slots BY Found DEF IInv
  <2> QED BY <1>1, <2>1, <2>2, <2>3
      DEF IInv, TypeOK, Register, table, thread, device, Callable, Running
<1>2. ASSUME NEW fd \in Fds, UnRegister(fd) PROVE TypeOK'
  <2> DEFINE s == Find(fd)  t == [flist EXCEPT ![s] = Freed(@)]
  <2>1. t \in [Slots -> Entry]
    BY DEF IInv, TypeOK, Freed, EmptyEntry, Entry, Free
  <2>2. \A r \in Slots : t[r].fd <= max_fd
    BY DEF IInv, TypeOK, MaxCovers, Freed, EmptyEntry, Free, Fds
  <2>3. Updated(t) = max_fd
    <3>1. \A r \in Slots : t[r].fd \notin max_fd + 1 .. MAX_NUM_FDS - 1
      BY <2>1, <2>2 DEF Entry, Fds, Free, IInv, TypeOK
    <3> QED BY <3>1 DEF Updated
  <2>4. max_fd' = max_fd BY <1>2, <2>3 DEF UnRegister, table
  <2>5. flist' \in [Slots -> Entry] BY <1>2, <2>1 DEF UnRegister, table, IInv, TypeOK
  <2> QED BY <1>2, <2>4, <2>5 DEF IInv, TypeOK, UnRegister, thread, device
<1>3. ASSUME NEW fd \in Fds, ReportEvent(fd) PROVE TypeOK'
  <2>1. flist' \in [Slots -> Entry]
    BY <1>3 DEF ReportEvent, IInv, TypeOK, Entry
  <2> QED BY <1>3, <2>1 DEF ReportEvent, IInv, TypeOK, thread, device
<1>4. ASSUME NEW fd \in Fds, Open(fd) \/ Close(fd) \/ Arrive(fd) PROVE TypeOK'
  BY <1>4 DEF Open, Close, Arrive, IInv, TypeOK, table, thread, device
<1>5. CASE Term \/ Top \/ Lock
  BY <1>5 DEF Term, Top, Lock, Goto, IInv, TypeOK, table, thread, device, Slots
<1>6. CASE Scan
  <2>1. ii \in Slots BY <1>6 DEF Scan, IInv, TypeOK
  <2>2. ii' \in Slots BY <1>6, <2>1 DEF Scan, Sleep, Slots
  <2>3. pc' \in {"top", "scan", "lock"} /\ loop' \in {"build", "dispatch", "poll"} /\ sets' \subseteq Fds
    BY <1>6 DEF Scan, Sleep, IInv, TypeOK
  <2> QED BY <1>6, <2>2, <2>3 DEF Scan, IInv, TypeOK, table, device, Slots
<1>12. CASE Unlock
  BY <1>12 DEF Unlock, Sleep, IInv, TypeOK, table, device, Slots
<1>7. CASE Reach
  <2>1. Called \subseteq Slots BY DEF Called, Slots, IInv, TypeOK
  <2>2. First(Called) \in Slots BY <1>7, <2>1, FirstIn DEF Reach
  <2>3. {flist[s].fd : s \in {t \in ii .. First(Called) :
                                InUse(t) /\ "io" \in flist[t].events}} \subseteq Fds
    BY <2>2 DEF Slots, InUse, IInv, TypeOK, Entry
  <2> QED BY <1>7, <2>2, <2>3 DEF Reach, IInv, TypeOK, table, device, Slots
<1>8. CASE Call
  BY <1>8 DEF Call, Goto, IInv, TypeOK, table, device
<1>9. CASE Return
  <2>1. flist' \in [Slots -> Entry]
    <3>1. CASE loop = "build" BY <1>9, <3>1 DEF Return, IInv, TypeOK, Entry
    <3>2. CASE loop = "poll"
      BY <1>9, <3>2 DEF Return, IInv, TypeOK, Entry, Freed, EmptyEntry, Free
    <3>3. CASE loop = "dispatch" BY <1>9, <3>3 DEF Return, IInv, TypeOK
    <3> QED BY <3>1, <3>2, <3>3 DEF IInv, TypeOK
  <2>2. ii' \in 0 .. MAX_NUM_FDS BY <1>9 DEF Return, IInv, TypeOK, Slots
  <2> QED BY <1>9, <2>1, <2>2 DEF Return, IInv, TypeOK, device
<1>10. CASE Select
  <2>1. Selected \subseteq Fds BY DEF Selected, InUse, Slots, IInv, TypeOK, Entry
  <2>2. ii' \in Slots BY <1>10 DEF Select, Sleep, Slots
  <2>3. /\ pc' \in {"loop", "top"} /\ loop' \in {"build", "dispatch", "poll"}
        /\ lock' \in {"free", "notify", "leaked"} /\ sets' \subseteq Fds
    BY <1>10, <2>1 DEF Select, Sleep, IInv, TypeOK
  <2> QED BY <1>10, <2>2, <2>3 DEF Select, IInv, TypeOK, table, device, Slots
<1>11. CASE UNCHANGED vars
  BY <1>11 DEF vars, table, thread, device, IInv, TypeOK
<1> QED BY <1>1, <1>2, <1>3, <1>4, <1>5, <1>6, <1>7, <1>8, <1>9, <1>10, <1>11, <1>12
    DEF Next, Edit, Notify

\* Which steps touch the table at all.
LEMMA TableSteps ==
  ASSUME [Next]_vars
  PROVE  \/ \E fd \in Fds : \/ \E mask \in Masks : Register(fd, mask)
                           \/ UnRegister(fd) \/ ReportEvent(fd)
         \/ Return
         \/ UNCHANGED table
BY DEF Next, Edit, Notify, Term, Open, Close, Arrive, Top, Scan, Lock, Reach, Call,
       Select, Unlock, vars, table

LEMMA UniqueStep ==
  ASSUME IInv, [Next]_vars
  PROVE  Unique'
<1> USE SizeAssumption
<1>1. ASSUME NEW fd \in Fds, NEW mask \in Masks, Register(fd, mask) PROVE Unique'
  <2>1. CASE Find(fd) = NoSlot
    BY <1>1, <2>1 DEF Register, table, IInv, Unique, InUse
  <2>2. CASE Find(fd) # NoSlot
    <3>1. flist' = [flist EXCEPT ![Find(fd)] = NewEntry(@, fd, mask)]
      BY <1>1, <2>2 DEF Register
    <3>2. \A s \in Slots : s # Find(fd) => flist[s].fd # fd
      BY <2>2, Found DEF IInv, Unique, InUse, Fds, Free
    <3> QED BY <2>2, <3>1, <3>2, Found DEF IInv, TypeOK, Unique, InUse, NewEntry
  <2> QED BY <2>1, <2>2
<1>2. ASSUME NEW fd \in Fds, UnRegister(fd) PROVE Unique'
  BY <1>2 DEF UnRegister, table, IInv, TypeOK, Unique, InUse, Freed, EmptyEntry, Free
<1>3. ASSUME NEW fd \in Fds, ReportEvent(fd) PROVE Unique'
  <2>1. \A s \in Slots : flist'[s].fd = flist[s].fd
    BY <1>3 DEF ReportEvent, IInv, TypeOK, Entry
  <2> QED BY <2>1 DEF IInv, Unique, InUse
<1>4. CASE Return
  <2>1. \A s \in Slots : flist'[s].fd \in {flist[s].fd, Free}
    BY <1>4 DEF Return, IInv, TypeOK, Entry, Freed, EmptyEntry
  <2> QED BY <2>1 DEF IInv, Unique, InUse
<1>5. CASE UNCHANGED table
  BY <1>5 DEF table, IInv, Unique, InUse
<1> QED BY <1>1, <1>2, <1>3, <1>4, <1>5, TableSteps

LEMMA MaxStep ==
  ASSUME IInv, [Next]_vars
  PROVE  MaxCovers'
<1> USE SizeAssumption
<1>0. \A s \in Slots : flist[s].fd \in Int /\ max_fd \in Int /\ flist[s].fd <= max_fd
  BY DEF IInv, TypeOK, Entry, Fds, Free, MaxCovers
<1>1. ASSUME NEW fd \in Fds, NEW mask \in Masks, Register(fd, mask) PROVE MaxCovers'
  <2>1. CASE Find(fd) = NoSlot
    BY <1>1, <2>1 DEF Register, table, IInv, MaxCovers
  <2>2. CASE Find(fd) # NoSlot
    <3>1. /\ flist' = [flist EXCEPT ![Find(fd)] = NewEntry(@, fd, mask)]
          /\ max_fd' = Raised(fd)
      BY <1>1, <2>2 DEF Register
    <3>2. max_fd' >= fd /\ max_fd' >= max_fd /\ max_fd' \in Int /\ fd \in Int
      BY <3>1 DEF Raised, IInv, TypeOK, Fds
    <3>3. \A s \in Slots : flist'[s].fd \in {fd, flist[s].fd}
      BY <3>1 DEF NewEntry, IInv, TypeOK
    <3> QED BY <1>0, <3>2, <3>3 DEF MaxCovers
  <2> QED BY <2>1, <2>2
<1>2. ASSUME NEW fd \in Fds, UnRegister(fd) PROVE MaxCovers'
  <2> DEFINE t == [flist EXCEPT ![Find(fd)] = Freed(@)]
  <2>1. \A s \in Slots : t[s].fd \in Int /\ t[s].fd <= max_fd
    BY <1>0 DEF IInv, TypeOK, Freed, EmptyEntry, Free, Fds
  <2>2. Updated(t) = max_fd
    <3>1. \A s \in Slots : t[s].fd \notin max_fd + 1 .. MAX_NUM_FDS - 1
      BY <1>0, <2>1
    <3> QED BY <3>1 DEF Updated
  <2>3. flist' \in {flist, t} /\ max_fd' = max_fd BY <1>2, <2>2 DEF UnRegister, table
  <2> QED BY <1>0, <2>1, <2>3 DEF MaxCovers
<1>3. ASSUME NEW fd \in Fds, ReportEvent(fd) PROVE MaxCovers'
  <2>1. \A s \in Slots : flist'[s].fd = flist[s].fd
    BY <1>3 DEF ReportEvent, IInv, TypeOK, Entry
  <2>2. max_fd' = max_fd BY <1>3 DEF ReportEvent
  <2> QED BY <1>0, <2>1, <2>2 DEF MaxCovers
<1>4. CASE Return
  <2>1. \A s \in Slots : flist'[s].fd \in {flist[s].fd, Free}
    BY <1>4 DEF Return, IInv, TypeOK, Entry, Freed, EmptyEntry
  <2>2. max_fd' = max_fd /\ Free <= max_fd BY <1>4 DEF Return, IInv, TypeOK, Fds, Free
  <2> QED BY <1>0, <2>1, <2>2 DEF MaxCovers
<1>5. CASE UNCHANGED table
  BY <1>5 DEF table, IInv, MaxCovers
<1> QED BY <1>1, <1>2, <1>3, <1>4, <1>5, TableSteps

\* The marks are the reports after every step: a step changes at most one entry,
\* and no other entry has its descriptor.
LEMMA FlagStep ==
  ASSUME IInv, [Next]_vars
  PROVE  FlagIsReport'
<1> USE SizeAssumption
<1>0. /\ \A s \in Slots : flist[s].fd \in Fds \cup {Free} /\ flist[s].flag \in {0, 1}
      /\ Free \notin Fds /\ due \subseteq Fds
  BY DEF IInv, TypeOK, Entry, Free, Fds
<1>1. ASSUME NEW fd \in Fds, NEW mask \in Masks, Register(fd, mask)
      PROVE  FlagIsReport'
  <2> DEFINE f == Find(fd)
  <2>1. UNCHANGED <<pc, loop, ii>> BY <1>1 DEF Register, thread
  <2>2. CASE f = NoSlot
    BY <1>1, <2>1, <2>2
       DEF Register, table, history, IInv, FlagIsReport, InUse, Clearing
  <2>3. CASE f # NoSlot
    <3>1. /\ flist' = [flist EXCEPT ![f] = NewEntry(@, fd, mask)]
          /\ due' = due \ {fd} /\ lost' = lost \ {fd} /\ f \in Slots
      BY <1>1, <2>3, Found DEF Register, Settle, IInv
    <3>2. flist'[f].fd = fd /\ flist'[f].flag = 0
      BY <3>1 DEF NewEntry, IInv, TypeOK
    <3>3. \A s \in Slots : s # f => flist'[s] = flist[s]
      BY <3>1 DEF IInv, TypeOK
    <3>4. \A s \in Slots : s # f => flist[s].fd # fd
      BY <2>3, Found, <1>0 DEF IInv, Unique, InUse
    <3> QED BY <2>1, <3>1, <3>2, <3>3, <3>4 DEF IInv, FlagIsReport, InUse, Clearing
  <2> QED BY <2>2, <2>3
<1>2. ASSUME NEW fd \in Fds, UnRegister(fd) PROVE FlagIsReport'
  <2> DEFINE f == Find(fd)
  <2>1. UNCHANGED <<pc, loop, ii>> /\ due' = due \ {fd} /\ lost' = lost \ {fd}
    BY <1>2 DEF UnRegister, Settle, thread
  <2>2. \A s \in Slots : flist'[s] = flist[s] \/ ~InUse(s)'
    BY <1>2 DEF UnRegister, table, IInv, TypeOK, InUse, Freed, EmptyEntry
  <2>3. \A s \in Slots : flist[s].fd = fd => ~InUse(s)'
    <3>1. ASSUME NEW s \in Slots, flist[s].fd = fd PROVE ~InUse(s)'
      <4>1. f # NoSlot BY <3>1, Found DEF IInv
      <4>2. f = s BY <3>1, <4>1, <1>0, Found DEF IInv, Unique, InUse
      <4> QED BY <1>2, <4>1, <4>2 DEF UnRegister, IInv, TypeOK, InUse, Freed, EmptyEntry
    <3> QED BY <3>1
  <2> QED BY <2>1, <2>2, <2>3 DEF IInv, FlagIsReport, InUse, Clearing
<1>3. ASSUME NEW fd \in Fds, ReportEvent(fd) PROVE FlagIsReport'
  <2> DEFINE f == Find(fd)
  <2>1. UNCHANGED <<pc, loop, ii>> BY <1>3 DEF ReportEvent, thread
  <2>2. \A s \in Slots : flist'[s].fd = flist[s].fd
    BY <1>3 DEF ReportEvent, IInv, TypeOK, Entry
  <2>3. \A s \in Slots : s # f => flist'[s] = flist[s]
    BY <1>3 DEF ReportEvent, IInv, TypeOK
  <2>4. CASE f = NoSlot
    BY <1>3, <2>1, <2>4 DEF ReportEvent, history, IInv, FlagIsReport, InUse, Clearing
  <2>5. CASE f # NoSlot
    <3>1. f \in Slots BY <2>5, Found DEF IInv
    <3>2. flist'[f].flag = 1 BY <1>3, <2>5, <3>1 DEF ReportEvent, IInv, TypeOK, Entry
    <3>3. IF flist[f].fd = fd THEN due' = due \cup {fd} /\ lost' = lost \ {fd}
          ELSE due' = due /\ lost' = lost
      BY <1>3, <2>5 DEF ReportEvent, history
    <3>4. \A s \in Slots : s # f => flist[s].fd # fd
      BY <2>5, Found, <1>0 DEF IInv, Unique, InUse
    <3>5. InUse(f) => flist[f].fd = fd BY <2>5, Found DEF IInv, InUse
    <3> QED BY <2>1, <2>2, <2>3, <3>2, <3>3, <3>4, <3>5
            DEF IInv, FlagIsReport, InUse, Clearing
  <2> QED BY <2>4, <2>5
<1>4. CASE Call
  <2>1. ii \in Slots /\ pc = "unlocked" /\ UNCHANGED <<flist, loop, ii>>
    BY <1>4 DEF Call, Goto, table, IInv, TypeOK
  <2>2. \A s \in Slots : ~Clearing(s)
    BY <2>1 DEF Clearing
  <2>3. CASE loop = "build"
    <3>1. due' = due \ {flist[ii].fd} /\ lost' = lost \ {flist[ii].fd}
      BY <1>4, <2>3 DEF Call, Settle
    <3>2. \A s \in Slots : InUse(s) /\ s # ii => flist[s].fd # flist[ii].fd
      BY <2>1 DEF IInv, Unique
    <3>3. InUse(ii) => Clearing(ii)'
      BY <1>4, <2>1, <2>3 DEF Call, Goto, Clearing
    <3> QED BY <2>1, <2>2, <3>1, <3>2, <3>3 DEF IInv, FlagIsReport, InUse
  <2>4. CASE loop # "build"
    BY <1>4, <2>1, <2>2, <2>4 DEF Call, history, IInv, FlagIsReport, InUse
  <2> QED BY <2>3, <2>4
<1>5. CASE Return
  <2>1. pc = "called" /\ pc' = "loop" /\ UNCHANGED <<loop, due>> /\ ii \in Slots
    BY <1>5 DEF Return, IInv, TypeOK
  <2>2. \A s \in Slots : s # ii => flist'[s] = flist[s]
    BY <1>5, <2>1 DEF Return, IInv, TypeOK
  <2>3. CASE loop = "build"
    <3>1. flist'[ii].flag = 0 /\ flist'[ii].fd = flist[ii].fd
      BY <1>5, <2>1, <2>3 DEF Return, IInv, TypeOK, Entry
    <3>2. lost' = lost \cup ({flist[ii].fd} \cap due)
      BY <1>5, <2>3 DEF Return
    <3>3. \A s \in Slots : InUse(s) /\ s # ii => flist[s].fd # flist[ii].fd
      BY <2>1 DEF IInv, Unique
    <3>4. \A s \in Slots : s # ii => ~Clearing(s)
      BY DEF Clearing
    <3> QED BY <2>1, <2>2, <3>1, <3>2, <3>3, <3>4 DEF IInv, FlagIsReport, InUse
  <2>4. CASE loop = "poll"
    <3>1. flist'[ii].fd = Free /\ lost' = lost
      BY <1>5, <2>1, <2>4 DEF Return, IInv, TypeOK, Freed, EmptyEntry
    <3>2. \A s \in Slots : ~Clearing(s)
      BY <2>4 DEF Clearing
    <3> QED BY <2>1, <2>2, <3>1, <3>2 DEF IInv, FlagIsReport, InUse
  <2>5. CASE loop = "dispatch"
    <3>1. flist' = flist /\ lost' = lost
      BY <1>5, <2>5 DEF Return
    <3>2. \A s \in Slots : ~Clearing(s)
      BY <2>5 DEF Clearing
    <3> QED BY <2>1, <3>1, <3>2 DEF IInv, FlagIsReport, InUse
  <2> QED BY <2>3, <2>4, <2>5 DEF IInv, TypeOK
<1>6. ASSUME UNCHANGED <<flist, history>>, pc # "called"
      PROVE  FlagIsReport'
  BY <1>6 DEF history, IInv, FlagIsReport, InUse, Clearing
<1>7. CASE Top \/ Scan \/ Lock \/ Reach \/ Select \/ Unlock
  BY <1>6, <1>7 DEF Top, Scan, Lock, Reach, Select, Unlock, table
<1>8. ASSUME UNCHANGED <<flist, history, pc, loop, ii>> PROVE FlagIsReport'
  BY <1>8 DEF history, IInv, FlagIsReport, InUse, Clearing
<1>9. CASE UNCHANGED vars \/ Term \/ \E fd \in Fds : Open(fd) \/ Close(fd) \/ Arrive(fd)
  BY <1>8, <1>9 DEF vars, table, thread, Term, Open, Close, Arrive
<1> QED BY <1>1, <1>2, <1>3, <1>4, <1>5, <1>7, <1>9 DEF Next, Edit, Notify

-----------------------------------------------------------------------------
(* The theorems. *)

LEMMA Inductive == Spec => []IInv
<1>1. Init => IInv
  <2> SUFFICES ASSUME Init PROVE IInv OBVIOUS
  <2>1. \A s \in Slots : flist[s] = EmptyEntry /\ ~InUse(s)
    BY DEF Init, InUse, EmptyEntry
  <2>2. EmptyEntry \in Entry /\ EmptyEntry.fd = -1 /\ 0 \in Fds /\ 0 \in Slots
    BY SizeAssumption DEF EmptyEntry, Entry, Free, Fds, Slots
  <2>3. TypeOK
    <3>1. flist \in [Slots -> Entry] BY <2>2 DEF Init
    <3>2. ii \in 0 .. MAX_NUM_FDS /\ ii \in Slots BY SizeAssumption DEF Init, Slots
    <3> QED BY <2>2, <3>1, <3>2 DEF Init, TypeOK
  <2>4. MaxCovers BY <2>1, <2>2 DEF Init, MaxCovers
  <2>5. Unique /\ FlagIsReport
    BY <2>1 DEF Init, Unique, FlagIsReport
  <2> QED BY <2>3, <2>4, <2>5 DEF IInv
<1>2. IInv /\ [Next]_vars => IInv'
  <2> SUFFICES ASSUME IInv, [Next]_vars PROVE IInv' OBVIOUS
  <2> QED BY TypeStep, UniqueStep, MaxStep, FlagStep DEF IInv
<1> QED BY <1>1, <1>2, PTL DEF Spec

\* The variables keep their types, and the loops stay within the table.
THEOREM TypeCorrect == Spec => []TypeOK
<1>1. IInv => TypeOK BY DEF IInv
<1> QED BY Inductive, <1>1, PTL

\* A descriptor never has two entries.
THEOREM OneEntry == Spec => []Unique
<1>1. IInv => Unique BY DEF IInv
<1> QED BY Inductive, <1>1, PTL

\* select looks at every registered descriptor.
THEOREM SelectCovers == Spec => []MaxCovers
<1>1. IInv => MaxCovers BY DEF IInv
<1> QED BY Inductive, <1>1, PTL

\* A mark is a report, and a report is a mark.
THEOREM MarksAreReports == Spec => []FlagIsReport
<1>1. IInv => FlagIsReport BY DEF IInv
<1> QED BY Inductive, <1>1, PTL

\* Were the search to fail, all the entries would hold other descriptors than
\* the one sought: more entries than descriptors, so two would hold the same.
LEMMA Pigeonhole ==
  ASSUME TypeOK, Unique
  PROVE  NeverFull
<1> SUFFICES ASSUME NEW fd \in Fds, Find(fd) = NoSlot PROVE FALSE BY DEF NeverFull
<1> DEFINE T == Fds \ {fd}  held == [s \in Slots |-> flist[s].fd]
<1>1. held \in [Slots -> T] BY Found DEF TypeOK, Entry
<1>2. /\ IsFiniteSet(Slots) /\ Cardinality(Slots) = MAX_NUM_FDS
      /\ IsFiniteSet(Fds) /\ Cardinality(Fds) = MAX_NUM_FDS
  <2>1. /\ IsFiniteSet(0 .. MAX_NUM_FDS - 1)
        /\ Cardinality(0 .. MAX_NUM_FDS - 1) = MAX_NUM_FDS
    BY FS_Interval, SizeAssumption
  <2> QED BY <2>1 DEF Slots, Fds
<1>3. IsFiniteSet(T) /\ Cardinality(T) = MAX_NUM_FDS - 1
  BY <1>2, FS_RemoveElement
<1>4. Cardinality(T) < Cardinality(Slots) BY <1>2, <1>3, SizeAssumption
<1>5. PICK x, y \in Slots : x # y /\ held[x] = held[y]
  <2> HIDE DEF T, held
  <2> QED BY <1>1, <1>2, <1>3, <1>4, FS_PigeonHole
<1>6. InUse(x) /\ flist[x].fd = flist[y].fd BY <1>5, Found DEF InUse
<1> QED BY <1>5, <1>6 DEF Unique

\* A call always finds an entry, so none returns with the mutex held.
THEOREM TableNeverFull == Spec => []NeverFull
<1>1. IInv => NeverFull BY Pigeonhole DEF IInv
<1> QED BY Inductive, <1>1, PTL
-----------------------------------------------------------------------------
(* The table is a map from descriptors to registrations. *)

\* Storing an entry in a slot replaces the registration that was there.
LEMMA Stored ==
  ASSUME TypeOK, Unique, NEW s \in Slots, NEW e \in Entry,
         flist' = [flist EXCEPT ![s] = e]
  PROVE  Registrations' = (Registrations \ {flist[s]})
                            \cup (IF e.fd = Free THEN {} ELSE {e})
<1> DEFINE rest == Registrations \ {flist[s]}
           new  == IF e.fd = Free THEN {} ELSE {e}
<1>1. flist'[s] = e /\ \A t \in Slots : t # s => flist'[t] = flist[t]
  BY DEF TypeOK
<1>2. ASSUME NEW x \in Registrations' PROVE x \in rest \cup new
  <2>1. PICK t \in Slots : x = flist'[t] /\ flist'[t].fd # Free
    BY <1>2 DEF Registrations, InUse
  <2>2. CASE t = s
    BY <1>1, <2>1, <2>2
  <2>3. CASE t # s
    <3>1. x = flist[t] /\ flist[t].fd # Free
      BY <1>1, <2>1, <2>3
    <3>2. x # flist[s]
      BY <2>3, <3>1 DEF Unique, InUse
    <3> QED BY <3>1, <3>2 DEF Registrations, InUse
  <2> QED BY <2>2, <2>3
<1>3. ASSUME NEW x \in rest PROVE x \in Registrations'
  <2>1. PICK t \in Slots : x = flist[t] /\ flist[t].fd # Free /\ t # s
    BY <1>3 DEF Registrations, InUse
  <2>2. x = flist'[t] /\ flist'[t].fd # Free
    BY <1>1, <2>1
  <2> QED BY <2>2 DEF Registrations, InUse
<1>4. ASSUME NEW x \in new PROVE x \in Registrations'
  <2>1. x = flist'[s] /\ flist'[s].fd # Free
    BY <1>1, <1>4
  <2> QED BY <2>1 DEF Registrations, InUse
<1> QED BY <1>2, <1>3, <1>4

\* A descriptor's registration is the entry that holds it.
LEMMA OfHeld ==
  ASSUME TypeOK, Unique, NEW s \in Slots, InUse(s)
  PROVE  Registry!Of(flist[s].fd) = {flist[s]}
<1>1. flist[s] \in Registrations
  BY DEF Registrations
<1>2. ASSUME NEW e \in Registrations, e.fd = flist[s].fd PROVE e = flist[s]
  <2>1. PICK t \in Slots : e = flist[t] /\ InUse(t)
    BY DEF Registrations
  <2> QED BY <1>2, <2>1 DEF Unique
<1> QED BY <1>1, <1>2 DEF Registry!Of

LEMMA OfUnheld ==
  ASSUME NEW fd, \A s \in Slots : flist[s].fd # fd
  PROVE  Registry!Of(fd) = {}
BY DEF Registry!Of, Registrations

\* What a call finds for a descriptor is its registration, or a free entry.
LEMMA FoundOf ==
  ASSUME TypeOK, Unique, NEW fd \in Fds
  PROVE  /\ Find(fd) \in Slots
         /\ \/ InUse(Find(fd)) /\ flist[Find(fd)].fd = fd
                /\ Registry!Of(fd) = {flist[Find(fd)]}
            \/ ~InUse(Find(fd)) /\ Registry!Of(fd) = {}
                /\ \A s \in Slots : flist[s].fd # fd
<1> DEFINE s == Find(fd)
<1>1. s # NoSlot
  BY Pigeonhole DEF NeverFull
<1>2. s \in Slots
  BY <1>1, Found
<1>3. fd # Free
  BY DEF Fds, Free
<1>4. CASE flist[s].fd = fd
  <2>1. InUse(s)
    BY <1>3, <1>4 DEF InUse
  <2> HIDE DEF s
  <2> QED BY <1>2, <1>4, <2>1, OfHeld DEF s
<1>5. CASE flist[s].fd = Free /\ \A t \in Slots : flist[t].fd # fd
  BY <1>2, <1>5, OfUnheld DEF InUse
<1> QED BY <1>1, <1>4, <1>5, Found

\* A free entry is no registration, so what is stored in its place is added.
LEMMA FreeUnregistered ==
  ASSUME NEW s \in Slots, ~InUse(s)
  PROVE  flist[s] \notin Registrations
BY DEF Registrations, InUse

\* Nobody is registered as Nobody.
LEMMA OfNobody == Registry!Of(Free) = {}
BY DEF Registry!Of, Registrations, InUse

\* The callback goes on as before while a step leaves the thread alone.
LEMMA SameCallback ==
  ASSUME UNCHANGED <<pc, loop>>
  PROVE  UNCHANGED <<Stage, Reason>>
BY DEF Stage, Reason, InCallback

LEMMA RegisterRefines ==
  ASSUME IInv, NEW fd \in Fds, NEW mask \in Masks, Register(fd, mask)
  PROVE  Registry!Register(fd, mask)
<1> DEFINE s == Find(fd)
           e == NewEntry(flist[s], fd, mask)
<1> USE DEF IInv
<1>1. s \in Slots /\ s # NoSlot
  BY FoundOf, SizeAssumption DEF Slots, NoSlot
<1>2. flist' = [flist EXCEPT ![s] = e] /\ UNCHANGED <<pc, loop, ii>>
  BY <1>1 DEF Register, thread
<1>3. e = [fd |-> fd, events |-> mask, flag |-> 0] /\ e \in Entry /\ e.fd = fd /\ fd # Free
  BY MasksAssumption DEF NewEntry, Entry, Fds, Free
<1>4. Registrations' = (Registrations \ {flist[s]}) \cup {e}
  <2> HIDE DEF s, e
  <2> QED BY <1>1, <1>2, <1>3, Stored
<1>5. Registrations \ {flist[s]} = Registrations \ Registry!Of(fd)
  BY <1>1, FoundOf, FreeUnregistered
<1>6. Stage # "crash"
  BY DEF Register, Callable, Running, Stage
<1>7. UNCHANGED <<Stage, Reason>>
  BY <1>2, SameCallback
<1>8. \/ Target' = Target
      \/ Stage # "idle" /\ Target = Free /\ Registry!Of(fd) = {} /\ Target' = fd
  <2>1. CASE ~InCallback
    BY <1>2, <2>1 DEF Target, InCallback
  <2>2. CASE InCallback /\ ii # s
    <3>1. flist'[ii] = flist[ii]
      BY <1>2, <2>2 DEF TypeOK, InCallback
    <3> QED BY <1>2, <3>1 DEF Target, InCallback, InUse
  <2>3. CASE InCallback /\ ii = s
    <3>1. flist'[ii].fd = fd /\ Target' = fd
      BY <1>1, <1>2, <1>3, <2>3 DEF TypeOK, Target, InCallback, InUse
    <3>2. CASE InUse(s)
      BY <2>3, <3>1, <3>2, FoundOf DEF Target
    <3>3. CASE ~InUse(s)
      BY <2>3, <3>1, <3>3, FoundOf DEF Target, Stage, InCallback
    <3> QED BY <3>2, <3>3
  <2> QED BY <2>1, <2>2, <2>3
<1> HIDE DEF s, e
<1> QED BY <1>3, <1>4, <1>5, <1>6, <1>7, <1>8
        DEF Registry!Register, Registry!Nobody, Free

LEMMA UnRegisterRefines ==
  ASSUME IInv, NEW fd \in Fds, UnRegister(fd)
  PROVE  Registry!UnRegister(fd)
<1> DEFINE s == Find(fd)
<1> USE DEF IInv
<1>1. s \in Slots /\ s # NoSlot
  BY FoundOf, SizeAssumption DEF Slots, NoSlot
<1>2. flist' = [flist EXCEPT ![s] = EmptyEntry] /\ UNCHANGED <<pc, loop, ii>>
  BY <1>1 DEF UnRegister, Freed, thread
<1>3. EmptyEntry \in Entry /\ EmptyEntry.fd = Free /\ fd # Free
  BY DEF EmptyEntry, Entry, Fds, Free
<1>4. Registrations' = Registrations \ {flist[s]}
  <2> HIDE DEF s
  <2> QED BY <1>1, <1>2, <1>3, Stored
<1>5. Registrations \ {flist[s]} = Registrations \ Registry!Of(fd)
  BY <1>1, FoundOf, FreeUnregistered
<1>6. Stage # "crash"
  BY DEF UnRegister, Callable, Running, Stage
<1>7. UNCHANGED <<Stage, Reason>>
  BY <1>2, SameCallback
<1>8. Target' = IF Target = fd THEN Free ELSE Target
  <2>1. CASE ~InCallback
    BY <1>2, <1>3, <2>1 DEF Target, InCallback
  <2>2. CASE InCallback /\ ii # s
    <3>1. flist'[ii] = flist[ii] /\ ii \in Slots
      BY <1>2, <2>2 DEF TypeOK, InCallback
    <3>2. flist[ii].fd # fd
      BY <1>1, <1>3, <2>2, <3>1, FoundOf DEF Unique, InUse
    <3> QED BY <1>2, <1>3, <3>1, <3>2 DEF Target, InCallback, InUse
  <2>3. CASE InCallback /\ ii = s
    <3>1. Target' = Free
      BY <1>1, <1>2, <1>3, <2>3 DEF TypeOK, Target, InCallback, InUse
    <3> QED BY <1>3, <2>3, <3>1, FoundOf DEF Target
  <2> QED BY <2>1, <2>2, <2>3
<1> HIDE DEF s
<1> QED BY <1>4, <1>5, <1>6, <1>7, <1>8
        DEF Registry!UnRegister, Registry!Nobody, Free

\* A mark on an entry is a mark on the registration it holds.
LEMMA Marked ==
  ASSUME IInv, NEW s \in Slots, NEW f \in {0, 1}, NEW fd,
         flist' = [flist EXCEPT ![s].flag = f],
         \/ InUse(s) /\ flist[s].fd = fd
         \/ ~InUse(s) /\ Registry!Of(fd) = {}
  PROVE  /\ Registrations' = (Registrations \ Registry!Of(fd)) \cup Registry!Marks(f, fd)
         /\ \A t \in Slots : flist'[t].fd = flist[t].fd
<1> DEFINE e == [flist[s] EXCEPT !.flag = f]
<1> USE DEF IInv
<1>1. flist[s] \in Entry
  BY DEF TypeOK
<1>2. e \in Entry /\ e.fd = flist[s].fd
  BY <1>1 DEF Entry
<1>3. flist' = [flist EXCEPT ![s] = e]
  OBVIOUS
<1>4. Registrations' = (Registrations \ {flist[s]}) \cup (IF e.fd = Free THEN {} ELSE {e})
  <2> HIDE DEF e
  <2> QED BY <1>2, <1>3, Stored
<1>5. \A t \in Slots : flist'[t].fd = flist[t].fd
  <2> HIDE DEF e
  <2> QED BY <1>2, <1>3 DEF TypeOK
<1>6. CASE InUse(s) /\ flist[s].fd = fd
  <2>1. Registry!Of(fd) = {flist[s]}
    BY <1>6, OfHeld
  <2>2. Registry!Marks(f, fd) = {e}
    BY <2>1 DEF Registry!Marks
  <2>3. e.fd # Free
    BY <1>2, <1>6 DEF InUse
  <2> HIDE DEF e
  <2> QED BY <1>4, <1>5, <2>1, <2>2, <2>3
<1>7. CASE ~InUse(s) /\ Registry!Of(fd) = {}
  <2>1. e.fd = Free /\ flist[s] \notin Registrations
    BY <1>2, <1>7, FreeUnregistered DEF InUse
  <2>2. Registry!Marks(f, fd) = {}
    BY <1>7 DEF Registry!Marks
  <2> HIDE DEF e
  <2> QED BY <1>4, <1>5, <1>7, <2>1, <2>2
<1> QED BY <1>6, <1>7

LEMMA ReportRefines ==
  ASSUME IInv, NEW fd \in Fds, ReportEvent(fd)
  PROVE  Registry!ReportEvent(fd)
<1> DEFINE s == Find(fd)
<1>1. s \in Slots /\ s # NoSlot
  BY FoundOf, SizeAssumption DEF Slots, NoSlot, IInv
<1>2. flist' = [flist EXCEPT ![s].flag = 1] /\ UNCHANGED <<pc, loop, ii>>
  BY <1>1 DEF ReportEvent, thread
<1>3. \/ InUse(s) /\ flist[s].fd = fd
      \/ ~InUse(s) /\ Registry!Of(fd) = {}
  BY FoundOf DEF IInv
<1>4. /\ Registrations' = (Registrations \ Registry!Of(fd)) \cup Registry!Marks(1, fd)
      /\ \A t \in Slots : flist'[t].fd = flist[t].fd
  <2> HIDE DEF s
  <2> QED BY <1>1, <1>2, <1>3, Marked
<1>5. Stage # "crash"
  BY DEF ReportEvent, Callable, Running, Stage
<1>6. UNCHANGED <<Stage, Reason>>
  BY <1>2, SameCallback
<1>7. Target' = Target
  BY <1>2, <1>4 DEF Target, InCallback, InUse, IInv, TypeOK
<1> QED BY <1>4, <1>5, <1>6, <1>7 DEF Registry!ReportEvent

\* The thread stops at the next entry that its loop makes a callback for.
LEMMA ReachRefines ==
  ASSUME IInv, Reach
  PROVE  \E e \in Registrations, why \in {"user", "io", "closed"} : Registry!Choose(e, why)
<1> DEFINE s == First(Called)
           e == flist[s]
           why == CASE loop = "build" -> "user" [] loop = "dispatch" -> "io"
                    [] loop = "poll" -> "closed"
<1> USE DEF IInv
<1>1. Called \subseteq Slots
  BY DEF Called, Slots, TypeOK
<1>2. s \in Called /\ s \in Slots
  BY <1>1, FirstIn DEF Reach
<1>3. InUse(s) /\ (loop = "build" => "user" \in flist[s].events /\ flist[s].flag = 1)
  BY <1>2 DEF Called
<1>4. e \in Registrations
  BY <1>2, <1>3 DEF Registrations
<1>5. /\ pc = "loop" /\ pc' = "unlocked" /\ ii' = s
      /\ UNCHANGED <<loop, flist>>
  BY DEF Reach, table
<1>6. why \in {"user", "io", "closed"} /\ (why = "user" => loop = "build")
  BY DEF TypeOK
<1>7. Stage = "idle" /\ Stage' = "chosen"
  BY <1>5 DEF Stage
<1>8. Reason' = why
  BY <1>5 DEF Reason, InCallback
<1>9. Target' = e.fd
  BY <1>3, <1>5 DEF Target, InCallback, InUse
<1>10. Registrations' = Registrations
  BY <1>5 DEF Registrations, InUse
<1> HIDE DEF s, e, why
<1>11. Registry!Choose(e, why)
  <2>1. why = "user" => "user" \in e.events /\ e.flag = 1
    BY <1>3, <1>6 DEF e
  <2> QED BY <1>7, <1>8, <1>9, <1>10, <2>1 DEF Registry!Choose
<1> QED BY <1>4, <1>6, <1>11

LEMMA CallRefines ==
  ASSUME IInv, Call
  PROVE  Registry!Call
<1>1. pc = "unlocked" /\ UNCHANGED <<flist, loop, ii>> /\ ii \in Slots
  BY DEF Call, Goto, table, IInv, TypeOK
<1>2. Stage = "chosen" /\ Registrations' = Registrations
  BY <1>1 DEF Stage, Registrations, InUse
<1>3. CASE InUse(ii)
  <2>1. pc' = "called"
    BY <1>3 DEF Call, Goto
  <2>2. Stage' = "called" /\ Reason' = Reason /\ Target' = Target
    <3>1. InCallback /\ InCallback'
      BY <1>1, <2>1 DEF InCallback
    <3>2. Stage' = "called"
      BY <2>1 DEF Stage
    <3>3. Reason' = Reason
      BY <1>1, <3>1 DEF Reason
    <3>4. Target' = Target
      BY <1>1, <3>1 DEF Target, InUse
    <3> QED BY <3>2, <3>3, <3>4
  <2>3. Target # Free
    BY <1>1, <1>3 DEF Target, InCallback, InUse
  <2> QED BY <1>2, <2>2, <2>3 DEF Registry!Call, Registry!Nobody, Free
<1>4. CASE ~InUse(ii)
  <2>1. pc' = "crash"
    BY <1>4 DEF Call, Goto
  <2>2. Stage' = "crash" /\ Reason' = "none" /\ Target' = Free
    BY <2>1 DEF Stage, Reason, Target, InCallback
  <2>3. Target = Free
    BY <1>1, <1>4 DEF Target, InCallback
  <2> QED BY <1>2, <2>2, <2>3 DEF Registry!Call, Registry!Nobody, Free
<1> QED BY <1>3, <1>4

LEMMA ReturnRefines ==
  ASSUME IInv, Return
  PROVE  Registry!Return
<1> USE DEF IInv
<1>1. /\ pc = "called" /\ pc' = "loop" /\ ii \in Slots
      /\ loop \in {"build", "dispatch", "poll"}
  BY DEF Return, TypeOK
<1>2. Stage = "called" /\ Stage' = "idle" /\ Reason' = "none" /\ Target' = Free
  BY <1>1 DEF Stage, Reason, Target, InCallback
<1>3. \/ InUse(ii) /\ flist[ii].fd = Target
      \/ ~InUse(ii) /\ Target = Free /\ Registry!Of(Target) = {}
  BY <1>1, OfNobody DEF Target, InCallback
<1>4. CASE loop = "build"
  <2>1. flist' = [flist EXCEPT ![ii].flag = 0] /\ Reason = "user"
    BY <1>1, <1>4 DEF Return, Reason, InCallback
  <2>2. Registrations' = (Registrations \ Registry!Of(Target)) \cup Registry!Marks(0, Target)
    <3> DEFINE fd == Target
    <3>1. \/ InUse(ii) /\ flist[ii].fd = fd
          \/ ~InUse(ii) /\ Registry!Of(fd) = {}
      BY <1>3
    <3> HIDE DEF fd
    <3>2. Registrations' = (Registrations \ Registry!Of(fd)) \cup Registry!Marks(0, fd)
      BY <1>1, <2>1, <3>1, Marked
    <3> QED BY <3>2 DEF fd
  <2> QED BY <1>2, <2>1, <2>2 DEF Registry!Return, Registry!Nobody, Free
<1>5. CASE loop = "poll"
  <2>1. flist' = [flist EXCEPT ![ii] = EmptyEntry] /\ Reason = "closed"
    BY <1>1, <1>5 DEF Return, Reason, InCallback, Freed
  <2>2. EmptyEntry \in Entry /\ EmptyEntry.fd = Free
    BY DEF EmptyEntry, Entry, Free
  <2>3. Registrations' = Registrations \ {flist[ii]}
    BY <1>1, <2>1, <2>2, Stored
  <2>4. Registrations \ {flist[ii]} = Registrations \ Registry!Of(Target)
    BY <1>1, <1>3, OfHeld, FreeUnregistered
  <2> QED BY <1>2, <2>1, <2>3, <2>4 DEF Registry!Return, Registry!Nobody, Free
<1>6. CASE loop = "dispatch"
  <2>1. flist' = flist /\ Reason = "io"
    BY <1>1, <1>6 DEF Return, Reason, InCallback
  <2>2. Registrations' = Registrations
    BY <2>1 DEF Registrations, InUse
  <2> QED BY <1>2, <2>1, <2>2 DEF Registry!Return, Registry!Nobody, Free
<1> QED BY <1>1, <1>4, <1>5, <1>6

\* The other steps of the thread, and those of the rest of the process, change
\* nothing a client could see.
LEMMA OthersRefine ==
  ASSUME IInv,
         \/ Top \/ Scan \/ Lock \/ Select \/ Unlock \/ Term
         \/ \E fd \in Fds : Open(fd) \/ Close(fd) \/ Arrive(fd)
         \/ UNCHANGED vars
  PROVE  UNCHANGED <<Registrations, Stage, Reason, Target>>
<1>1. flist' = flist
  BY DEF Top, Scan, Lock, Select, Unlock, Term, Open, Close, Arrive, vars, table
<1>2. Registrations' = Registrations
  BY <1>1 DEF Registrations, InUse
<1>3. CASE UNCHANGED <<pc, loop, ii>>
  BY <1>1, <1>2, <1>3, SameCallback DEF Target, InCallback, InUse
<1>4. CASE /\ pc \notin {"unlocked", "called", "crash"}
           /\ pc' \notin {"unlocked", "called", "crash"}
  BY <1>2, <1>4 DEF Stage, Reason, Target, InCallback
<1>5. CASE Top \/ Scan \/ Lock \/ Select \/ Unlock
  BY <1>4, <1>5 DEF Top, Scan, Lock, Select, Unlock, Goto, Sleep
<1>6. CASE Term \/ (\E fd \in Fds : Open(fd) \/ Close(fd) \/ Arrive(fd)) \/ UNCHANGED vars
  BY <1>3, <1>6 DEF Term, Open, Close, Arrive, vars, thread
<1> QED BY <1>5, <1>6

LEMMA StartRefines ==
  ASSUME Init
  PROVE  Registry!RegistryInit
<1>1. Registrations = {}
  BY DEF Init, Registrations, InUse, EmptyEntry
<1>2. Stage = "idle" /\ Reason = "none" /\ Target = Free
  BY DEF Init, Stage, Reason, Target, InCallback
<1> QED BY <1>1, <1>2 DEF Registry!RegistryInit, Registry!Nobody, Free

LEMMA StepRefines ==
  ASSUME IInv, [Next]_vars
  PROVE  [Registry!RegistryNext]_(Registry!registryVars)
<1>1. ASSUME NEW fd \in Fds, NEW mask \in Masks, Register(fd, mask)
      PROVE  Registry!RegistryNext
  BY <1>1, RegisterRefines DEF Registry!RegistryNext
<1>2. ASSUME NEW fd \in Fds, UnRegister(fd) \/ ReportEvent(fd)
      PROVE  Registry!RegistryNext
  BY <1>2, UnRegisterRefines, ReportRefines DEF Registry!RegistryNext
<1>3. CASE Reach
  BY <1>3, ReachRefines DEF Registry!RegistryNext
<1>4. CASE Call \/ Return
  BY <1>4, CallRefines, ReturnRefines DEF Registry!RegistryNext
<1>5. CASE \/ Top \/ Scan \/ Lock \/ Select \/ Unlock \/ Term
           \/ \E fd \in Fds : Open(fd) \/ Close(fd) \/ Arrive(fd)
           \/ UNCHANGED vars
  BY <1>5, OthersRefine DEF Registry!registryVars
<1> QED BY <1>1, <1>2, <1>3, <1>4, <1>5 DEF Next, Edit, Notify

\* The dispatcher implements the registry, for any number of descriptors: its
\* table is a map, and nobody's registration changes by another's.
THEOREM TableIsRegistry == Spec => ImplementsRegistry
<1>1. Init => Registry!RegistryInit
  BY StartRefines
<1>2. IInv /\ [Next]_vars => [Registry!RegistryNext]_(Registry!registryVars)
  BY StepRefines
<1> QED BY <1>1, <1>2, Inductive, PTL DEF Spec, ImplementsRegistry, Registry!RegistrySpec
-----------------------------------------------------------------------------
(* How long a round of the thread is. *)

Outside == {"top", "done", "crash"}

\* The steps of its own that notify_proc has left at most in this round: three
\* for an entry in the build loop and three in the loop after it, the release
\* of the mutex, the callback and its return, and one for an entry of the scan.
RoundLeft ==
  LET slots == 3 * (MAX_NUM_FDS - ii)
      after == IF loop = "build" THEN 3 * MAX_NUM_FDS + 1 ELSE 0
  IN  CASE pc \in Outside  -> 0
        [] pc = "scan"     -> 7 * MAX_NUM_FDS + 3 - ii
        [] pc = "lock"     -> 6 * MAX_NUM_FDS + 3
        [] pc = "loop"     -> after + slots + 1
        [] pc = "unlocked" -> after + slots
        [] pc = "called"   -> after + slots - 1

\* Every round ends: clients may register, report and close descriptors between
\* any two of its steps, and none of that makes the round longer.
RoundEnds ==
  [][/\ RoundLeft' <= 7 * MAX_NUM_FDS + 3
     /\ pc \notin Outside =>
          \/ Notify /\ pc' \in Outside
          \/ Notify /\ pc' \notin Outside /\ 0 < RoundLeft' /\ RoundLeft' < RoundLeft
          \/ ~Notify /\ UNCHANGED <<pc, RoundLeft>>]_vars

\* The same, a place at a time.
RoundKnown ==
  LET slots == 3 * (MAX_NUM_FDS - ii)
      after == IF loop = "build" THEN 3 * MAX_NUM_FDS + 1 ELSE 0
  IN  /\ pc \in Outside  => RoundLeft = 0
      /\ pc = "scan"     => RoundLeft = 7 * MAX_NUM_FDS + 3 - ii
      /\ pc = "lock"     => RoundLeft = 6 * MAX_NUM_FDS + 3
      /\ pc = "loop"     => RoundLeft = after + slots + 1
      /\ pc = "unlocked" => RoundLeft = after + slots
      /\ pc = "called"   => RoundLeft = after + slots - 1

\* The case distinction is that one.
LEMMA RoundLeftIs == RoundKnown /\ RoundKnown'
<1>1. RoundKnown BY Zenon DEF RoundKnown, RoundLeft, Outside
<1>2. RoundKnown' BY Zenon DEF RoundKnown, RoundLeft, Outside
<1> QED BY <1>1, <1>2

RoundBounded ==
  /\ RoundLeft \in Int /\ RoundLeft <= 7 * MAX_NUM_FDS + 3
  /\ pc \notin Outside => 0 < RoundLeft

\* An index is in the table, or just after its end when a loop has ended.
LEMMA RoundLeftBounds == TypeOK => RoundBounded
<1> SUFFICES ASSUME TypeOK PROVE RoundBounded
  OBVIOUS
<1>1. /\ MAX_NUM_FDS \in Int /\ 1 <= MAX_NUM_FDS
      /\ ii \in Int /\ 0 <= ii /\ ii <= MAX_NUM_FDS
      /\ pc # "loop" => ii <= MAX_NUM_FDS - 1
  BY SizeAssumption DEF TypeOK, Slots
<1> QED BY <1>1, RoundLeftIs DEF RoundKnown, RoundBounded, Outside, TypeOK

\* The thread's steps one by one.
LEMMA RoundStepsDown ==
  ASSUME TypeOK, TypeOK', pc \notin Outside, Notify, pc' \notin Outside
  PROVE  RoundLeft' < RoundLeft
<1>1. /\ MAX_NUM_FDS \in Int /\ 1 <= MAX_NUM_FDS
      /\ ii \in Int /\ 0 <= ii /\ ii <= MAX_NUM_FDS
      /\ ii' \in Int /\ 0 <= ii' /\ ii' <= MAX_NUM_FDS
      /\ loop \in {"build", "dispatch", "poll"}
      /\ loop' \in {"build", "dispatch", "poll"}
  BY SizeAssumption DEF TypeOK, Slots
<1>2. CASE Scan
  <2>1. pc = "scan" /\ ii <= MAX_NUM_FDS - 1
    BY <1>2, <1>1 DEF Scan, TypeOK, Slots
  <2>2. \/ pc' = "lock"
        \/ pc' = "scan" /\ ii' = ii + 1
    BY <1>2, <2>1 DEF Scan, Sleep, Outside
  <2> QED BY <1>1, <2>1, <2>2, RoundLeftIs DEF RoundKnown
<1>3. CASE Lock
  <2>1. pc = "lock" /\ pc' = "loop" /\ UNCHANGED <<loop, ii>>
    BY <1>3 DEF Lock, Goto
  <2> QED BY <1>1, <2>1, RoundLeftIs DEF RoundKnown
<1>4. CASE Reach
  <2>1. pc = "loop" /\ pc' = "unlocked" /\ loop' = loop
    BY <1>4 DEF Reach
  <2>2. ii' \in Called
    <3>1. Called \in SUBSET Slots
      BY <1>1 DEF Called, Slots
    <3> QED BY <1>4, <3>1, FirstIn DEF Reach
  <2>3. ii <= ii'
    BY <1>1, <2>2 DEF Called
  <2>4. PICK s \in Int : s = ii'
    BY <1>1
  <2>5. PICK after \in Int : after = IF loop = "build" THEN 3 * MAX_NUM_FDS + 1 ELSE 0
    BY <1>1
  <2>6. /\ RoundLeft = after + 3 * (MAX_NUM_FDS - ii) + 1
        /\ RoundLeft' = after + 3 * (MAX_NUM_FDS - s)
    BY <2>1, <2>4, <2>5, RoundLeftIs, Zenon DEF RoundKnown
  <2>7. ii <= s
    BY <2>3, <2>4
  <2> QED BY <1>1, <2>6, <2>7
<1>5. CASE Call
  <2>1. pc = "unlocked" /\ pc' = "called" /\ UNCHANGED <<loop, ii>>
    BY <1>5 DEF Call, Goto, Outside
  <2> QED BY <1>1, <2>1, RoundLeftIs DEF RoundKnown
<1>6. CASE Return
  <2>1. pc = "called" /\ pc' = "loop" /\ ii' = ii + 1 /\ loop' = loop
    BY <1>6 DEF Return
  <2> QED BY <1>1, <2>1, RoundLeftIs DEF RoundKnown
<1>7. CASE Select
  <2>1. /\ pc = "loop" /\ loop = "build"
        /\ pc' = "loop" /\ loop' \in {"poll", "dispatch"} /\ ii' = 0
    BY <1>7 DEF Select, Sleep, Outside
  <2> QED BY <1>1, <2>1, RoundLeftIs DEF RoundKnown
<1>8. ~Top /\ ~Unlock
  BY DEF Top, Unlock, Sleep, Outside
<1> QED BY <1>2, <1>3, <1>4, <1>5, <1>6, <1>7, <1>8 DEF Notify

\* What the other threads do changes neither the place of the thread nor what
\* is left of its round.
LEMMA OthersKeepRound ==
  ASSUME [Next]_vars, ~Notify
  PROVE  UNCHANGED <<pc, RoundLeft>>
<1>1. UNCHANGED thread
  BY DEF Next, Edit, Register, UnRegister, ReportEvent, Open, Close, Arrive, Term, vars
<1> QED BY <1>1 DEF thread, RoundLeft

\* Every round of notify_proc ends after a bounded number of its own steps, so
\* that is_stopped is tested again: the safety half of TermReturns.
THEOREM RoundsEnd == Spec => RoundEnds
<1>1. IInv /\ [Next]_vars =>
        /\ RoundLeft' <= 7 * MAX_NUM_FDS + 3
        /\ pc \notin Outside =>
             \/ Notify /\ pc' \in Outside
             \/ Notify /\ pc' \notin Outside /\ 0 < RoundLeft' /\ RoundLeft' < RoundLeft
             \/ ~Notify /\ UNCHANGED <<pc, RoundLeft>>
  <2> SUFFICES ASSUME IInv, [Next]_vars
               PROVE  /\ RoundLeft' <= 7 * MAX_NUM_FDS + 3
                      /\ pc \notin Outside =>
                           \/ Notify /\ pc' \in Outside
                           \/ /\ Notify /\ pc' \notin Outside
                              /\ 0 < RoundLeft' /\ RoundLeft' < RoundLeft
                           \/ ~Notify /\ UNCHANGED <<pc, RoundLeft>>
    OBVIOUS
  <2>1. TypeOK /\ TypeOK'
    BY TypeStep DEF IInv
  <2>2. RoundBounded'
    BY <2>1, RoundLeftBounds, PTL
  <2>3. ASSUME pc \notin Outside, Notify, pc' \notin Outside
        PROVE  0 < RoundLeft' /\ RoundLeft' < RoundLeft
    BY <2>1, <2>2, <2>3, RoundStepsDown DEF RoundBounded
  <2> QED BY <2>2, <2>3, OthersKeepRound DEF RoundBounded
<1> QED BY <1>1, Inductive, PTL DEF Spec, RoundEnds
=============================================================================
