---------------------------- MODULE PlayerProofs ----------------------------
(***************************************************************************)
(* Proofs about the player: its type invariant, that every place is the    *)
(* start of a buffer (Aligned), that what is read is what the position     *)
(* says (InPlace), that the files are closed at the end, each once         *)
(* (Released), that a play left alone delivers all of the recording in     *)
(* order (Played), and that every step of a task brings it nearer to its   *)
(* end (Nearer).                                                           *)
(***************************************************************************)
EXTENDS Player, TLAPS

\* The history variable misses nothing.
Apart == ~mixed => ~Mixed

\* Only the last task is alive, and none when the next is started.
OneTask ==
  ~mixed => /\ \A t \in Plays : Alive(t) => t = plays
            /\ pc[UI] \in {"info", "launch"} => plays \in Plays /\ \A t \in Plays : ~Alive(t)

\* The semaphore is held from the change of the position to the end of the call.
Guarded ==
  /\ pc[UI] \in {"compare", "swap", "name", "open", "store", "aim", "leave"} => sem
  /\ sem => pc[UI] \in {"compare", "swap", "name", "open", "store", "aim", "lseek", "leave"}

\* The descriptor, the number and the name of the file agree with the position.
NamedAt(p) ==
  /\ pc[p] \in {"name", "open", "store", "lost"} => ~live
  /\ pc[p] \in {"open", "store"} => fileno = CDiv(position) /\ name = fileno
  /\ pc[p] = "store" => got[p] \in {NoFile, fileno}
  /\ pc[p] = "aim" /\ Multi /\ live => fileno = CDiv(position)
  /\ pc[p] = "lseek" /\ (p # UI \/ sem) =>
       Multi /\ filepos = CMod(position) /\ (live => fileno = CDiv(position))

Named == ~mixed => (live => fd = fileno) /\ \A p \in Procs : NamedAt(p)

\* What is read next is what the position says, while the user interface is between
\* the changes that a change of the place consists of.
Quiet == {"menu", "tell", "FF", "REW", "halt", "close", "leave"}

SeatedAt(t) ==
  pc[t] = "read" =>
    /\ pc[UI] \in Quiet /\ live => position = fd * MaxSize + offset
    /\ pc[UI] # "settle" /\ (pc[UI] = "lseek" => sem)

Seated == ~mixed => \A t \in Plays : SeatedAt(t)

\* A cancelled task changes nothing any more that outlives it.
CancelledAt(t) ==
  /\ t <= plays
  /\ Alive(t) => /\ status = "stop"
                 /\ pc[t] \notin {"name", "open", "store", "lost", "origin", "zero", "resume", "again"}

\* While the player is not stopped a task works for it.
Running ==
  ~mixed =>
    /\ status # "stop" => plays \in Plays \ cancel /\ Alive(plays)
    /\ pc[UI] \in {"halt", "FF", "REW"} => status # "stop"
    /\ pc[UI] \in {"info", "launch", "close"} => status = "stop"
    /\ pc[UI] \in {"info", "launch"} => plays \notin cancel
    /\ pc[UI] = "close" => plays \in cancel
    /\ \A t \in cancel : CancelledAt(t)

\* A task that ends by itself is on its way to the notifier, or has been there.
EndingAt(t) ==
  /\ pc[t] \in {"ending", "shut"} => status = "stop"
  /\ pc[t] = "lost" => fd = NoFile
  /\ status = "stop" /\ Alive(t) /\ t \notin cancel =>
       \/ pc[t] \in {"hook", "ending", "shut", "top"}
       \/ pc[t] \in {"aim", "lseek", "read", "advance", "end"} /\ hook[t] /\ fd = NoFile

Ended == ~mixed => \A t \in Plays : EndingAt(t)

\* A closed file to which the descriptor still refers; another is being opened.
Dangling == fd # NoFile /\ ~live
Swapping == \E p \in Procs : pc[p] \in {"name", "open", "store"}

\* Who has the file open, and that nobody closes it again.
Kept ==
  ~mixed =>
    /\ ~stray
    /\ pc[UI] = "info" => ~live
    /\ status = "stop" /\ live =>
         \/ pc[UI] \in {"close", "launch"}
         \/ plays \in Plays \ cancel /\ pc[plays] \in {"hook", "ending", "shut"}
    /\ Dangling =>
         \/ Swapping
         \/ /\ status = "stop" /\ pc[UI] \notin {"close", "launch"}
            /\ \A t \in Plays : Alive(t) => t \in cancel \/ pc[t] = "top"

\* Before the first start nothing moves.
Begun ==
  plays = 0 => /\ pc[UI] = "menu" /\ status = "stop" /\ ~chosen
               /\ \A t \in Plays : pc[t] = "none"

Typed == TypeOK /\ Begun

Sole == Apart /\ OneTask /\ Guarded

\* What a stop saves is a place in the recording.
SavedInside == ~mixed => saved \in 0 .. total - 1

IInv == Typed /\ Sole /\ Named /\ Seated /\ Running /\ Ended /\ Kept /\ SavedInside

-----------------------------------------------------------------------------
(* Arithmetic. *)

LEMMA Constants ==
  /\ Buf \in Nat \ {0} /\ MaxSize \in Nat \ {0} /\ LoadPlay \in Nat \ {0}
  /\ LoadTrick \in Nat \ {0} /\ Parts \in Nat \ {0} /\ MaxPlays \in Nat \ {0}
  /\ Totals \subseteq Nat \ {0} /\ MaxKeys \in Nat
BY PlayerAssumption

LEMMA Quotient ==
  ASSUME NEW a \in Nat, NEW b \in Nat \ {0}
  PROVE  /\ a \div b \in Nat /\ a - b * (a \div b) \in 0 .. b - 1
         /\ a % b \in 0 .. b - 1
         /\ a >= b => a \div b >= 1
BY Z3

LEMMA Offset ==
  ASSUME NEW p \in Int
  PROVE  /\ CDiv(p) \in Int /\ CMod(p) \in Int
         /\ p = CDiv(p) * MaxSize + CMod(p)
         /\ p >= 0 => CMod(p) >= 0
<1>1. MaxSize \in Nat \ {0}
  BY Constants
<1>2. CASE p < 0
  <2>1. -p \in Nat
    BY <1>2
  <2>2. (-p) \div MaxSize \in Nat
    BY <2>1, <1>1, Quotient
  <2>3. CDiv(p) \in Int
    BY <2>2, <1>2 DEF CDiv
  <2> QED BY <2>3, <1>1, <1>2 DEF CMod
<1>3. CASE p >= 0
  <2>0. p \in Nat
    BY <1>3
  <2>1. p \div MaxSize \in Nat /\ p - MaxSize * (p \div MaxSize) \in 0 .. MaxSize - 1
    BY <2>0, <1>1, Quotient, Zenon
  <2>2. CDiv(p) = p \div MaxSize
    BY <1>3 DEF CDiv
  <2> QED BY <2>1, <2>2, <1>1 DEF CMod
<1> QED BY <1>2, <1>3

\* There is at least one file.
LEMMA SomeFile ==
  ASSUME total \in Totals
  PROVE  FileCount \in Nat \ {0}
<1>1. PICK a : a = total + MaxSize - 1
  OBVIOUS
<1>2. MaxSize \in Nat \ {0} /\ a \in Nat /\ a >= MaxSize
  BY <1>1, Constants
<1>3. a \div MaxSize \in Nat /\ a \div MaxSize >= 1
  BY <1>2, Quotient, Zenon
<1>4. FileCount = a \div MaxSize
  BY <1>1 DEF FileCount
<1> QED BY <1>3, <1>4

LEMMA YieldBound ==
  ASSUME TypeOK
  PROVE  Yield \in 0 .. Buf
<1>1. fd \in Int /\ offset \in Nat /\ FileCount \in Nat /\ total \in Int
  BY SomeFile, Constants DEF TypeOK
<1>2. SizeOf(fd) \in Int
  BY <1>1, Constants DEF SizeOf
<1> QED BY <1>1, <1>2, Constants DEF Yield
-----------------------------------------------------------------------------
(* The types. *)

LEMMA TypeInit == Init => TypeOK
<1> SUFFICES ASSUME Init PROVE TypeOK
  OBVIOUS
<1>1. 0 \in 0 .. LoadTrick - 1 /\ 0 \in 0 .. MaxPlays /\ 0 \in 0 .. MaxKeys
  BY Constants
<1>2. FileCount \in Nat \ {0}
  BY SomeFile DEF Init
<1>3. pc \in [Procs -> Places] /\ got \in [Procs -> NoFile .. FileCount - 1]
  BY <1>2 DEF Init, Procs, Places, NoFile
<1>4. load \in [Plays -> {LoadPlay, LoadTrick}] /\ hook \in [Plays -> BOOLEAN]
  BY DEF Init
<1>5. /\ live \in BOOLEAN /\ stray \in BOOLEAN /\ mixed \in BOOLEAN
      /\ chosen \in BOOLEAN /\ sem \in BOOLEAN /\ ~live
  BY Zenon DEF Init
<1>6. {position, temp, fileno, filepos, fd, name, saved, heard} \subseteq Int /\ offset \in Nat
  BY DEF Init, NoFile, Unknown
<1> QED BY <1>1, <1>3, <1>4, <1>5, <1>6 DEF Init, TypeOK

\* Two groups of the variables: the numbers, and what takes few values.
Numbers ==
  /\ {position, temp, fileno, filepos, fd, name, saved, heard} \subseteq Int
  /\ offset \in Nat /\ total \in Totals
  /\ live => fd \in 0 .. FileCount - 1
  /\ got \in [Procs -> NoFile .. FileCount - 1]

Values ==
  /\ status \in {"stop", "run", "pause", "ff", "skip", "rew"}
  /\ live \in BOOLEAN /\ stray \in BOOLEAN /\ mixed \in BOOLEAN
  /\ counter \in 0 .. LoadTrick - 1
  /\ pc \in [Procs -> Places]
  /\ load \in [Plays -> {LoadPlay, LoadTrick}] /\ hook \in [Plays -> BOOLEAN]
  /\ cancel \subseteq Plays /\ plays \in 0 .. MaxPlays /\ keys \in 0 .. MaxKeys
  /\ chosen \in BOOLEAN /\ sem \in BOOLEAN

LEMMA TypeSplit == TypeOK <=> Numbers /\ Values
BY DEF TypeOK, Numbers, Values

LEMMA NumbersStep ==
  ASSUME TypeOK, Next
  PROVE  Numbers'
<1> USE DEF speed, place, desc, task, other
<1>0. /\ {position, temp, fileno, filepos, fd, name, saved, heard} \subseteq Int
      /\ offset \in Nat /\ total \in Totals
      /\ live => fd \in 0 .. FileCount - 1
      /\ got \in [Procs -> NoFile .. FileCount - 1]
  BY DEF TypeOK
<1>1. FileCount \in Nat \ {0} /\ Yield \in 0 .. Buf /\ SeekOffset \in Int
  BY <1>0, SomeFile, YieldBound, Constants DEF SeekOffset
<1>2. /\ CDiv(position) \in Int /\ CMod(position) \in Int
  BY <1>0, Offset
<1>3. MaxSize \in Nat \ {0} /\ Buf \in Nat \ {0} /\ Parts \in Nat \ {0} /\ total \in Nat
  BY <1>0, Constants
<1>4. JumpSize \in Int
  BY <1>3, Quotient DEF JumpSize
<1> HIDE DEF speed, place, desc, task, other
<1>5. total' = total
  BY DEF Next, TaskStep, CallStep, CallBegins, FileStep, other, Top, Load, Skip, Edge, Origin, Zero,
         Replay, File, Name, Open, Store, Aim, Lseek, Lost, Read, Advance, End, Hook, Notify, Shut, Die,
         NoInfo, Prepare, Launch, Settle, Halt, Close, Tell, Trick, Compare, Leave, Start, Stop,
         Pause, Resume, ClearTemp, SetPosition, Press, SetPoint
<1>6. FileCount' = FileCount
  BY <1>5 DEF FileCount
<1> USE DEF speed, place, desc, task, other, Numbers
<1>7. ASSUME NEW p \in Procs, FileStep(p)
      PROVE  Numbers'
  <2>1. CASE Name(p)
    BY <2>1, <1>0, <1>2, <1>6 DEF Name
  <2>2. CASE Open(p)
    BY <2>2, <1>0, <1>1, <1>6 DEF Open, NoFile
  <2>3. CASE Store(p)
    <3>1. got[p] \in NoFile .. FileCount - 1
      BY <1>0
    <3>2. fd' = got[p] /\ offset' = 0 /\ (live' => got[p] # NoFile)
      BY <2>3, Zenon DEF Store
    <3>4. fd' \in Int /\ offset' \in Nat /\ (live' => fd' \in 0 .. FileCount' - 1)
      BY <3>1, <3>2, <1>1, <1>6 DEF NoFile
    <3>3. heard' \in Int
      BY <2>3, <1>0 DEF Store, Unknown
    <3> QED BY <2>3, <3>4, <3>3, <1>0, <1>6 DEF Store
  <2>4. CASE Aim(p)
    BY <2>4, <1>0, <1>2, <1>6 DEF Aim, Seek
  <2>5. CASE Lseek(p)
    BY <2>5, <1>0, <1>6 DEF Lseek, Seek
  <2> QED BY <1>7, <2>1, <2>2, <2>3, <2>4, <2>5 DEF FileStep
<1>8. ASSUME NEW t \in Plays, TaskStep(t)
      PROVE  Numbers'
  <2>1. CASE Skip(t)
    BY <2>1, <1>0, <1>1, <1>6 DEF Skip
  <2>2. CASE Origin(t) \/ Zero(t) \/ Lost(t)
    BY <2>2, <1>0, <1>6 DEF Origin, Seek, Zero, Lost
  <2>3. CASE File(t) \/ Shut(t)
    BY <2>3, <1>0, <1>6 DEF File, Shut, CloseFile
  <2>4. CASE Read(t)
    BY <2>4, <1>0, <1>1, <1>3, <1>6 DEF Read, Wrong
  <2>5. CASE Advance(t)
    BY <2>5, <1>0, <1>3, <1>6 DEF Advance
  <2>6. CASE Top(t) \/ Load(t) \/ Edge(t) \/ Replay(t) \/ End(t) \/ Hook(t) \/ Notify(t) \/ Die(t)
    BY <2>6, <1>0, <1>6 DEF Top, Load, Edge, Replay, End, Hook, Notify, Die
  <2>7. CASE FileStep(t)
    BY <2>7, <1>7 DEF Procs
  <2> QED BY <1>8, <2>1, <2>2, <2>3, <2>4, <2>5, <2>6, <2>7 DEF TaskStep
<1>9. CASE CallStep
  <2>1. CASE \E from \in {0, saved} : Prepare(from)
    BY <2>1, <1>0, <1>1, <1>6 DEF Prepare, NoFile, Unknown
  <2>2. CASE Settle
    BY <2>2, <1>0, <1>2, <1>6 DEF Settle, Seek
  <2>3. CASE Close
    BY <2>3, <1>0, <1>6 DEF Close, CloseFile
  <2>4. CASE Tell
    BY <2>4, <1>0, <1>6 DEF Tell
  <2>5. CASE Leave \/ NoInfo \/ Launch \/ Halt \/ Trick \/ Compare
    BY <2>5, <1>0, <1>6 DEF Leave, NoInfo, Launch, Halt, Trick, Compare
  <2>6. CASE FileStep(UI)
    BY <2>6, <1>7 DEF Procs
  <2> QED BY <1>9, <2>1, <2>2, <2>3, <2>4, <2>5, <2>6 DEF CallStep
<1>10. CASE CallBegins
  <2>1. CASE Start
    BY <2>1, <1>0, <1>1, <1>6 DEF Start
  <2>2. CASE Stop \/ Pause \/ Resume \/ ClearTemp \/ SetPosition
    BY <2>2, <1>0, <1>6 DEF Stop, Pause, Resume, ClearTemp, SetPosition, Key, Unknown
  <2>3. CASE \E dir \in {"FF", "REW"} : Press(dir)
    BY <2>3, <1>0, <1>6 DEF Press, Key, Unknown
  <2>4. CASE \E right \in BOOLEAN : SetPoint(right)
    BY <2>4, <1>0, <1>3, <1>4, <1>6 DEF SetPoint
  <2> QED BY <1>10, <2>1, <2>2, <2>3, <2>4 DEF CallBegins
<1> QED BY <1>8, <1>9, <1>10 DEF Next

LEMMA CounterBound ==
  ASSUME TypeOK
  PROVE  (counter + 1) % LoadTrick \in 0 .. LoadTrick - 1
<1>1. PICK a : a = counter + 1
  OBVIOUS
<1>2. a \in Nat /\ LoadTrick \in Nat \ {0}
  BY <1>1, Constants DEF TypeOK
<1>3. a % LoadTrick \in 0 .. LoadTrick - 1
  BY <1>2, Quotient, Zenon
<1> QED BY <1>1, <1>3

LEMMA ValuesStep ==
  ASSUME TypeOK, Begun, Next
  PROVE  Values'
<1> USE DEF speed, place, desc, task, other
<1>0. Values
  BY TypeSplit
<1>1. (counter + 1) % LoadTrick \in 0 .. LoadTrick - 1
  BY CounterBound
<1>2. mixed' \in BOOLEAN
  BY Zenon DEF Next
<1>3. UI \in Procs /\ Plays \subseteq Procs
  BY DEF Procs
<1> USE DEF Values
<1>4. ASSUME NEW p \in Procs, FileStep(p)
      PROVE  Values'
  <2>1. stray' \in BOOLEAN /\ live' \in BOOLEAN
    <3>1. CASE Store(p)
      BY <3>1, Zenon DEF Store
    <3>2. CASE Name(p) \/ Open(p) \/ Aim(p) \/ Lseek(p)
      BY <3>2, <1>0 DEF Name, Open, Aim, Lseek, Seek
    <3> QED BY <1>4, <3>1, <3>2 DEF FileStep
  <2>2. pc' \in [Procs -> Places]
    BY <1>4, <1>0 DEF FileStep, Name, Open, Store, Aim, Lseek, Goto, Places
  <2> QED BY <2>1, <2>2, <1>0, <1>2, <1>4 DEF FileStep, Name, Open, Store, Aim, Lseek
<1>5. ASSUME NEW t \in Plays, TaskStep(t)
      PROVE  Values'
  <2>1. CASE Top(t) \/ Load(t)
    BY <2>1, <1>0, <1>1, <1>2, <1>3 DEF Top, Load, Goto, Places
  <2>2. CASE Skip(t) \/ Edge(t) \/ Origin(t) \/ Zero(t)
    BY <2>2, <1>0, <1>2, <1>3 DEF Skip, Edge, Origin, Zero, Seek, Goto, Places
  <2>3. CASE Replay(t) \/ Lost(t) \/ End(t) \/ Hook(t)
    <3>1. hook' \in [Plays -> BOOLEAN]
      <4>1. PICK b \in BOOLEAN : hook' = [hook EXCEPT ![t] = b] \/ hook' = hook
        BY <2>3, Zenon DEF Replay, Lost, End, Hook
      <4> QED BY <4>1, <1>0
    <3> QED BY <3>1, <2>3, <1>0, <1>2, <1>3 DEF Replay, Lost, End, Hook, Goto, Places
  <2>4. CASE Read(t) \/ Advance(t) \/ Notify(t) \/ Die(t)
    BY <2>4, <1>0, <1>2, <1>3 DEF Read, Advance, Notify, Die, Goto, Places
  <2>5. CASE File(t) \/ Shut(t)
    <3>1. stray' \in BOOLEAN /\ live' \in BOOLEAN
      <4>1. CASE CloseFile
        BY <4>1, Zenon DEF CloseFile
      <4>2. CASE UNCHANGED desc
        BY <4>2, <1>0
      <4> QED BY <4>1, <4>2, <2>5 DEF File, Shut
    <3> QED BY <3>1, <2>5, <1>0, <1>2, <1>3 DEF File, Shut, Goto, Places
  <2>6. CASE FileStep(t)
    BY <2>6, <1>4, <1>3
  <2> QED BY <1>5, <2>1, <2>2, <2>3, <2>4, <2>5, <2>6 DEF TaskStep
<1>6. CASE CallStep
  <2>1. CASE \E from \in {0, saved} : Prepare(from)
    <3>1. stray' \in BOOLEAN /\ live' \in BOOLEAN
      BY <2>1, Zenon DEF Prepare
    <3> QED BY <3>1, <2>1, <1>0, <1>2, <1>3 DEF Prepare, Goto, Places
  <2>2. CASE Close
    <3>1. stray' \in BOOLEAN /\ live' \in BOOLEAN
      BY <2>2, Zenon DEF Close, CloseFile
    <3> QED BY <3>1, <2>2, <1>0, <1>2, <1>3 DEF Close, Goto, Places
  <2>3. CASE Launch
    BY <2>3, <1>0, <1>2, <1>3 DEF Launch, Places
  <2>4. CASE Halt
    <3>1. plays \in Plays
      BY <2>4, <1>0, Constants DEF Halt, Begun, Plays
    <3> QED BY <2>4, <3>1, <1>0, <1>2, <1>3 DEF Halt, Goto, Places
  <2>5. CASE Settle \/ Tell \/ Trick \/ NoInfo
    BY <2>5, <1>0, <1>2, <1>3 DEF Settle, Tell, Trick, NoInfo, Goto, Places, Seek
  <2>6. CASE Compare \/ Leave
    <3>1. sem' \in BOOLEAN
      BY <2>6, <1>0, Zenon DEF Compare, Leave
    <3> QED BY <3>1, <2>6, <1>0, <1>2, <1>3 DEF Compare, Leave, Goto, Places
  <2>7. CASE FileStep(UI)
    BY <2>7, <1>4, <1>3
  <2> QED BY <1>6, <2>1, <2>2, <2>3, <2>4, <2>5, <2>6, <2>7 DEF CallStep
<1>7. CASE CallBegins
  <2>1. CASE Start
    BY <2>1, <1>0, <1>2, <1>3, Constants DEF Start, Menu, Goto, Places
  <2>2. CASE Stop \/ Pause \/ Resume \/ SetPosition
    <3>1. CASE SetPosition
      <4>1. sem' \in BOOLEAN /\ chosen' \in BOOLEAN
        BY <3>1, Zenon DEF SetPosition
      <4> QED
        BY <4>1, <3>1, <1>0, <1>2, <1>3, Constants DEF SetPosition, Key, Menu, Goto, Places
    <3>2. CASE Stop \/ Pause \/ Resume
      BY <3>2, <1>0, <1>2, <1>3, Constants DEF Stop, Pause, Resume, Key, Menu, Goto, Places
    <3> QED BY <2>2, <3>1, <3>2
  <2>3. CASE \E dir \in {"FF", "REW"} : Press(dir)
    BY <2>3, <1>0, <1>2, <1>3, Constants DEF Press, Key, Menu, Goto, Places
  <2>4. CASE ClearTemp \/ \E right \in BOOLEAN : SetPoint(right)
    <3>1. chosen' \in BOOLEAN
      BY <2>4, Zenon DEF ClearTemp, SetPoint
    <3> QED BY <3>1, <2>4, <1>0, <1>2, <1>3, Constants DEF ClearTemp, SetPoint
  <2> QED BY <1>7, <2>1, <2>2, <2>3, <2>4 DEF CallBegins
<1> QED BY <1>5, <1>6, <1>7 DEF Next

LEMMA BegunStep ==
  ASSUME TypeOK, Begun, Next
  PROVE  Begun'
<1> USE DEF speed, place, desc, task, other
<1>1. CASE plays # 0
  <2>1. plays' # 0
    BY <1>1, Constants
       DEF TypeOK, Next, TaskStep, CallStep, CallBegins, FileStep, Top, Load, Skip, Edge, Origin,
           Zero, Replay, File, Name, Open, Store, Aim, Lseek, Lost, Read, Advance, End, Hook, Notify,
           Shut, Die, NoInfo, Prepare, Launch, Settle, Halt, Close, Tell, Trick, Compare, Leave,
           Start, Stop, Pause, Resume, ClearTemp, SetPosition, Press, SetPoint
  <2> QED BY <2>1 DEF Begun
<1>2. CASE plays = 0
  <2>1. /\ pc[UI] = "menu" /\ status = "stop" /\ ~chosen
        /\ \A t \in Plays : pc[t] = "none"
    BY <1>2 DEF Begun
  <2>2. ~ \E t \in Plays : TaskStep(t)
    BY <2>1 DEF TaskStep, FileStep, Top, Load, Skip, Edge, Origin, Zero, Replay, File, Name, Open,
         Store, Aim, Lseek, Lost, Read, Advance, End, Hook, Notify, Shut, Die
  <2>3. ~ CallStep
    BY <2>1 DEF CallStep, NoInfo, Prepare, Launch, Settle, Halt, Close, Tell, Trick, Compare,
         FileStep, Name, Open, Store, Aim, Lseek, Leave
  <2>4. plays' # 0
    BY <2>1, <2>2, <2>3, <1>2
       DEF Next, CallBegins, Start, Stop, Pause, Resume, ClearTemp, SetPosition, Press, SetPoint
  <2> QED BY <2>4 DEF Begun
<1> QED BY <1>1, <1>2

LEMMA TypeStep ==
  ASSUME TypeOK, Begun, Next
  PROVE  TypeOK'
<1>1. Numbers' /\ Values'
  BY NumbersStep, ValuesStep
<1> QED BY <1>1 DEF TypeOK, Numbers, Values

\* The variables have their types: the descriptor is that of a file of the recording,
\* and what the tasks count stays in its range.
THEOREM PlayerType == Spec => []TypeOK
<1>1. Init => TypeOK /\ Begun
  BY TypeInit DEF Init, Begun, Procs, Plays, UI
<1>2. TypeOK /\ Begun /\ [Next]_vars => TypeOK' /\ Begun'
  <2>1. CASE Next
    BY <2>1, TypeStep, BegunStep
  <2>2. CASE UNCHANGED vars
    BY <2>2 DEF vars, speed, place, desc, task, other, TypeOK, Begun, FileCount
  <2> QED BY <2>1, <2>2
<1> QED BY <1>1, <1>2, PTL DEF Spec

-----------------------------------------------------------------------------
(* Every place is the start of a buffer. *)

LEMMA Multiple ==
  ASSUME NEW q \in Int, NEW b \in Nat \ {0}
  PROVE  (b * q) % b = 0
BY Z3

LEMMA Multiples ==
  ASSUME NEW x \in Int, NEW y \in Int, NEW b \in Nat \ {0}, x % b = 0, y % b = 0
  PROVE  (x + y) % b = 0 /\ (x - y) % b = 0
<1>1. PICK q \in Int, r \in Int : x = b * q /\ y = b * r
  <2>1. ASSUME NEW z \in Int, z % b = 0
        PROVE  z = b * (z \div b) /\ z \div b \in Int
    BY <2>1, Z3
  <2> QED BY <2>1
<1>2. x + y = b * (q + r) /\ x - y = b * (q - r)
  BY <1>1
<1> QED BY <1>2, Multiple

LEMMA RoundedUp ==
  ASSUME NEW a \in Nat, NEW b \in Nat \ {0}
  PROVE  (a + (b - (a % b))) % b = 0
BY Z3

\* The distances moved are whole buffers.
LEMMA WholeBuffers ==
  ASSUME TypeOK
  PROVE  /\ SeekOffset \in Int /\ (2 * SeekOffset) \in Int /\ JumpSize \in Int
         /\ SeekOffset % Buf = 0 /\ (2 * SeekOffset) % Buf = 0 /\ JumpSize % Buf = 0
         /\ 0 % Buf = 0 /\ Buf % Buf = 0
<1>1. Buf \in Nat \ {0} /\ LoadTrick \in Nat /\ Parts \in Nat \ {0} /\ total \in Nat
  BY Constants DEF TypeOK
<1>2. /\ SeekOffset = Buf * (LoadTrick * 2) /\ 2 * SeekOffset = Buf * (LoadTrick * 4)
      /\ 0 = Buf * 0 /\ Buf = Buf * 1
  BY <1>1 DEF SeekOffset
<1>3. SeekOffset % Buf = 0 /\ (2 * SeekOffset) % Buf = 0 /\ 0 % Buf = 0 /\ Buf % Buf = 0
  <2>1. LoadTrick * 2 \in Int /\ LoadTrick * 4 \in Int /\ 0 \in Int /\ 1 \in Int
    BY <1>1
  <2> QED BY <1>1, <1>2, <2>1, Multiple, Zenon
<1>4. PICK part : part = total \div Parts
  OBVIOUS
<1>5. part \in Nat
  BY <1>1, <1>4, Quotient, Zenon
<1>6. part % Buf \in 0 .. Buf - 1 /\ (part + (Buf - (part % Buf))) % Buf = 0
  BY <1>1, <1>5, Quotient, RoundedUp, Zenon
<1>7. JumpSize \in Int /\ JumpSize % Buf = 0
  BY <1>1, <1>4, <1>5, <1>6 DEF JumpSize
<1> QED BY <1>1, <1>2, <1>3, <1>7

LEMMA AlignedStep ==
  ASSUME TypeOK, Aligned, Next
  PROVE  Aligned'
<1> USE DEF speed, place, desc, task, other
<1>0. /\ position \in Int /\ temp \in Int /\ saved \in Int
      /\ position % Buf = 0 /\ temp % Buf = 0 /\ saved % Buf = 0
  BY DEF TypeOK, Aligned
<1>1. /\ Buf \in Nat \ {0}
      /\ SeekOffset \in Int /\ (2 * SeekOffset) \in Int /\ JumpSize \in Int
      /\ SeekOffset % Buf = 0 /\ (2 * SeekOffset) % Buf = 0 /\ JumpSize % Buf = 0
      /\ 0 % Buf = 0 /\ Buf % Buf = 0
  BY Constants, WholeBuffers
<1>2. SUFFICES position' % Buf = 0 /\ temp' % Buf = 0 /\ saved' % Buf = 0
  BY DEF Aligned
<1>3. ASSUME NEW p \in Procs, FileStep(p)
      PROVE  UNCHANGED <<position, temp, saved>>
  BY <1>3 DEF FileStep, Name, Open, Store, Aim, Lseek
<1>4. ASSUME NEW t \in Plays, TaskStep(t)
      PROVE  position' % Buf = 0 /\ temp' % Buf = 0 /\ saved' % Buf = 0
  <2>1. CASE Skip(t)
    <3>1. /\ (position + SeekOffset) % Buf = 0 /\ (position - SeekOffset) % Buf = 0
          /\ (position + 2 * SeekOffset) % Buf = 0
      BY <1>0, <1>1, Multiples
    <3>2. position' \in {position + SeekOffset, position - SeekOffset, position + 2 * SeekOffset}
      BY <2>1 DEF Skip
    <3> QED BY <3>1, <3>2, <2>1, <1>0 DEF Skip
  <2>2. CASE Advance(t)
    <3>1. Buf \in Int
      BY <1>1
    <3>2. (position + Buf) % Buf = 0
      BY <3>1, <1>0, <1>1, Multiples, Zenon
    <3> QED BY <3>2, <2>2, <1>0 DEF Advance
  <2>3. CASE Zero(t) \/ Lost(t)
    BY <2>3, <1>0, <1>1 DEF Zero, Lost
  <2>4. CASE FileStep(t)
    BY <2>4, <1>0, <1>3 DEF Procs
  <2>5. CASE \/ Top(t) \/ Load(t) \/ Edge(t) \/ Origin(t) \/ Replay(t) \/ File(t) \/ Read(t)
             \/ End(t) \/ Hook(t) \/ Notify(t) \/ Shut(t) \/ Die(t)
    BY <2>5, <1>0
       DEF Top, Load, Edge, Origin, Replay, File, Read, End, Hook, Notify, Shut, Die
  <2> QED BY <1>4, <2>1, <2>2, <2>3, <2>4, <2>5 DEF TaskStep
<1>5. CASE CallStep
  <2>1. CASE \E from \in {0, saved} : Prepare(from)
    BY <2>1, <1>0, <1>1 DEF Prepare
  <2>2. CASE FileStep(UI)
    BY <2>2, <1>0, <1>3 DEF Procs
  <2>3. CASE NoInfo \/ Launch \/ Settle \/ Halt \/ Close \/ Tell \/ Trick \/ Compare \/ Leave
    BY <2>3, <1>0, <1>1
       DEF NoInfo, Launch, Settle, Halt, Close, Tell, Trick, Compare, Leave
  <2> QED BY <1>5, <2>1, <2>2, <2>3 DEF CallStep
<1>6. CASE CallBegins
  <2>1. CASE \E right \in BOOLEAN : SetPoint(right)
    <3>1. PICK from \in {position, temp} :
            temp' \in {from + JumpSize, from, from - JumpSize, 0}
      BY <2>1 DEF SetPoint
    <3>2. from \in Int /\ from % Buf = 0
      BY <1>0
    <3>3. (from + JumpSize) % Buf = 0 /\ (from - JumpSize) % Buf = 0
      BY <3>2, <1>1, Multiples
    <3> QED BY <3>1, <3>2, <3>3, <2>1, <1>0, <1>1 DEF SetPoint
  <2>2. CASE Start \/ Stop \/ Pause \/ Resume \/ ClearTemp \/ SetPosition
    BY <2>2, <1>0, <1>1 DEF Start, Stop, Pause, Resume, ClearTemp, SetPosition
  <2>3. CASE \E dir \in {"FF", "REW"} : Press(dir)
    BY <2>3, <1>0 DEF Press
  <2> QED BY <1>6, <2>1, <2>2, <2>3 DEF CallBegins
<1> QED BY <1>4, <1>5, <1>6 DEF Next

\* Whatever the order of the steps, every place that is read from, chosen or saved is
\* the start of a buffer.
THEOREM PlacesAligned == Spec => []Aligned
<1>1. Init => TypeOK /\ Begun /\ Aligned
  <2>1. Init => TypeOK /\ Begun
    BY TypeInit DEF Init, Begun, Procs, Plays, UI
  <2>2. Init => Aligned
    BY WholeBuffers, TypeInit DEF Init, Aligned
  <2> QED BY <2>1, <2>2
<1>2. TypeOK /\ Begun /\ Aligned /\ [Next]_vars => TypeOK' /\ Begun' /\ Aligned'
  <2>1. CASE Next
    BY <2>1, TypeStep, BegunStep, AlignedStep
  <2>2. CASE UNCHANGED vars
    BY <2>2 DEF vars, speed, place, desc, task, other, TypeOK, Begun, Aligned, FileCount
  <2> QED BY <2>1, <2>2
<1> QED BY <1>1, <1>2, PTL DEF Spec

-----------------------------------------------------------------------------
(* What a step of a task leaves alone, and what the user interface and a     *)
(* task do not do at the same time.                                          *)

LEMMA TaskFrame ==
  ASSUME TypeOK, NEW t \in Plays, TaskStep(t)
  PROVE  /\ Alive(t) /\ t # UI
         /\ \A p \in Procs : p # t => pc'[p] = pc[p]
         /\ UNCHANGED <<temp, chosen, saved, keys, sem, total, plays, cancel>>
<1> USE DEF speed, place, desc, task, other
<1>1. pc \in [Procs -> Places] /\ t \in Procs /\ t # UI
  BY DEF TypeOK, Procs, Plays, UI
<1>2. UNCHANGED <<temp, chosen, saved, keys, sem, total, plays, cancel>>
  BY DEF TaskStep, FileStep, Top, Load, Skip, Edge, Origin, Zero, Replay, File, Name, Open, Store,
         Aim, Lseek, Lost, Read, Advance, End, Hook, Notify, Shut, Die
<1>3. Alive(t)
  BY DEF TaskStep, FileStep, Top, Load, Skip, Edge, Origin, Zero, Replay, File, Name, Open, Store,
         Aim, Lseek, Lost, Read, Advance, End, Hook, Notify, Shut, Die, Alive
<1>4. \E where : Goto(t, where)
  BY DEF TaskStep, FileStep, Top, Load, Skip, Edge, Origin, Zero, Replay, File, Name, Open, Store,
         Aim, Lseek, Lost, Read, Advance, End, Hook, Notify, Shut, Die
<1> QED BY <1>1, <1>2, <1>3, <1>4 DEF Goto

LEMMA UIFrame ==
  ASSUME TypeOK, CallStep \/ CallBegins
  PROVE  /\ \A t \in Plays : pc'[t] = pc[t] \/ (Launch /\ t = plays)
         /\ UNCHANGED <<total, hook, load, counter>>
<1> USE DEF speed, place, desc, task, other
<1>1. pc \in [Procs -> Places] /\ Plays \subseteq Procs /\ UI \notin Plays
  BY DEF TypeOK, Procs, Plays, UI
<1>2. UNCHANGED <<total, hook, load, counter>>
  BY DEF CallStep, CallBegins, NoInfo, Prepare, Launch, Settle, Halt, Close, Tell, Trick, Compare,
         FileStep, Name, Open, Store, Aim, Lseek, Leave, Start, Stop, Pause, Resume, ClearTemp,
         SetPosition, Press, SetPoint
<1>3. Launch \/ UNCHANGED pc \/ \E where : Goto(UI, where)
  BY DEF CallStep, CallBegins, NoInfo, Prepare, Settle, Halt, Close, Tell, Trick, Compare,
         FileStep, Name, Open, Store, Aim, Lseek, Leave, Start, Stop, Pause, Resume, ClearTemp,
         SetPosition, Press, SetPoint, Menu
<1>4. CASE Launch
  BY <1>4, <1>1, <1>2 DEF Launch
<1> QED BY <1>1, <1>2, <1>3, <1>4 DEF Goto

\* A state in which the changes have not mixed.
Apiece ==
  /\ ~mixed /\ ~Mixed
  /\ \A t \in Plays : pc[t] \in Changing \cup Ending => pc[UI] = "menu"
  /\ \A t \in Plays : Alive(t) => t = plays /\ pc[UI] \notin {"info", "launch"}
  /\ pc[UI] \in {"info", "launch"} => plays \in Plays
  /\ sem => status # "stop"
  /\ position < 0 => pc[UI] = "menu" /\ \E t \in Plays : Rewinding(t)

LEMMA Separate ==
  ASSUME Apart, OneTask, ~mixed
  PROVE  Apiece
BY DEF Apart, OneTask, Mixed, Apiece

LEMMA UnmixedBefore ==
  ASSUME TypeOK, Next, ~mixed'
  PROVE  ~mixed /\ ~Mixed'
<1>1. mixed \in BOOLEAN /\ mixed' = (mixed \/ Mixed')
  BY DEF TypeOK, Next
<1> QED BY <1>1, Zenon

LEMMA ApartStep ==
  ASSUME TypeOK, Next
  PROVE  Apart'
BY UnmixedBefore DEF Apart

LEMMA OneTaskStep ==
  ASSUME TypeOK, OneTask, Next
  PROVE  OneTask'
<1> SUFFICES ASSUME ~mixed'
             PROVE  /\ \A t \in Plays : Alive(t)' => t = plays'
                    /\ pc'[UI] \in {"info", "launch"} =>
                         plays' \in Plays /\ \A t \in Plays : ~Alive(t)'
  BY DEF OneTask, Alive
<1>1. ~mixed /\ ~Mixed'
  BY UnmixedBefore
<1>2. /\ \A t \in Plays : Alive(t) => t = plays
      /\ pc[UI] \in {"info", "launch"} => plays \in Plays /\ \A t \in Plays : ~Alive(t)
  BY <1>1 DEF OneTask
<1>3. pc \in [Procs -> Places] /\ plays \in 0 .. MaxPlays
  BY DEF TypeOK
<1>4. UI \in Procs /\ Plays \subseteq Procs /\ UI \notin Plays
  BY DEF Procs, Plays, UI
<1> USE DEF Alive
<1>5. ASSUME NEW t \in Plays, TaskStep(t)
      PROVE  /\ \A s \in Plays : Alive(s)' => s = plays'
             /\ pc'[UI] \in {"info", "launch"} =>
                  plays' \in Plays /\ \A s \in Plays : ~Alive(s)'
  BY <1>5, <1>2, <1>4, TaskFrame
<1>6. CASE CallStep \/ CallBegins
  <2>1. CASE Start
    <3>1. plays' = plays + 1 /\ plays' \in Plays
      BY <2>1, <1>3, Constants DEF Start, Plays
    <3>2. \A t \in Plays : pc'[t] = pc[t]
      BY <2>1, <1>3, <1>4 DEF Start, Menu, Goto
    <3>3. pc'[UI] = "info"
      BY <2>1, <1>3, <1>4 DEF Start, Menu, Goto
    <3>4. \A t \in Plays : ~Alive(t)'
      BY <1>1, <3>3 DEF Mixed
    <3> QED BY <3>1, <3>4
  <2>2. CASE Launch
    BY <2>2, <1>2, <1>3, <1>4 DEF Launch, other
  <2>3. CASE ~Start /\ ~Launch
    <3>1. \A t \in Plays : pc'[t] = pc[t]
      BY <2>3, <1>6, UIFrame
    <3>2. plays' = plays
      BY <2>3, <1>6
         DEF CallStep, CallBegins, NoInfo, Prepare, Settle, Halt, Close, Tell, Trick, Compare,
             FileStep, Name, Open, Store, Aim, Lseek, Leave, Stop, Pause, Resume, ClearTemp,
             SetPosition, Press, SetPoint, other
    <3>3. pc'[UI] \in {"info", "launch"} => pc[UI] \in {"info", "launch"}
      BY <2>3, <1>6, <1>3, <1>4
         DEF CallStep, CallBegins, NoInfo, Prepare, Settle, Halt, Close, Tell, Trick, Compare,
             FileStep, Name, Open, Store, Aim, Lseek, Leave, Stop, Pause, Resume, ClearTemp,
             SetPosition, Press, SetPoint, Menu, Goto
    <3> QED BY <3>1, <3>2, <3>3, <1>2
  <2> QED BY <2>1, <2>2, <2>3
<1> QED BY <1>5, <1>6 DEF Next

LEMMA GuardedStep ==
  ASSUME TypeOK, Guarded, Next
  PROVE  Guarded'
<1>1. pc \in [Procs -> Places] /\ UI \in Procs
  BY DEF TypeOK, Procs
<1>2. ASSUME NEW t \in Plays, TaskStep(t)
      PROVE  Guarded'
  <2>1. pc'[UI] = pc[UI] /\ sem' = sem
    BY <1>2, <1>1, TaskFrame
  <2> QED BY <2>1 DEF Guarded
<1>3. CASE CallStep
  BY <1>3, <1>1 DEF Guarded, CallStep, NoInfo, Prepare, Launch, Settle, Halt, Close, Tell, Trick,
       Compare, FileStep, Name, Open, Store, Aim, Lseek, Leave, Goto, UI, Plays
<1>4. CASE CallBegins
  BY <1>4, <1>1 DEF Guarded, CallBegins, Start, Stop, Pause, Resume, ClearTemp, SetPosition, Press,
       SetPoint, Menu, Goto
<1> QED BY <1>2, <1>3, <1>4 DEF Next

LEMMA SoleStep ==
  ASSUME TypeOK, Sole, Next
  PROVE  Sole'
BY ApartStep, OneTaskStep, GuardedStep DEF Sole

LEMMA BothApiece ==
  ASSUME TypeOK, Sole, Next, ~mixed'
  PROVE  Apiece /\ Apiece'
<1>1. Apiece
  BY UnmixedBefore, Separate DEF Sole
<1>2. Apart' /\ OneTask'
  BY SoleStep DEF Sole
<1>3. Apiece'
  BY <1>2 DEF Apart, OneTask, Mixed, Apiece, Alive, Rewinding
<1> QED BY <1>1, <1>3

\* The task that moves is the only one alive.
LEMMA Alone ==
  ASSUME TypeOK, Sole, Next, ~mixed', NEW t \in Plays, TaskStep(t)
  PROVE  /\ t = plays /\ t \in Procs /\ t # UI /\ UI \in Procs
         /\ pc'[UI] = pc[UI] /\ pc[UI] \notin {"info", "launch"}
         /\ \A q \in Procs \ {t, UI} : pc'[q] = pc[q] /\ pc[q] \in {"none", "done"}
         /\ pc[t] \in Changing \cup Ending => pc[UI] = "menu"
         /\ pc'[t] \in Changing \cup Ending => pc[UI] = "menu"
<1>1. Apiece /\ Apiece'
  BY BothApiece
<1>2. Alive(t) /\ t # UI /\ \A p \in Procs : p # t => pc'[p] = pc[p]
  BY TaskFrame
<1>3. UI \in Procs /\ Plays \subseteq Procs /\ \A q \in Procs \ {t, UI} : q \in Plays
  BY DEF Procs
<1>4. t = plays /\ pc[UI] \notin {"info", "launch"}
  BY <1>1, <1>2 DEF Apiece
<1>5. \A q \in Procs \ {t, UI} : pc[q] \in {"none", "done"}
  BY <1>1, <1>3, <1>4 DEF Apiece, Alive
<1> QED BY <1>1, <1>2, <1>3, <1>4, <1>5 DEF Apiece

-----------------------------------------------------------------------------
(* The descriptor, the number and the name of the file. *)

LEMMA NamedStep ==
  ASSUME TypeOK, Sole, Named, Next
  PROVE  Named'
<1> USE DEF speed, place, desc, task, other
<1> SUFFICES ASSUME ~mixed'
             PROVE  (live => fd = fileno)' /\ \A p \in Procs : NamedAt(p)'
  BY DEF Named, NamedAt
<1>1. Apiece /\ Apiece'
  BY BothApiece
<1>2. (live => fd = fileno) /\ \A p \in Procs : NamedAt(p)
  BY <1>1 DEF Apiece, Named
<1>3. pc \in [Procs -> Places] /\ got \in [Procs -> NoFile .. FileCount - 1]
  BY DEF TypeOK
<1>4. UI \in Procs /\ Plays \subseteq Procs /\ UI \notin Plays
  BY DEF Procs, Plays, UI
<1>5. ASSUME NEW t \in Plays, TaskStep(t)
      PROVE  (live => fd = fileno)' /\ \A p \in Procs : NamedAt(p)'
  <2>1. /\ t = plays /\ t \in Procs /\ t # UI /\ UI \in Procs
        /\ pc'[UI] = pc[UI] /\ pc[UI] \notin {"info", "launch"}
        /\ \A q \in Procs \ {t, UI} : pc'[q] \in {"none", "done"}
        /\ pc[t] \in Changing \cup Ending => pc[UI] = "menu"
        /\ pc'[t] \in Changing \cup Ending => pc[UI] = "menu"
    BY <1>5, Alone
  <2>2. total' = total /\ sem' = sem
    BY <1>5, TaskFrame
  <2>3. Multi' = Multi
    BY <2>2 DEF Multi, FileCount
  <2>4. SUFFICES (live => fd = fileno)' /\ NamedAt(t)' /\ NamedAt(UI)'
    BY <2>1 DEF NamedAt
  <2>5. NamedAt(t) /\ NamedAt(UI)
    BY <1>2, <2>1
  <2>6. CASE Name(t)
    BY <2>6, <2>1, <2>2, <2>3, <2>5, <1>2, <1>3 DEF Name, Goto, NamedAt, CDiv, Changing
  <2>7. CASE Open(t)
    BY <2>7, <2>1, <2>2, <2>3, <2>5, <1>2, <1>3 DEF Open, Goto, NamedAt, CDiv, Changing
  <2>8. CASE Store(t)
    BY <2>8, <2>1, <2>2, <2>3, <2>5, <1>2, <1>3 DEF Store, Goto, NamedAt, CDiv, Changing
  <2>9. CASE Aim(t)
    BY <2>9, <2>1, <2>2, <2>3, <2>5, <1>2, <1>3 DEF Aim, Seek, Goto, NamedAt, CDiv, CMod, Changing
  <2>10. CASE Lseek(t)
    BY <2>10, <2>1, <2>2, <2>3, <2>5, <1>2, <1>3 DEF Lseek, Seek, Goto, NamedAt, CDiv, Changing
  <2>11. CASE File(t)
    BY <2>11, <2>1, <2>2, <2>3, <2>5, <1>2, <1>3 DEF File, CloseFile, Goto, NamedAt, CDiv, CMod, Changing
  <2>12. CASE Lost(t)
    BY <2>12, <2>1, <2>2, <2>3, <2>5, <1>2, <1>3 DEF Lost, Goto, NamedAt, Changing
  <2>13. CASE Shut(t)
    BY <2>13, <2>1, <2>2, <2>3, <2>5, <1>2, <1>3 DEF Shut, CloseFile, Goto, NamedAt, Ending
  <2>14. CASE Skip(t) \/ Zero(t) \/ Advance(t)
    <3>1. pc'[UI] \notin {"compare", "swap", "name", "open", "store", "aim", "leave"} /\ ~sem
      BY <2>14, <2>1 DEF Skip, Zero, Advance, Sole, Guarded
    <3> QED BY <3>1, <2>14, <2>1, <2>2, <2>3, <1>2, <1>3 DEF Skip, Zero, Advance, Goto, NamedAt
  <2>15. CASE Origin(t) \/ Replay(t) \/ Edge(t) \/ Top(t) \/ Load(t)
    BY <2>15, <2>1, <2>2, <2>3, <2>5, <1>2, <1>3
       DEF Origin, Seek, Replay, Edge, Top, Load, Goto, NamedAt, CDiv, CMod
  <2>16. CASE Read(t) \/ End(t) \/ Hook(t) \/ Notify(t) \/ Die(t)
    BY <2>16, <2>1, <2>2, <2>3, <2>5, <1>2, <1>3
       DEF Read, End, Hook, Notify, Die, Goto, NamedAt, CDiv, CMod
  <2> QED BY <1>5, <2>6, <2>7, <2>8, <2>9, <2>10, <2>11, <2>12, <2>13, <2>14, <2>15, <2>16
          DEF TaskStep, FileStep
<1>6. CASE CallStep \/ CallBegins
  <2>1. total' = total /\ Multi' = Multi
    BY <1>6, UIFrame DEF Multi, FileCount
  <2>2. CASE Launch
    BY <2>2, <2>1, <1>2, <1>3, <1>4 DEF Launch, NamedAt, CDiv, CMod
  <2>3. CASE ~Launch
    <3>1. \A t \in Plays : pc'[t] = pc[t]
      BY <2>3, <1>6, UIFrame
    <3>2. \A t \in Plays : pc[t] \in Changing => pc[UI] = "menu" /\ pc'[UI] = "menu"
      BY <3>1, <1>1 DEF Apiece
    <3>3. \A t \in Plays : NamedAt(t)
      BY <1>2, <1>4
    <3>4. NamedAt(UI)
      BY <1>2, <1>4
    <3>5. SUFFICES (live => fd = fileno)' /\ NamedAt(UI)' /\ \A t \in Plays : NamedAt(t)'
      BY DEF Procs
    <3>6. CASE pc[UI] = "menu" /\ pc'[UI] = "menu"
      <4>1. UNCHANGED <<place, desc, got, sem>>
        BY <3>6, <2>3, <1>6, <1>3, <1>4
           DEF CallStep, CallBegins, NoInfo, Prepare, Settle, Halt, Close, Tell, Trick, Compare,
               FileStep, Name, Open, Store, Aim, Lseek, Leave, Start, Stop, Pause, Resume, ClearTemp,
               SetPosition, Press, SetPoint, Menu, Goto
      <4> QED BY <4>1, <3>1, <3>3, <3>6, <2>1, <1>2, <1>4 DEF NamedAt, CDiv, CMod
    <3>7. CASE pc[UI] # "menu" \/ pc'[UI] # "menu"
      <4>1. \A t \in Plays : pc'[t] \notin Changing
        BY <3>1, <3>2, <3>7
      <4>2. \A t \in Plays : NamedAt(t)'
        BY <4>1, <1>4 DEF NamedAt, Changing
      <4>3. SUFFICES (live => fd = fileno)' /\ NamedAt(UI)'
        BY <4>2
      <4>4. CASE FileStep(UI)
        <5>1. CASE Name(UI) \/ Open(UI)
          BY <5>1, <3>4, <2>1, <1>2, <1>3, <1>4 DEF Name, Open, Goto, NamedAt, CDiv, CMod
        <5>2. CASE Store(UI)
          BY <5>2, <3>4, <2>1, <1>2, <1>3, <1>4 DEF Store, Goto, NamedAt, CDiv, CMod
        <5>3. CASE Aim(UI) \/ Lseek(UI)
          BY <5>3, <3>4, <2>1, <1>2, <1>3, <1>4 DEF Aim, Lseek, Seek, Goto, NamedAt, CDiv, CMod
        <5> QED BY <4>4, <5>1, <5>2, <5>3 DEF FileStep
      <4>5. CASE Compare
        BY <4>5, <3>4, <2>1, <1>2, <1>3, <1>4 DEF Compare, Goto, NamedAt, CDiv
      <4>6. CASE Close
        BY <4>6, <3>4, <2>1, <1>2, <1>3, <1>4 DEF Close, CloseFile, Goto, NamedAt
      <4>7. CASE Settle
        BY <4>7, <3>4, <2>1, <1>2, <1>3, <1>4
           DEF Settle, Seek, Goto, NamedAt, CDiv, CMod, Sole, Guarded
      <4>8. CASE \E from \in {0, saved} : Prepare(from)
        BY <4>8, <3>4, <2>1, <1>2, <1>3, <1>4 DEF Prepare, Goto, NamedAt
      <4>9. CASE NoInfo \/ Halt \/ Tell \/ Trick \/ Leave
        BY <4>9, <3>4, <2>1, <1>2, <1>3, <1>4 DEF NoInfo, Halt, Tell, Trick, Leave, Goto, NamedAt
      <4>10. CASE CallBegins
        BY <4>10, <3>7, <3>4, <2>1, <1>2, <1>3, <1>4
           DEF CallBegins, Start, Stop, Pause, Resume, ClearTemp, SetPosition, Press, SetPoint,
               Menu, Goto, NamedAt
      <4> QED BY <1>6, <2>3, <4>4, <4>5, <4>6, <4>7, <4>8, <4>9, <4>10 DEF CallStep
    <3> QED BY <3>6, <3>7
  <2> QED BY <2>2, <2>3
<1> QED BY <1>5, <1>6 DEF Next

-----------------------------------------------------------------------------
(* What is read next is what the position says. *)

LEMMA OneFile ==
  ASSUME TypeOK, ~Multi, live
  PROVE  fd * MaxSize = 0
<1>1. FileCount \in Nat \ {0} /\ fd \in 0 .. FileCount - 1
  BY SomeFile DEF TypeOK
<1>2. fd = 0
  BY <1>1 DEF Multi
<1> QED BY <1>2, Constants

LEMMA SeatedStep ==
  ASSUME TypeOK, Sole, Named, Seated, Next
  PROVE  Seated'
<1> USE DEF speed, place, desc, task, other
<1> SUFFICES ASSUME ~mixed', NEW t \in Plays, pc'[t] = "read"
             PROVE  SeatedAt(t)'
  BY DEF Seated, SeatedAt
<1>1. Apiece /\ Apiece'
  BY BothApiece
<1>2. (live => fd = fileno) /\ (\A p \in Procs : NamedAt(p)) /\ SeatedAt(t)
  BY <1>1 DEF Apiece, Named, Seated
<1>3. /\ pc \in [Procs -> Places] /\ position \in Int /\ offset \in Nat /\ fd \in Int
      /\ filepos \in Int
  BY DEF TypeOK
<1>4. UI \in Procs /\ t \in Procs /\ t # UI /\ Plays \subseteq Procs
  BY DEF Procs, Plays, UI
<1>5. /\ CDiv(position) \in Int /\ CMod(position) \in Int
      /\ position = CDiv(position) * MaxSize + CMod(position)
      /\ position >= 0 => CMod(position) >= 0
  BY <1>3, Offset
<1>6. MaxSize \in Nat /\ (~Multi /\ live => fd * MaxSize = 0)
  BY Constants, OneFile
<1>7. ASSUME NEW s \in Plays, TaskStep(s)
      PROVE  SeatedAt(t)'
  <2>1. /\ s = plays /\ pc'[UI] = pc[UI]
        /\ \A q \in Procs \ {s, UI} : pc'[q] \in {"none", "done"}
        /\ pc[s] \in Changing \cup Ending => pc[UI] = "menu"
        /\ sem' = sem
    BY <1>7, Alone, TaskFrame
  <2>2. s = t
    BY <2>1, <1>4
  <2>3. CASE pc[t] = "aim"
    <3>1. pc[UI] = "menu"
      BY <2>3, <2>1, <2>2 DEF Changing
    <3>2. ~ \E r \in Plays : Rewinding(r)
      BY <2>3, <1>1, <2>1, <2>2 DEF Apiece, Rewinding, Alive
    <3>3. position >= 0
      BY <3>2, <1>1, <1>3 DEF Apiece
    <3>4. Aim(t) /\ ~Multi
      BY <2>3, <1>7, <2>2, <1>3, <1>4
         DEF TaskStep, FileStep, Top, Load, Skip, Edge, Origin, Zero, Replay, File, Name, Open,
             Store, Aim, Lseek, Lost, Read, Advance, End, Hook, Notify, Shut, Die, Goto
    <3> QED BY <3>1, <3>3, <3>4, <2>1, <1>3, <1>4, <1>6 DEF Aim, Seek, SeatedAt, Quiet
  <2>4. CASE pc[t] = "lseek"
    <3>1. pc[UI] = "menu"
      BY <2>4, <2>1, <2>2 DEF Changing
    <3>2. ~ \E r \in Plays : Rewinding(r)
      BY <2>4, <1>1, <2>1, <2>2 DEF Apiece, Rewinding, Alive
    <3>3. position >= 0
      BY <3>2, <1>1, <1>3 DEF Apiece
    <3>4. filepos = CMod(position) /\ (live => fd = CDiv(position))
      BY <2>4, <1>2, <1>4 DEF NamedAt
    <3>5. Lseek(t)
      BY <2>4, <1>7, <2>2, <1>3, <1>4
         DEF TaskStep, FileStep, Top, Load, Skip, Edge, Origin, Zero, Replay, File, Name, Open,
             Store, Aim, Lseek, Lost, Read, Advance, End, Hook, Notify, Shut, Die, Goto
    <3>6. live' => position' = fd' * MaxSize + offset'
      BY <3>3, <3>4, <3>5, <1>3, <1>5, <1>6 DEF Lseek, Seek
    <3> QED BY <3>1, <3>6, <2>1 DEF SeatedAt
  <2>5. CASE pc[t] \notin {"aim", "lseek"}
    BY <2>5, <1>7, <2>2, <1>3, <1>4
       DEF TaskStep, FileStep, Top, Load, Skip, Edge, Origin, Zero, Replay, File, Name, Open,
           Store, Aim, Lseek, Lost, Read, Advance, End, Hook, Notify, Shut, Die, Goto
  <2> QED BY <2>3, <2>4, <2>5
<1>8. CASE CallStep \/ CallBegins
  <2>1. pc[t] = "read" /\ ~Launch
    <3>1. CASE Launch
      <4>1. (~Alive(t) /\ t # plays) \/ pc'[t] = "top"
        BY <3>1, <1>1, <1>3, <1>4 DEF Launch, Apiece
      <4> QED BY <4>1, <3>1, <1>3, <1>4 DEF Launch, Alive
    <3>2. CASE ~Launch
      BY <3>2, <1>8, UIFrame
    <3> QED BY <3>1, <3>2
  <2>2. /\ pc[UI] \in Quiet /\ live => position = fd * MaxSize + offset
        /\ pc[UI] # "settle" /\ (pc[UI] = "lseek" => sem)
    BY <2>1, <1>2 DEF SeatedAt
  <2>3. pc[UI] \notin {"info", "launch"}
    BY <2>1, <1>1 DEF Apiece, Alive
  <2>4. NamedAt(UI)
    BY <1>2, <1>4
  <2>5. pc[UI] # "menu" => position >= 0
    BY <1>1, <1>3 DEF Apiece
  <2>6. CASE FileStep(UI)
    <3>1. CASE Name(UI) \/ Open(UI) \/ Store(UI)
      BY <3>1, <1>3, <1>4 DEF Name, Open, Store, Goto, SeatedAt, Quiet
    <3>2. CASE Aim(UI)
      <4>1. sem' = sem /\ sem
        BY <3>2 DEF Aim, Sole, Guarded
      <4>2. CASE Multi
        BY <3>2, <4>1, <4>2, <1>3, <1>4 DEF Aim, Goto, SeatedAt, Quiet
      <4>3. CASE ~Multi
        <5>1. pc'[UI] = "leave" /\ position >= 0 /\ position' = position
          BY <3>2, <4>3, <2>5, <1>3, <1>4 DEF Aim, Goto
        <5>2. live' => live /\ fd' = fd /\ offset' = position
          BY <3>2, <4>3, <5>1 DEF Aim, Seek
        <5>3. live' => position' = fd' * MaxSize + offset'
          BY <5>1, <5>2, <4>3, <1>3, <1>6
        <5> QED BY <5>1, <5>3 DEF SeatedAt
      <4> QED BY <4>2, <4>3
    <3>3. CASE Lseek(UI)
      <4>1. sem /\ pc'[UI] = "leave" /\ position >= 0 /\ position' = position
        BY <3>3, <2>2, <2>5, <1>3, <1>4 DEF Lseek, Goto
      <4>2. filepos = CMod(position) /\ (live => fd = CDiv(position))
        BY <3>3, <4>1, <2>4, <1>2 DEF NamedAt, Lseek
      <4>3. live' => position' = fd' * MaxSize + offset'
        BY <3>3, <4>1, <4>2, <1>3, <1>5, <1>6 DEF Lseek, Seek
      <4> QED BY <4>1, <4>3 DEF SeatedAt
    <3> QED BY <2>6, <3>1, <3>2, <3>3 DEF FileStep
  <2>7. CASE Compare \/ Leave
    BY <2>7, <2>2, <1>3, <1>4 DEF Compare, Leave, Goto, SeatedAt, Quiet
  <2>8. CASE Close
    BY <2>8, <2>2, <1>3, <1>4 DEF Close, CloseFile, Goto, SeatedAt, Quiet
  <2>9. CASE Halt \/ Tell \/ Trick
    BY <2>9, <2>2, <1>3, <1>4 DEF Halt, Tell, Trick, Goto, SeatedAt, Quiet
  <2>10. ~ (NoInfo \/ Settle \/ \E from \in {0, saved} : Prepare(from))
    BY <2>2, <2>3 DEF NoInfo, Settle, Prepare
  <2>11. CASE CallBegins
    <3>1. CASE SetPosition
      BY <3>1, <1>3, <1>4 DEF SetPosition, Menu, Goto, SeatedAt, Quiet
    <3>2. CASE ~SetPosition
      <4>1. UNCHANGED <<position, fd, live, offset>> /\ pc[UI] = "menu"
        BY <2>11, <3>2
           DEF CallBegins, Start, Stop, Pause, Resume, ClearTemp, Press, SetPoint, Menu
      <4>2. pc'[UI] \notin {"settle", "lseek"}
        BY <2>11, <3>2, <1>3, <1>4
           DEF CallBegins, Start, Stop, Pause, Resume, ClearTemp, Press, SetPoint, Menu, Goto
      <4> QED BY <4>1, <4>2, <2>2 DEF SeatedAt, Quiet
    <3> QED BY <3>1, <3>2
  <2> QED BY <1>8, <2>1, <2>6, <2>7, <2>8, <2>9, <2>10, <2>11 DEF CallStep
<1> QED BY <1>7, <1>8 DEF Next

-----------------------------------------------------------------------------
(* Who works for a player that is not stopped, and how a task ends. *)

\* The actions of the user interface between whose steps no task moves.
LEMMA UIStatus ==
  ASSUME TypeOK, CallStep \/ CallBegins, ~Launch
  PROVE  /\ plays' = plays \/ (Start /\ plays' = plays + 1)
         /\ cancel' = cancel \/ (Halt /\ cancel' = cancel \cup {plays})
         /\ status' = status \/ Halt \/ (status' # "stop" /\ (status # "stop" \/ Trick))
<1> USE DEF speed, place, desc, task, other
<1> QED
  BY DEF CallStep, CallBegins, NoInfo, Prepare, Settle, Halt, Close, Tell, Trick, Compare,
         FileStep, Name, Open, Store, Aim, Lseek, Leave, Start, Stop, Pause, Resume, ClearTemp,
         SetPosition, Press, SetPoint

LEMMA RunningStep ==
  ASSUME TypeOK, Sole, Running, Ended, Next
  PROVE  Running'
<1> USE DEF speed, place, desc, task, other
<1> SUFFICES ASSUME ~mixed'
             PROVE  /\ status' # "stop" => plays' \in Plays \ cancel' /\ Alive(plays)'
                    /\ pc'[UI] \in {"halt", "FF", "REW"} => status' # "stop"
                    /\ pc'[UI] \in {"info", "launch", "close"} => status' = "stop"
                    /\ pc'[UI] \in {"info", "launch"} => plays' \notin cancel'
                    /\ pc'[UI] = "close" => plays' \in cancel'
                    /\ \A t \in cancel' : CancelledAt(t)'
  BY DEF Running, CancelledAt, Alive
<1>1. Apiece /\ Apiece'
  BY BothApiece
<1>2. /\ status # "stop" => plays \in Plays \ cancel /\ Alive(plays)
      /\ pc[UI] \in {"halt", "FF", "REW"} => status # "stop"
      /\ pc[UI] \in {"info", "launch", "close"} => status = "stop"
      /\ pc[UI] \in {"info", "launch"} => plays \notin cancel
      /\ pc[UI] = "close" => plays \in cancel
      /\ \A t \in cancel : CancelledAt(t)
      /\ \A t \in Plays : EndingAt(t)
  BY <1>1 DEF Apiece, Running, Ended
<1>3. pc \in [Procs -> Places] /\ cancel \subseteq Plays /\ plays \in 0 .. MaxPlays
  BY DEF TypeOK
<1>4. UI \in Procs /\ Plays \subseteq Procs /\ UI \notin Plays /\ \A t \in Plays : t \in Int
  BY DEF Procs, Plays, UI
<1>5. ASSUME NEW t \in Plays, TaskStep(t)
      PROVE  /\ status' # "stop" => plays' \in Plays \ cancel' /\ Alive(plays)'
             /\ pc'[UI] \in {"halt", "FF", "REW"} => status' # "stop"
             /\ pc'[UI] \in {"info", "launch", "close"} => status' = "stop"
             /\ pc'[UI] \in {"info", "launch"} => plays' \notin cancel'
             /\ pc'[UI] = "close" => plays' \in cancel'
             /\ \A s \in cancel' : CancelledAt(s)'
  <2>1. /\ t = plays /\ t \in Procs /\ t # UI
        /\ pc'[UI] = pc[UI] /\ pc[UI] \notin {"info", "launch"}
        /\ \A q \in Procs \ {t, UI} : pc'[q] = pc[q] /\ pc[q] \in {"none", "done"}
        /\ pc[t] \in Changing \cup Ending => pc[UI] = "menu"
        /\ pc'[t] \in Changing \cup Ending => pc[UI] = "menu"
    BY <1>5, Alone
  <2>2. Alive(t) /\ plays' = plays /\ cancel' = cancel
    BY <1>5, TaskFrame
  <2>3. status' # status => pc[UI] = "menu"
    BY <1>5, <2>1, <1>3
       DEF TaskStep, FileStep, Top, Load, Skip, Edge, Origin, Zero, Replay, File, Name, Open, Store,
           Aim, Lseek, Lost, Read, Advance, End, Hook, Notify, Shut, Die, Changing, Ending, Goto
  <2>4. /\ status' # "stop" /\ status = "stop" => t \notin cancel /\ pc'[t] \in {"file", "top"}
    <3>1. status' # "stop" /\ status = "stop" => Replay(t) \/ (Notify(t) /\ pc[t] = "again")
      BY <1>5
         DEF TaskStep, FileStep, Top, Load, Skip, Edge, Origin, Zero, Replay, File, Name, Open,
             Store, Aim, Lseek, Lost, Read, Advance, End, Hook, Notify, Shut, Die
    <3>2. t \in cancel => pc[t] \notin {"resume", "again"}
      BY <1>2, <2>2 DEF CancelledAt
    <3> QED BY <3>1, <3>2, <2>1, <1>3 DEF Replay, Notify, Goto
  <2>5. status # "stop" => t \notin cancel /\ Alive(t)
    BY <1>2, <2>1
  <2>6. status # "stop" => pc'[t] \notin {"none", "done"}
    BY <2>5, <1>5, <2>1, <1>3
       DEF TaskStep, FileStep, Top, Load, Skip, Edge, Origin, Zero, Replay, File, Name, Open, Store,
           Aim, Lseek, Lost, Read, Advance, End, Hook, Notify, Shut, Die, Goto
  <2>7. status' # "stop" => plays' \in Plays \ cancel' /\ Alive(plays)'
    BY <2>1, <2>2, <2>4, <2>5, <2>6 DEF Alive
  <2>8. t \in cancel /\ Alive(t)' =>
          /\ status' = "stop"
          /\ pc'[t] \notin {"name", "open", "store", "lost", "origin", "zero", "resume", "again"}
    <3>1. t \in cancel => /\ status = "stop"
                          /\ pc[t] \notin {"name", "open", "store", "lost", "origin", "zero",
                                           "resume", "again"}
      BY <1>2, <2>2 DEF CancelledAt
    <3>2. t \in cancel => status' = "stop"
      BY <3>1, <2>4
    <3>3. t \in cancel => pc'[t] \notin {"name", "open", "store", "lost", "origin", "zero",
                                         "resume", "again"}
      BY <3>1, <1>5, <2>1, <1>3
         DEF TaskStep, FileStep, Top, Load, Skip, Edge, Origin, Zero, Replay, File, Name, Open,
             Store, Aim, Lseek, Lost, Read, Advance, End, Hook, Notify, Shut, Die, Goto
    <3> QED BY <3>2, <3>3
  <2>9. \A s \in cancel' : CancelledAt(s)'
    <3> SUFFICES ASSUME NEW s \in cancel
                 PROVE  CancelledAt(s)'
      BY <2>2
    <3>1. s <= plays /\ s \in Plays
      BY <1>2, <1>3 DEF CancelledAt
    <3>2. CASE s = t
      BY <3>2, <2>2, <2>8, <3>1 DEF CancelledAt
    <3>3. CASE s # t
      BY <3>3, <3>1, <2>1, <2>2, <1>4 DEF CancelledAt, Alive
    <3> QED BY <3>2, <3>3
  <2> QED BY <2>1, <2>2, <2>3, <2>7, <2>9, <1>2
<1>6. CASE Launch
  <2>1. /\ pc[UI] = "launch" /\ status' = "run" /\ plays' = plays /\ cancel' = cancel
        /\ pc' = [pc EXCEPT ![UI] = "settle", ![plays] = "top"]
    BY <1>6 DEF Launch
  <2>2. plays \in Plays \ cancel /\ \A t \in Plays : ~Alive(t)
    BY <2>1, <1>1, <1>2 DEF Apiece
  <2>3. pc'[plays] = "top" /\ pc'[UI] = "settle" /\ \A t \in Plays \ {plays} : pc'[t] = pc[t]
    BY <2>1, <2>2, <1>3, <1>4
  <2>4. \A t \in cancel : ~Alive(t)' /\ t <= plays
    BY <2>2, <2>3, <1>2, <1>3 DEF Alive, CancelledAt
  <2> QED BY <2>1, <2>2, <2>3, <2>4 DEF Alive, CancelledAt
<1>7. CASE (CallStep \/ CallBegins) /\ ~Launch
  <2>1. \A t \in Plays : pc'[t] = pc[t]
    BY <1>7, UIFrame
  <2>2. /\ plays' = plays \/ (Start /\ plays' = plays + 1)
        /\ cancel' = cancel \/ (Halt /\ cancel' = cancel \cup {plays})
        /\ status' = status \/ Halt \/ (status' # "stop" /\ (status # "stop" \/ Trick))
    BY <1>7, UIStatus
  <2>3. CASE Start
    <3>1. /\ pc[UI] = "menu" /\ pc'[UI] = "info" /\ status = "stop" /\ status' = "stop"
          /\ cancel' = cancel /\ plays' = plays + 1
      BY <2>3, <1>3, <1>4 DEF Start, Menu, Goto
    <3>2. \A t \in Plays : ~Alive(t)'
      BY <3>1, <1>1 DEF Apiece, Alive
    <3>3. \A t \in cancel : t <= plays /\ t \in Int
      BY <1>2, <1>3, <1>4 DEF CancelledAt
    <3>4. plays' \notin cancel' /\ \A t \in cancel' : t <= plays'
      BY <3>1, <3>3, <1>3
    <3> QED BY <3>1, <3>2, <3>4, <1>3 DEF CancelledAt, Alive
  <2>4. CASE Halt
    <3>1. /\ pc[UI] = "halt" /\ pc'[UI] = "close" /\ status' = "stop"
          /\ cancel' = cancel \cup {plays} /\ plays' = plays
      BY <2>4, <1>3, <1>4 DEF Halt, Goto
    <3>2. plays \in Plays /\ pc[plays] \notin Changing \cup Ending
      BY <3>1, <1>1, <1>2 DEF Apiece
    <3>3. CancelledAt(plays)'
      BY <3>1, <3>2, <2>1, <1>3 DEF CancelledAt, Changing, Ending
    <3>4. \A t \in cancel : CancelledAt(t)'
      BY <3>1, <2>1, <1>2, <1>3 DEF CancelledAt, Alive
    <3> QED BY <3>1, <3>3, <3>4
  <2>5. CASE ~Start /\ ~Halt
    <3>1. plays' = plays /\ cancel' = cancel /\ (status # "stop" <=> status' # "stop")
      BY <2>2, <2>5, <1>2 DEF Trick
    <3>2. status # "stop" => Alive(plays)'
      BY <3>1, <2>1, <1>2 DEF Alive
    <3>3. \A t \in cancel' : CancelledAt(t)'
      BY <3>1, <2>1, <1>2, <1>3 DEF CancelledAt, Alive
    <3>4. /\ pc'[UI] \in {"halt", "FF", "REW"} => status # "stop"
          /\ pc'[UI] \in {"info", "launch", "close"} =>
               pc[UI] = pc'[UI] \/ (pc[UI] = "info" /\ pc'[UI] = "launch")
      BY <1>7, <2>5, <1>3, <1>4, <1>2
         DEF CallStep, CallBegins, NoInfo, Prepare, Settle, Close, Tell, Trick, Compare,
             FileStep, Name, Open, Store, Aim, Lseek, Leave, Stop, Pause, Resume, ClearTemp,
             SetPosition, Press, SetPoint, Menu, Goto
    <3> QED BY <3>1, <3>2, <3>3, <3>4, <1>2
  <2> QED BY <2>3, <2>4, <2>5
<1> QED BY <1>5, <1>6, <1>7 DEF Next

LEMMA EndedStep ==
  ASSUME TypeOK, Sole, Running, Ended, Next
  PROVE  Ended'
<1> USE DEF speed, place, desc, task, other
<1> SUFFICES ASSUME ~mixed', NEW t \in Plays
             PROVE  EndingAt(t)'
  BY DEF Ended
<1>1. Apiece /\ Apiece'
  BY BothApiece
<1>2. EndingAt(t) /\ (status # "stop" => plays \in Plays \ cancel /\ Alive(plays))
  BY <1>1 DEF Apiece, Ended, Running
<1>3. /\ pc \in [Procs -> Places] /\ hook \in [Plays -> BOOLEAN]
      /\ got \in [Procs -> NoFile .. FileCount - 1]
  BY DEF TypeOK
<1>4. UI \in Procs /\ t \in Procs /\ t # UI /\ UI \notin Plays
  BY DEF Procs, Plays, UI
<1>5. ASSUME NEW s \in Plays, TaskStep(s)
      PROVE  EndingAt(t)'
  <2>1. s = plays /\ \A q \in Procs \ {s, UI} : pc'[q] = pc[q] /\ pc[q] \in {"none", "done"}
    BY <1>5, Alone
  <2>2. CASE s # t
    BY <2>1, <2>2, <1>4 DEF EndingAt, Alive
  <2>3. CASE s = t
    <3>1. cancel' = cancel
      BY <1>5, TaskFrame
    <3>2. CASE Top(t) \/ Load(t) \/ Skip(t) \/ Edge(t) \/ Origin(t) \/ Zero(t) \/ File(t)
      BY <3>1, <3>2, <1>2, <1>3, <1>4
         DEF Top, Load, Skip, Edge, Origin, Zero, File, Goto, EndingAt, Alive
    <3>3. CASE Name(t) \/ Open(t) \/ Aim(t) \/ Lseek(t)
      BY <3>1, <3>3, <1>2, <1>3, <1>4
         DEF Name, Open, Aim, Lseek, Seek, Goto, EndingAt, Alive
    <3>4. CASE Store(t)
      BY <3>1, <3>4, <1>2, <1>3, <1>4 DEF Store, Goto, EndingAt, Alive
    <3>5. CASE Replay(t) \/ Lost(t)
      BY <3>1, <3>5, <1>2, <1>3, <1>4 DEF Replay, Lost, Goto, EndingAt, Alive
    <3>6. CASE Read(t) \/ Advance(t) \/ Die(t)
      BY <3>1, <3>6, <1>2, <1>3, <1>4 DEF Read, Advance, Die, Goto, EndingAt, Alive
    <3>7. CASE End(t)
      BY <3>1, <3>7, <1>2, <1>3, <1>4 DEF End, Goto, EndingAt, Alive
    <3>8. CASE Hook(t)
      BY <3>1, <3>8, <1>2, <1>3, <1>4 DEF Hook, Goto, EndingAt, Alive
    <3>9. CASE Notify(t) \/ Shut(t)
      BY <3>1, <3>9, <1>2, <1>3, <1>4 DEF Notify, Shut, CloseFile, Goto, EndingAt, Alive
    <3> QED BY <1>5, <2>3, <3>2, <3>3, <3>4, <3>5, <3>6, <3>7, <3>8, <3>9 DEF TaskStep, FileStep
  <2> QED BY <2>2, <2>3
<1>6. CASE Launch
  <2>1. status' = "run" /\ (pc'[t] = "top" \/ pc'[t] = pc[t]) /\ ~Alive(t)
    BY <1>6, <1>1, <1>3, <1>4 DEF Launch, Apiece
  <2> QED BY <2>1 DEF EndingAt, Alive
<1>7. CASE (CallStep \/ CallBegins) /\ ~Launch
  <2>1. pc'[t] = pc[t] /\ hook' = hook
    BY <1>7, UIFrame
  <2>2. /\ cancel' = cancel \/ (Halt /\ cancel' = cancel \cup {plays})
        /\ status' = status \/ Halt \/ (status' # "stop" /\ (status # "stop" \/ Trick))
    BY <1>7, UIStatus
  <2>3. CASE Halt
    <3>1. status' = "stop" /\ cancel' = cancel \cup {plays} /\ UNCHANGED <<fd, hook>>
      BY <2>3 DEF Halt
    <3>2. Alive(t) => t \in cancel'
      BY <3>1, <1>1 DEF Apiece
    <3> QED BY <3>1, <3>2, <2>1, <1>2 DEF EndingAt, Alive
  <2>4. CASE ~Halt
    <3>1. cancel' = cancel /\ (status' = "stop" => status = "stop")
      BY <2>2, <2>4
    <3>2. status = "stop" => status' = "stop" \/ Trick
      BY <2>2, <2>4
    <3>3. Trick => status # "stop"
      BY <1>1 DEF Trick, Apiece, Running
    <3>4. fd' = fd \/ ~Alive(t) \/ (status # "stop" /\ pc[t] # "lost")
      <4>1. pc[UI] = "info" => ~Alive(t)
        BY <1>1 DEF Apiece
      <4>2. pc[UI] = "store" => status # "stop" /\ pc[t] # "lost"
        BY <1>1 DEF Apiece, Changing, Sole, Guarded
      <4>3. fd' = fd \/ pc[UI] \in {"info", "store"}
        BY <1>7
           DEF CallStep, CallBegins, NoInfo, Prepare, Settle, Halt, Close, CloseFile, Tell, Trick,
               Compare, FileStep, Name, Open, Store, Aim, Seek, Lseek, Leave, Start, Stop, Pause,
               Resume, ClearTemp, SetPosition, Press, SetPoint
      <4> QED BY <4>1, <4>2, <4>3
    <3> QED BY <3>1, <3>2, <3>3, <3>4, <2>1, <1>2 DEF EndingAt, Alive
  <2> QED BY <2>3, <2>4
<1> QED BY <1>5, <1>6, <1>7 DEF Next

LEMMA SavedInsideStep ==
  ASSUME TypeOK, Sole, SavedInside, Next
  PROVE  SavedInside'
<1> USE DEF speed, place, desc, task, other
<1> SUFFICES ASSUME ~mixed'
             PROVE  saved' \in 0 .. total' - 1
  BY DEF SavedInside
<1>1. Apiece /\ Apiece'
  BY BothApiece
<1>2. saved \in 0 .. total - 1 /\ position \in Int /\ total \in Nat \ {0}
  BY <1>1, Constants DEF Apiece, SavedInside, TypeOK
<1>3. CASE Stop
  <2>1. pc'[UI] = "halt" /\ position' = position /\ total' = total
    BY <1>3 DEF Stop, Menu, Goto, TypeOK, Procs
  <2>2. position >= 0
    BY <2>1, <1>1, <1>2 DEF Apiece
  <2>3. saved' = IF position >= total THEN 0 ELSE position
    BY <1>3 DEF Stop
  <2> QED BY <2>1, <2>2, <2>3, <1>2
<1>4. CASE ~Stop
  <2>1. \A t \in Plays : TaskStep(t) => saved' = saved /\ total' = total
    BY TaskFrame
  <2>2. CallStep \/ CallBegins => saved' = saved /\ total' = total
    BY <1>4
       DEF CallStep, CallBegins, NoInfo, Prepare, Launch, Settle, Halt, Close, Tell, Trick, Compare,
           FileStep, Name, Open, Store, Aim, Lseek, Leave, Start, Stop, Pause, Resume, ClearTemp,
           SetPosition, Press, SetPoint
  <2> QED BY <2>1, <2>2, <1>2 DEF Next
<1> QED BY <1>3, <1>4

-----------------------------------------------------------------------------
(* Who has the file open, and who closes it. *)

\* A stopped player with an open file, and a descriptor of a closed one.
OpenEnd ==
  \/ pc[UI] \in {"close", "launch"}
  \/ plays \in Plays \ cancel /\ pc[plays] \in {"hook", "ending", "shut"}

ClosedEnd ==
  \/ Swapping
  \/ /\ status = "stop" /\ pc[UI] \notin {"close", "launch"}
     /\ \A t \in Plays : Alive(t) => t \in cancel \/ pc[t] = "top"

LEMMA KeptTask ==
  ASSUME TypeOK, Sole, Named, Running, Ended, Kept, Next, ~mixed',
         NEW t \in Plays, TaskStep(t)
  PROVE  /\ ~stray' /\ (pc'[UI] = "info" => ~live')
         /\ (status' = "stop" /\ live' => OpenEnd') /\ (Dangling' => ClosedEnd')
<1> USE DEF speed, place, desc, task, other
<1>1. Apiece /\ Apiece'
  BY BothApiece
<1>2. /\ ~stray /\ (status = "stop" /\ live => OpenEnd) /\ (Dangling => ClosedEnd)
      /\ EndingAt(t) /\ NamedAt(t)
      /\ t \in cancel => CancelledAt(t)
      /\ status # "stop" => plays \in Plays \ cancel
  BY <1>1, Alone DEF Apiece, Kept, OpenEnd, ClosedEnd, Ended, Named, Running
<1>3. /\ pc \in [Procs -> Places] /\ live \in BOOLEAN /\ hook \in [Plays -> BOOLEAN]
      /\ got \in [Procs -> NoFile .. FileCount - 1]
  BY DEF TypeOK
<1>4. /\ t = plays /\ t \in Procs /\ t # UI /\ UI \in Procs
      /\ pc'[UI] = pc[UI] /\ pc[UI] \notin {"info", "launch"}
      /\ \A q \in Procs \ {t, UI} : pc'[q] = pc[q] /\ pc[q] \in {"none", "done"}
      /\ pc[t] \in Changing \cup Ending => pc[UI] = "menu"
      /\ pc'[t] \in Changing \cup Ending => pc[UI] = "menu"
  BY Alone
<1>5. /\ Alive(t) /\ plays' = plays /\ cancel' = cancel
      /\ Plays \subseteq Procs /\ UI \notin Plays
  BY TaskFrame DEF Procs, Plays, UI
<1>6. SUFFICES ~stray' /\ (status' = "stop" /\ live' => OpenEnd') /\ (Dangling' => ClosedEnd')
  BY <1>4
\* The task closes the file.
<1>7. CASE Shut(t) \/ (File(t) /\ Multi /\ CDiv(position) # fileno)
  <2>1. pc[UI] = "menu" /\ t \notin cancel /\ pc[t] \in {"file", "shut"}
    BY <1>7, <1>3, <1>4 DEF File, Shut, Goto, Changing, Ending
  <2>2. ~Dangling
    <3>1. ~ Swapping
      BY <2>1, <1>4 DEF Swapping
    <3>2. ~ \A s \in Plays : Alive(s) => s \in cancel \/ pc[s] = "top"
      BY <2>1, <1>5
    <3> QED BY <3>1, <3>2, <1>2 DEF ClosedEnd
  <2>3. ~stray' /\ ~live'
    BY <1>7, <2>2, <1>2 DEF File, Shut, CloseFile, Dangling
  <2>4. ClosedEnd'
    <3>1. CASE File(t) /\ Multi /\ CDiv(position) # fileno
      <4>1. pc'[t] = "name"
        BY <3>1, <1>3, <1>4 DEF File, Goto
      <4> QED BY <4>1, <1>4 DEF ClosedEnd, Swapping
    <3>2. CASE Shut(t)
      <4>1. status' = "stop" /\ pc'[t] = "top"
        BY <3>2, <1>2, <1>3, <1>4 DEF Shut, Goto, EndingAt
      <4>2. \A s \in Plays : Alive(s)' => s \in cancel' \/ pc'[s] = "top"
        BY <4>1, <1>4, <1>5 DEF Alive
      <4> QED BY <4>1, <4>2, <2>1, <1>4 DEF ClosedEnd
    <3> QED BY <1>7, <3>1, <3>2
  <2> QED BY <2>3, <2>4
\* It opens another.
<1>8. CASE Store(t)
  <2>1. ~live /\ status # "stop" /\ ~stray'
    <3>1. pc[t] = "store" /\ (stray' <=> stray \/ live)
      BY <1>8, Zenon DEF Store
    <3> QED BY <3>1, <1>2, <1>5 DEF NamedAt, EndingAt, CancelledAt
  <2>2. status' = status /\ (live' \/ fd' = NoFile)
    BY <1>8 DEF Store
  <2> QED BY <2>1, <2>2 DEF Dangling
\* It leaves the file as it is.
<1>9. CASE UNCHANGED <<fd, live, stray>> /\ ~Store(t)
  <2>1. status' = "stop" /\ live' => OpenEnd'
    <3> SUFFICES ASSUME status' = "stop", live' PROVE OpenEnd'
      OBVIOUS
    <3>1. CASE status # "stop"
      <4>1. t \notin cancel /\ t \in Plays
        BY <3>1, <1>2, <1>4
      <4>2. Lost(t) \/ End(t) \/ Notify(t)
        BY <3>1
           DEF TaskStep, FileStep, Top, Load, Skip, Edge, Origin, Zero, Replay, File, Name, Open,
               Store, Aim, Lseek, Lost, Read, Advance, End, Hook, Notify, Shut, Die
      <4>3. pc'[t] \in {"hook", "shut"}
        <5>1. ~Lost(t)
          BY <1>9, <1>2 DEF Lost, NamedAt
        <5>2. CASE End(t)
          BY <5>2, <3>1, <1>3, <1>4 DEF End, Goto
        <5>3. CASE Notify(t)
          BY <5>3, <1>3, <1>4 DEF Notify, Goto
        <5> QED BY <4>2, <5>1, <5>2, <5>3
      <4> QED BY <4>1, <4>3, <1>4, <1>5 DEF OpenEnd
    <3>2. CASE status = "stop"
      <4>1. OpenEnd
        BY <3>2, <1>2, <1>9
      <4>2. CASE pc[UI] \in {"close", "launch"}
        BY <4>2, <1>4 DEF OpenEnd
      <4>3. CASE t \notin cancel /\ pc[t] \in {"hook", "ending", "shut"}
        <5>1. Hook(t) \/ Notify(t) \/ Shut(t)
          BY <4>3, <1>5
             DEF TaskStep, FileStep, Top, Load, Skip, Edge, Origin, Zero, Replay, File, Name, Open,
                 Store, Aim, Lseek, Lost, Read, Advance, End, Hook, Notify, Shut, Die
        <5>2. ~Shut(t)
          BY <1>9 DEF Shut, CloseFile
        <5>3. pc'[t] \in {"ending", "shut"}
          BY <5>1, <5>2, <3>2, <1>3, <1>4 DEF Hook, Notify, Goto
        <5> QED BY <4>3, <5>3, <1>4, <1>5 DEF OpenEnd
      <4> QED BY <4>1, <4>2, <4>3, <1>4 DEF OpenEnd
    <3> QED BY <3>1, <3>2
  <2>2. Dangling' => ClosedEnd'
    <3> SUFFICES ASSUME Dangling PROVE ClosedEnd'
      BY <1>9 DEF Dangling
    <3>1. ClosedEnd
      BY <1>2
    <3>2. CASE pc[UI] \in {"name", "open", "store"}
      BY <3>2, <1>4 DEF ClosedEnd, Swapping
    <3>3. CASE pc[t] \in {"name", "open", "store"}
      <4>1. t \notin cancel
        BY <3>3, <1>2, <1>5 DEF CancelledAt
      <4>2. Name(t) \/ Open(t)
        BY <3>3, <4>1, <1>9
           DEF TaskStep, FileStep, Top, Load, Skip, Edge, Origin, Zero, Replay, File, Name, Open,
               Store, Aim, Lseek, Lost, Read, Advance, End, Hook, Notify, Shut, Die
      <4>3. pc'[t] \in {"open", "store"}
        BY <4>2, <1>3, <1>4 DEF Name, Open, Goto
      <4> QED BY <4>3, <1>4 DEF ClosedEnd, Swapping
    <3>4. CASE ~Swapping
      <4>1. /\ status = "stop" /\ pc[UI] \notin {"close", "launch"}
            /\ t \in cancel \/ pc[t] = "top"
        BY <3>1, <3>4, <1>5 DEF ClosedEnd
      <4>2. status' = "stop"
        <5>1. status' # "stop" => Replay(t) \/ (Notify(t) /\ pc[t] = "again")
          BY <4>1
             DEF TaskStep, FileStep, Top, Load, Skip, Edge, Origin, Zero, Replay, File, Name, Open,
                 Store, Aim, Lseek, Lost, Read, Advance, End, Hook, Notify, Shut, Die
        <5> QED BY <5>1, <4>1, <1>2, <1>5 DEF Replay, CancelledAt
      <4>3. t \in cancel' \/ ~Alive(t)'
        <5>1. CASE t \in cancel
          BY <5>1, <1>5
        <5>2. CASE t \notin cancel
          <6>1. Top(t)
            BY <4>1, <5>2
               DEF TaskStep, FileStep, Top, Load, Skip, Edge, Origin, Zero, Replay, File, Name,
                   Open, Store, Aim, Lseek, Lost, Read, Advance, End, Hook, Notify, Shut, Die
          <6> QED BY <6>1, <4>1, <1>3, <1>4 DEF Top, Goto, Alive
        <5> QED BY <5>1, <5>2
      <4>4. \A s \in Plays : Alive(s)' => s \in cancel'
        BY <4>3, <1>4, <1>5 DEF Alive
      <4> QED BY <4>1, <4>2, <4>4, <1>4 DEF ClosedEnd
    <3>5. Swapping => pc[UI] \in {"name", "open", "store"} \/ pc[t] \in {"name", "open", "store"}
      BY <1>4 DEF Swapping
    <3> QED BY <3>2, <3>3, <3>4, <3>5
  <2> QED BY <2>1, <2>2, <1>9, <1>2
<1>10. \/ Shut(t) \/ (File(t) /\ Multi /\ CDiv(position) # fileno)
       \/ Store(t)
       \/ UNCHANGED <<fd, live, stray>> /\ ~Store(t)
  BY DEF TaskStep, FileStep, Top, Load, Skip, Edge, Origin, Zero, Replay, File, Name, Open,
         Store, Aim, Lseek, Seek, Lost, Read, Advance, End, Hook, Notify, Shut, Die
<1> QED BY <1>7, <1>8, <1>9, <1>10

LEMMA KeptUI ==
  ASSUME TypeOK, Sole, Named, Running, Kept, Next, ~mixed', CallStep \/ CallBegins
  PROVE  /\ ~stray' /\ (pc'[UI] = "info" => ~live')
         /\ (status' = "stop" /\ live' => OpenEnd') /\ (Dangling' => ClosedEnd')
<1> USE DEF speed, place, desc, task, other
<1>1. Apiece /\ Apiece'
  BY BothApiece
<1>2. /\ pc \in [Procs -> Places] /\ UI \in Procs /\ Plays \subseteq Procs /\ UI \notin Plays
      /\ got \in [Procs -> NoFile .. FileCount - 1]
  BY DEF TypeOK, Procs, Plays, UI
<1>3. /\ ~stray /\ (pc[UI] = "info" => ~live)
      /\ (status = "stop" /\ live => OpenEnd) /\ (Dangling => ClosedEnd) /\ NamedAt(UI)
      /\ pc[UI] \in {"halt", "FF", "REW"} => status # "stop"
      /\ pc[UI] \in {"info", "launch", "close"} => status = "stop"
      /\ pc[UI] = "close" => plays \in cancel
  BY <1>1, <1>2 DEF Apiece, Kept, OpenEnd, ClosedEnd, Named, Running
<1>4. pc[UI] \in {"compare", "swap", "name", "open", "store", "aim", "leave"} => status # "stop"
  BY <1>1 DEF Apiece, Sole, Guarded
<1>5. \A t \in Plays : pc[t] \in Changing \cup Ending => pc[UI] = "menu"
  BY <1>1 DEF Apiece
<1>6. CASE Launch
  <2>1. /\ pc[UI] = "launch" /\ pc'[UI] = "settle" /\ status' = "run"
        /\ UNCHANGED <<fd, live, stray>>
    BY <1>6, <1>1, <1>2 DEF Launch, Apiece
  <2>2. ~Swapping
    BY <2>1, <1>5 DEF Swapping, Changing, Procs
  <2> QED BY <2>1, <2>2, <1>3 DEF Dangling, ClosedEnd
<1>7. CASE ~Launch
  <2>1. \A t \in Plays : pc'[t] = pc[t]
    BY <1>7, UIFrame
  <2>2. /\ plays' = plays \/ (Start /\ plays' = plays + 1)
        /\ cancel' = cancel \/ (Halt /\ cancel' = cancel \cup {plays})
        /\ status' = status \/ Halt \/ (status' # "stop" /\ (status # "stop" \/ Trick))
    BY <1>7, UIStatus
  \* The user interface closes the file.
  <2>3. CASE Close
    <3>1. pc[UI] \in {"close", "swap"} /\ ~live' /\ fd' = fd /\ status' = status
      BY <2>3 DEF Close, CloseFile
    <3>2. ~Swapping
      BY <3>1, <1>5 DEF Swapping, Changing, Procs
    <3>3. ~Dangling
      BY <3>1, <3>2, <1>3, <1>4 DEF ClosedEnd
    <3>4. ~stray'
      BY <2>3, <3>3, <1>3 DEF Close, CloseFile, Dangling
    <3>5. CASE pc[UI] = "swap"
      <4>1. pc'[UI] = "name"
        BY <2>3, <3>5, <1>2 DEF Close, Goto
      <4> QED BY <4>1, <3>1, <3>4, <1>2 DEF ClosedEnd, Swapping
    <3>6. CASE pc[UI] = "close"
      <4>1. pc'[UI] = "menu" /\ cancel' = cancel
        BY <2>3, <3>6, <1>2 DEF Close, Goto
      <4>2. \A t \in Plays : Alive(t)' => t \in cancel'
        BY <4>1, <3>6, <2>1, <1>1, <1>3 DEF Apiece, Alive
      <4> QED BY <4>1, <4>2, <3>1, <3>4, <3>6, <1>3 DEF ClosedEnd
    <3> QED BY <3>1, <3>5, <3>6
  \* It opens one.
  <2>4. CASE Store(UI)
    <3>1. ~live /\ status' = status /\ status # "stop" /\ pc'[UI] = "aim"
      BY <2>4, <1>2, <1>3, <1>4 DEF Store, Goto, NamedAt
    <3>2. (stray' <=> stray \/ live) /\ (live' \/ fd' = NoFile)
      BY <2>4, Zenon DEF Store
    <3> QED BY <3>1, <3>2, <1>3 DEF Dangling
  <2>5. CASE \E from \in {0, saved} : Prepare(from)
    <3>1. pc[UI] = "info" /\ (stray' <=> stray \/ live) /\ status' = status
      BY <2>5, Zenon DEF Prepare
    <3>2. (live' /\ pc'[UI] = "launch") \/ (~live' /\ fd' = NoFile /\ pc'[UI] = "menu")
      BY <2>5, <1>2 DEF Prepare, Goto
    <3> QED BY <3>1, <3>2, <1>3 DEF Dangling, OpenEnd
  \* It leaves the file as it is.
  <2>6. CASE Start
    <3>1. /\ pc[UI] = "menu" /\ pc'[UI] = "info" /\ status = "stop" /\ status' = "stop"
          /\ UNCHANGED <<fd, live, stray, cancel>>
      BY <2>6, <1>2 DEF Start, Menu, Goto
    <3>2. \A t \in Plays : pc[t] \notin Changing \cup Ending
      BY <3>1, <2>1, <1>1 DEF Apiece
    <3>3. ~live
      BY <3>1, <3>2, <1>3 DEF OpenEnd, Ending
    <3>4. Dangling => \A t \in Plays : Alive(t) => t \in cancel \/ pc[t] = "top"
      BY <3>1, <3>2, <1>2, <1>3 DEF ClosedEnd, Swapping, Changing, Procs
    <3>5. Dangling' => \A t \in Plays : Alive(t)' => t \in cancel' \/ pc'[t] = "top"
      BY <3>1, <3>4, <2>1 DEF Dangling, Alive
    <3> QED BY <3>1, <3>3, <3>5, <1>3 DEF ClosedEnd
  <2>7. CASE Halt
    <3>1. pc[UI] = "halt" /\ pc'[UI] = "close" /\ status # "stop" /\ UNCHANGED <<fd, live, stray>>
      BY <2>7, <1>2, <1>3 DEF Halt, Goto
    <3>2. ~Swapping
      BY <3>1, <1>5 DEF Swapping, Changing, Procs
    <3> QED BY <3>1, <3>2, <1>3 DEF ClosedEnd, Dangling, OpenEnd
  <2>8. CASE /\ ~Close /\ ~Store(UI) /\ ~(\E from \in {0, saved} : Prepare(from))
             /\ ~Start /\ ~Halt
    <3>1. UNCHANGED <<fd, live, stray>>
      BY <1>7, <2>8
         DEF CallStep, CallBegins, NoInfo, Settle, Tell, Trick, Compare, FileStep, Name, Open, Aim,
             Seek, Lseek, Leave, Stop, Pause, Resume, ClearTemp, SetPosition, Press, SetPoint
    <3>2. /\ pc'[UI] \notin {"info", "close", "launch"}
          /\ pc[UI] \notin {"close", "launch"}
          /\ pc[UI] \in {"name", "open", "store"} => pc'[UI] \in {"open", "store"}
      BY <1>7, <2>8, <1>2
         DEF CallStep, CallBegins, NoInfo, Settle, Tell, Trick, Compare, FileStep, Name, Open, Aim,
             Seek, Lseek, Leave, Stop, Pause, Resume, ClearTemp, SetPosition, Press, SetPoint,
             Menu, Goto
    <3>3. plays' = plays /\ cancel' = cancel /\ (status' = "stop" <=> status = "stop")
      BY <2>2, <2>8, <1>3 DEF Trick
    <3>4. status' = "stop" /\ live' => OpenEnd'
      BY <3>1, <3>2, <3>3, <2>1, <1>3 DEF OpenEnd
    <3>5. Dangling' => ClosedEnd'
      <4> SUFFICES ASSUME Dangling PROVE ClosedEnd'
        BY <3>1 DEF Dangling
      <4>1. CASE Swapping
        BY <4>1, <3>2, <2>1, <1>2 DEF ClosedEnd, Swapping, Procs
      <4>2. CASE ~Swapping
        <5>1. status = "stop" /\ \A t \in Plays : Alive(t) => t \in cancel \/ pc[t] = "top"
          BY <4>2, <1>3 DEF ClosedEnd
        <5>2. \A t \in Plays : Alive(t)' => t \in cancel' \/ pc'[t] = "top"
          BY <5>1, <3>3, <2>1 DEF Alive
        <5> QED BY <5>1, <5>2, <3>2, <3>3 DEF ClosedEnd
      <4> QED BY <4>1, <4>2
    <3> QED BY <3>1, <3>2, <3>4, <3>5, <1>3
  <2> QED BY <2>3, <2>4, <2>5, <2>6, <2>7, <2>8
<1> QED BY <1>6, <1>7

LEMMA KeptStep ==
  ASSUME TypeOK, Sole, Named, Running, Ended, Kept, Next
  PROVE  Kept'
<1> SUFFICES ASSUME ~mixed'
             PROVE  /\ ~stray' /\ (pc'[UI] = "info" => ~live')
                    /\ (status' = "stop" /\ live' => OpenEnd') /\ (Dangling' => ClosedEnd')
  BY DEF Kept, OpenEnd, ClosedEnd, Swapping, Alive
<1> QED BY KeptTask, KeptUI DEF Next

-----------------------------------------------------------------------------
(* The invariant, and what follows from it. *)

LEMMA Initially == Init => IInv
<1> SUFFICES ASSUME Init PROVE IInv
  OBVIOUS
<1>1. TypeOK /\ Begun
  BY TypeInit DEF Init, Begun, Procs, Plays, UI
<1>2. UI \in Procs /\ Plays \subseteq Procs /\ UI \notin Plays
  BY DEF Procs, Plays, UI
<1>3. pc[UI] = "menu" /\ \A t \in Plays : pc[t] = "none"
  BY <1>2 DEF Init
<1>4. ~mixed /\ ~sem /\ ~live /\ ~stray
  BY Zenon DEF Init
<1>5. status = "stop" /\ position = 0 /\ fd = NoFile /\ cancel = {} /\ saved = 0
  BY DEF Init
<1>6. Sole
  BY <1>2, <1>3, <1>4, <1>5
     DEF Sole, Apart, Mixed, OneTask, Guarded, Alive, Changing, Ending, Rewinding
<1>7. Named
  BY <1>3, <1>4 DEF Named, NamedAt, Procs
<1>8. Seated /\ Running /\ Ended
  BY <1>3, <1>4, <1>5 DEF Seated, SeatedAt, Running, Ended, EndingAt, Alive
<1>9. Kept
  BY <1>3, <1>4, <1>5 DEF Kept, Dangling
<1>10. SavedInside
  BY <1>5, Constants DEF Init, SavedInside
<1> QED BY <1>1, <1>6, <1>7, <1>8, <1>9, <1>10 DEF IInv, Typed

LEMMA Inductive == IInv /\ [Next]_vars => IInv'
<1>1. ASSUME IInv, Next PROVE IInv'
  <2>1. Typed'
    BY <1>1, TypeStep, BegunStep DEF IInv, Typed
  <2>2. Sole' /\ Named' /\ Seated'
    BY <1>1, SoleStep, NamedStep, SeatedStep DEF IInv, Typed
  <2>3. Running' /\ Ended' /\ Kept' /\ SavedInside'
    BY <1>1, RunningStep, EndedStep, KeptStep, SavedInsideStep DEF IInv, Typed
  <2> QED BY <2>1, <2>2, <2>3 DEF IInv
<1>2. ASSUME IInv, UNCHANGED vars PROVE IInv'
  <2> USE <1>2 DEF vars, speed, place, desc, task, other
  <2>1. FileCount' = FileCount /\ Multi' = Multi
    BY DEF FileCount, Multi
  <2>2. Typed'
    BY <1>2, <2>1 DEF IInv, Typed, TypeOK, Begun
  <2>3. Sole'
    BY <1>2 DEF IInv, Sole, Apart, Mixed, OneTask, Guarded, Alive, Rewinding
  <2>4. Named' /\ Seated'
    BY <1>2, <2>1 DEF IInv, Named, NamedAt, Seated, SeatedAt, CDiv, CMod
  <2>5. Running' /\ Ended' /\ SavedInside'
    BY <1>2 DEF IInv, Running, CancelledAt, Ended, EndingAt, Alive, SavedInside
  <2>6. Kept'
    BY <1>2 DEF IInv, Kept, Dangling, Swapping, Alive
  <2> QED BY <2>2, <2>3, <2>4, <2>5, <2>6 DEF IInv
<1> QED BY <1>1, <1>2

\* For any sizes of buffer, file and recording: what a task reads next is the place
\* in the right file that the position says.
THEOREM ReadsInPlace == Spec => []InPlace
<1>1. IInv => InPlace
  <2> SUFFICES ASSUME IInv, NEW t \in Plays,
                      pc[t] = "read", pc[UI] = "menu", ~mixed, live
               PROVE  position = fd * MaxSize + offset
    BY DEF InPlace
  <2> QED BY DEF IInv, Seated, SeatedAt, Quiet
<1> QED BY <1>1, Initially, Inductive, PTL DEF Spec

\* For any number of plays: when no task is left the player is stopped, and every file
\* that was opened has been closed, once.
THEOREM FilesReleased == Spec => []Released
<1>1. IInv => Released
  <2> SUFFICES ASSUME IInv, pc[UI] = "menu", ~mixed, \A t \in Plays : ~Alive(t)
               PROVE  status = "stop" /\ ~live /\ ~stray
    BY DEF Released
  <2>1. status = "stop"
    BY DEF IInv, Running
  <2>2. ~live
    BY <2>1 DEF IInv, Kept, Alive
  <2> QED BY <2>1, <2>2 DEF IInv, Kept
<1> QED BY <1>1, Initially, Inductive, PTL DEF Spec

-----------------------------------------------------------------------------
(* The stream that is delivered.  As long as nobody interferes the position  *)
(* is where the stream has been delivered to, or a buffer behind, or a buffer *)
(* ahead when the last read found less than a buffer.                         *)

Onward  == status = "run" /\ live /\ position = heard
Through == status = "stop" /\ heard + Buf > total

\* What the task has delivered, at each of its places.
PlayingAt(t) ==
  /\ pc[t] \notin {"forth", "back", "origin", "zero", "resume", "lost"}
  /\ pc[t] \in {"load", "edge", "file", "aim", "lseek", "read", "again"} => Onward
  /\ pc[t] \in {"top", "hook"} => Onward \/ Through
  /\ pc[t] \in {"name", "open", "store"} => status = "run" /\ position = heard
  /\ pc[t] = "read" /\ Multi => fileno = CDiv(position)
  /\ pc[t] = "advance" =>
       /\ status = "run" /\ live
       /\ position + Buf = heard \/ (position = heard /\ heard + Buf > total)
  /\ pc[t] = "end" =>
       /\ status = "run" /\ live
       /\ position = heard \/ (position = heard + Buf /\ heard + Buf > total)
  /\ pc[t] \in {"ending", "shut", "done"} => Through

\* The plays to come.
Unstarted ==
  /\ \A t \in Plays : t > plays => pc[t] = "none"
  /\ pc[UI] \in {"info", "launch"} => plays \in Plays /\ pc[plays] = "none"

\* No key was pressed since the last play was started.
Untouched ==
  /\ pc[UI] \in {"menu", "info", "launch", "settle", "lseek"} /\ ~sem
  /\ plays \notin cancel
  /\ pc[UI] = "launch" => live /\ position = heard
  /\ plays > 0 => PlayingAt(plays)

Delivered ==
  ~mixed => /\ Unstarted
            /\ heard >= 0 \/ heard = Unknown
            /\ heard >= 0 => Untouched

LEMMA DeliveredInit == Init => Delivered
<1>1. UI \in Procs /\ Plays \subseteq Procs /\ UI \notin Plays
  BY DEF Procs, Plays, UI
<1> QED BY <1>1 DEF Init, Delivered, Unstarted, Unknown

\* Less than a whole buffer is left only at the end of the recording: a file but the
\* last holds whole buffers.
LEMMA ShortAtEnd ==
  ASSUME TypeOK, Aligned, live, position >= 0, position = fd * MaxSize + offset,
         Multi => fd = CDiv(position), Yield < Buf
  PROVE  position + Buf > total
<1>0. /\ position \in Nat /\ fd \in Int /\ offset \in Nat /\ total \in Nat
      /\ Buf \in Nat \ {0} /\ MaxSize \in Nat \ {0}
  BY Constants DEF TypeOK
<1>1. FileCount \in Nat \ {0} /\ fd \in 0 .. FileCount - 1
  BY SomeFile DEF TypeOK
<1>2. CASE fd = FileCount - 1
  <2>1. PICK m \in Int : m = fd * MaxSize
    BY <1>0
  <2>2. SizeOf(fd) = total - m
    BY <1>1, <1>2, <2>1 DEF SizeOf
  <2> QED BY <1>0, <2>1, <2>2 DEF Yield
<1>3. CASE fd # FileCount - 1
  <2>1. Multi /\ SizeOf(fd) = MaxSize
    BY <1>1, <1>3 DEF Multi, SizeOf
  <2>2. fd = position \div MaxSize
    BY <1>0, <2>1 DEF CDiv
  <2>3. position - MaxSize * (position \div MaxSize) \in 0 .. MaxSize - 1
    BY <1>0, Quotient, Zenon
  <2>4. offset = position - MaxSize * fd
    BY <1>0
  <2>5. offset < MaxSize
    BY <1>0, <2>2, <2>3, <2>4
  <2>6. (MaxSize * fd) % Buf = 0
    <3>1. PICK q \in Int : MaxSize = Buf * q
      <4>1. MaxSize % Buf = 0
        BY PlayerAssumption
      <4>2. MaxSize = Buf * (MaxSize \div Buf) /\ MaxSize \div Buf \in Int
        BY <1>0, <4>1, Z3
      <4> QED BY <4>2
    <3>2. MaxSize * fd = Buf * (q * fd) /\ q * fd \in Int
      BY <1>0, <3>1
    <3> QED BY <1>0, <3>2, Multiple
  <2>7. position % Buf = 0 /\ MaxSize % Buf = 0
    BY PlayerAssumption DEF Aligned
  <2>8. PICK m \in Int : m = MaxSize * fd
    BY <1>0
  <2>9. offset % Buf = 0
    <3>1. m % Buf = 0 /\ position \in Int /\ offset = position - m
      BY <1>0, <2>4, <2>6, <2>8
    <3>2. (position - m) % Buf = 0
      BY <1>0, <2>7, <3>1, Multiples, Zenon
    <3> QED BY <3>1, <3>2
  <2>10. PICK rest \in Int : rest = MaxSize - offset
    BY <1>0
  <2>11. rest % Buf = 0 /\ rest > 0
    <3>1. MaxSize \in Int /\ offset \in Int
      BY <1>0
    <3>2. (MaxSize - offset) % Buf = 0
      BY <1>0, <2>7, <2>9, <3>1, Multiples, Zenon
    <3> QED BY <1>0, <2>5, <2>10, <3>2
  <2>12. rest >= Buf
    BY <1>0, <2>11, Z3
  <2>13. SizeOf(fd) - offset = rest
    BY <2>1, <2>10
  <2> QED BY <1>0, <2>12, <2>13 DEF Yield
<1> QED BY <1>2, <1>3

\* Each step of the task that nobody interferes with.
LEMMA DeliveredTask ==
  ASSUME IInv, Aligned, Delivered, Next, ~mixed', NEW t \in Plays, TaskStep(t)
  PROVE  Delivered'
<1> USE DEF speed, place, desc, task, other
<1>0. /\ TypeOK /\ Sole /\ ~mixed /\ pc \in [Procs -> Places] /\ t \in Procs
      /\ position \in Int /\ heard \in Int /\ total \in Int /\ Buf \in Nat \ {0}
      /\ status \in {"stop", "run", "pause", "ff", "skip", "rew"}
  BY UnmixedBefore, Constants DEF IInv, Typed, TypeOK, Procs
<1>1. /\ t = plays /\ t # UI /\ UI \in Procs /\ pc'[UI] = pc[UI]
      /\ pc[UI] \notin {"info", "launch"} /\ Alive(t)
      /\ \A q \in Procs : q # t => pc'[q] = pc[q]
      /\ UNCHANGED <<sem, total, plays, cancel>>
      /\ pc[t] \in Changing \cup Ending => pc[UI] = "menu"
  BY <1>0, Alone, TaskFrame
<1>2. Unstarted'
  <2>1. \A q \in Plays : q > plays => q # t /\ q \in Procs /\ pc[q] = "none"
    BY <1>0, <1>1 DEF Delivered, Unstarted, Procs, Plays
  <2> QED BY <1>1, <2>1 DEF Unstarted
<1>3. CASE ~(heard >= 0)
  <2>1. heard = Unknown /\ heard' \in {heard, Unknown}
    BY <1>0, <1>3
       DEF Delivered, Unknown, TaskStep, FileStep, Top, Load, Skip, Edge, Origin, Zero, Replay, File,
           Name, Open, Store, Aim, Lseek, Lost, Read, Advance, End, Hook, Notify, Shut, Die
  <2> QED BY <1>2, <2>1 DEF Delivered, Unknown
<1>4. CASE heard >= 0
  <2>0. Untouched /\ t \notin cancel /\ PlayingAt(t)
    BY <1>0, <1>1, <1>4 DEF Delivered, Untouched, Plays
  <2>1. SUFFICES (heard' >= 0 \/ heard' = Unknown) /\ (heard' >= 0 => PlayingAt(t)')
    BY <1>1, <1>2, <2>0 DEF Delivered, Untouched
  <2>2. Multi' = Multi
    BY <1>1 DEF Multi, FileCount
  <2>3. CASE Top(t)
    <3>1. heard' = heard /\ UNCHANGED <<status, live, position>> /\ pc'[t] \in {"done", "load", "edge"}
          /\ (pc'[t] = "done" <=> status = "stop")
      BY <1>0, <2>3 DEF Top, Goto
    <3>2. pc[t] = "top"
      BY <2>3 DEF Top
    <3> QED BY <1>1, <1>4, <2>0, <3>1, <3>2 DEF PlayingAt, Onward, Through
  <2>4. CASE Load(t)
    <3>1. pc[t] = "load" /\ status = "run"
      BY <2>0, <2>4 DEF Load, PlayingAt, Onward
    <3>2. heard' = heard /\ UNCHANGED <<status, live, position>> /\ pc'[t] = "edge"
      BY <1>0, <2>4, <3>1 DEF Load, Goto
    <3> QED BY <1>4, <2>0, <3>1, <3>2 DEF PlayingAt, Onward
  <2>5. CASE Edge(t)
    <3>1. pc[t] = "edge" /\ status = "run"
      BY <2>0, <2>5 DEF Edge, PlayingAt, Onward
    <3>2. heard' = heard /\ UNCHANGED <<status, live, position>> /\ pc'[t] = "file"
      BY <1>0, <2>5, <3>1 DEF Edge, Goto
    <3> QED BY <1>4, <2>0, <3>1, <3>2 DEF PlayingAt, Onward
  <2>6. CASE File(t)
    <3>1. pc[t] = "file" /\ heard' = heard /\ UNCHANGED <<status, position>>
      BY <2>6 DEF File
    <3>2. pc'[t] = "name" \/ (pc'[t] = "aim" /\ live' = live)
      BY <1>0, <2>6 DEF File, Goto
    <3> QED BY <1>4, <2>0, <3>1, <3>2 DEF PlayingAt, Onward
  <2>7. CASE Name(t) \/ Open(t)
    <3>1. /\ pc[t] \in {"name", "open"} /\ pc'[t] \in {"open", "store"}
          /\ heard' = heard /\ UNCHANGED <<status, position>>
      BY <1>0, <2>7 DEF Name, Open, Goto
    <3> QED BY <1>4, <2>0, <3>1 DEF PlayingAt
  <2>8. CASE Store(t)
    <3>1. CASE got[t] = NoFile
      BY <2>8, <3>1 DEF Store, Unknown
    <3>2. CASE got[t] # NoFile
      <4>1. /\ pc[t] = "store" /\ pc'[t] = "aim" /\ live' = TRUE /\ heard' = heard
            /\ UNCHANGED <<status, position>>
        BY <1>0, <2>8, <3>2 DEF Store, Goto
      <4> QED BY <1>4, <2>0, <4>1 DEF PlayingAt, Onward
    <3> QED BY <3>1, <3>2
  <2>9. CASE Aim(t)
    <3>1. /\ pc[t] = "aim" /\ heard' = heard /\ UNCHANGED <<status, position, live, fileno>>
      BY <2>9 DEF Aim, Seek
    <3>2. pc'[t] = IF Multi THEN "lseek" ELSE "read"
      BY <1>0, <1>1, <2>9 DEF Aim, Goto
    <3> QED BY <1>4, <2>0, <2>2, <3>1, <3>2 DEF PlayingAt, Onward
  <2>10. CASE Lseek(t)
    <3>1. /\ pc[t] = "lseek" /\ pc'[t] = "read" /\ heard' = heard
          /\ UNCHANGED <<status, position, live, fileno>>
      BY <1>0, <1>1, <2>10 DEF Lseek, Seek, Goto
    <3>2. live
      BY <2>0, <3>1 DEF PlayingAt, Onward
    <3>3. fileno = CDiv(position)
      BY <1>0, <1>1, <3>1, <3>2 DEF IInv, Named, NamedAt
    <3>4. CDiv(position)' = CDiv(position)
      BY <3>1 DEF CDiv
    <3> QED BY <1>4, <2>0, <3>1, <3>3, <3>4 DEF PlayingAt, Onward
  <2>11. CASE Read(t)
    <3>1. /\ pc[t] = "read" /\ pc'[t] = "advance" /\ UNCHANGED <<status, position, live>>
          /\ heard' = IF heard < 0 \/ Yield < Buf THEN heard
                      ELSE IF fd * MaxSize + offset = heard THEN heard + Buf ELSE Wrong
      BY <1>0, <2>11 DEF Read, Goto
    <3>2. status = "run" /\ live /\ position = heard /\ (Multi => fileno = CDiv(position))
      BY <2>0, <3>1 DEF PlayingAt, Onward
    <3>3. position = fd * MaxSize + offset /\ fd = fileno
      <4>1. SeatedAt(t) /\ fd = fileno
        BY <1>0, <3>2 DEF IInv, Seated, Named
      <4>2. pc[UI] = "menu"
        BY <1>1, <2>0, <3>1, <4>1 DEF SeatedAt, Untouched
      <4> QED BY <3>1, <3>2, <4>1, <4>2 DEF SeatedAt, Quiet
    <3>4. CASE Yield < Buf
      <4>1. position + Buf > total
        BY <1>0, <1>4, <3>2, <3>3, <3>4, ShortAtEnd
      <4>2. heard' = heard
        BY <3>1, <3>4
      <4> QED BY <1>1, <1>4, <3>1, <3>2, <4>1, <4>2 DEF PlayingAt
    <3>5. CASE ~(Yield < Buf)
      <4>1. heard' = heard + Buf
        <5>1. ~(heard < 0 \/ Yield < Buf) /\ fd * MaxSize + offset = heard
          BY <1>0, <1>4, <3>2, <3>3, <3>5
        <5> QED BY <3>1, <5>1
      <4>2. heard' >= 0 /\ position' + Buf = heard'
        <5>1. position' = heard
          BY <3>1, <3>2
        <5> QED BY <1>0, <1>4, <4>1, <5>1
      <4>3. pc'[t] = "advance" /\ status' = "run" /\ live'
        BY <3>1, <3>2
      <4> QED BY <4>2, <4>3 DEF PlayingAt
    <3> QED BY <3>4, <3>5
  <2>12. CASE Advance(t)
    <3>1. /\ pc[t] = "advance" /\ pc'[t] = "end" /\ heard' = heard /\ UNCHANGED <<status, live>>
          /\ position' = position + Buf
      BY <1>0, <2>12 DEF Advance, Goto
    <3> QED BY <1>0, <1>1, <1>4, <2>0, <3>1 DEF PlayingAt
  <2>13. CASE End(t)
    <3>1. /\ pc[t] = "end" /\ heard' = heard /\ UNCHANGED <<live, position>>
          /\ status' = IF position > total THEN "stop" ELSE status
          /\ pc'[t] \in {"hook", "top"} /\ (position > total => pc'[t] = "hook")
      BY <1>0, <2>13 DEF End, Goto
    <3>2. /\ status = "run" /\ live
          /\ position = heard \/ (position = heard + Buf /\ heard + Buf > total)
      BY <2>0, <3>1 DEF PlayingAt
    <3>3. CASE position > total
      <4>1. Through'
        BY <1>0, <1>1, <3>1, <3>2, <3>3 DEF Through
      <4> QED BY <1>4, <3>1, <3>3, <4>1 DEF PlayingAt
    <3>4. CASE ~(position > total)
      <4>1. Onward'
        BY <1>0, <3>1, <3>2, <3>4 DEF Onward
      <4> QED BY <1>4, <3>1, <4>1 DEF PlayingAt
    <3> QED BY <3>3, <3>4
  <2>14. CASE Hook(t)
    <3>1. /\ pc[t] = "hook" /\ heard' = heard /\ UNCHANGED <<live, position, status>>
          /\ pc'[t] = CASE status = "stop" -> "ending" [] status = "run" -> "again" [] OTHER -> "top"
      BY <1>0, <2>14 DEF Hook, Goto
    <3>2. Onward \/ Through
      BY <2>0, <3>1 DEF PlayingAt
    <3>3. (Onward => Onward') /\ (Through => Through')
      BY <1>1, <3>1 DEF Onward, Through
    <3>4. pc'[t] = IF status = "stop" THEN "ending" ELSE "again"
      BY <3>1, <3>2 DEF Onward, Through
    <3> QED BY <1>4, <3>1, <3>2, <3>3, <3>4 DEF PlayingAt, Onward, Through
  <2>15. CASE Notify(t)
    <3>1. CASE pc[t] = "ending"
      <4>1. heard' = heard /\ status' = "stop" /\ pc'[t] = "shut"
        BY <1>0, <2>15, <3>1 DEF Notify, Goto
      <4> QED BY <1>1, <1>4, <2>0, <3>1, <4>1 DEF PlayingAt, Through
    <3>2. CASE pc[t] = "again"
      <4>1. heard' = heard /\ status' = "run" /\ pc'[t] = "top" /\ UNCHANGED <<live, position>>
        BY <1>0, <2>15, <3>2 DEF Notify, Goto
      <4> QED BY <1>1, <1>4, <2>0, <3>2, <4>1 DEF PlayingAt, Onward
    <3> QED BY <2>15, <3>1, <3>2 DEF Notify
  <2>16. CASE Shut(t)
    <3>1. pc[t] = "shut" /\ heard' = heard /\ status' = status /\ pc'[t] = "top"
      BY <1>0, <2>16 DEF Shut, Goto
    <3> QED BY <1>1, <1>4, <2>0, <3>1 DEF PlayingAt, Through
  <2>17. CASE Skip(t) \/ Origin(t) \/ Zero(t) \/ Replay(t) \/ Lost(t)
    BY <2>0, <2>17 DEF Skip, Origin, Zero, Replay, Lost, PlayingAt
  <2>18. CASE Die(t)
    BY <2>0, <2>18 DEF Die
  <2> QED BY <2>3, <2>4, <2>5, <2>6, <2>7, <2>8, <2>9, <2>10, <2>11, <2>12, <2>13, <2>14,
             <2>15, <2>16, <2>17, <2>18 DEF TaskStep, FileStep
<1> QED BY <1>3, <1>4

\* A key makes what was delivered unknown; the other calls leave the position alone, or
\* set it for a play whose task has not begun.
LEMMA DeliveredUI ==
  ASSUME IInv, IInv', Delivered, Next, ~mixed', CallStep \/ CallBegins
  PROVE  Delivered'
<1> USE DEF speed, place, desc, task, other
<1>0. /\ TypeOK /\ Sole /\ ~mixed /\ pc \in [Procs -> Places] /\ UI \in Procs
      /\ Plays \subseteq Procs /\ UI \notin Plays /\ plays \in 0 .. MaxPlays /\ MaxPlays \in Nat
      /\ saved \in Int /\ UNCHANGED total
  <2>1. TypeOK /\ Sole
    BY DEF IInv, Typed
  <2>2. ~mixed /\ UNCHANGED total
    BY <2>1, UnmixedBefore, UIFrame
  <2>3. UI \in Procs /\ Plays \subseteq Procs /\ UI \notin Plays
    BY DEF Procs, Plays, UI
  <2> QED BY <2>1, <2>2, <2>3, Constants DEF TypeOK
<1>1. Unstarted /\ (heard >= 0 \/ heard = Unknown)
  BY <1>0 DEF Delivered
<1>2. pc'[UI] \in {"info", "launch"} => plays' \in Plays
  BY <1>0 DEF IInv, Sole, OneTask
<1>3. Unstarted'
  <2>1. CASE Start
    <3>1. plays' = plays + 1 /\ \A t \in Plays : pc'[t] = pc[t]
      BY <1>0, <2>1 DEF Start, Menu, Goto
    <3>2. \A t \in Plays : t > plays => pc'[t] = "none"
      BY <1>1, <3>1 DEF Unstarted
    <3>3. \A t \in Plays : t \in Int
      BY DEF Plays
    <3> QED BY <1>0, <1>2, <3>1, <3>2, <3>3 DEF Unstarted
  <2>2. CASE Launch
    <3>1. /\ plays' = plays /\ pc'[UI] = "settle" /\ pc[UI] = "launch"
          /\ \A t \in Plays : t # plays => pc'[t] = pc[t]
      BY <1>0, <2>2 DEF Launch
    <3>2. \A t \in Plays : t > plays => t # plays
      BY <1>0 DEF Plays
    <3> QED BY <1>1, <3>1, <3>2 DEF Unstarted
  <2>3. CASE ~Start /\ ~Launch
    <3>1. plays' = plays /\ \A t \in Plays : pc'[t] = pc[t]
      BY <1>0, <2>3, UIStatus, UIFrame
    <3>2. pc'[UI] \in {"info", "launch"} => pc[UI] \in {"info", "launch"}
      BY <1>0, <2>3
         DEF CallStep, CallBegins, NoInfo, Prepare, Settle, Halt, Close, Tell, Trick, Compare,
             FileStep, Name, Open, Store, Aim, Lseek, Leave, Stop, Pause, Resume, ClearTemp,
             SetPosition, Press, SetPoint, Menu, Goto
    <3> QED BY <1>1, <3>1, <3>2 DEF Unstarted
  <2> QED BY <2>1, <2>2, <2>3
<1>4. CASE \E from \in {0, saved} : Prepare(from)
  <2>1. PICK from \in {0, saved} : Prepare(from)
    BY <1>4
  <2>2. pc[UI] = "info" /\ plays \in Plays /\ pc[plays] = "none" /\ plays \notin cancel
    BY <1>0, <1>1, <2>1 DEF Prepare, Unstarted, IInv, Running
  <2>3. from >= 0
    BY <1>0, <2>1 DEF IInv, SavedInside
  <2>4. CASE pc'[UI] = "launch" /\ live' /\ heard' = from /\ position' = from
    <3>1. plays' = plays /\ cancel' = cancel /\ sem' = sem /\ pc'[plays] = "none" /\ ~sem
      BY <1>0, <2>1, <2>2 DEF Prepare, Goto, IInv, Sole, Guarded
    <3>2. PlayingAt(plays)'
      BY <3>1 DEF PlayingAt
    <3> QED BY <1>3, <2>2, <2>3, <2>4, <3>1, <3>2 DEF Delivered, Untouched
  <2>5. CASE heard' = Unknown
    BY <1>3, <2>5 DEF Delivered, Unknown
  <2>6. (pc'[UI] = "launch" /\ live' /\ heard' = from /\ position' = from) \/ heard' = Unknown
    BY <1>0, <2>1 DEF Prepare, Goto
  <2> QED BY <2>4, <2>5, <2>6
<1>5. CASE ~ \E from \in {0, saved} : Prepare(from)
  <2>1. heard' \in {heard, Unknown}
    BY <1>5 DEF CallStep, CallBegins, NoInfo, Launch, Settle, Halt, Close, Tell, Trick, Compare,
         FileStep, Name, Open, Store, Aim, Lseek, Leave, Start, Stop, Pause, Resume, ClearTemp,
         SetPosition, Press, SetPoint, Key
  <2>2. SUFFICES ASSUME heard' >= 0 PROVE Untouched'
    BY <1>1, <1>3, <2>1 DEF Delivered
  <2>3. heard >= 0 /\ heard' = heard /\ Untouched
    BY <1>0, <1>1, <2>1, <2>2 DEF Delivered, Unknown
  <2>4. NoInfo \/ Launch \/ Settle \/ Lseek(UI) \/ Start \/ ClearTemp
          \/ \E right \in BOOLEAN : SetPoint(right)
    BY <1>5, <2>2, <2>3
       DEF CallStep, CallBegins, Halt, Close, Tell, Trick, Compare, FileStep, Name, Open, Store,
           Aim, Leave, Stop, Pause, Resume, SetPosition, Press, Key, Unknown, Untouched
  <2>5. CASE Start
    <3>1. /\ plays' = plays + 1 /\ cancel' = cancel /\ sem' = sem /\ pc'[UI] = "info"
      BY <1>0, <2>5 DEF Start, Menu, Goto
    <3>2. pc'[plays'] = "none"
      BY <1>3, <3>1 DEF Unstarted
    <3>3. PlayingAt(plays)'
      BY <3>2 DEF PlayingAt
    <3>4. plays' \notin cancel'
      BY <1>0, <3>1 DEF IInv, Running
    <3> QED BY <2>3, <3>1, <3>3, <3>4 DEF Untouched
  <2>6. CASE Launch
    <3>1. /\ plays' = plays /\ cancel' = cancel /\ sem' = sem /\ pc'[UI] = "settle"
          /\ status' = "run" /\ UNCHANGED <<position, live>> /\ pc[UI] = "launch"
      BY <1>0, <2>6 DEF Launch
    <3>2. plays \in Plays /\ plays \in Procs /\ plays # UI
      BY <1>0, <1>1, <3>1 DEF Unstarted
    <3>3. pc'[plays] = "top"
      BY <1>0, <2>6, <3>2 DEF Launch
    <3>4. Onward'
      BY <2>3, <3>1 DEF Untouched, Onward
    <3>5. PlayingAt(plays)'
      BY <3>1, <3>3, <3>4 DEF PlayingAt
    <3> QED BY <2>3, <3>1, <3>5 DEF Untouched
  <2>7. CASE ~Start /\ ~Launch
    <3>1. /\ plays' = plays /\ cancel' = cancel /\ sem' = sem
          /\ UNCHANGED <<status, live, position, fileno>>
      BY <2>4, <2>7 DEF NoInfo, Settle, Lseek, ClearTemp, SetPoint, Seek
    <3>2. \A t \in Plays : pc'[t] = pc[t]
      BY <1>0, <2>7, UIFrame
    <3>3. pc'[UI] \in {"menu", "settle", "lseek"} \/ pc'[UI] = pc[UI]
      BY <1>0, <2>3, <2>4, <2>7 DEF NoInfo, Settle, Lseek, ClearTemp, SetPoint, Goto, Untouched
    <3>4. Multi' = Multi /\ CDiv(position)' = CDiv(position)
      BY <1>0, <3>1 DEF Multi, FileCount, CDiv
    <3>5. plays > 0 => plays \in Plays
      BY <1>0 DEF Plays
    <3>6. plays > 0 => PlayingAt(plays)'
      BY <1>0, <2>3, <3>1, <3>2, <3>4, <3>5 DEF Untouched, PlayingAt, Onward, Through
    <3> QED BY <2>3, <3>1, <3>3, <3>6 DEF Untouched
  <2> QED BY <2>5, <2>6, <2>7
<1> QED BY <1>4, <1>5

LEMMA DeliveredStep == IInv /\ Aligned /\ Delivered /\ [Next]_vars => Delivered'
<1>1. ASSUME IInv, Aligned, Delivered, Next PROVE Delivered'
  <2>1. IInv'
    BY <1>1, Inductive
  <2>2. CASE ~mixed'
    BY <1>1, <2>1, <2>2, DeliveredTask, DeliveredUI DEF Next
  <2> QED BY <2>2 DEF Delivered
<1>2. ASSUME Delivered, UNCHANGED vars PROVE Delivered'
  <2> USE <1>2 DEF vars, speed, place, desc, task, other
  <2>1. Multi' = Multi /\ CDiv(position)' = CDiv(position)
    BY DEF Multi, FileCount, CDiv
  <2> QED BY <2>1 DEF Delivered, Unstarted, Untouched, PlayingAt, Onward, Through
<1> QED BY <1>1, <1>2

\* For any sizes of buffer, file and recording, from any place: left alone, a task
\* delivers the recording in order and over the ends of its files, and is done only
\* when less than a buffer remains.
THEOREM PlayedInOrder == Spec => []Played
<1>1. Delivered => Played
  BY DEF Delivered, Untouched, PlayingAt, Through, Played, Unknown, Wrong
<1> QED BY <1>1, DeliveredInit, DeliveredStep, Initially, Inductive, PlacesAligned, PTL DEF Spec

-----------------------------------------------------------------------------
(* How far a task is from its end: the safety half of TaskEnds.               *)

\* The places of one turn of the loop, and of its end, counted down.
Order ==
  [load |-> 17, forth |-> 16, back |-> 16, edge |-> 15, file |-> 14, name |-> 13, open |-> 12,
   store |-> 11, lost |-> 10, aim |-> 9, lseek |-> 8, read |-> 7, advance |-> 6, end |-> 5,
   hook |-> 4, again |-> 3, ending |-> 3, shut |-> 2, top |-> 1,
   origin |-> 3, zero |-> 2, resume |-> 1]

Lap == 17

AtStart == {"origin", "zero", "resume"}

\* The task is at its last turn: the status was found to be "stop", or will be.
Leaving(t) ==
  pc[t] \in {"ending", "shut"} \/ (status = "stop" /\ pc[t] \notin AtStart \cup {"again"})

\* The position when this turn ends.
Coming(t) ==
  (IF pc[t] = "back" THEN position - SeekOffset
   ELSE IF pc[t] = "forth" /\ status = "rew" THEN position + 2 * SeekOffset
   ELSE position) + (IF pc[t] \in {"end", "hook", "again", "top"} THEN 0 ELSE Buf)

\* The reads until a rewind goes back again.
Reads(t) == (load[t] - (counter % load[t])) % load[t]

\* What is left of a rewind, which reads forward between two steps back.
ToStart(t) ==
  IF pc[t] = "load" THEN 2 * position - 1 ELSE 2 * Coming(t) + 3 * (Buf * Reads(t))

OrZero(n) == IF n > 0 THEN n ELSE 0

\* The turns that are left, at most: up to the end of the recording, or first back
\* to its beginning.
Turns(t) ==
  IF Leaving(t) THEN 0
  ELSE IF pc[t] \in AtStart THEN 2 + OrZero(total - (IF pc[t] = "resume" THEN position ELSE 0))
  ELSE IF status = "rew" THEN 2 + total + OrZero(ToStart(t) + 1)
  ELSE IF Coming(t) > total THEN (IF pc[t] \in {"hook", "again", "top"} THEN 2 ELSE 1)
  ELSE 2 + (total - Coming(t))

Left(t) == IF Alive(t) THEN Order[pc[t]] + Lap * Turns(t) ELSE 0

\* Every step of a task brings it nearer to its end, and a step of the user interface
\* delays it only if it changes the status or the position: unless they change the
\* object together.
Nearer ==
  [][\A t \in Plays : ~mixed' /\ Alive(t) =>
       IF TaskStep(t) THEN Left(t)' >= 0 /\ Left(t)' < Left(t)
       ELSE UNCHANGED <<status, position>> => Left(t)' = Left(t)]_vars

TurnsTyped == \A t \in Plays : Turns(t) \in Nat

\* A turn is left behind, or a place of it.
Onwards(t) ==
  \/ Turns(t)' < Turns(t)
  \/ Turns(t)' <= Turns(t) /\ Order[pc'[t]] < Order[pc[t]]

LEMMA Falling ==
  ASSUME NEW a \in 1 .. Lap, NEW b \in 1 .. Lap, NEW m \in Nat, NEW n \in Nat,
         n < m \/ (n <= m /\ b < a)
  PROVE  b + Lap * n >= 0 /\ b + Lap * n < a + Lap * m
BY DEF Lap

LEMMA OrderValues ==
  /\ Order["load"] = 17 /\ Order["forth"] = 16 /\ Order["back"] = 16 /\ Order["edge"] = 15
  /\ Order["file"] = 14 /\ Order["name"] = 13 /\ Order["open"] = 12 /\ Order["store"] = 11
  /\ Order["lost"] = 10 /\ Order["aim"] = 9 /\ Order["lseek"] = 8 /\ Order["read"] = 7
  /\ Order["advance"] = 6 /\ Order["end"] = 5 /\ Order["hook"] = 4 /\ Order["again"] = 3
  /\ Order["ending"] = 3 /\ Order["shut"] = 2 /\ Order["top"] = 1
  /\ Order["origin"] = 3 /\ Order["zero"] = 2 /\ Order["resume"] = 1
BY DEF Order

LEMMA Remainder ==
  ASSUME NEW b \in Nat \ {0}, NEW c \in Nat
  PROVE  /\ c % b \in 0 .. b - 1
         /\ c < b => c % b = c
         /\ c = b => c % b = 0
         /\ (c + 1) % b = IF (c % b) + 1 = b THEN 0 ELSE (c % b) + 1
<1>1. c % b \in 0 .. b - 1 /\ (c < b => c % b = c) /\ (c = b => c % b = 0)
  BY Z3
<1>2. PICK q \in Nat : c = b * q + (c % b)
  <2>1. c = b * (c \div b) + (c % b) /\ c \div b \in Nat
    BY Z3
  <2> QED BY <2>1
<1>3. CASE (c % b) + 1 = b
  <2>1. c + 1 = b * (q + 1)
    BY <1>2, <1>3
  <2> QED BY <1>1, <1>3, <2>1, Multiple
<1>4. CASE (c % b) + 1 # b
  <2>1. PICK r \in 0 .. b - 1 : r = (c % b) + 1
    BY <1>1, <1>4
  <2>2. c + 1 = b * q + r
    BY <1>2, <2>1
  <2>3. (b * q + r) % b = r
    <3>1. PICK k \in Int, s \in 0 .. b - 1 : b * q + r = b * k + s /\ s = (b * q + r) % b
      <4>1. PICK x \in Nat : x = b * q + r
        BY <1>2, <2>1
      <4>2. x = b * (x \div b) + (x % b) /\ x \div b \in Int /\ x % b \in 0 .. b - 1
        BY <4>1, Z3
      <4> QED BY <4>1, <4>2
    <3>2. PICK d \in Int : d = k - q
      BY <1>2, <3>1
    <3>3. r - s = b * d
      BY <1>2, <2>1, <3>1, <3>2
    <3>4. d = 0
      <4>1. d >= 1 => b * d >= b
        BY <3>2, Z3
      <4>2. d <= -1 => b * d <= -b
        BY <3>2, Z3
      <4> QED BY <2>1, <3>1, <3>2, <3>3, <4>1, <4>2
    <3>5. r = s
      BY <2>1, <3>1, <3>3, <3>4
    <3> QED BY <3>1, <3>5
  <2> QED BY <1>1, <1>4, <2>1, <2>2, <2>3
<1> QED BY <1>3, <1>4

LEMMA Complement ==
  ASSUME NEW b \in Nat \ {0}, NEW r \in 0 .. b - 1
  PROVE  (b - r) % b = IF r = 0 THEN 0 ELSE b - r
<1>1. PICK d \in Nat : d = b - r
  OBVIOUS
<1>2. (b - r) % b = d % b
  BY <1>1
<1>3. /\ d < b => d % b = d
      /\ d = b => d % b = 0
  BY <1>1, Remainder
<1> QED BY <1>1, <1>2, <1>3

\* The reads until the next step back: one less after each.
LEMMA ReadsLess ==
  ASSUME NEW b \in Nat \ {0}, NEW c \in Nat
  PROVE  /\ (b - (c % b)) % b \in 0 .. b - 1
         /\ c % b = 0 => (b - (c % b)) % b = 0
         /\ c % b # 0 => (b - ((c + 1) % b)) % b = ((b - (c % b)) % b) - 1
<1> DEFINE r == c % b
           s == (c + 1) % b
<1>1. r \in 0 .. b - 1 /\ s = IF r + 1 = b THEN 0 ELSE r + 1
  BY Remainder
<1>2. s \in 0 .. b - 1
  BY <1>1
<1> HIDE DEF r, s
<1>3. (b - r) % b = IF r = 0 THEN 0 ELSE b - r
  BY <1>1, Complement
<1>4. (b - s) % b = IF s = 0 THEN 0 ELSE b - s
  BY <1>2, Complement
<1> QED BY <1>1, <1>2, <1>3, <1>4 DEF r, s

LEMMA ReadsRange ==
  ASSUME TypeOK, NEW t \in Plays
  PROVE  /\ Reads(t) \in Nat /\ Buf * Reads(t) \in Nat
         /\ load[t] \in Nat \ {0} /\ Reads(t) <= load[t] - 1
<1>1. load[t] \in Nat \ {0} /\ counter \in Nat
  BY Constants DEF TypeOK
<1>2. Reads(t) \in 0 .. load[t] - 1
  BY <1>1, ReadsLess DEF Reads
<1> QED BY <1>1, <1>2, Constants

LEMMA TurnsNat == TypeOK => TurnsTyped
<1> SUFFICES ASSUME TypeOK, NEW t \in Plays PROVE Turns(t) \in Nat
  BY DEF TurnsTyped
<1>1. position \in Int /\ total \in Nat /\ SeekOffset \in Int /\ Buf \in Nat
  BY Constants, WholeBuffers DEF TypeOK
<1>2. Coming(t) \in Int
  BY <1>1 DEF Coming
<1>3. ToStart(t) \in Int
  BY <1>1, <1>2, ReadsRange DEF ToStart
<1> QED BY <1>1, <1>2, <1>3 DEF Turns, OrZero

\* The steps within a turn leave its count alone.
Within ==
  {"edge", "file", "name", "open", "store", "lost", "aim", "lseek", "read", "advance"}

LEMMA TurnKept ==
  ASSUME NEW t \in Plays, UNCHANGED <<status, position, total, counter>>, load'[t] = load[t],
         \/ pc[t] \in Within /\ pc'[t] \in Within
         \/ pc'[t] = pc[t]
  PROVE  Turns(t)' = Turns(t)
BY DEF Turns, Within, Leaving, AtStart, Coming, Reads, ToStart, OrZero, SeekOffset

\* A state from which a task takes a step, unless the changes mix.
LEMMA BeforeStep ==
  ASSUME IInv, NEW t \in Plays, ~mixed, Alive(t)
  PROVE  /\ pc[t] \notin AtStart /\ ~Rewinding(t) => position >= 0
         /\ pc[t] \in {"ending", "shut"} => status = "stop"
         /\ \A u \in Plays : Alive(u) => u = t
         /\ pc[UI] # "launch"
<1>1. Apiece
  BY Separate DEF IInv, Sole
<1>2. \A u \in Plays : Alive(u) => u = t
  BY <1>1 DEF Apiece
<1>3. \A u \in Plays : Rewinding(u) => Alive(u)
  BY DEF Rewinding, Alive
<1>4. position \in Int
  BY DEF IInv, Typed, TypeOK
<1> QED BY <1>1, <1>2, <1>3, <1>4 DEF Apiece, IInv, Ended, EndingAt

\* After a read one less is left of those between two steps back.
LEMMA CountsOn ==
  ASSUME TypeOK, NEW t \in Plays, counter % load[t] # 0, load'[t] = load[t],
         counter' = (counter + 1) % LoadTrick
  PROVE  Reads(t)' = Reads(t) - 1
<1>1. /\ counter \in Nat /\ load[t] \in Nat \ {0} /\ LoadTrick \in Nat \ {0}
      /\ counter + 1 <= LoadTrick
  BY Constants DEF TypeOK
<1>2. LoadTrick % load[t] = 0
  BY PlayerAssumption, <1>1, Remainder DEF TypeOK
<1>3. ((counter + 1) % LoadTrick) % load[t] = (counter + 1) % load[t]
  <2>1. PICK c \in Nat : c = counter + 1
    BY <1>1
  <2>2. CASE c < LoadTrick
    BY <1>1, <2>1, <2>2, Remainder
  <2>3. CASE c = LoadTrick
    <3>1. c % LoadTrick = 0
      BY <1>1, <2>3, Remainder
    <3>2. 0 % load[t] = 0
      BY <1>1, Remainder, 0 \in Nat, 0 < load[t]
    <3> QED BY <1>2, <2>1, <2>3, <3>1, <3>2
  <2> QED BY <1>1, <2>1, <2>2, <2>3
<1>4. Reads(t)' = (load[t] - ((counter + 1) % load[t])) % load[t]
  BY <1>3 DEF Reads
<1> QED BY <1>1, <1>4, ReadsLess DEF Reads

\* Each step of a task, in the order of its loop.
LEMMA TaskOnwards ==
  ASSUME IInv, NEW t \in Plays, TaskStep(t), ~mixed, TypeOK'
  PROVE  pc'[t] = "done" \/ (Alive(t)' /\ Onwards(t))
<1> USE DEF speed, place, desc, task, other
<1>1. TypeOK
  BY DEF IInv, Typed
<1>2. /\ Alive(t) /\ t # UI /\ total' = total
      /\ pc \in [Procs -> Places] /\ t \in Procs
      /\ load \in [Plays -> {LoadPlay, LoadTrick}] /\ t \notin {UI}
  BY <1>1, TaskFrame DEF TypeOK, Procs, Plays, UI
<1>3. /\ pc[t] \notin AtStart /\ ~Rewinding(t) => position >= 0
      /\ pc[t] \in {"ending", "shut"} => status = "stop"
  BY <1>2, BeforeStep
<1>4. /\ position \in Int /\ total \in Nat /\ Buf \in Nat \ {0} /\ SeekOffset \in Nat
      /\ 2 * SeekOffset \in Nat /\ counter \in Nat
  <2>1. Buf \in Nat \ {0} /\ LoadTrick \in Nat \ {0} /\ total \in Nat
    BY <1>1, Constants DEF TypeOK
  <2>2. SeekOffset = 2 * (LoadTrick * Buf) /\ LoadTrick * Buf \in Nat
    BY <2>1 DEF SeekOffset
  <2> QED BY <1>1, <2>1, <2>2 DEF TypeOK
<1>5. Turns(t) \in Nat /\ Reads(t) \in Nat /\ Buf * Reads(t) \in Nat
  BY <1>1, TurnsNat, ReadsRange DEF TurnsTyped
<1>6. position' \in Int
  BY DEF TypeOK
<1>7. CASE Top(t)
  <2>1. CASE status = "stop"
    BY <1>2, <1>7, <2>1 DEF Top, Goto
  <2>2. CASE status # "stop"
    <3>1. /\ pc[t] = "top" /\ UNCHANGED <<status, position, load>>
          /\ pc'[t] = IF counter % load[t] = 0 THEN "load" ELSE "edge"
          /\ counter' = (counter + 1) % LoadTrick
      BY <1>2, <1>7, <2>2 DEF Top, Goto
    <3>2. position >= 0
      BY <1>3, <3>1 DEF AtStart, Rewinding
    <3>3. CASE status # "rew"
      <4>1. Turns(t) = IF position > total THEN 2 ELSE 2 + (total - position)
        BY <1>4, <2>2, <3>1, <3>3 DEF Turns, Leaving, AtStart, Coming
      <4>2. Turns(t)' = IF position + Buf > total THEN 1 ELSE 2 + (total - (position + Buf))
        BY <1>2, <2>2, <3>1, <3>3 DEF Turns, Leaving, AtStart, Coming
      <4> QED BY <1>4, <3>1, <4>1, <4>2 DEF Onwards, Alive
    <3>4. CASE status = "rew" /\ counter % load[t] = 0
      <4>1. Reads(t) = 0
        BY <1>1, <1>4, <3>4, ReadsLess, ReadsRange DEF Reads
      <4>2. Turns(t) = 2 + total + OrZero(2 * position + 3 * (Buf * 0) + 1)
        BY <1>4, <3>1, <3>4, <4>1 DEF Turns, Leaving, AtStart, Coming, ToStart
      <4>3. Turns(t)' = 2 + total + OrZero(2 * position - 1 + 1)
        BY <1>2, <3>1, <3>4 DEF Turns, Leaving, AtStart, ToStart, OrZero
      <4> QED BY <1>4, <3>1, <3>2, <3>4, <4>2, <4>3 DEF Onwards, Alive, OrZero
    <3>5. CASE status = "rew" /\ counter % load[t] # 0
      <4>1. Reads(t)' = Reads(t) - 1
        BY <1>1, <1>4, <3>1, <3>5, CountsOn
      <4>2. Turns(t) = 2 + total + OrZero(2 * position + 3 * (Buf * Reads(t)) + 1)
        BY <1>4, <3>1, <3>5 DEF Turns, Leaving, AtStart, Coming, ToStart
      <4>3. Turns(t)' = 2 + total + OrZero(2 * (position + Buf) + 3 * (Buf * (Reads(t) - 1)) + 1)
        BY <1>2, <3>1, <3>5, <4>1 DEF Turns, Leaving, AtStart, Coming, ToStart, OrZero
      <4>4. Buf * (Reads(t) - 1) = Buf * Reads(t) - Buf
        BY <1>4, <1>5
      <4> QED BY <1>4, <1>5, <3>1, <3>2, <3>5, <4>2, <4>3, <4>4 DEF Onwards, Alive, OrZero
    <3> QED BY <3>3, <3>4, <3>5
  <2> QED BY <2>1, <2>2
<1>8. CASE Load(t)
  <2>0. /\ pc[t] = "load" /\ UNCHANGED <<status, position, counter>>
    BY <1>8 DEF Load
  <2>1. CASE status = "rew"
    <3>1. pc'[t] = "back" /\ load'[t] = LoadTrick
      BY <1>2, <1>8, <2>1 DEF Load, Goto
    <3>2. Reads(t)' \in 0 .. LoadTrick - 1
      BY <1>4, <2>0, <3>1, Constants, ReadsLess DEF Reads
    <3>3. PICK r \in 0 .. LoadTrick - 1 : r = Reads(t)'
      BY <3>2
    <3>4. Turns(t) = 2 + total + OrZero(2 * position - 1 + 1)
      BY <2>0, <2>1 DEF Turns, Leaving, AtStart, ToStart
    <3>5. Turns(t)' = 2 + total + OrZero(2 * ((position - SeekOffset) + Buf) + 3 * (Buf * r) + 1)
      BY <1>2, <2>0, <2>1, <3>1, <3>3 DEF Turns, Leaving, AtStart, ToStart, Coming, OrZero, SeekOffset
    <3>6. SeekOffset = 2 * (Buf * LoadTrick) /\ Buf * r \in Nat /\ Buf * r <= Buf * LoadTrick - Buf
      <4>1. LoadTrick \in Nat \ {0}
        BY Constants
      <4>2. Buf * r <= Buf * (LoadTrick - 1)
        BY <1>4, <3>3, <4>1, Z3
      <4>3. Buf * (LoadTrick - 1) = Buf * LoadTrick - Buf /\ Buf * r \in Nat
        BY <1>4, <3>3, <4>1
      <4> QED BY <1>4, <4>1, <4>2, <4>3 DEF SeekOffset
    <3>7. Buf * LoadTrick \in Nat
      BY <1>4, Constants
    <3> QED BY <1>4, <2>0, <3>1, <3>4, <3>5, <3>6, <3>7, OrderValues DEF Onwards, Alive, OrZero
  <2>2. CASE status # "rew"
    <3>1. pc'[t] \in {"edge", "forth"}
      BY <1>2, <1>8, <2>2 DEF Load, Goto
    <3>2. Turns(t)' = Turns(t)
      BY <1>2, <2>0, <2>2, <3>1 DEF Turns, Leaving, AtStart, Coming, OrZero
    <3> QED BY <1>5, <2>0, <3>1, <3>2, OrderValues DEF Onwards, Alive
  <2> QED BY <2>1, <2>2
<1>9. CASE Skip(t)
  <2>1. /\ pc[t] \in {"forth", "back"} /\ pc'[t] = "edge" /\ UNCHANGED <<status, counter, load>>
    BY <1>2, <1>9 DEF Skip, Goto
  <2>2. Reads(t)' = Reads(t)
    BY <2>1 DEF Reads
  <2>3. PICK p \in Int : p = position'
    BY <1>6
  <2>4. pc[t] = "back" => p = position - SeekOffset
    BY <1>9, <2>3 DEF Skip
  <2>5. pc[t] = "forth" => p \in {position + SeekOffset, position + 2 * SeekOffset}
    BY <1>9, <2>3 DEF Skip
  <2>6. Turns(t)' = IF status = "stop" THEN 0
                    ELSE IF status = "rew"
                    THEN 2 + total + OrZero(2 * (p + Buf) + 3 * (Buf * Reads(t)) + 1)
                    ELSE IF p + Buf > total THEN 1 ELSE 2 + (total - (p + Buf))
    BY <1>2, <2>1, <2>2, <2>3 DEF Turns, Leaving, AtStart, Coming, ToStart, OrZero
  <2>7. PICK s \in Nat : s = SeekOffset /\ 2 * SeekOffset = 2 * s
    BY <1>4
  <2>8. Turns(t)' <= Turns(t)
    <3>1. CASE pc[t] = "back"
      BY <1>4, <1>5, <2>4, <2>6, <2>7, <3>1 DEF Turns, Leaving, AtStart, Coming, ToStart, OrZero
    <3>2. CASE pc[t] = "forth"
      BY <1>4, <1>5, <2>5, <2>6, <2>7, <3>2 DEF Turns, Leaving, AtStart, Coming, ToStart, OrZero
    <3> QED BY <2>1, <3>1, <3>2
  <2> QED BY <2>1, <2>8, OrderValues DEF Onwards, Alive
<1>10. CASE Edge(t)
  <2>1. /\ pc[t] = "edge" /\ UNCHANGED <<status, position, counter, load>>
    BY <1>10 DEF Edge
  <2>2. CASE status = "rew" /\ position < load[t] * 2 * Buf
    <3>1. pc'[t] = "origin"
      BY <1>2, <1>10, <2>2 DEF Edge, Goto
    <3>2. Turns(t)' = 2 + total
      BY <1>2, <1>4, <3>1 DEF Turns, Leaving, AtStart, OrZero
    <3>3. Turns(t) = 2 + total + OrZero(ToStart(t) + 1) /\ ToStart(t) \in Int
      BY <1>4, <1>5, <2>1, <2>2 DEF Turns, Leaving, AtStart, ToStart, Coming
    <3> QED BY <1>4, <2>1, <3>1, <3>2, <3>3, OrderValues DEF Onwards, Alive, OrZero
  <2>3. CASE ~(status = "rew" /\ position < load[t] * 2 * Buf)
    <3>1. pc'[t] = "file"
      BY <1>2, <1>10, <2>3 DEF Edge, Goto
    <3> QED BY <1>2, <1>5, <2>1, <3>1, TurnKept, OrderValues DEF Onwards, Alive, Within
  <2> QED BY <2>2, <2>3
<1>11. CASE Origin(t) \/ Zero(t) \/ Replay(t)
  <2>1. CASE Origin(t)
    <3>1. pc[t] = "origin" /\ pc'[t] = "zero"
      BY <1>2, <2>1 DEF Origin, Goto
    <3>2. Turns(t)' = Turns(t)
      BY <1>2, <3>1 DEF Turns, Leaving, AtStart, OrZero
    <3> QED BY <1>5, <3>1, <3>2, OrderValues DEF Onwards, Alive
  <2>2. CASE Zero(t)
    <3>1. pc[t] = "zero" /\ pc'[t] = "resume" /\ position' = 0
      BY <1>2, <2>2 DEF Zero, Goto
    <3>2. Turns(t)' = Turns(t)
      BY <1>2, <3>1 DEF Turns, Leaving, AtStart, OrZero
    <3> QED BY <1>5, <3>1, <3>2, OrderValues DEF Onwards, Alive
  <2>3. CASE Replay(t)
    <3>1. pc[t] = "resume" /\ pc'[t] = "file" /\ position' = position /\ status' = "run"
      BY <1>2, <2>3 DEF Replay, Goto
    <3>2. Turns(t) = 2 + OrZero(total - position)
      BY <3>1 DEF Turns, Leaving, AtStart
    <3>3. Turns(t)' = IF position + Buf > total THEN 1 ELSE 2 + (total - (position + Buf))
      BY <1>2, <3>1 DEF Turns, Leaving, AtStart, Coming
    <3> QED BY <1>4, <3>1, <3>2, <3>3 DEF Onwards, Alive, OrZero
  <2> QED BY <1>11, <2>1, <2>2, <2>3
<1>12. CASE File(t)
  <2>1. pc[t] = "file" /\ UNCHANGED <<status, position, counter, load>>
    BY <1>12 DEF File
  <2>2. pc'[t] \in {"name", "aim"}
    BY <1>2, <1>12 DEF File, Goto
  <2> QED BY <1>2, <1>5, <2>1, <2>2, TurnKept, OrderValues DEF Onwards, Alive, Within
<1>13. CASE FileStep(t)
  <2>1. UNCHANGED <<status, position, counter, load>>
    BY <1>13 DEF FileStep, Name, Open, Store, Aim, Lseek
  <2>2. \/ pc[t] = "name" /\ pc'[t] = "open"
        \/ pc[t] = "open" /\ pc'[t] = "store"
        \/ pc[t] = "store" /\ pc'[t] \in {"lost", "aim"}
        \/ pc[t] = "aim" /\ pc'[t] \in {"lseek", "read"}
        \/ pc[t] = "lseek" /\ pc'[t] = "read"
    BY <1>2, <1>13 DEF FileStep, Name, Open, Store, Aim, Lseek, Goto
  <2>3. Turns(t)' = Turns(t)
    BY <1>2, <2>1, <2>2, TurnKept DEF Within
  <2>4. Order[pc'[t]] < Order[pc[t]]
    BY <2>2, OrderValues
  <2> QED BY <1>5, <2>2, <2>3, <2>4 DEF Onwards, Alive
<1>14. CASE Lost(t)
  <2>1. pc[t] = "lost" /\ pc'[t] = "aim" /\ status' = "stop"
    BY <1>2, <1>14 DEF Lost, Goto
  <2>2. Turns(t)' = 0
    BY <2>1 DEF Turns, Leaving, AtStart
  <2> QED BY <1>5, <2>1, <2>2, OrderValues DEF Onwards, Alive
<1>15. CASE Read(t) \/ Advance(t)
  <2>1. CASE Read(t)
    <3>1. /\ pc[t] = "read" /\ pc'[t] = "advance"
          /\ UNCHANGED <<status, position, counter, load>>
      BY <1>2, <2>1 DEF Read, Goto
    <3> QED BY <1>2, <1>5, <3>1, TurnKept, OrderValues DEF Onwards, Alive, Within
  <2>2. CASE Advance(t)
    <3>1. /\ pc[t] = "advance" /\ pc'[t] = "end" /\ position' = position + Buf
          /\ UNCHANGED <<status, counter, load>>
      BY <1>2, <2>2 DEF Advance, Goto
    <3>2. Coming(t)' = Coming(t) /\ Reads(t)' = Reads(t)
      BY <1>4, <3>1 DEF Coming, Reads
    <3>3. Turns(t)' = Turns(t)
      BY <1>2, <3>1, <3>2 DEF Turns, Leaving, AtStart, ToStart, OrZero
    <3> QED BY <1>5, <3>1, <3>3, OrderValues DEF Onwards, Alive
  <2> QED BY <1>15, <2>1, <2>2
<1>16. CASE End(t)
  <2>1. pc[t] = "end" /\ UNCHANGED <<position, counter, load>>
    BY <1>16 DEF End
  <2>2. CASE position > total
    <3>1. pc'[t] = "hook" /\ status' = "stop"
      BY <1>2, <1>16, <2>2 DEF End, Goto
    <3>2. Turns(t)' = 0
      BY <3>1 DEF Turns, Leaving, AtStart
    <3> QED BY <1>5, <2>1, <3>1, <3>2, OrderValues DEF Onwards, Alive
  <2>3. CASE ~(position > total)
    <3>1. pc'[t] \in {"hook", "top"} /\ status' = status
      BY <1>2, <1>16, <2>3 DEF End, Goto
    <3>2. Coming(t)' = position /\ Coming(t) = position /\ Reads(t)' = Reads(t)
      BY <1>4, <2>1, <3>1 DEF Coming, Reads
    <3>3. Turns(t)' = Turns(t)
      BY <1>2, <2>1, <2>3, <3>1, <3>2 DEF Turns, Leaving, AtStart, ToStart, OrZero
    <3> QED BY <1>5, <2>1, <3>1, <3>3, OrderValues DEF Onwards, Alive
  <2> QED BY <2>2, <2>3
<1>17. CASE Hook(t)
  <2>1. pc[t] = "hook" /\ UNCHANGED <<status, position, counter, load>>
    BY <1>17 DEF Hook
  <2>2. /\ status = "stop" => pc'[t] = "ending"
        /\ status = "run" => pc'[t] = "again"
        /\ status \notin {"stop", "run"} => pc'[t] = "top"
    BY <1>2, <1>17, Zenon DEF Hook, Goto
  <2>3. CASE status = "stop"
    <3>1. Turns(t)' = 0 /\ pc'[t] = "ending"
      BY <2>1, <2>2, <2>3 DEF Turns, Leaving
    <3> QED BY <1>5, <2>1, <3>1, OrderValues DEF Onwards, Alive
  <2>4. CASE status # "stop"
    <3>1. pc'[t] \in {"again", "top"}
      BY <2>2, <2>4
    <3>2. Coming(t)' = position /\ Coming(t) = position /\ Reads(t)' = Reads(t)
      BY <1>4, <2>1, <3>1 DEF Coming, Reads
    <3>3. Turns(t)' = Turns(t)
      BY <1>2, <2>1, <2>4, <3>1, <3>2 DEF Turns, Leaving, AtStart, ToStart, OrZero
    <3> QED BY <1>5, <2>1, <3>1, <3>3, OrderValues DEF Onwards, Alive
  <2> QED BY <2>3, <2>4
<1>18. CASE Notify(t) \/ Shut(t)
  <2>1. CASE pc[t] \in {"ending", "shut"}
    <3>1. /\ status' = "stop"
          /\ \/ pc[t] = "ending" /\ pc'[t] = "shut"
             \/ pc[t] = "shut" /\ pc'[t] = "top"
      BY <1>2, <1>3, <1>18, <2>1 DEF Notify, Shut, Goto
    <3>2. Turns(t)' = 0 
      BY <3>1 DEF Turns, Leaving, AtStart
    <3> QED BY <1>5, <3>1, <3>2, OrderValues DEF Onwards, Alive
  <2>2. CASE pc[t] = "again"
    <3>1. pc'[t] = "top" /\ status' = "run" /\ position' = position
      BY <1>2, <1>18, <2>2 DEF Notify, Shut, Goto
    <3>2. position >= 0
      BY <1>3, <2>2 DEF AtStart, Rewinding
    <3>3. Turns(t)' = IF position > total THEN 2 ELSE 2 + (total - position)
      BY <1>2, <1>4, <3>1 DEF Turns, Leaving, AtStart, Coming
    <3>4. Turns(t) = IF status = "rew" THEN 2 + total + OrZero(ToStart(t) + 1)
                     ELSE IF position > total THEN 2 ELSE 2 + (total - position)
      BY <1>4, <2>2 DEF Turns, Leaving, AtStart, Coming
    <3>5. ToStart(t) \in Int
      BY <1>4, <1>5, <2>2 DEF ToStart, Coming
    <3>6. Turns(t)' <= Turns(t)
      BY <1>4, <3>2, <3>3, <3>4, <3>5 DEF OrZero
    <3> QED BY <2>2, <3>1, <3>6, OrderValues DEF Onwards, Alive
  <2> QED BY <1>18, <2>1, <2>2 DEF Notify, Shut
<1>19. CASE Die(t)
  BY <1>2, <1>19 DEF Die, Goto
<1> QED
  BY <1>7, <1>8, <1>9, <1>10, <1>11, <1>12, <1>13, <1>14, <1>15, <1>16, <1>17, <1>18, <1>19
     DEF TaskStep

\* The places of a task that is alive.
Going ==
  {"load", "forth", "back", "edge", "file", "name", "open", "store", "lost", "aim", "lseek",
   "read", "advance", "end", "hook", "again", "ending", "shut", "top", "origin", "zero", "resume"}

LEMMA OrderRange == \A where \in Going : Order[where] \in 1 .. Lap
BY OrderValues DEF Going, Lap

LEMMA GoesOn ==
  ASSUME TypeOK, NEW t \in Plays, TaskStep(t)
  PROVE  pc[t] \in Going /\ pc'[t] \in Going \cup {"done"}
<1>1. t \in Procs /\ pc \in [Procs -> Places] /\ t # UI
  BY TaskFrame DEF TypeOK, Procs
<1>2. pc[t] \in Going
  BY <1>1 DEF Going, TaskStep, FileStep, Top, Load, Skip, Edge, Origin, Zero, Replay, File, Name,
     Open, Store, Aim, Lseek, Lost, Read, Advance, End, Hook, Notify, Shut, Die
<1>3. CASE Hook(t)
  <2>1. pc'[t] \in {"ending", "again", "top"}
    BY <1>1, <1>3, Zenon DEF Hook, Goto
  <2> QED BY <1>2, <2>1 DEF Going
<1>4. CASE ~Hook(t)
  BY <1>1, <1>2, <1>4
     DEF Going, TaskStep, FileStep, Top, Load, Skip, Edge, Origin, Zero, Replay, File, Name,
     Open, Store, Aim, Lseek, Lost, Read, Advance, End, Notify, Shut, Die, Goto
<1> QED BY <1>3, <1>4

\* Nothing else that leaves the status and the position alone changes what is left.
LEMMA OthersKeepLeft ==
  ASSUME IInv, Next, ~mixed, NEW t \in Plays, Alive(t), ~TaskStep(t),
         UNCHANGED <<status, position>>
  PROVE  Left(t)' = Left(t)
<1>1. TypeOK
  BY DEF IInv, Typed
<1>2. (\A u \in Plays : Alive(u) => u = t) /\ pc[UI] # "launch"
  BY BeforeStep
<1>3. ~ \E u \in Plays : TaskStep(u)
  BY <1>1, <1>2, TaskFrame
<1>4. CallStep \/ CallBegins
  BY <1>3 DEF Next
<1>5. pc'[t] = pc[t] /\ UNCHANGED <<total, load, counter>>
  BY <1>1, <1>2, <1>4, UIFrame DEF Launch
<1>6. Turns(t)' = Turns(t) /\ Alive(t)' = Alive(t)
  BY <1>5, TurnKept DEF Alive
<1> QED BY <1>5, <1>6 DEF Left

Declines(t) ==
  ~mixed' /\ Alive(t) =>
    IF TaskStep(t) THEN Left(t)' >= 0 /\ Left(t)' < Left(t)
    ELSE UNCHANGED <<status, position>> => Left(t)' = Left(t)

\* For any sizes of buffer, file and recording, and at any speed: the steps that a task
\* has left to its end are bounded, and each is nearer to it (the safety half of
\* TaskEnds).
THEOREM TaskComesNearer == Spec => Nearer
<1>1. IInv /\ Next => \A t \in Plays : Declines(t)
  <2> SUFFICES ASSUME IInv, Next, NEW t \in Plays, ~mixed', Alive(t)
               PROVE  IF TaskStep(t) THEN Left(t)' >= 0 /\ Left(t)' < Left(t)
                      ELSE UNCHANGED <<status, position>> => Left(t)' = Left(t)
    BY DEF Declines
  <2>1. IInv' /\ TypeOK /\ ~mixed
    BY Inductive, UnmixedBefore DEF IInv, Typed
  <2>2. TypeOK'
    BY <2>1 DEF IInv, Typed
  <2>3. ASSUME TaskStep(t) PROVE Left(t)' >= 0 /\ Left(t)' < Left(t)
    <3>1. Turns(t) \in Nat /\ Turns(t)' \in Nat
      <4>1. TurnsTyped /\ TurnsTyped'
        BY <2>1, <2>2, TurnsNat, PTL
      <4> QED BY <4>1 DEF TurnsTyped
    <3>2. Order[pc[t]] \in 1 .. Lap /\ pc'[t] \in Going \cup {"done"}
      BY <2>1, <2>3, GoesOn, OrderRange
    <3>3. Left(t) = Order[pc[t]] + Lap * Turns(t)
      BY DEF Left
    <3>4. CASE pc'[t] = "done"
      <4>1. Left(t)' = 0
        BY <3>4 DEF Left, Alive
      <4> QED BY <3>1, <3>2, <3>3, <4>1 DEF Lap
    <3>5. CASE pc'[t] # "done"
      <4>1. Alive(t)' /\ Onwards(t)
        BY <2>1, <2>2, <2>3, <3>5, TaskOnwards
      <4>2. Order[pc'[t]] \in 1 .. Lap
        BY <3>2, <3>5, OrderRange
      <4>3. PICK a \in 1 .. Lap, b \in 1 .. Lap, m \in Nat, n \in Nat :
               a = Order[pc[t]] /\ b = Order[pc'[t]] /\ m = Turns(t) /\ n = Turns(t)'
        BY <3>1, <3>2, <4>2
      <4>4. Left(t) = a + Lap * m /\ Left(t)' = b + Lap * n
        BY <3>3, <4>1, <4>3 DEF Left
      <4>5. n < m \/ (n <= m /\ b < a)
        BY <4>1, <4>3 DEF Onwards
      <4>6. b + Lap * n >= 0 /\ b + Lap * n < a + Lap * m
        BY <4>5, Falling
      <4> QED BY <4>4, <4>6
    <3> QED BY <3>4, <3>5
  <2> QED BY <2>1, <2>3, OthersKeepLeft
<1>2. IInv /\ [Next]_vars => [\A t \in Plays : Declines(t)]_vars
  BY <1>1
<1> QED BY <1>2, Initially, Inductive, PTL DEF Spec, Nearer, Declines

=============================================================================
