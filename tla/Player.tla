------------------------------- MODULE Player -------------------------------
(***************************************************************************)
(* The player of the media player, csmpr_player.c: a task reads a          *)
(* recording, buffer by buffer, from its row of files and hands it to the  *)
(* demux, while the user interface pauses it, changes its speed, moves it  *)
(* to another place or stops it.                                           *)
(*                                                                         *)
(* All of them work on one object, lv_player_obj, of which only the        *)
(* position is (sometimes) under a semaphore: the file descriptor, the     *)
(* number and the name of the file and the place in it are not.  A thread  *)
(* that is cancelled ends at its next cancellation point (close, open,     *)
(* read, usleep and sem_wait).                                             *)
(*                                                                         *)
(* Time shift is left out: CSMPR_TMS_Start, which alone sets the mode, has *)
(* no caller in the build.  Speeds that differ only in their delays are    *)
(* one status: 2X and 4X ("ff"), and the four of a rewind ("rew"); 8X and  *)
(* 16X ("skip") also in how far they go, which is chosen at each step.     *)
(***************************************************************************)
EXTENDS Integers

CONSTANTS
  Buf,        \* PLAY_BUFF_SIZE, in units of which several make a packet
  MaxSize,    \* CSPLAY_MAX_FILE_SIZE
  Totals,     \* the sizes a recording may have
  LoadPlay,   \* LoadSize when playing (8)
  LoadTrick,  \* LoadSize of the speeds that seek (32)
  Parts,      \* the jumps of the banner that make the whole recording (10)
  MaxPlays,   \* bound: calls of CSMPR_Player_Start
  MaxKeys     \* bound: keys pressed

ASSUME PlayerAssumption ==
  /\ {Buf, MaxSize, LoadPlay, LoadTrick, Parts, MaxPlays} \subseteq Nat \ {0}
  /\ Totals \subseteq Nat \ {0} /\ MaxKeys \in Nat
  /\ MaxSize % Buf = 0
  /\ LoadTrick % LoadPlay = 0

Plays == 1 .. MaxPlays
UI    == 0
Procs == {UI} \cup Plays

VARIABLES
  \* lv_player_obj and the file's descriptor
  status, position, temp,
  fileno, filepos,  \* curr_file_no, curr_file_pos
  fd,               \* play_fd: the number of the file it refers to, or NoFile
  live, offset,     \* the descriptor is open; its file offset
  name,             \* temp_file_name: the number of the file it names
  sem,              \* the user interface holds sem_Pvr_Player_Access
  total,            \* total_size of the recording
  \* the tasks (one per start) and the user interface
  pc, got,          \* got: what open returned, until it is stored
  load, hook,       \* LoadSize, bHookNotifier
  counter,          \* the static counter of player_task, modulo LoadTrick
  cancel, plays, keys,
  chosen,           \* b8Position_Move: a place was chosen, not yet confirmed
  saved,            \* PVR_Last_Posion of the recording
  \* history
  heard,            \* the stream was delivered in order up to here, or Unknown, Wrong
  stray,            \* a closed descriptor was closed, or an open one overwritten
  mixed             \* the user interface and a task changed the object together

speed == <<status, temp, chosen, saved, keys>>
place == <<position, fileno, filepos, name>>
desc  == <<fd, live, offset, stray>>
task  == <<got, load, hook, counter, cancel>>
other == <<total, plays>>
vars  == <<speed, place, desc, task, other, sem, pc, heard, mixed>>

NoFile  == -1
Unknown == -1
Wrong   == -2

Init ==
  /\ status = "stop" /\ position = 0 /\ temp = 0 /\ fileno = 0 /\ filepos = 0
  /\ fd = NoFile /\ live = FALSE /\ offset = 0 /\ name = 0 /\ sem = FALSE
  /\ total \in Totals
  /\ pc = [p \in Procs |-> IF p = UI THEN "menu" ELSE "none"]
  /\ got = [p \in Procs |-> NoFile]
  /\ load = [t \in Plays |-> LoadPlay] /\ hook = [t \in Plays |-> FALSE]
  /\ counter = 0 /\ cancel = {} /\ plays = 0 /\ keys = 0 /\ chosen = FALSE /\ saved = 0
  /\ heard = Unknown /\ stray = FALSE /\ mixed = FALSE

Alive(t) == pc[t] \notin {"none", "done"}

\* The files of the recording, and their sizes.
FileCount == (total + MaxSize - 1) \div MaxSize
Multi     == FileCount > 1
SizeOf(f) == IF f < FileCount - 1 THEN MaxSize ELSE total - f * MaxSize

\* / and % of C, which truncate; a rewind can make the position negative.
CDiv(p) == IF p < 0 THEN -((-p) \div MaxSize) ELSE p \div MaxSize
CMod(p) == p - MaxSize * CDiv(p)

Goto(p, where) == pc' = [pc EXCEPT ![p] = where]

-----------------------------------------------------------------------------
(* The file descriptor.  The task and CSMPR_Player_Set_Position change to    *)
(* another file with the same sequence of steps; p is who does it.           *)

CloseFile ==
  /\ stray' = (stray \/ (fd # NoFile /\ ~live))
  /\ live' = FALSE
  /\ UNCHANGED <<fd, offset>>

\* lseek( play_fd, o, SEEK_SET ); an offset below 0 is refused.
Seek(o) ==
  /\ offset' = IF live /\ o >= 0 THEN o ELSE offset
  /\ UNCHANGED <<fd, live, stray>>

\* curr_file_no, and the name of that file.
Name(p) ==
  /\ pc[p] = "name"
  /\ fileno' = CDiv(position) /\ name' = CDiv(position)
  /\ Goto(p, "open")
  /\ UNCHANGED <<speed, position, filepos, desc, task, other, sem, heard>>

\* open fails for a file that does not exist, and on an error of the disk.
Open(p) ==
  /\ pc[p] = "open" /\ p \notin cancel
  /\ \/ name \in 0 .. FileCount - 1 /\ got' = [got EXCEPT ![p] = name]
     \/ got' = [got EXCEPT ![p] = NoFile]
  /\ Goto(p, "store")
  /\ UNCHANGED <<speed, place, desc, load, hook, counter, cancel, other, sem, heard>>

\* play_fd is set.  "Error open file. quit playback mode": only the task looks.
Store(p) ==
  /\ pc[p] = "store"
  /\ stray' = (stray \/ live)
  /\ fd' = got[p] /\ live' = (got[p] # NoFile) /\ offset' = 0
  /\ Goto(p, IF got[p] = NoFile /\ p # UI THEN "lost" ELSE "aim")
  /\ heard' = IF got[p] = NoFile THEN Unknown ELSE heard
  /\ UNCHANGED <<speed, place, task, other, sem>>

\* Fault: the offset is set only when the file is the only one.
AimSkips(p) ==
  /\ pc[p] = "aim"
  /\ IF Multi THEN filepos' = CMod(position) /\ UNCHANGED desc ELSE Seek(position) /\ UNCHANGED filepos
  /\ Goto(p, IF p = UI THEN "leave" ELSE "read")
  /\ UNCHANGED <<speed, position, fileno, name, task, other, sem, heard>>

\* curr_file_pos, or directly the offset in the only file.
Aim(p) ==
  /\ pc[p] = "aim"
  /\ IF Multi
       THEN filepos' = CMod(position) /\ Goto(p, "lseek") /\ UNCHANGED desc
       ELSE Seek(position) /\ Goto(p, IF p = UI THEN "leave" ELSE "read") /\ UNCHANGED filepos
  /\ UNCHANGED <<speed, position, fileno, name, task, other, sem, heard>>

\* The task reads next; CSMPR_Player_Set_Position gives the semaphore back.
Lseek(p) ==
  /\ pc[p] = "lseek"
  /\ Seek(filepos)
  /\ Goto(p, IF p # UI THEN "read" ELSE IF sem THEN "leave" ELSE "menu")
  /\ UNCHANGED <<speed, place, task, other, sem, heard>>

-----------------------------------------------------------------------------
(* player_task, for the t-th play. *)

\* while( Status != STOP ), the pause, and the count of the reads.
Top(t) ==
  /\ pc[t] = "top" /\ status # "pause"
  /\ IF status = "stop"
       THEN Goto(t, "done") /\ UNCHANGED counter
       ELSE /\ Goto(t, IF counter % load[t] = 0 THEN "load" ELSE "edge")
            /\ counter' = (counter + 1) % LoadTrick
  /\ UNCHANGED <<speed, place, desc, got, load, hook, cancel, other, sem, heard>>

\* The switch on the status: how many reads to make until the next, and where to.
Load(t) ==
  /\ pc[t] = "load"
  /\ \/ status \in {"run", "ff"}
        /\ load' = [load EXCEPT ![t] = LoadPlay] /\ Goto(t, "edge")
     \/ status \in {"skip", "rew"}
        /\ load' = [load EXCEPT ![t] = LoadTrick]
        /\ Goto(t, IF status = "skip" THEN "forth" ELSE "back")
     \/ status \in {"stop", "pause"}
        /\ UNCHANGED load /\ Goto(t, "edge")
  /\ UNCHANGED <<speed, place, desc, got, hook, counter, cancel, other, sem, heard>>

SeekOffset == LoadTrick * 2 * Buf

\* 16X goes twice as far when the bitrate is high.
Skip(t) ==
  /\ pc[t] \in {"forth", "back"} /\ ~sem /\ t \notin cancel
  /\ \/ pc[t] = "forth" /\ position' \in {position + SeekOffset, position + 2 * SeekOffset}
     \/ pc[t] = "back" /\ position' = position - SeekOffset
  /\ Goto(t, "edge")
  /\ UNCHANGED <<speed, fileno, filepos, name, desc, task, other, sem, heard>>

\* "fast rewinds to the beginning, resume to playback"
Edge(t) ==
  /\ pc[t] = "edge"
  /\ Goto(t, IF status = "rew" /\ position < load[t] * 2 * Buf THEN "origin" ELSE "file")
  /\ UNCHANGED <<speed, place, desc, task, other, sem, heard>>

Origin(t) ==
  /\ pc[t] = "origin"
  /\ Seek(0) /\ Goto(t, "zero")
  /\ UNCHANGED <<speed, place, task, other, sem, heard>>

Zero(t) ==
  /\ pc[t] = "zero" /\ ~sem /\ t \notin cancel
  /\ position' = 0 /\ Goto(t, "resume")
  /\ UNCHANGED <<speed, fileno, filepos, name, desc, task, other, sem, heard>>

Replay(t) ==
  /\ pc[t] = "resume"
  /\ status' = "run" /\ hook' = [hook EXCEPT ![t] = TRUE] /\ Goto(t, "file")
  /\ UNCHANGED <<temp, chosen, saved, keys, place, desc, got, load, counter, cancel>>
  /\ UNCHANGED <<other, sem, heard>>

\* Fault: the next file is taken a buffer too late.
FileLate(t) ==
  /\ pc[t] = "file"
  /\ IF Multi /\ CDiv(position - 1) # fileno
       THEN t \notin cancel /\ CloseFile /\ Goto(t, "name")
       ELSE UNCHANGED desc /\ Goto(t, "aim")
  /\ UNCHANGED <<speed, place, task, other, sem, heard>>

\* Another file is needed.
File(t) ==
  /\ pc[t] = "file"
  /\ IF Multi /\ CDiv(position) # fileno
       THEN t \notin cancel /\ CloseFile /\ Goto(t, "name")
       ELSE UNCHANGED desc /\ Goto(t, "aim")
  /\ UNCHANGED <<speed, place, task, other, sem, heard>>

\* Fault: the player goes on from the beginning.
LostAgain(t) ==
  /\ pc[t] = "lost"
  /\ position' = 0 /\ hook' = [hook EXCEPT ![t] = TRUE]
  /\ Goto(t, "aim")
  /\ UNCHANGED <<speed, fileno, filepos, name, desc, got, load, counter>>
  /\ UNCHANGED <<cancel, other, sem, heard>>

\* The file could not be opened.
Lost(t) ==
  /\ pc[t] = "lost"
  /\ position' = 0 /\ status' = "stop" /\ hook' = [hook EXCEPT ![t] = TRUE]
  /\ Goto(t, "aim")
  /\ UNCHANGED <<temp, chosen, saved, keys, fileno, filepos, name, desc, got, load, counter>>
  /\ UNCHANGED <<cancel, other, sem, heard>>

\* What a read yields: a buffer, the rest of the file, or nothing.
Yield ==
  LET rest == SizeOf(fd) - offset IN
  IF ~live \/ rest <= 0 THEN 0 ELSE IF rest < Buf THEN rest ELSE Buf

\* A whole buffer goes to the demux, which is told here by heard.
Read(t) ==
  /\ pc[t] = "read" /\ t \notin cancel
  /\ offset' = offset + Yield
  /\ heard' = IF heard < 0 \/ Yield < Buf THEN heard
              ELSE IF fd * MaxSize + offset = heard THEN heard + Buf ELSE Wrong
  /\ Goto(t, "advance")
  /\ UNCHANGED <<speed, place, fd, live, stray, task, other, sem>>

\* "For Second file play problem": by a whole buffer, whatever was read.
Advance(t) ==
  /\ pc[t] = "advance" /\ ~sem /\ t \notin cancel
  /\ position' = position + Buf /\ filepos' = filepos + Buf
  /\ Goto(t, "end")
  /\ UNCHANGED <<speed, fileno, name, desc, task, other, sem, heard>>

\* "Quit. Maybe File End"
End(t) ==
  /\ pc[t] = "end"
  /\ IF position > total
       THEN status' = "stop" /\ hook' = [hook EXCEPT ![t] = TRUE] /\ Goto(t, "hook")
       ELSE UNCHANGED <<status, hook>> /\ Goto(t, IF hook[t] THEN "hook" ELSE "top")
  /\ UNCHANGED <<temp, chosen, saved, keys, place, desc, got, load, counter, cancel>>
  /\ UNCHANGED <<other, sem, heard>>

\* The notifier is called with the status as it is now.
Hook(t) ==
  /\ pc[t] = "hook"
  /\ hook' = [hook EXCEPT ![t] = FALSE]
  /\ Goto(t, CASE status = "stop" -> "ending" [] status = "run" -> "again" [] OTHER -> "top")
  /\ UNCHANGED <<speed, place, desc, got, load, counter, cancel, other, sem, heard>>

\* player_notifier sets the status it was called with,
Notify(t) ==
  /\ pc[t] \in {"ending", "again"}
  /\ IF pc[t] = "ending" THEN status' = "stop" /\ Goto(t, "shut")
                         ELSE status' = "run" /\ Goto(t, "top")
  /\ UNCHANGED <<temp, chosen, saved, keys, place, desc, task, other, sem, heard>>

\* Fault: the file stays open at the end.
ShutKeeps(t) ==
  /\ pc[t] = "shut" /\ t \notin cancel
  /\ Goto(t, "top")
  /\ UNCHANGED <<speed, place, desc, task, other, sem, heard>>

\* and closes the file at the end.
Shut(t) ==
  /\ pc[t] = "shut" /\ t \notin cancel
  /\ CloseFile /\ Goto(t, "top")
  /\ UNCHANGED <<speed, place, task, other, sem, heard>>

\* The task acts on a cancellation: there is no cancellation point elsewhere.
Die(t) ==
  /\ t \in cancel
  /\ \/ pc[t] \in {"load", "forth", "back", "zero", "open", "read", "advance", "shut"}
     \/ pc[t] = "top" /\ status = "pause"
     \/ pc[t] = "file" /\ Multi /\ CDiv(position) # fileno
  /\ Goto(t, "done")
  /\ UNCHANGED <<speed, place, desc, task, other, sem, heard>>

-----------------------------------------------------------------------------
(* The user interface.  Between two calls pc[UI] is "menu". *)

Menu(where) == pc[UI] = "menu" /\ Goto(UI, where)

\* A key is pressed, of which there are at most MaxKeys.
Key == keys < MaxKeys /\ keys' = keys + 1 /\ heard' = Unknown

\* CSMPR_Player_Start: the streams, the files and their sizes are looked up,
Start ==
  /\ Menu("info") /\ status = "stop" /\ plays < MaxPlays
  /\ plays' = plays + 1
  /\ name' = FileCount
  /\ UNCHANGED <<speed, position, fileno, filepos, desc, task, total, sem, heard>>

\* "Failed to parse ts file", "Failed to get file info": nothing is set;
NoInfo ==
  /\ pc[UI] = "info" /\ Goto(UI, "menu")
  /\ UNCHANGED <<speed, place, desc, task, other, sem, heard>>

\* or the object and the first file are set, for a place to start from.
\* "Failed to open file!!!" leaves it so.
Prepare(from) ==
  /\ pc[UI] = "info"
  /\ position' = from /\ fileno' = 0 /\ filepos' = from
  /\ stray' = (stray \/ live) /\ offset' = 0
  /\ \/ fd' = 0 /\ live' = TRUE /\ Goto(UI, "launch") /\ heard' = from
     \/ fd' = NoFile /\ live' = FALSE /\ Goto(UI, "menu") /\ heard' = Unknown
  /\ UNCHANGED <<speed, name, task, other, sem>>

\* "Set this before launch the task."
Launch ==
  /\ pc[UI] = "launch"
  /\ status' = "run"
  /\ pc' = [pc EXCEPT ![UI] = "settle", ![plays] = "top"]
  /\ UNCHANGED <<temp, chosen, saved, keys, place, desc, task, other, sem, heard>>

\* The place is looked up once more, while the task runs.
Settle ==
  /\ pc[UI] = "settle"
  /\ IF position > 0
       THEN filepos' = CMod(position) /\ Goto(UI, "lseek") /\ UNCHANGED desc
       ELSE Seek(position) /\ Goto(UI, "menu") /\ UNCHANGED filepos
  /\ UNCHANGED <<speed, position, fileno, name, task, other, sem, heard>>

\* CSMPR_Player_Stop: the place is saved,
Stop ==
  /\ Menu("halt") /\ status # "stop" /\ Key
  /\ saved' = IF position >= total THEN 0 ELSE position
  /\ UNCHANGED <<status, temp, chosen, place, desc, task, other, sem>>

\* the task is cancelled,
Halt ==
  /\ pc[UI] = "halt" /\ Goto(UI, "close")
  /\ status' = "stop" /\ cancel' = cancel \cup {plays}
  /\ UNCHANGED <<temp, chosen, saved, keys, place, desc, got, load, hook, counter>>
  /\ UNCHANGED <<other, sem, heard>>

\* and the file is closed, by it or, in a change to another place, for that file.
Close ==
  /\ pc[UI] \in {"close", "swap"}
  /\ CloseFile /\ Goto(UI, IF pc[UI] = "close" THEN "menu" ELSE "name")
  /\ UNCHANGED <<speed, place, task, other, sem, heard>>

\* CSMPR_Player_Pause: the status, and the offset of the file.
Pause ==
  /\ Menu("tell") /\ status = "run" /\ Key
  /\ status' = "pause"
  /\ UNCHANGED <<temp, chosen, saved, place, desc, task, other, sem>>

Tell ==
  /\ pc[UI] = "tell" /\ Goto(UI, "menu")
  /\ filepos' = IF live THEN offset ELSE -1
  /\ UNCHANGED <<speed, position, fileno, name, desc, task, other, sem, heard>>

\* CSMPR_Player_Resume
Resume ==
  /\ pc[UI] = "menu" /\ status \notin {"stop", "run"} /\ Key
  /\ status' = "run"
  /\ UNCHANGED <<temp, chosen, saved, pc, place, desc, task, other, sem>>

\* The keys FF and REW look at the status before they call.
Press(dir) ==
  /\ Menu(dir) /\ status # "stop" /\ Key
  /\ UNCHANGED <<status, temp, chosen, saved, place, desc, task, other, sem>>

\* CSMPR_Player_Forward and Rewind, which do not look.
Trick ==
  /\ pc[UI] \in {"FF", "REW"} /\ Goto(UI, "menu")
  /\ \/ pc[UI] = "FF" /\ status' \in IF status \in {"ff", "skip"} THEN {"ff", "skip"} ELSE {"ff"}
     \/ pc[UI] = "REW" /\ status' = "rew"
  /\ UNCHANGED <<temp, chosen, saved, keys, place, desc, task, other, sem, heard>>

\* Fault: not in whole buffers.
JumpUneven == total \div Parts

\* "lJump_Buffer_size": a part of the recording, in whole buffers.
JumpSize ==
  LET part == total \div Parts IN
  IF part % Buf # 0 THEN part + (Buf - (part % Buf)) ELSE part

\* CSMPR_Player_SetPoint: a place is chosen, from the position on if none is yet.
SetPoint(right) ==
  /\ pc[UI] = "menu" /\ status # "stop" /\ keys < MaxKeys /\ keys' = keys + 1
  /\ LET from == IF temp = 0 THEN position ELSE temp IN
     temp' = IF right THEN IF from + JumpSize < total THEN from + JumpSize ELSE from
                      ELSE IF from > JumpSize THEN from - JumpSize ELSE 0
  /\ chosen' = TRUE
  /\ UNCHANGED <<status, saved, pc, place, desc, task, other, sem, heard>>

\* CSMPR_Player_Clear_TempPosition, when the banner goes.
ClearTemp ==
  /\ pc[UI] = "menu" /\ chosen
  /\ temp' = 0 /\ chosen' = FALSE
  /\ UNCHANGED <<status, saved, keys, pc, place, desc, task, other, sem, heard>>

\* CSMPR_Player_Set_Position
SetPosition ==
  /\ Menu("compare") /\ chosen /\ Key
  /\ position' = temp /\ chosen' = FALSE /\ sem' = TRUE
  /\ UNCHANGED <<status, temp, saved, fileno, filepos, name, desc, task, other>>

Compare ==
  /\ pc[UI] = "compare"
  /\ Goto(UI, IF Multi /\ CDiv(position) # fileno THEN "swap" ELSE "aim")
  /\ UNCHANGED <<speed, place, desc, task, other, sem, heard>>

Leave ==
  /\ pc[UI] = "leave" /\ Goto(UI, "menu")
  /\ temp' = 0 /\ sem' = FALSE
  /\ UNCHANGED <<status, chosen, saved, keys, place, desc, task, other, heard>>

-----------------------------------------------------------------------------
FileStep(p) == Name(p) \/ Open(p) \/ Store(p) \/ Aim(p) \/ Lseek(p)

TaskStep(t) ==
  \/ Top(t) \/ Load(t) \/ Skip(t) \/ Edge(t) \/ Origin(t) \/ Zero(t) \/ Replay(t)
  \/ File(t) \/ FileStep(t) \/ Lost(t) \/ Read(t) \/ Advance(t) \/ End(t) \/ Hook(t)
  \/ Notify(t) \/ Shut(t) \/ Die(t)

\* The rest of a call that has begun.
CallStep ==
  \/ NoInfo \/ \E from \in {0, saved} : Prepare(from)
  \/ Launch \/ Settle \/ Halt \/ Close \/ Tell \/ Trick \/ Compare \/ FileStep(UI) \/ Leave

\* A call begins.
CallBegins ==
  \/ Start \/ Stop \/ Pause \/ Resume \/ ClearTemp \/ SetPosition
  \/ \E dir \in {"FF", "REW"} : Press(dir)
  \/ \E right \in BOOLEAN : SetPoint(right)

\* The user interface is in a call that changes the file, the place in it or the
\* status, while a task changes the file or comes to an end; a task lives on while
\* the next is started; a place is confirmed when the player has stopped; or a call
\* begins, or a rewind ends, between its seek and the check for the beginning.
Changing == {"name", "open", "store", "lost", "aim", "lseek"}
Ending   == {"origin", "zero", "resume", "hook", "ending", "again", "shut"}

\* The task has gone back and has not yet seen that it is before the beginning.
Rewinding(t) == pc[t] \in {"origin", "zero"} \/ (pc[t] = "edge" /\ status = "rew")

Mixed ==
  \/ pc[UI] # "menu" /\ \E t \in Plays : pc[t] \in Changing \cup Ending
  \/ pc[UI] \in {"info", "launch"} /\ \E t \in Plays : Alive(t)
  \/ sem /\ status = "stop"
  \/ position < 0 /\ (pc[UI] # "menu" \/ ~ \E t \in Plays : Rewinding(t))

Next ==
  /\ (\E t \in Plays : TaskStep(t)) \/ CallStep \/ CallBegins
  /\ mixed' = (mixed \/ Mixed')

Spec == Init /\ [][Next]_vars

\* The threads are scheduled.
FairSpec ==
  /\ Spec
  /\ WF_vars(CallStep /\ mixed' = (mixed \/ Mixed'))
  /\ \A t \in Plays : WF_vars(TaskStep(t) /\ mixed' = (mixed \/ Mixed'))

-----------------------------------------------------------------------------
(* Properties. *)

Places ==
  {"menu", "none", "top", "load", "forth", "back", "edge", "origin", "zero", "resume", "file",
   "name", "open", "store", "lost", "aim", "lseek", "read", "advance", "end", "hook",
   "ending", "again", "shut", "done", "info", "launch", "settle", "halt", "close", "tell",
   "FF", "REW", "compare", "swap", "leave"}

\* The types of the variables.
TypeOK ==
  /\ status \in {"stop", "run", "pause", "ff", "skip", "rew"}
  /\ {position, temp, fileno, filepos, fd, name, saved, heard} \subseteq Int
  /\ offset \in Nat /\ live \in BOOLEAN /\ stray \in BOOLEAN /\ mixed \in BOOLEAN
  /\ live => fd \in 0 .. FileCount - 1
  /\ total \in Totals /\ counter \in 0 .. LoadTrick - 1
  /\ pc \in [Procs -> Places] /\ got \in [Procs -> NoFile .. FileCount - 1]
  /\ load \in [Plays -> {LoadPlay, LoadTrick}] /\ hook \in [Plays -> BOOLEAN]
  /\ cancel \subseteq Plays /\ plays \in 0 .. MaxPlays /\ keys \in 0 .. MaxKeys
  /\ chosen \in BOOLEAN /\ sem \in BOOLEAN

\* Every place that a read is aimed at, the user chooses or is saved is the start of
\* a buffer, whatever overlaps: so a read begins with a packet, which the task tests
\* ("0x47 != st_data[0]").
Aligned == \A p \in {position, temp, saved} : p % Buf = 0

\* What a task reads next is what the position says, the right place of the right
\* file, unless the user interface changed them together with the task.
InPlace ==
  \A t \in Plays : pc[t] = "read" /\ pc[UI] = "menu" /\ ~mixed /\ live =>
    position = fd * MaxSize + offset

\* Left alone, a task delivers the recording in order from where it was started, and
\* stops only when less than a buffer remains.
Played ==
  ~mixed => /\ heard # Wrong
            /\ heard >= 0 /\ plays > 0 /\ pc[plays] = "done" => heard + Buf > total

\* When no task is left the player is stopped and its files are closed, each once.
Released ==
  pc[UI] = "menu" /\ ~mixed /\ (\A t \in Plays : ~Alive(t)) =>
    status = "stop" /\ ~live /\ ~stray

\* "fast rewinds to the beginning, resume to playback": a task never reads on from
\* before the beginning.
RewindResumes == \A t \in Plays : pc[t] = "read" => position >= 0

\* A task ends, by the end of the recording or by a stop, unless it is left paused:
\* the first one whatever overlaps, a later one unless something has been mixed.
Entangled == mixed /\ plays > 1

TaskEnds == \A t \in Plays : Alive(t) ~> ~Alive(t) \/ status = "pause" \/ Entangled

=============================================================================
