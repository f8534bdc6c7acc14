------------------------------ MODULE Recorder ------------------------------
(***************************************************************************)
(* The recorder of the media player, csmpr_recorder.c: the user interface  *)
(* starts and stops recordings (or the streaming of a channel over the     *)
(* network), and a task per recording reads the transport stream from a    *)
(* demux filter and writes it to a row of files of at most MaxSize, or,    *)
(* for time shift, to one file used as a ring.                             *)
(*                                                                         *)
(* The stream is a row of numbered units; a read takes the next ones, and  *)
(* a file is a function from offsets to units.  The task takes no lock,    *)
(* so its steps and those of the user interface interleave.  A thread      *)
(* that is cancelled ends at its next cancellation point: for certain in   *)
(* select, read, accept and sleep, and possibly in stdio.                  *)
(*                                                                         *)
(* Closing or writing a FILE that is closed is undefined; the model ends   *)
(* there ("crash").                                                        *)
(***************************************************************************)
EXTENDS Integers

CONSTANTS
  MaxSize,    \* CSREC_MAX_FILE_SIZE, in units
  MaxLen,     \* the most units one read delivers (REC_BUFF_SZ)
  LastFile,   \* the highest file number (999)
  MaxRecs,    \* bound: recordings started
  MaxUnits    \* bound: units of the stream

ASSUME RecorderAssumption ==
  /\ {MaxSize, MaxLen, MaxRecs, MaxUnits} \subseteq Nat \ {0}
  /\ MaxLen <= MaxSize
  /\ LastFile \in Nat

Recs  == 1 .. MaxRecs
Files == Recs \X (0 .. LastFile)
NULL  == <<0, 0>>

VARIABLES
  \* lv_record_obj and lv_record_mode
  status,     \* record_status: "idle" or "run"
  stopped,    \* is_stopped
  fp,         \* record_fp: the FILE last opened, open or not, or NULL
  cnt,        \* written_cnt
  no,         \* file_no
  secft,      \* secft_handle is not NULL
  mode,       \* "normal" or "timeshift"
  \* the tasks, one per recording
  pc, len, wr,
  kind,       \* "file" (record_task) or "net" (stream_task)
  cancel,     \* the tasks with a cancellation pending
  \* the user interface
  ui,         \* where it is in a call, "menu" between calls
  lock,       \* pvr_mutex is held
  rec,        \* the recording started last
  \* the demux and the files
  filter,     \* the section filter and the PID filters are open
  next,       \* the number of the next unit of the stream
  data, pos,  \* the content of each file, the offset of its FILE
  opened,     \* the FILEs that are open
  crash,
  disturbed   \* history: recordings whose object a call changed under a living task

object == <<status, stopped, fp, cnt, no, secft>>
task   == <<pc, len, wr, cancel>>
call   == <<ui, lock, rec, kind, disturbed>>
disk   == <<data, pos, opened>>
vars   == <<object, mode, task, call, filter, next, disk, crash>>

Init ==
  /\ status = "idle" /\ stopped = FALSE /\ fp = NULL /\ cnt = 0 /\ no = 0
  /\ secft = FALSE /\ mode \in {"normal", "timeshift"}
  /\ pc = [t \in Recs |-> "none"]
  /\ len = [t \in Recs |-> 0] /\ wr = [t \in Recs |-> 0]
  /\ kind = [t \in Recs |-> "file"] /\ cancel = {}
  /\ ui = "menu" /\ lock = FALSE /\ rec = 0
  /\ filter = FALSE /\ next = 0
  /\ data = [h \in Files |-> [o \in {} |-> 0]] /\ pos = [h \in Files |-> 0]
  /\ opened = {} /\ crash = FALSE /\ disturbed = {}

Alive(t) == pc[t] \notin {"none", "done"}

\* CSDEMUX_Filter_ReadWait and ReadData work only on an open filter.
Usable == secft /\ filter

-----------------------------------------------------------------------------
(* Files. *)

\* fopen "w+b": an empty file.
Fopen(h) ==
  /\ fp' = h
  /\ opened' = opened \cup {h}
  /\ data' = [data EXCEPT ![h] = [o \in {} |-> 0]]
  /\ pos' = [pos EXCEPT ![h] = 0]

\* fclose; record_fp keeps its value.
Fclose ==
  /\ crash' = (fp # NULL /\ fp \notin opened)
  /\ opened' = opened \ {fp}
  /\ UNCHANGED <<data, pos>>

\* A file after n units from u on are written at offset p.
Put(d, p, u, n) ==
  [o \in DOMAIN d \cup p .. p + n - 1 |->
     IF o >= p /\ o < p + n THEN u + (o - p) ELSE d[o]]

\* fwrite of n units from u on to record_fp.
Fwrite(u, n) ==
  /\ data' = [data EXCEPT ![fp] = Put(@, pos[fp], u, n)]
  /\ pos' = [pos EXCEPT ![fp] = @ + n]
  /\ UNCHANGED opened

\* The buffer of a task holds the last len units read; u of them are written.
Unit(t, u) == next - len[t] + u

-----------------------------------------------------------------------------
(* The recording task.  Each action is a step of the task of recording t. *)

Goto(t, where) == pc' = [pc EXCEPT ![t] = where]

\* The same, with written_len, on which only the rest of a buffer depends.
GotoWith(t, where, n) == Goto(t, where) /\ wr' = [wr EXCEPT ![t] = n]

\* while( !is_stopped ); the streaming task then waits for another client.
Head(t) ==
  /\ pc[t] = "wait"
  /\ Goto(t, IF ~stopped THEN "poll" ELSE IF kind[t] = "file" THEN "done" ELSE "pause")
  /\ UNCHANGED <<object, mode, len, wr, cancel, call, filter, next, disk, crash>>

\* ReadWait and CheckDataSize: data, or 50 ms without any.
Poll(t) ==
  /\ pc[t] = "poll" /\ (Usable => t \notin cancel)
  /\ \/ Goto(t, "wait") /\ UNCHANGED len
     \/ /\ Usable /\ Goto(t, "read")
        /\ \E n \in 1 .. MaxLen : len' = [len EXCEPT ![t] = n]
  /\ UNCHANGED <<object, mode, wr, cancel, call, filter, next, disk, crash>>

\* ReadData asks for as much as it got before.  Without data, or on a closed
\* filter, the inner loop asks again and never looks at is_stopped.
Read(t) ==
  /\ pc[t] = "read" /\ Usable /\ t \notin cancel
  /\ \E n \in 1 .. len[t] :
       /\ next + n <= MaxUnits
       /\ len' = [len EXCEPT ![t] = n] /\ next' = next + n
  /\ Goto(t, IF kind[t] = "file" THEN "write" ELSE "send")
  /\ UNCHANGED <<object, mode, wr, cancel, call, filter, disk, crash>>

\* Fault: what fwrite returns is not looked at.
OutputUnchecked(t, u, want, ok, c) ==
  /\ IF fp \notin opened \/ want < 0
       THEN crash' = TRUE /\ UNCHANGED <<cnt, pc, wr, disk>>
       ELSE \E n \in 0 .. want :
              /\ Fwrite(Unit(t, u), n)
              /\ GotoWith(t, ok, IF ok = "after" THEN want ELSE 0) /\ cnt' = c
              /\ UNCHANGED crash
  /\ UNCHANGED <<status, stopped, fp, no, secft, mode, len, cancel, call, filter, next>>

\* fwrite to record_fp of n units out of want, the buffer's from unit u on:
\* fewer than wanted end the recording (the disk is full).  "ok" is where the
\* task goes otherwise, with c as written_cnt.
Output(t, u, want, ok, c) ==
  /\ IF fp \notin opened \/ want < 0
       THEN crash' = TRUE /\ UNCHANGED <<cnt, pc, wr, disk>>
       ELSE \E n \in 0 .. want :
              /\ Fwrite(Unit(t, u), n)
              /\ IF n = want THEN GotoWith(t, ok, IF ok = "after" THEN n ELSE 0) /\ cnt' = c
                             ELSE GotoWith(t, "fail", 0) /\ cnt' = cnt + n
              /\ UNCHANGED crash
  /\ UNCHANGED <<status, stopped, fp, no, secft, mode, len, cancel, call, filter, next>>

\* "Write to file. not allow bigger than MAX_FILE_SIZE."
Towrite(t) == IF cnt + len[t] > MaxSize THEN MaxSize - cnt ELSE len[t]

Rest(t) == len[t] - wr[t]

Write(t) ==
  pc[t] = "write" /\ Output(t, 0, Towrite(t), "after", cnt + Towrite(t))

\* The file is not full.
Continue(t) ==
  /\ pc[t] = "after" /\ cnt < MaxSize
  /\ GotoWith(t, "read", 0)
  /\ UNCHANGED <<object, mode, len, cancel, call, filter, next, disk, crash>>

\* Time shift: "Rewind to the beginning".
Rewind(t) ==
  /\ pc[t] = "after" /\ cnt >= MaxSize /\ mode = "timeshift"
  /\ crash' = (fp \notin opened)
  /\ pos' = IF fp \in opened THEN [pos EXCEPT ![fp] = 0] ELSE pos
  /\ IF Rest(t) > 0
       THEN Goto(t, "ring") /\ UNCHANGED <<cnt, wr>>
       ELSE GotoWith(t, "read", 0) /\ cnt' = cnt - MaxSize
  /\ UNCHANGED <<status, stopped, fp, no, secft, mode, len, cancel, call>>
  /\ UNCHANGED <<filter, next, data, opened>>

\* "If there is remaining data in buffer."
WriteRing(t) ==
  pc[t] = "ring" /\ Output(t, wr[t], Rest(t), "read", cnt + Rest(t) - MaxSize)

\* "If the file bigger than MAX_FILE_SIZE, create a new file."
Roll(t) ==
  /\ pc[t] = "after" /\ cnt >= MaxSize /\ mode = "normal"
  /\ Fclose
  /\ cnt' = 0 /\ no' = no + 1
  /\ IF no + 1 > LastFile THEN GotoWith(t, "fail", 0) ELSE Goto(t, "open") /\ UNCHANGED wr
  /\ UNCHANGED <<status, stopped, fp, secft, mode, len, cancel, call, filter, next>>

OpenNext(t) ==
  /\ pc[t] = "open"
  /\ \/ /\ <<rec, no>> \in Files /\ Fopen(<<rec, no>>)
        /\ IF Rest(t) > 0 THEN Goto(t, "rest") /\ UNCHANGED wr ELSE GotoWith(t, "read", 0)
     \/ fp' = NULL /\ GotoWith(t, "fail", 0) /\ UNCHANGED disk
  /\ UNCHANGED <<status, stopped, cnt, no, secft, mode, len, cancel, call>>
  /\ UNCHANGED <<filter, next, crash>>

\* Fault: the new file begins with the whole buffer.
WriteRestAgain(t) ==
  pc[t] = "rest" /\ Output(t, 0, Rest(t), "read", cnt + Rest(t))

WriteRest(t) ==
  pc[t] = "rest" /\ Output(t, wr[t], Rest(t), "read", cnt + Rest(t))

\* stop_record, called by the task when a file cannot be written or opened.
Fail(t) ==
  /\ pc[t] = "fail"
  /\ stopped' = TRUE /\ Fclose /\ Goto(t, "closing")
  /\ UNCHANGED <<status, fp, cnt, no, secft, mode, len, wr, cancel, call, filter, next>>

CloseFilters(t) ==
  /\ pc[t] = "closing"
  /\ filter' = (filter /\ ~secft) /\ Goto(t, "idle")
  /\ UNCHANGED <<object, mode, len, wr, cancel, call, next, disk, crash>>

\* Fault: the status is left alone.
BecomeIdleLate(t) ==
  /\ pc[t] = "idle" /\ Goto(t, "wait")
  /\ UNCHANGED <<object, mode, len, wr, cancel, call, filter, next, disk, crash>>

BecomeIdle(t) ==
  /\ pc[t] = "idle"
  /\ status' = "idle" /\ Goto(t, "wait")
  /\ UNCHANGED <<stopped, fp, cnt, no, secft, mode, len, wr, cancel, call, filter>>
  /\ UNCHANGED <<next, disk, crash>>

\* The task acts on a cancellation.
Die(t) ==
  /\ t \in cancel
  /\ \/ pc[t] \in {"poll", "read"} /\ Usable
     \/ pc[t] \in {"write", "ring", "after", "open", "rest", "fail", "closing",
                   "accept", "send", "pause"}
  /\ GotoWith(t, "done", 0)
  /\ UNCHANGED <<object, mode, len, cancel, call, filter, next, disk, crash>>

-----------------------------------------------------------------------------
(* The streaming task: socket, accept, and the same reads. *)

\* socket, bind and listen; the task ends when one fails.
Listen(t) ==
  /\ pc[t] = "listen"
  /\ \E where \in {"top", "done"} : Goto(t, where)
  /\ UNCHANGED <<object, mode, len, wr, cancel, call, filter, next, disk, crash>>

\* "WAITING FOR NEW CONNECTION"
Top(t) ==
  /\ pc[t] = "top"
  /\ stopped' = FALSE /\ Goto(t, "accept")
  /\ UNCHANGED <<status, fp, cnt, no, secft, mode, len, wr, cancel, call, filter>>
  /\ UNCHANGED <<next, disk, crash>>

\* accept, and the sleep before the next one.
Accept(t) ==
  /\ t \notin cancel
  /\ \/ pc[t] = "accept" /\ Goto(t, "wait")
     \/ pc[t] = "pause" /\ Goto(t, "top")
  /\ UNCHANGED <<object, mode, len, wr, cancel, call, filter, next, disk, crash>>

\* The loop over write; a failure means that the client is gone.
Send(t) ==
  /\ pc[t] = "send" /\ t \notin cancel
  /\ stopped' \in {stopped, TRUE} /\ Goto(t, "wait")
  /\ UNCHANGED <<status, fp, cnt, no, secft, mode, len, wr, cancel, call, filter>>
  /\ UNCHANGED <<next, disk, crash>>

-----------------------------------------------------------------------------
(* The user interface: CSMPR_Record_Start, CSMPR_Streaming_Start,            *)
(* CSMPR_Record_Stop and CSMPR_Record_SetMode.                               *)

\* pthread_mutex_lock( &pvr_mutex ); a mutex left locked is never released.
Lock(then) ==
  IF lock THEN ui' = "blocked" /\ UNCHANGED lock
          ELSE ui' = then /\ lock' = TRUE

\* The recordings among rs, if a task is still alive.
Interferes(rs) == IF \E t \in Recs : Alive(t) THEN rs \cap Recs ELSE {}

\* A recording is started only when none runs.
Begin(k) ==
  /\ ui = "menu" /\ rec < MaxRecs /\ status # "run"
  /\ Lock("service")
  /\ kind' = [kind EXCEPT ![rec + 1] = k]
  /\ UNCHANGED <<object, mode, task, rec, disturbed, filter, next, disk, crash>>

\* "Failed to get service info": the mutex stays locked.
NoService ==
  /\ ui = "service" /\ ui' = "menu"
  /\ UNCHANGED <<object, mode, task, lock, rec, kind, disturbed, filter, next, disk, crash>>

\* The file and the filters are opened.  Without a file the mutex stays locked;
\* a filter that is open already is not opened again.
Prepare ==
  /\ ui = "service"
  /\ \/ /\ kind[rec + 1] = "file"
        /\ fp' = NULL /\ ui' = "menu"
        /\ disturbed' = disturbed \cup Interferes({rec})
        /\ UNCHANGED <<rec, secft, filter, disk>>
     \/ /\ IF kind[rec + 1] = "file" THEN Fopen(<<rec + 1, 0>>) ELSE UNCHANGED <<fp, disk>>
        /\ secft' = ~filter /\ filter' = TRUE
        /\ disturbed' = disturbed \cup Interferes({rec, rec + 1})
        /\ rec' = rec + 1 /\ ui' = "reset"
  /\ UNCHANGED <<status, stopped, cnt, no, mode, task, lock, kind, next, crash>>

\* "Reset counters"
Reset ==
  /\ ui = "reset" /\ ui' = "create"
  /\ stopped' = FALSE /\ cnt' = 0 /\ no' = 0
  /\ UNCHANGED <<status, fp, secft, mode, task, lock, rec, kind, disturbed>>
  /\ UNCHANGED <<filter, next, disk, crash>>

\* pthread_create; the status is set once the task may have run.
Create ==
  /\ ui = "create" /\ ui' = "running"
  /\ Goto(rec, IF kind[rec] = "file" THEN "wait" ELSE "listen")
  /\ UNCHANGED <<object, mode, len, wr, cancel, lock, rec, kind, disturbed>>
  /\ UNCHANGED <<filter, next, disk, crash>>

Running ==
  /\ ui = "running" /\ ui' = "menu"
  /\ status' = "run" /\ lock' = FALSE
  /\ UNCHANGED <<stopped, fp, cnt, no, secft, mode, task, rec, kind, disturbed>>
  /\ UNCHANGED <<filter, next, disk, crash>>

\* CSMPR_Record_Stop: the flag and pthread_cancel.
Halt ==
  /\ ui = "menu" /\ status = "run"
  /\ Lock("close")
  /\ IF lock THEN UNCHANGED <<stopped, cancel>>
             ELSE stopped' = TRUE /\ cancel' = cancel \cup {rec}
  /\ UNCHANGED <<status, fp, cnt, no, secft, mode, pc, len, wr, rec, kind, disturbed>>
  /\ UNCHANGED <<filter, next, disk, crash>>

Close ==
  /\ ui = "close" /\ ui' = "filters"
  /\ Fclose
  /\ UNCHANGED <<object, mode, task, lock, rec, kind, disturbed, filter, next>>

\* Fault: the filters are left open.
KeepFilters ==
  /\ ui = "filters" /\ ui' = "idle"
  /\ UNCHANGED <<object, mode, task, lock, rec, kind, disturbed, filter, next, disk, crash>>

Filters ==
  /\ ui = "filters" /\ ui' = "idle"
  /\ filter' = (filter /\ ~secft)
  /\ UNCHANGED <<object, mode, task, lock, rec, kind, disturbed, next, disk, crash>>

Idled ==
  /\ ui = "idle" /\ ui' = "menu"
  /\ status' = "idle" /\ lock' = FALSE
  /\ UNCHANGED <<stopped, fp, cnt, no, secft, mode, task, rec, kind, disturbed>>
  /\ UNCHANGED <<filter, next, disk, crash>>

\* The task reads the mode whenever a file is full: one set by CSMPR_TMS_Start
\* while it records turns the file it is at into a ring.
SetMode(m) ==
  /\ ui = "menu" /\ mode # m /\ mode' = m
  /\ disturbed' = disturbed \cup (IF m = "timeshift" THEN Interferes({rec}) ELSE {})
  /\ UNCHANGED <<object, task, ui, lock, rec, kind, filter, next, disk, crash>>

-----------------------------------------------------------------------------
TaskStep(t) ==
  \/ Head(t) \/ Poll(t) \/ Read(t) \/ Write(t) \/ Continue(t) \/ Rewind(t) \/ WriteRing(t)
  \/ Roll(t) \/ OpenNext(t) \/ WriteRest(t) \/ Fail(t) \/ CloseFilters(t) \/ BecomeIdle(t)
  \/ Die(t) \/ Listen(t) \/ Top(t) \/ Accept(t) \/ Send(t)

\* The rest of a call that has begun.
CallStep ==
  \/ NoService \/ Prepare \/ Reset \/ Create \/ Running \/ Close \/ Filters \/ Idled

Next ==
  /\ ~crash
  /\ \/ \E t \in Recs : TaskStep(t)
     \/ CallStep
     \/ \E k \in {"file", "net"} : Begin(k)
     \/ Halt
     \/ \E m \in {"normal", "timeshift"} : SetMode(m)

Spec == Init /\ [][Next]_vars

\* The threads are scheduled.
FairSpec ==
  /\ Spec
  /\ WF_vars(~crash /\ CallStep)
  /\ \A t \in Recs : WF_vars(~crash /\ TaskStep(t))

-----------------------------------------------------------------------------
(* Properties. *)

Places == {"none", "wait", "poll", "read", "write", "after", "ring", "open", "rest",
           "fail", "closing", "idle", "done", "listen", "top", "accept", "send", "pause"}

\* The types of the variables.
TypeOK ==
  /\ status \in {"idle", "run"} /\ stopped \in BOOLEAN /\ fp \in Files \cup {NULL}
  /\ cnt \in Int /\ no \in Nat /\ secft \in BOOLEAN
  /\ mode \in {"normal", "timeshift"}
  /\ pc \in [Recs -> Places]
  /\ len \in [Recs -> 0 .. MaxLen] /\ wr \in [Recs -> Nat]
  /\ kind \in [Recs -> {"file", "net"}]
  /\ cancel \subseteq Recs
  /\ ui \in {"menu", "blocked", "service", "reset", "create", "running", "close",
              "filters", "idle"}
  /\ lock \in BOOLEAN /\ rec \in 0 .. MaxRecs
  /\ filter \in BOOLEAN /\ next \in Nat
  /\ data = [h \in Files |-> data[h]]
  /\ \A h \in Files : \A o \in DOMAIN data[h] : o \in Nat /\ data[h][o] \in Int
  /\ pos \in [Files -> Nat] /\ opened \subseteq Files
  /\ crash \in BOOLEAN /\ disturbed \subseteq Recs

Empty(h) == DOMAIN data[h] = {}
Whole(h) == DOMAIN data[h] = 0 .. MaxSize - 1

\* A file of content d has no hole and is not longer than its limit; the offset p
\* is at its end, or inside it when it is a ring.
Fits(d, p) ==
  /\ DOMAIN d \subseteq 0 .. MaxSize - 1
  /\ \A o \in DOMAIN d : 0 .. o \subseteq DOMAIN d
  /\ p <= MaxSize /\ 0 .. p - 1 \subseteq DOMAIN d
  /\ p \in DOMAIN d => DOMAIN d = 0 .. MaxSize - 1

\* Its units follow one another, also over the end of a ring.
Follows(d, p) ==
  /\ \A o \in DOMAIN d : o + 1 \in DOMAIN d /\ o + 1 # p => d[o + 1] = d[o] + 1
  /\ p \in DOMAIN d \ {0} => d[0] = d[MaxSize - 1] + 1

\* A file goes on where the one before it, which is full, ends.
Joined(r, f) ==
  ~Empty(<<r, f + 1>>) =>
    Whole(<<r, f>>) /\ data[<<r, f + 1>>][0] = data[<<r, f>>][MaxSize - 1] + 1

\* Unless a call changed the object under its living task (a start before the last
\* task has ended, a change to time shift), the files of a recording hold the
\* stream in order and without a gap, whatever the disk, the filter and the user
\* interface do.
Seamless ==
  \A r \in Recs \ disturbed :
    \A f \in 0 .. LastFile :
      /\ LET h == <<r, f>> IN Fits(data[h], pos[h]) /\ Follows(data[h], pos[h])
      /\ f < LastFile => Joined(r, f)

\* The recording has written the stream up to unit u, u not included.
Reached(u) ==
  LET h == <<rec, no>> IN
  /\ pos[h] > 0 => data[h][pos[h] - 1] = u - 1
  /\ pos[h] = 0 /\ ~Empty(h) => data[h][MaxSize - 1] = u - 1
  /\ Empty(h) /\ no > 0 =>
       Whole(<<rec, no - 1>>) /\ data[<<rec, no - 1>>][MaxSize - 1] = u - 1

\* A recording that goes on has written all that it read.
Complete ==
  /\ rec > 0 /\ rec \notin disturbed /\ kind[rec] = "file" /\ ~crash
  /\ pc[rec] \in {"wait", "poll", "read"} /\ ~stopped
  => fp = <<rec, no>> /\ Reached(next)

\* Between recordings no file and no filter stays open.
Released ==
  status = "idle" /\ ui = "menu" /\ disturbed = {} /\ ~crash
  => opened = {} /\ ~filter

\* A recording that fails gives everything back and becomes idle, so that another
\* can be started, unless a call interferes.
FailureEnds ==
  \A t \in Recs :
    pc[t] = "fail" ~> \/ status = "idle" /\ opened = {} /\ ~filter
                      \/ t \in disturbed \/ crash

=============================================================================
