# Verification of the Chipbox set-top box software

The repository is the software of a Linux set-top box: an application
(`Mvapp`: menus, middleware, a "system" layer of services), a library of driver
wrappers with some services of its own (`csapi`), inter-process messages
(`mvapi`), and third-party programs.  This directory holds TLA+ models of the
parts of it that keep state between several threads, the TLC configurations that
check them and the TLAPS proofs about them.

## 1. Inventory

### 1.1 Components, state, operations

| component | source | state | operations |
|---|---|---|---|
| date and time | `Mvapp/system/limit/date_time` | `sCS_DT_Info` (broadcast and local time, zone, flags, `LastUpdate`), client table, OS-time job | TDT/TOT section, idle task every 30 s, manual time and zone, register/unregister, notify |
| timer jobs | `Mvapp/system/limit/timer` | nine jobs, the armed action, a queue of 20 messages, the copy in the EEPROM | boot, clock callback, timer task, save/clear a job, reset, queries |
| EEPROM | `Mvapp/system/limit/e2p` | one device, one semaphore | read, write |
| OS layer | `Mvapp/csmid`, `Mvapp/mvmid` | queues, semaphores, the OS clock, network time | wrappers |
| settings | `Mvapp/middleware/src/mwsetting.c` | user database | time mode, zone, summer time, ... |
| start-up, services | `mwlayers.c`, `mwsvc.c`, `sys_setup.c` | order of initialisation, current service | init, play, stop, network-time thread |
| user interface | `Mvapp/app` | menus | calls of all the above |
| event dispatcher | `csapi/csevt` | 1024 entries (descriptor, events, callback, user data, flag), one thread | register, unregister, report, dispatch |
| recorder | `media_player/csmpr_recorder.c` | status, stop flag, `record_fp`, bytes written, file number, filters, `pvr_mutex`, a task per recording | start a recording or a network stream, stop, change of mode |
| player | `media_player/csmpr_player.c` | status, position, file number and place in it, descriptor, one semaphore, a task per play | start, stop, pause, resume, speeds, choose and confirm a place |
| USB disks | `media_player/csmpr_usb.c` | status, names listed, table of what is mounted, count | the task that detects, mounts and unmounts; removal from the main menu |
| time shift | `media_player/csmpr_tms.c` | mode | not modelled: `CSMPR_TMS_Start` has no caller |
| driver-level recorder, player | `csapi/csrec_new`, `csapi/csplayer_new` | status, file, task | not modelled: the application uses the pair above |
| demux slots | `Mvapp/system/limit/demux` | filter and PES slots, one semaphore | create, delete, read |
| section/EIT engine | `eit_engine`, `parser` | live sections, EIT lists, monitor task | start/stop section, parse |
| IPC | `imsg`, `mvapi/mvipc` | two queues | send, receive, dispatch |
| channel change | `av_zapping` | decoder and demux state | play, stop, blank |
| database | `database` | services, transponders, lists | edit, sort, save |
| search, front end | `ch_install`, `fe_mngr` | search state, lock state | start, step, stop |
| drivers, OSCam, open source | `csapi/*`, `oscam`, `open_sources` | devices | not modelled: device access, third party |

### 1.2 Interaction

`CS_MW_Init` starts the clock (`CS_DT_Init`) and then the timer
(`CS_TIMER_Init`), which loads its jobs, computes the armed action and registers
`TIMER_DTUpdate_Callback` with the clock.  From then on every change of the
local time ends in `DT_Notify`, which calls the registered clients in the thread
that made the change: the idle task, the SI thread that received a section, or
the menu.  The callback compares the delivered minute with the armed action and
sends a message; the timer task expires jobs, saves the table, arms the next
action and tells the user interface.  The user interface saves jobs under the
same semaphore, and every evaluation of a job asks the clock for the date and
the time again.  `clock_settime`, called by four places, moves the OS clock the
idle task counts by.

The recorder, the player and the USB task are three threads (one more per
recording and per play) beside the user interface.  Each shares one global
object with the user interface: the recorder's task takes no lock at all, the
player's only for the position, and the USB task shares its tables and status
with the menu without any.  They meet in the file system: the directories the
USB task mounts and removes hold the files the other two have open.

### 1.3 What is hard here

* The date and the time of day are read, delivered and compared in several
  steps without a common lock.
* The callback runs in the clock's threads, takes the timer's semaphore and may
  block on a full queue that only the timer task empties.
* `CS_TIMER_Reset` takes no semaphore.
* The EEPROM image is written in two pieces that a power failure can separate.
* The clock moves in both directions, by any amount, during every loop.
* The arithmetic is BCD, 8 and 16 bits wide, over a wrapping clock.
* A stopped recording or play is cancelled, not waited for: its task goes on to
  its next cancellation point, with the same object the next start resets.
* A buffer of the recorder may end one file and begin the next, or end the ring
  and begin it again; each `fwrite` may be short and each `fopen` may fail.
* The player's task and the user interface change to another file with the same
  sequence of calls on one descriptor and one name.
* `rm -rf` follows every `umount`, whether it succeeded or not, and its result
  replaces the one of `umount`.
* A disk may be pulled, and another plugged in, between any two looks at it;
  what was mounted of it stays mounted.

`PROJECT.json` lists these hazards at their lines with the properties that
cover them, and says of the others, or of what remains of them, why no property does.

### 1.4 What makes each component correct

* clock: no minute lost or counted twice; every change is notified; the local
  time is the broadcast time in the zone; the calendar is right.
* timer: jobs do not overlap; the EEPROM is the table; the armed action is the
  earliest one and is not missed; nothing still ahead is erased; nobody waits
  for good.
* event dispatcher: a reported event reaches its callback, a callback is only
  called for a live registration, `select` covers every descriptor.
* recorder: the files hold the stream in order and without a gap, to the last
  unit read; a stop or a failure gives files and filters back and ends.
* player: what is read is what the position says, from the beginning of a
  packet, in order and to the end; a rewind stops at the beginning; the files
  are closed, each once, and the task ends.
* USB disks: no file of a disk that is plugged in is deleted; the table names
  what is mounted; "mounted" means all partitions, "unmounted" none; the status
  follows the disks.

## 2. Modules

| module | what it is | code |
|---|---|---|
| `LocalClock` | abstract specification of the clock: a local time, the threads that change it, the delivery of the two halves of each notification | what `date_time.c` promises its clients |
| `DateTime` | the clock in detail | `date_time.c`, `CS_OS_time_now`, the setters of `mwsetting.c` and `cstimesetting.c` |
| `DateTimeArith` | BCD, calendar and weekday arithmetic as operators on the code's widths | the conversion functions of `date_time.c` |
| `Timer` | `EXTENDS LocalClock`: the timer jobs with the clock's promise as their environment | `timer.c`, the writes of `e2p.c` |
| `EventRegistry` | abstract specification of the dispatcher: a set of registrations, and a thread that makes one callback at a time | what `csevt.c` promises its clients |
| `EventDispatcher` | the dispatcher: its table, the calls, the thread `notify_proc` | `csevt.c` |
| `Recorder` | the user interface's calls, the recording task and the streaming task, the files | `csmpr_recorder.c` |
| `Player` | the user interface's calls and keys, the player task, the descriptor | `csmpr_player.c` |
| `UsbConnection` | the USB task and the removal, with disks, `/dev`, mounts and shell commands as their environment | `csmpr_usb.c`, the removal in `mainmenu.c` |
| `MCTimer`, `MCDateTime`, `MCEventDispatcher`, `MCRecorder`, `MCPlayer`, `MCUsbConnection` | small sets of jobs, zones and disks, and state constraints, for TLC | |
| `MCDateTimeArith` | two walks that compare `DateTimeArith` with a calendar and with minutes | |
| `TimerProofs`, `TimerArmedProofs`, `DateTimeProofs`, `DateTimeArithProofs`, `EventDispatcherProofs`, `RecorderProofs`, `PlayerProofs`, `UsbConnectionProofs` | the theorems and their proofs | |

`Timer` is composed with the clock by extension (their steps interleave, the
clock's variables are `local`, `npc`, `arg`); `DateTime` implements the same
`LocalClock` by a refinement mapping, so what is shown of `Timer` with the
abstract clock is relevant for the clock in the code.  `EventDispatcher`
implements `EventRegistry` in the same way.

### 2.1 Correspondence

`map` in `PROJECT.json` gives the lines of every definition.  In short:

* A time is one number, `mjd * DayLen + minute`.  `OrderKept` and `MinutesKept`
  justify it: the packed words compare like minutes, and the BCD additions add
  minutes.
* `sem_Timer_Access` is `who`.  Only its holder runs loops, so the loops' locals
  are one set of registers (`phase`, `idx`, `mjd`, `cand`, `act`).  `ReadMjd` is
  the first of the two reads of the clock; the action that follows it makes the
  second.  Slots a loop merely skips take no step.
* `TIMER_DTUpdate_Callback` is `Callback` (copy and compare) and `Send` (the
  blocking `mq_send`).
* `TIMER_EvtHandle` is `Receive`, `TaskLock`, then `ExpireSlot`, `WriteHead`,
  `WriteBody`, `EvalCandidate`, `EvalSlot`, `Notify` and `Report`; a save is `Ask`,
  `CheckNew`, `OverlayNew`, `OverlayOld`, `Store` and the same save and
  computation; boot is `Load`, the same, and `CleanSleep`.
* Between `Notify` and `Report` the task is in `Timer_Notify` (which is always
  `MV_Timer_Notify`) with the semaphore held; other threads run meanwhile.
* `PowerFail` is enabled everywhere.  A body write that it interrupts has
  written the first `k` slots.
* In `DateTime` each setter's critical section is as many steps as it makes
  stores another thread can load without the semaphore; the idle task's is one,
  because nothing it stores is loaded half-done: its two stores are either both
  before or both after any combination of loads that `LoadHalf` produces
  separately.
* Uninitialised fields of `RecentJob_time` are a choice over `GarbageTimes` and
  both actions.
* In `EventDispatcher` each call is one step: it holds `evt_mutex` from its
  first access to the table to its last.  `notify_proc` is `Top`, `Scan` (entry
  by entry, without the mutex), `Lock` and three loops (`build` the sets,
  `dispatch` after `select`, `poll` for the bad descriptor).  A loop runs to its
  next callback in one step (`Reach`, the mutex is released), loads the callback
  from the entry (`Call`), and takes the mutex again (`Return`), which is also
  where `build` clears the mark and `poll` frees the entry.  Between these three
  steps any call may be made.  An entry that was cleared before `Call` has no
  callback, and the process ends (`crash`).  The history variable `due` has every
  descriptor with a report that no callback has been made for, and `lost` those
  of them whose mark was cleared when the callback had returned.
* The mapping from `EventDispatcher` to `EventRegistry` forgets the table: the
  registrations are the entries in use without their places, the stage of the
  callback is the place of the thread (`chosen` while the mutex is released and
  the entry not yet loaded, `called` until the mutex is taken again), its reason
  is the loop, and its target is the descriptor that has the entry the loop
  stands at.  The target is where the abstraction has to be careful: while the
  mutex is released that entry may be freed (`Nobody`) and given to another
  descriptor, whose client is then called in its place.
* In `Recorder` the stream is a row of numbered units, a read takes the next
  ones, and a file is a function from offsets to units, so that a gap, a
  repetition or an overwritten part shows in the file itself.  The task's loop is
  `Head`, `Poll` (wait for data), `Read`, `Write`, and then `Continue`, `Rewind`
  and `WriteRing` (time shift) or `Roll`, `OpenNext` and `WriteRest`;
  `stop_record` in the task is `Fail`, `CloseFilters`, `BecomeIdle`.  `Begin` to
  `Running` is a start, `Halt` to `Idled` a stop, with `pvr_mutex` as `lock`; the
  start's returns that leave it locked are `NoService` and the failure of
  `Prepare`, and a call that then waits is `blocked`.  A `FILE` that is closed or
  written when it is closed is undefined: the model ends (`crash`).
* In `Player` the task is `Top`, `Load` (the switch on the speed), `Skip`,
  `Edge`/`Origin`/`Zero`/`Replay` (the beginning of a rewind), `File`, then the
  change to another file, then `Read`, `Advance`, `End` and the notifier
  (`Hook`, `Notify`, `Shut`).  The change `Name`, `Open`, `Store`, `Aim`, `Lseek`
  is written once, as `FileStep`, for the task and for
  `CSMPR_Player_Set_Position`, which have it twice in the code.  `sem` is held by
  the user interface only; the task takes and returns it within one step.  Keys
  carry the menu's own tests of the status.  What is read is compared with
  `heard`, how far the stream has been delivered in order.
* In `UsbConnection` the task is `Watch`, `Again`, `Settle` or `Gone` (looks
  with sleeps between), `Scan`, then for each name `MakeDir` (which writes the
  command), `MountSlot` or `MountRefused`, and `Store` (the entry of the table,
  with the name as it is by then), and `NextTry`.  `UsbCon_Umount` is `Umount`
  (the test and the command), `Detach` (umount), `Look` (the next command),
  `RemoveDir` (rm) and `Finish`, for the task and for the user interface
  (`Eject`), each with its own index but one table and count.
  `mnt` holds for every directory what is mounted on it, one on top of the other.

### 2.2 Abstractions and bounds

* Services and printing are left out; the queries change nothing.
  `MV_Timer_Notify` (`timer.c:847`), which draws, sleeps for a second and tunes,
  is assumed to return: were it to block, so would every saver and, with a full
  queue, the clock.  Allocation in `TIMER_SendMessage` succeeds.
* An EEPROM slot is written or not; a torn slot is not modelled.
* The loop of `CS_TIMER_Reset` is one step; its two writes are steps.
* `DT_Notify` hands a client the event it registered for (`MINUTE` for the
  timer), so the branch of the callback for `eCS_DT_MANUAL`, and with it the
  task's case `MANUAL_TIME`, is reachable in the model only if `CallbackEvent`
  is changed.
* The bound 0xA800 on a weekly duration is never reached by a BCD time and is
  not part of `Refused`.
* The setters of `DateTime` are called in any order, which contains the orders
  of the menu and of the network time.
* Bounds, all named: `Horizon` stops the idle task (`Timer`); `Late` is how late
  the idle task may be and `Span` how many ticks are counted after a setting
  (`DateTime`); `LastDate` ends the calendar at the last day the formulas are
  made for.
* In `EventDispatcher` reading, writing and exceptions are one event `io`; the
  user data handed to callbacks is left out; descriptors outside the table's
  range, which the calls refuse, are not passed; `select` is not interrupted by
  signals.  A callback's own calls are those of the other threads.  Nothing is
  bounded but the number of descriptors.
* The time cannot pass the last 16-bit date by counting (`UpdateTimeByOS`).
* In `Recorder` the text file beside a recording, the stream's parameters and
  what a network client does with its data are left out.  A read on a closed
  filter returns no data for good.  An error of `fclose` when it flushes
  (`csmpr_recorder.c:313`, not looked at by the code) is not modelled: what
  `fwrite` has taken is in the file.  Neither are the sockets of the streaming,
  which a stop closes before all else (lines 833-838).  Bounds: `MaxRecs` starts, `MaxUnits` units of
  the stream; `MaxSize`, `MaxLen` and `LastFile` are the code's limits made small.
* In `Player` 2X and 4X are one status, and so are the four speeds of a rewind
  (they differ in delays); 8X and 16X are one status that chooses how far it
  skips.  A read fails only at the end of a file; `open` may fail at any time.
  Time shift is left out, and so is the empty last file of a recording that is an
  exact multiple of the file size.  Bounds: `MaxPlays` starts, `MaxKeys` keys; `Buf`,
  `MaxSize`, `LoadPlay`, `LoadTrick` and `Parts` are the code's constants made
  small.
* In `UsbConnection` the three mount commands for a partition (one per file
  system) are one success or one refusal; there are at most `PARTITION_NUM`
  partitions; `UsbCon_Task` is given no notifier, so notifications and
  `mount_fail_cnt`, which only they use, are left out; formatting
  (`mvstorageinfo.c`) is not modelled.  Bounds: `MaxPlugs` times a disk is
  plugged in; `Tries` is the code's 3.
* State constraints: `SomeUndisturbed` (recorder) and `Untangled` (player) end
  the search where the properties, by their history variables, say nothing any
  more.  `Untangled` cuts a second play once something has been mixed; only
  `Aligned` speaks of such states, and it is proved for them.  The search goes
  through every overlap of the first play.  `Few` (USB) is a bound: beside refused
  mounts one kind of accident happens, and the search ends with a second.  For
  `Preserved`, `AllMounted`, `Listed` and `AllReleased` the theorems have no such
  bound; for `PullNoticed` and `MountedAtLast` runs with two kinds of accident are
  not searched.  The other runs have no constraint.

## 3. Runs

| run | shows | instance |
|---|---|---|
| `jobs` | `ArmedSound`, `NoOverlap`, `Mirror`, `NoMissedAction` | 3 slots; a one-time window, a job that begins as it ends, a daily window over midnight, a weekly job; 2-day weeks; power failures |
| `settings` | `Covered`, `KeepsFutureJobs`, `HoldEnds` | 2 slots, two one-time jobs; one thread, the section's, sets the clock forth and back over midnight during every loop; power failures |
| `notify` | `NotifyReturns`, `TaskReturns` | 2 slots, one job; the idle task and the section notify the same minute, with loads out of order; a queue of one message; fairness |
| `clock` | `TypeOK`, `NoDrift`, `ImplementsClock` | OS clock of 6 ticks, 2 ticks a minute, days of two hours of a minute, two dates before they wrap, the idle task up to 3 ticks late, all threads and setters |
| `arithmetic` | `CalendarKept`, `MinutesKept`, `OrderKept` | every day from 9 January 1971 to 28 February 2100; 1440 minutes against 214 operands |
| `dispatcher` | `Unique`, `NeverFull`, `MaxCovers`, `FlagIsReport`, `ImplementsRegistry`, `ReportDelivered`, `DataDelivered`, `LockReleased`, `TermReturns` | two descriptors, two entries, registered for all events or none; descriptors closed and opened again at any time |
| `recorder` | `Seamless`, `Complete`, `Released`, `FailureEnds` | two recordings or streams, 6 units, two files of 3 units, reads of up to 2; disk full at any write, no file at any open, cancellation at any point |
| `player` | `Aligned`, `InPlace`, `Played`, `Released`, `TaskEnds` | a recording of one file (7 units) and one of three (21 units, files of 8), buffers of 2; two plays, two keys at any two points |
| `usb` | `Preserved`, `AllMounted`, `Listed`, `AllReleased`, `PullNoticed`, `MountedAtLast` | two disks of one partition, listed in either order, two plugs, three rounds; names later than the disk, refused mounts, open files, removal at any point; fairness |

Why these bounds are enough to be interesting: three slots are the fewest with
a slot before, at and after the one saved besides the sleep slot; days of two or
three minutes put every midnight into the loops; a queue of one message is full
as soon as one message waits; the OS clock wraps within `Span`.  Two descriptors are the fewest with
another entry before and after the one whose callback runs, and with entries in
the opposite order of their descriptors.  Files of 3 units with reads of 2 make
buffers that end with the file and buffers that are split; two recordings are
the fewest with a task that outlives its own.  A recording of 7 units ends in the
middle of a buffer, and 21 units in three files have a first, a middle and a
short last file; two keys between any two steps of the task contain every race of
one call and every pair (choose a place and confirm it, speed and stop).  Two
partitions can be listed in two orders, and two plugs let a disk be pulled and
come back before, in and after each round.

The following runs show statements of the repository that the code does not
keep; each checks one property and finds it violated.

| run | property | statement |
|---|---|---|
| `sleep` | `SleepTimerCleaned` | "Sleep Timer Clean", `timer.c:636`: the slot is cleaned after the action was armed |
| `broadcast` | `BroadcastTimeKept` | "Local time after applying offset", `date_time.h:66`: the jump of the OS clock is counted as time passed |
| `rewind` | `RewindResumes` | "fast rewinds to the beginning, resume to playback", `csmpr_player.c:177`: a resume between the step back and the test for the beginning leaves the position before the beginning |

Two disagreements more are in `Timer` and follow from its definitions; no run is
kept for them.  "Everyday" (`english.h:392`): at its own minute a daily job without
a duration is neither moved to the next day (`CatchUp`, `timer.c:115`) nor ahead
(`HasAction`, `timer.c:158`), so once it has fired nothing arms it until another
message or save.  "Every Week" (`english.h:393`): `WeekShift` counts the days to the
weekday from the saved date and not from today's (`timer.c:128`), so a job saved for
another day than today's is armed for a wrong weekday.

### 3.1 What the properties leave out, and why

* `NoOverlap`, `Mirror`: the sleep slot, which boot clears in memory only.
* `Covered`, `NoMissedAction`: an armed action that was computed while the clock
  moved (`moved`).  The code evaluates the slots at different times then, and
  TLC shows both properties false without this condition.
* `ArmedSound`: slots erased without a new computation (`stale`), which is what
  `CS_TIMER_Reset` and the boot do; and the value of no action (`Never`), beside
  which the code keeps an end and an action it has never set.
* `KeepsFutureJobs`: a save of the slot under way, `CS_TIMER_Reset`, and the case
  that the date was read before the clock was set back over midnight and the time
  of day after it (`timer.c:309`): the time put together is ahead of every time
  shown, and a job that ends less than a day ahead is erased.  TLC finds that case
  in the run.
* `NoDrift`: a setting of the OS clock that `LastUpdate` has not followed
  (`skew`); `BroadcastTimeKept` shows what happens then.
* `FlagIsReport`, `ReportDelivered`: reports made while the callback of the same
  entry runs, of the registration it is called for or of one that has the entry
  by then.  The code erases them when it clears the mark (`csevt.c:316`).  They
  are not left out of `due` but move to `lost`, so that both properties say that
  this is the only way to lose one.
* `ReportDelivered`, `DataDelivered`, `TermReturns`: runs that end in the call
  through an entry unregistered between the release of the mutex and the load.
* `DataDelivered`: clients that go on registering and closing descriptors; each
  closed one makes `select` fail for all others.
* `Seamless`, `Complete`, `FailureEnds`: recordings in `disturbed`, whose object a
  start (the last task not yet ended) or a change to time shift changed under
  their living task; there the code does mix two recordings.  `Released`: no
  recording may be.  A `crash` ends the run.  It has three causes, each a FILE that
  is closed twice: the thousandth file, a stop after a streaming that followed a
  recording, and a stop in the roll, after the full file was closed and before the
  next is stored (lines 313 to 329).
* `InPlace`, `Played`, `Released`: a run in which the user interface
  was in a call while the task changed files or came to an end, in which a task
  outlived the next start, or in which a key fell between the step back of a
  rewind and its check for the beginning (`mixed`).  TLC finds each of them
  breaking a property without this condition.  `Aligned` has none.  `TaskEnds` has
  none for the first play: whatever keys, stops and changes of the place overlap
  with its task, it ends.  A later play is excepted once something was mixed
  (`Entangled`): its task shares the object with one that has outlived it.
* `Preserved`: `busy` (a file is open when its disk is unmounted, so `rm -rf`
  deletes what `umount` left mounted), `shifted` (the names come in another
  order while something is mounted) and `both` (the task and the menu unmount or
  mount at once).  Each of the three does lose files; the instance is too small for
  `shifted` to do so.
* `Listed` leaves nothing out but the time in `UsbCon_Umount`.  It may look false:
  the user interface reads a directory's name, the task mounts a partition anew on
  it, the user interface unmounts that, and the task stores its entry.  But it stores
  the name that is in `acUsbDevFileName` by then (`csmpr_usb.c:376`), which the user
  interface has cleared; with the name of the command in its place (the mutant
  `LabelMounted`) TLC finds `Listed` violated by just these steps.
* `AllReleased`: these three and `retry`, a round that clears the table while
  something is mounted.  `MountedAtLast`: `retry` and `refused`, because a
  partition that an earlier round mounted is never counted again, so one refused
  mount makes the whole call fail.  It admits `unmounted`, which also comes
  about when a disk comes back within the four seconds after it was pulled.
* `AllMounted`: a mount during which a disk, a name or the user interface moved
  (`calm`).

### 3.2 Fairness

`FairSpec` assumes that threads are scheduled (weak fairness of each thread's
steps) and strong fairness for the two waits on `sem_Timer_Access`: POSIX
semaphores wake a waiter when they are signalled, so a waiter is not passed over
for ever while the holders keep signalling.  For the dispatcher it
assumes that its thread is scheduled, that callbacks return and that the thread
gets the mutex, which the calls hold for a bounded time.  For the recorder, the
player and the USB task it assumes that threads are scheduled and that calls the
user interface has begun go on; for the USB task also that sleeps end and that
the kernel at last removes the names of a pulled disk (`Vanish`).  `FailureEnds`
and `TaskEnds` hold also when no further key is pressed; `PullNoticed` and
`MountedAtLast` say what happens once the disks come to rest.  Nothing is
assumed of the user interface between its calls, of settings, of disks or of the
power: they may act at any time or never.

## 4. Proofs

`tlapm` checks every leaf; the backends are SMT, Zenon and PTL.

`TimerProofs` proves `Spec => []IInv` for any number of slots, threads, jobs,
times and any queue length, from the two assumptions on the constants.  `IInv`
is needed because neither `NoOverlap` nor `Mirror` is inductive:

* `ControlOK`: which thread may be in which phase (so a loop index is a slot);
* `EepromOK`: the EEPROM equals the table except in named windows, and an EEPROM
  without a header is untouched;
* `ApartOK`: not only the jobs in memory are apart, but also those in memory from
  those in the EEPROM, because a power failure mixes the two tables;
* `LoopOK`: the job being saved is apart from all slots the loop has passed.

The proof has a lemma per conjunct and a step per action.  `TypeCorrect`,
`NeverOverlap` and `EepromMirrors` follow.  `FutureJobsKept`, an action property,
needs two facts more: `SavedOK`, every enabled slot of the table is in the EEPROM
but for the one being saved (what a power failure then finds), and `PeakOK`, no date
a loop has read is later than the times shown.

`TimerArmedProofs` goes on with the armed action.  `AInv` proves `ArmedSound` and
`Covered` from the modules' assumptions alone; the loop evaluates every slot, and
its candidate again and again, at a time of its own, so it needs

* `ReadOK`: the date that an evaluation has read is today's while the clock stands
  still;
* `SoundOK`: the candidate, and outside the loop the armed action, is an occurrence
  of its job; this rests on `ShiftDays` (a job is moved by whole days);
* `CoverOK`: while the clock stands still, the candidate begins no later than the
  one-time jobs ahead that the loop has passed.

`NothingPassedBy` proves `NoMissedAction` under `Alone` (the idle task alone moves the
clock, by single minutes), the case the property is about.  `DInv` adds `Loads` (the
callback is called with the local time), `Busy` (the task works on a message) and
`DueOK` (an armed action whose minute has come is in the callback, in the queue or
with the task).

`DateTimeProofs` proves `IInv` (types, `Complete`, `IdleApart`, `InTime`,
`NoDrift`).  `NoDrift` rests on lemmas on `%` and `\div`: the wrapped difference
is the true one while the idle task is less than half the range late, and the
hours that pass through the narrow types are kept while it is less than 160
hours late; both are conditions on `Late` in `DateTimeAssumption`.  The run is late
by a minute and a half at most, so it shows the wrap and not the narrow types.
`Refinement` shows step by step that `DateTime` implements `LocalClock`.

`DateTimeArithProofs` proves what the arithmetic of `DateTimeArith` does, for every
value and not only for those the walks meet:

* `MinutesAdded`: on every day, for every time of the day and every operand that
  four digits can hold, the BCD sum and difference are those of the minutes.  `DigitsRead` reads the digits
  of a packed time, `AddIsSum` and `SubtractIsDifference` follow the carries, and
  `Carried` takes them into the 16-bit date.
* `WordsOrdered`: the packed words of any two days and times compare like minutes
  (`OfOrdered`).
* `DateSurvives`: every date from January 1971 to 28 February 2100 comes back from
  its day number.  The years begin in March here, so that a leap day is the last
  day of one: `YearRounded` shows that the factor 365.25 in its fixed-point form
  gives the year, `MonthTable` the same of the months and their factor 30.6001.

These leave no induction: each statement is arithmetic with constants.  `IInv` of
the walks is that `date` is a date of the range and `mjd` and `weekday` are those of
`date`; `TomorrowCounts` shows that the calendar's next day has the next number, by
the four kinds of days (within a month, the last of one, of February, of a year).  `CalendarKept`, `MinutesKept` and `OrderKept` follow, from two
assumptions on the constants: `LastDate` is not after 28 February 2100, and an operand
has four digits with the tens of its hours in four bits.  The menu lets a user enter
the whole year 2100; from 1 March of it on the formulas take 2100 for a leap year,
and nothing is proved or checked of those days.

`EventDispatcherProofs` proves the five invariants of the dispatcher for any
number of descriptors.  `FlagIsReport` is inductive with `Unique`: the one mark that
may stand without a report is that of the entry about to be cleared (`Clearing`).
`NeverFull` follows
from `Unique` by the pigeonhole theorem: there are as many entries as
descriptors, so a full table holds the one sought.

`TableIsRegistry` proves `ImplementsRegistry`.  The lemmas `Stored`, `OfHeld`,
`OfUnheld` and `FoundOf` relate the entry that a search finds to the registrations
of a descriptor: with `Unique` there is one or none, and writing an entry removes
the registration that was there and adds the one written.  Then each step of the
dispatcher is a step of the registry or, if it only moves the thread or the
descriptors, a stutter.

`RecorderProofs` proves `Seamless`, `Complete` and `Released` for any sizes of files and
buffers, any number of files, recordings and units.  `IInv` adds `Order` (a task
that outlives its recording has disturbed every later one), `Fresh` (the object
between a start and its task) and, for the last recording if undisturbed, `Held`:
for each place of the task, where the file ends (`At`), how many units of the
buffer are still to be written, and that no file follows (`Tail`).  The lemmas
`PutKeeps` and its companions show that a write at the end of a file, or inside a
full ring, keeps a file without holes and in order.  `Released` needs `OpenInv` on top
of it: only the FILE last opened is open, a task about to open the next has closed the
one before, and once a recording is over (`Over`) no task is left that would open one.

`PlayerProofs` proves `Aligned`, `InPlace`, `Played` and `Released` for any
sizes with `MaxSize % Buf = 0`.  `Aligned` is inductive by itself, with the fact
that steps and jumps are multiples of `Buf`.  The others need `Sole` (one living
task, the semaphore held from the change of the position on, `mixed` misses
nothing), `Named` (number, name and descriptor of the file at each place of the
change), `Seated` (the offset before a read), `Running` and `Ended` (who works
while the player is not stopped, and how a task ends) and `Kept` (who has the
file open).  `Played` needs `Delivered`, which relates the position at each place of the
task to what has been delivered, and `ShortAtEnd`: only the last file ends within a
buffer; and `SavedInside`, that the place saved at a stop is within the recording.

`UsbConnectionProofs` proves `Listed`, `AllMounted`, `Preserved` and
`AllReleased` for any number of disks, partitions, rounds and plugs.  `Listed` needs
`Written`: what the task has mounted and not stored yet is on top of its directory
under the name it will store, unless the user interface is unmounting or has cleared
that name.  `Counted`
bounds the successes by the number of partitions that are mounted at their place
(`Places`), so that as many successes as names mean all of them.  `Preserved`
rests on `OnTop` (only the topmost file system of a directory is of a disk that is
there) and `Popped` (what `rm` finds after `umount`); `AllReleased` on `Held`
(whatever is mounted is in the table, one per directory) and `Passed` (the
directories a loop has left are bare).

The type invariants of the timer, the dispatcher, the recorder, the player and the
USB task are proved and not run.

Of the liveness properties three theorems prove the half that is safety, a measure that
every step of the thread in question lowers and no other thread raises.
`SemaphoreReturned` (`HoldEnds`): `StepsLeft` counts what the holder of
`sem_Timer_Access` has still to do, at most 8 times the slots and 6 steps; with the
last of them it signals the semaphore.  `RoundsEnd` (`RoundEnds`): `RoundLeft` does so
for a round of `notify_proc`.  `TaskComesNearer` (`Nearer`): `Left` counts the places
of the present turn of `player_task` and bounds the turns to come, up to the end of the
recording, or, in a rewind, first back to its beginning: between two steps back it reads
forward, but never as far.  A key may change `Left` only with the status or the position;
the theorem excepts the overlaps collected in `mixed`, which `TaskEnds` does not for the
first play.  What remains of `NotifyReturns`, `TaskReturns`, `TermReturns` and `TaskEnds` is that a thread that can go
on does, which is the fairness assumed.

Every safety property and every refinement of the runs is proved (`NoMissedAction`
under `Alone`).  Only model-checked: all liveness (`NotifyReturns`, `TaskReturns`,
`ReportDelivered`, `DataDelivered`, `LockReleased`, `TermReturns`, `FailureEnds`,
`TaskEnds`, `PullNoticed`, `MountedAtLast`), which with `ENABLED` is out of the
prover's reach.

## 5. Not modelled

* Demux slots and the section/EIT engine: what a slot or a section filter does
  is decided by the demux driver, which is not in the repository; the parsing is
  data.
* Messages between processes: thin wrappers over `msgsnd` and `msgrcv`; the
  partners are plug-ins that are not in the repository.
* Channel change and channel search: sequences of driver and tuner calls,
  whose outcome is the device's.
* Front end: its task is compiled out in this build.
* Database and settings: arrays with views and a file, under semaphores that each
  call takes and returns; sequential and made of data.
* Heartbeat, front panel, SCART, HDMI, tuners, buses, graphics: device access
  or one loop over registered functions.
* Time shift and formatting of a disk: the callers of the first are compiled out
  (`csdesktop.c:2283`); the second is the
  menu's own sequence of shell commands.
* The menus' sequences of calls, and what a timer message shows to the user: the
  calls are made in any order by the models, which contains the menus' orders.
* The table of the clock's clients: registered once, at start-up.
* OSCam, the sample and the open-source packages: third-party programs, by far
  the larger part of the repository's lines.
