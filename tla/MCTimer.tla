------------------------------ MODULE MCTimer ------------------------------
(* Small instances of Timer: days of three minutes, weeks of two days.       *)
EXTENDS Timer

Job(c, ty, b, d) == [status |-> "on", cycle |-> c, type |-> ty, begin |-> b, dur |-> d]

\* A one-time window, a one-time job that begins as it ends, a daily job whose
\* window runs over midnight, and a weekly job.
TableJobs == {Job("once", "duration", 5, 1), Job("once", "wakeup", 6, 0),
              Job("daily", "duration", 2, 3), Job("weekly", "wakeup", 5, 0)}
\* Two one-time jobs around a midnight that is crossed both ways.
BackJobs == {Job("once", "wakeup", 2, 0), Job("once", "wakeup", 3, 0)}
\* The job two threads deliver the time of.
MeetJobs == {Job("once", "wakeup", 2, 0)}
\* The sleep timer of the menu.
SleepJobs  == {Job("once", "sleep", 4, 0)}
=============================================================================
