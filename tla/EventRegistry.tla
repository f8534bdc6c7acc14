---------------------------- MODULE EventRegistry ----------------------------
(***************************************************************************)
(* What csapi/csevt promises its clients: a set of registrations, at most  *)
(* one for a descriptor, and a thread that makes one callback at a time.   *)
(* Entries of a table, free entries, the search for one, the highest       *)
(* descriptor, select and the mutex are not part of it.                    *)
(*                                                                         *)
(* A callback is chosen for a registration with the mutex held, and made   *)
(* and followed up without.  Meanwhile the registration may be replaced:   *)
(* the client is then called, and followed up, in the place of the one     *)
(* chosen (target).  If nobody is registered in its place any more, the    *)
(* call goes through a null pointer.                                       *)
(*                                                                         *)
(* EventDispatcher is the code behind this module and implements           *)
(* RegistrySpec.                                                           *)
(***************************************************************************)
EXTENDS Integers

CONSTANTS Fds,     \* the descriptors
          Masks    \* the sets of events clients register for

Nobody == -1

VARIABLES registered,  \* [fd, events, flag] (flag: reported) per registration
          stage,       \* of the callback: "idle", "chosen", "called" or "crash"
          reason,      \* why it is made: "user", "io", "closed" or "none"
          target       \* the descriptor that has the place it was chosen for

registryVars == <<registered, stage, reason, target>>

\* The registration of a descriptor, if there is one, and the same with mark f.
Of(fd) == {e \in registered : e.fd = fd}
Marks(f, fd) == {[e EXCEPT !.flag = f] : e \in Of(fd)}

RegistryInit ==
    /\ registered = {}
    /\ stage = "idle" /\ reason = "none" /\ target = Nobody

\* A registration replaces the descriptor's last one and takes back its report.
\* A new one may take the place the callback was chosen for.
Register(fd, mask) ==
    /\ stage # "crash"
    /\ registered' = (registered \ Of(fd)) \cup {[fd |-> fd, events |-> mask, flag |-> 0]}
    /\ \/ target' = target
       \/ /\ stage # "idle" /\ target = Nobody /\ Of(fd) = {}
          /\ target' = fd
    /\ UNCHANGED <<stage, reason>>

UnRegister(fd) ==
    /\ stage # "crash"
    /\ registered' = registered \ Of(fd)
    /\ target' = IF target = fd THEN Nobody ELSE target
    /\ UNCHANGED <<stage, reason>>

\* A report for a descriptor that is not registered has no effect.
ReportEvent(fd) ==
    /\ stage # "crash"
    /\ registered' = (registered \ Of(fd)) \cup Marks(1, fd)
    /\ UNCHANGED <<stage, reason, target>>

\* The user callback is chosen for a reported registration only.
Choose(e, why) ==
    /\ stage = "idle"
    /\ why = "user" => "user" \in e.events /\ e.flag = 1
    /\ stage' = "chosen" /\ reason' = why /\ target' = e.fd
    /\ UNCHANGED registered

Call ==
    /\ stage = "chosen"
    /\ IF target # Nobody
       THEN stage' = "called" /\ UNCHANGED <<reason, target>>
       ELSE stage' = "crash" /\ reason' = "none" /\ UNCHANGED target
    /\ UNCHANGED registered

\* After a user callback the report is done with; after the callback for a
\* closed descriptor its registration ends.
Return ==
    /\ stage = "called"
    /\ registered' =
         CASE reason = "user"   -> (registered \ Of(target)) \cup Marks(0, target)
           [] reason = "closed" -> registered \ Of(target)
           [] reason = "io"     -> registered
    /\ stage' = "idle" /\ reason' = "none" /\ target' = Nobody

RegistryNext ==
    \/ \E fd \in Fds : UnRegister(fd) \/ ReportEvent(fd)
    \/ \E fd \in Fds, mask \in Masks : Register(fd, mask)
    \/ \E e \in registered, why \in {"user", "io", "closed"} : Choose(e, why)
    \/ Call
    \/ Return

RegistrySpec == RegistryInit /\ [][RegistryNext]_registryVars
=============================================================================
