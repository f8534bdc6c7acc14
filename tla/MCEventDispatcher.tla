-------------------------- MODULE MCEventDispatcher --------------------------
(* Two descriptors, registered for both kinds of events or, as the wrappers  *)
(* of the drivers do to switch a notification off, for none.                 *)
EXTENDS EventDispatcher

MCMasks == {{}, {"io", "user"}}
=============================================================================
