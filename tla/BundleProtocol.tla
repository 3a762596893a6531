--------------------------- MODULE BundleProtocol ---------------------------
(***************************************************************************)
(* What a client of IAppBundle may rely on (goopdate/omaha3_idl.idl), with *)
(* nothing said about applications: a bundle is set up, carries out one    *)
(* non-blocking call at a time, and can be stopped.  A call that began is  *)
(* completed once at most, also in a bundle that was stopped meanwhile;    *)
(* a stopped or paused bundle takes no further call.                       *)
(***************************************************************************)
VARIABLES phase, call

vars == <<phase, call>>

Init == phase = "setup" /\ call = FALSE

Begin ==
  /\ phase \in {"setup", "ready"} /\ ~call
  /\ phase' = "busy" /\ call' = TRUE

Complete ==
  /\ call
  /\ call' = FALSE
  /\ phase' = IF phase = "busy" THEN "ready" ELSE phase

Stop ==
  /\ phase \in {"setup", "busy"}
  /\ phase' = "stopped" /\ UNCHANGED call

Pause ==
  /\ phase = "setup"
  /\ phase' = "paused" /\ UNCHANGED call

Next == Begin \/ Complete \/ Stop \/ Pause

Safety == Init /\ [][Next]_vars
=============================================================================
