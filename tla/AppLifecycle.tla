---------------------------- MODULE AppLifecycle ----------------------------
(***************************************************************************)
(* What a client that polls App::currentState may rely on: the application *)
(* goes forward through the phases of an installation, one at a time and   *)
(* without skipping one, or fails, and a failure is final.                 *)
(***************************************************************************)
VARIABLE phase

Forward == {<<"idle", "checking">>,
            <<"checking", "available">>, <<"checking", "current">>,
            <<"available", "downloading">>, <<"downloading", "ready">>,
            <<"ready", "installing">>, <<"installing", "installed">>}

Init == phase = "idle"

Advance == <<phase, phase'>> \in Forward

Fail == phase' = "failed"

Next == Advance \/ Fail

Spec == Init /\ [][Next]_phase
=============================================================================
