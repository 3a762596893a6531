----------------------------- MODULE HttpRequest -----------------------------
(* HttpRequestInterface, as NetworkRequest uses it: one thread calls Send,     *)
(* again and again, and another one Cancel, once and for good.  A Send that    *)
(* ends after Cancel does not succeed.                                         *)
VARIABLES state, canceled, result

Results(c) == {"fail"} \cup IF c THEN {"cancelled"} ELSE {"ok"}

Init == state = "idle" /\ canceled = FALSE /\ result = "none"

Send == state = "idle" /\ state' = "sending" /\ UNCHANGED <<canceled, result>>

Return ==
  /\ state = "sending" /\ state' = "idle"
  /\ result' \in Results(canceled) /\ UNCHANGED canceled

Cancel == ~canceled /\ canceled' = TRUE /\ UNCHANGED <<state, result>>

Next == Send \/ Return \/ Cancel

Safety == Init /\ [][Next]_<<state, canceled, result>>
=============================================================================
