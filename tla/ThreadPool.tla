----------------------------- MODULE ThreadPool -----------------------------
(* The thread pool the worker runs its work items on: callers queue items   *)
(* while the main thread initializes, stops and destroys the pool.  A step  *)
(* is what a thread does between two accesses to the shared counters.       *)
EXTENDS Naturals, FiniteSets

CONSTANTS Items,          \* the UserWorkItems of a behaviour
          Outside,        \* a caller that is not itself a work item
          ShutdownDelay,  \* shutdown_delay_, in rounds of the loop of Stop
          LateCallers,    \* may calls from outside overlap Stop?
          EventMayFail    \* may CreateEvent fail?

ASSUME PoolAssumption ==
  /\ IsFiniteSet(Items) /\ Outside \notin Items
  /\ ShutdownDelay \in Nat
  /\ LateCallers \in BOOLEAN /\ EventMayFail \in BOOLEAN

VARIABLES main,      \* where the thread that owns the pool is
          stopped,   \* is_stopped_
          event,     \* shutdown_event_ exists
          count,     \* work_item_count_
          place,     \* how far each item has come
          caller,    \* who called QueueUserWorkItem for it
          waited,    \* rounds of the loop of Stop
          timedOut,  \* history: Stop gave up waiting
          raised     \* the destructor raised its exception

vars == <<main, stopped, event, count, place, caller, waited, timedOut, raised>>
mainVars == <<main, stopped, event, waited, timedOut, raised>>

\* An item is counted from InterlockedIncrement to InterlockedDecrement.
CountedPlaces == {"counted", "queued", "running", "processed"}
Places == {"new", "refused", "checked", "done"} \cup CountedPlaces
Active == {x \in Items : place[x] \in CountedPlaces}

\* A call of QueueUserWorkItem for x has not returned.
InCall(x) == place[x] \in {"checked", "counted"}

Init ==
  /\ main = "new" /\ stopped = TRUE /\ event = FALSE /\ count = 0
  /\ place = [x \in Items |-> "new"]
  /\ caller = [x \in Items |-> Outside]
  /\ waited = 0 /\ timedOut = FALSE /\ raised = FALSE

\* Bug variant: the last item is not waited for.
HasOtherWorkItems == count > 1

HasWorkItems == count > 0

-----------------------------------------------------------------------------
(* The owner *)

\* The result of CreateEvent is returned, and Goopdate only logs it.
Initialize ==
  /\ main = "new" /\ main' = "run"
  /\ stopped' = FALSE
  /\ event' \in IF EventMayFail THEN BOOLEAN ELSE {TRUE}
  /\ UNCHANGED <<count, place, caller, waited, timedOut, raised>>

\* SetEvent fails without an event, and then nothing is waited for.
Stop ==
  /\ main = "run" /\ main' = IF event THEN "wait" ELSE "leave"
  /\ LateCallers \/ \A x \in Items : caller[x] = Outside => ~InCall(x)
  /\ UNCHANGED <<stopped, event, count, place, caller, waited, timedOut, raised>>

StopSleeps ==
  /\ main = "wait" /\ HasWorkItems
  /\ waited < ShutdownDelay /\ waited' = waited + 1
  /\ UNCHANGED <<main, stopped, event, count, place, caller, timedOut, raised>>

\* Bug variant: the loop does not look at the clock.
StopNeverTimesOut == FALSE /\ UNCHANGED vars

StopTimesOut ==
  /\ main = "wait" /\ HasWorkItems
  /\ waited = ShutdownDelay
  /\ timedOut' = TRUE /\ main' = "leave"
  /\ UNCHANGED <<stopped, event, count, place, caller, waited, raised>>

StopDrained ==
  /\ main = "wait" /\ ~HasWorkItems /\ main' = "leave"
  /\ UNCHANGED <<stopped, event, count, place, caller, waited, timedOut, raised>>

StopReturns ==
  /\ main = "leave" /\ main' = "stopped" /\ stopped' = TRUE
  /\ UNCHANGED <<event, count, place, caller, waited, timedOut, raised>>

Destroy ==
  /\ main = "stopped" /\ main' = "destroyed"
  /\ raised' = HasWorkItems
  /\ UNCHANGED <<stopped, event, count, place, caller, waited, timedOut>>

-----------------------------------------------------------------------------
(* QueueUserWorkItem and ThreadProc *)

\* Outside callers, and items that queue others while they are processed.
MayCall(c) ==
  \/ c = Outside /\ (LateCallers \/ main \in {"new", "run"})
  \/ c \in Items /\ place[c] = "running"

CheckStopped(x, c) ==
  /\ place[x] = "new" /\ MayCall(c)
  /\ place' = [place EXCEPT ![x] = IF stopped THEN "refused" ELSE "checked"]
  /\ caller' = [caller EXCEPT ![x] = c]
  /\ UNCHANGED <<mainVars, count>>

Increment(x) ==
  /\ place[x] = "checked"
  /\ place' = [place EXCEPT ![x] = "counted"]
  /\ count' = count + 1
  /\ UNCHANGED <<mainVars, caller>>

QueueToSystem(x) ==
  /\ place[x] = "counted"
  /\ place' = [place EXCEPT ![x] = "queued"]
  /\ UNCHANGED <<mainVars, count, caller>>

\* Bug variant: the error path forgets to take the item off the count.
QueueFailsStillCounted(x) ==
  /\ place[x] = "counted"
  /\ place' = [place EXCEPT ![x] = "refused"]
  /\ UNCHANGED <<mainVars, count, caller>>

QueueFails(x) ==
  /\ place[x] = "counted"
  /\ place' = [place EXCEPT ![x] = "refused"]
  /\ count' = count - 1
  /\ UNCHANGED <<mainVars, caller>>

ThreadProc(x) ==
  /\ place[x] = "queued"
  /\ place' = [place EXCEPT ![x] = "running"]
  /\ UNCHANGED <<mainVars, count, caller>>

\* Process returns after the calls it made have returned.
Process(x) ==
  /\ place[x] = "running"
  /\ \A y \in Items : caller[y] = x => ~InCall(y)
  /\ place' = [place EXCEPT ![x] = "processed"]
  /\ UNCHANGED <<mainVars, count, caller>>

Decrement(x) ==
  /\ place[x] = "processed"
  /\ place' = [place EXCEPT ![x] = "done"]
  /\ count' = count - 1
  /\ UNCHANGED <<mainVars, caller>>

-----------------------------------------------------------------------------
StopLoop == StopSleeps \/ StopTimesOut \/ StopDrained \/ StopReturns

Owner == Initialize \/ Stop \/ StopLoop \/ Destroy

Work(x) == \/ \E c \in Items \cup {Outside} : CheckStopped(x, c)
           \/ Increment(x) \/ QueueToSystem(x) \/ QueueFails(x)
           \/ ThreadProc(x) \/ Process(x) \/ Decrement(x)

\* The process ends with its pool.
Next == Owner \/ \E x \in Items : main # "destroyed" /\ Work(x)

\* The thread in Stop keeps running.  Nothing is assumed of the work items,
\* which may ignore the shutdown event for ever.
Spec == Init /\ [][Next]_vars /\ WF_vars(StopLoop)

-----------------------------------------------------------------------------
(* Properties *)

TypeOK ==
  /\ main \in {"new", "run", "wait", "leave", "stopped", "destroyed"}
  /\ stopped \in BOOLEAN /\ event \in BOOLEAN
  /\ timedOut \in BOOLEAN /\ raised \in BOOLEAN
  /\ place \in [Items -> Places]
  /\ caller \in [Items -> Items \cup {Outside}]
  /\ count \in Nat /\ waited \in 0..ShutdownDelay

\* The count Stop and the destructor rely on is exact at every step: no thread
\* takes an item twice or forgets it, on the error path of the system call
\* either, so it is never negative and never keeps Stop waiting for nothing.
CountExact == count = Cardinality(Active)

\* When Stop has left its loop without a timeout, no item is left and no call
\* of QueueUserWorkItem is under way, although items may queue others to the
\* last: the destructor then has nothing to raise.  This needs the shutdown
\* event, and that outside calls have returned before Stop.
Drained ==
  /\ main \in {"leave", "stopped", "destroyed"} /\ event /\ ~timedOut =>
       \A x \in Items : x \notin Active /\ ~InCall(x)
  /\ raised => timedOut \/ ~event

\* Stop returns whatever the work items do.
StopEnds == main = "wait" ~> main \in {"stopped", "destroyed"}

\* What the comment on is_stopped_ says: set by Stop, it means that all items
\* have been processed unless Stop timed out.
StoppedMeansProcessed ==
  stopped /\ main \in {"stopped", "destroyed"} => timedOut \/ Active = {}

=============================================================================
