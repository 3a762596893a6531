------------------------- MODULE ThreadPool_proofs --------------------------
(* The count of the pool is exact, and Stop drains it.                      *)
EXTENDS ThreadPool, FiniteSetTheorems, TLAPS

\* A leaf is given to Zenon, then to the SMT solver, unless it names one of them.
USE ZenonT(30), SMTT(30)

\* A call made by an item is made while the item is processed.
CallerRuns ==
  \A x \in Items : InCall(x) /\ caller[x] # Outside => place[caller[x]] = "running"

\* Without late callers, the calls under way once Stop has begun are calls of
\* items.
NoOutsideCalls ==
  main \notin {"new", "run"} => \A x \in Items : InCall(x) => caller[x] # Outside

\* Only the destructor raises.
RaisedLast == raised => main = "destroyed"

\* Drained is not inductive: that a drained pool has no call under way follows
\* from the count and from where calls come from.
Inv == TypeOK /\ CountExact /\ CallerRuns /\ RaisedLast

-----------------------------------------------------------------------------
\* What moving one item does to the set of counted items.
LEMMA ActiveMoves ==
  ASSUME TypeOK, NEW x \in Items, NEW p \in Places,
         place' = [place EXCEPT ![x] = p]
  PROVE  /\ IsFiniteSet(Active) /\ Cardinality(Active) \in Nat
         /\ place[x] \in CountedPlaces <=> x \in Active
         /\ p \in CountedPlaces => Active' = Active \cup {x}
         /\ p \notin CountedPlaces => Active' = Active \ {x}
<1>1. IsFiniteSet(Active)
  BY PoolAssumption, FS_Subset DEF Active
<1>2. Cardinality(Active) \in Nat
  BY <1>1, FS_CardinalityType
<1>3. \A y \in Items : place'[y] = IF y = x THEN p ELSE place[y]
  BY DEF TypeOK
<1> QED
  BY <1>1, <1>2, <1>3 DEF Active

\* A step that leaves an item in or out of the count keeps the count exact.
LEMMA CountKept ==
  ASSUME TypeOK, CountExact, NEW x \in Items, NEW p \in Places,
         place' = [place EXCEPT ![x] = p], count' = count,
         place[x] \in CountedPlaces <=> p \in CountedPlaces
  PROVE  CountExact'
<1>1. Active' = Active
  BY ActiveMoves
<1> QED
  BY <1>1 DEF CountExact

\* InterlockedIncrement comes with an item that enters the count.
LEMMA CountIncremented ==
  ASSUME TypeOK, CountExact, NEW x \in Items, NEW p \in Places,
         place' = [place EXCEPT ![x] = p], count' = count + 1,
         place[x] \notin CountedPlaces, p \in CountedPlaces
  PROVE  CountExact' /\ count' \in Nat
<1>1. Cardinality(Active \cup {x}) = Cardinality(Active) + 1
  BY ActiveMoves, FS_AddElement
<1>2. Active' = Active \cup {x}
  BY ActiveMoves
<1>3. Cardinality(Active') = Cardinality(Active) + 1
  BY <1>1, <1>2
<1>4. Cardinality(Active) \in Nat
  BY ActiveMoves
<1> QED
  BY <1>3, <1>4, SMTT(30) DEF CountExact

\* InterlockedDecrement comes with an item that leaves it, so the count was
\* positive.
LEMMA CountDecremented ==
  ASSUME TypeOK, CountExact, NEW x \in Items, NEW p \in Places,
         place' = [place EXCEPT ![x] = p], count' = count - 1,
         place[x] \in CountedPlaces, p \notin CountedPlaces
  PROVE  CountExact' /\ count' \in Nat
<1>1. Cardinality(Active \ {x}) = Cardinality(Active) - 1
  BY ActiveMoves, FS_RemoveElement
<1>2. Active' = Active \ {x}
  BY ActiveMoves
<1>3. IsFiniteSet(Active') /\ Cardinality(Active') \in Nat
  BY <1>2, ActiveMoves, FS_RemoveElement, FS_CardinalityType
<1>4. Cardinality(Active') = Cardinality(Active) - 1
  BY <1>1, <1>2
<1> QED
  BY <1>3, <1>4 DEF CountExact

-----------------------------------------------------------------------------
\* The initial pool.
LEMMA InitInv == Init => Inv /\ NoOutsideCalls /\ Drained
<1> SUFFICES ASSUME Init PROVE Inv /\ NoOutsideCalls /\ Drained
  OBVIOUS
<1>1. TypeOK
  <2>1. waited \in 0..ShutdownDelay /\ count \in Nat
    BY PoolAssumption, SMTT(30) DEF Init
  <2>2. /\ stopped \in BOOLEAN /\ event \in BOOLEAN
        /\ timedOut \in BOOLEAN /\ raised \in BOOLEAN
    BY DEF Init
  <2>3. /\ main \in {"new", "run", "wait", "leave", "stopped", "destroyed"}
        /\ place \in [Items -> Places]
        /\ caller \in [Items -> Items \cup {Outside}]
    BY DEF Init, Places
  <2> QED
    BY <2>1, <2>2, <2>3 DEF TypeOK
<1>2. Active = {}
  BY DEF Init, Active, CountedPlaces
<1>3. CountExact
  BY <1>2, FS_EmptySet DEF CountExact, Init
<1>4. CallerRuns /\ RaisedLast /\ NoOutsideCalls /\ Drained
  BY DEF Init, CallerRuns, RaisedLast, NoOutsideCalls, Drained, InCall
<1> QED
  BY <1>1, <1>3, <1>4 DEF Inv

\* The owner moves no item.
LEMMA OwnerInv ==
  ASSUME Inv, Owner
  PROVE  Inv'
<1> USE DEF Inv
<1>1. place' = place /\ count' = count /\ caller' = caller
  BY DEF Owner, StopLoop, Initialize, Stop, StopSleeps, StopTimesOut,
         StopDrained, StopReturns, Destroy
<1>2. CountExact' /\ CallerRuns'
  BY <1>1 DEF CountExact, Active, CallerRuns, InCall
<1>3. TypeOK'
  <2>1. CASE Initialize
    BY <2>1 DEF TypeOK, Initialize
  <2>2. CASE Stop
    BY <2>2 DEF TypeOK, Stop
  <2>3. CASE StopSleeps
    BY <2>3, PoolAssumption, SMTT(30) DEF TypeOK, StopSleeps
  <2>4. CASE StopTimesOut
    BY <2>4 DEF TypeOK, StopTimesOut
  <2>5. CASE StopDrained
    BY <2>5 DEF TypeOK, StopDrained
  <2>6. CASE StopReturns
    BY <2>6 DEF TypeOK, StopReturns
  <2>7. CASE Destroy
    BY <2>7, SMTT(30) DEF TypeOK, Destroy, HasWorkItems
  <2> QED
    BY <2>1, <2>2, <2>3, <2>4, <2>5, <2>6, <2>7 DEF Owner, StopLoop
<1>4. RaisedLast'
  BY DEF RaisedLast, Owner, StopLoop, Initialize, Stop, StopSleeps,
         StopTimesOut, StopDrained, StopReturns, Destroy
<1> QED
  BY <1>2, <1>3, <1>4

\* One item moves.
LEMMA WorkInv ==
  ASSUME Inv, NEW x \in Items, Work(x)
  PROVE  Inv'
<1> USE DEF Inv
<1>0. RaisedLast'
  BY DEF RaisedLast, Work, CheckStopped, Increment, QueueToSystem, QueueFails,
         ThreadProc, Process, Decrement, mainVars
<1>1. ASSUME NEW c \in Items \cup {Outside}, CheckStopped(x, c)
      PROVE  Inv'
  <2>1. PICK p \in {"refused", "checked"} : place' = [place EXCEPT ![x] = p]
    BY <1>1 DEF CheckStopped
  <2>2. TypeOK'
    BY <1>1, <2>1 DEF CheckStopped, mainVars, TypeOK, Places
  <2>3. CountExact'
    BY <1>1, <2>1, CountKept DEF CheckStopped, Places, CountedPlaces
  <2>4. CallerRuns'
    BY <1>1, <2>1, PoolAssumption
       DEF CheckStopped, MayCall, CallerRuns, InCall, TypeOK
  <2> QED
    BY <1>0, <2>2, <2>3, <2>4
<1>2. CASE Increment(x)
  <2>1. CountExact' /\ count' \in Nat
    BY <1>2, CountIncremented DEF Increment, Places, CountedPlaces
  <2>2. TypeOK'
    BY <1>2, <2>1 DEF Increment, mainVars, TypeOK, Places, CountedPlaces
  <2>3. CallerRuns'
    BY <1>2 DEF Increment, CallerRuns, InCall, TypeOK
  <2> QED
    BY <1>0, <2>1, <2>2, <2>3
<1>3. CASE QueueToSystem(x)
  <2>1. CountExact'
    BY <1>3, CountKept DEF QueueToSystem, Places, CountedPlaces
  <2>2. TypeOK'
    BY <1>3 DEF QueueToSystem, mainVars, TypeOK, Places, CountedPlaces
  <2>3. CallerRuns'
    BY <1>3 DEF QueueToSystem, CallerRuns, InCall, TypeOK
  <2> QED
    BY <1>0, <2>1, <2>2, <2>3
<1>4. CASE QueueFails(x)
  <2>1. CountExact' /\ count' \in Nat
    BY <1>4, CountDecremented DEF QueueFails, Places, CountedPlaces
  <2>2. TypeOK'
    BY <1>4, <2>1 DEF QueueFails, mainVars, TypeOK, Places
  <2>3. CallerRuns'
    BY <1>4 DEF QueueFails, CallerRuns, InCall, TypeOK
  <2> QED
    BY <1>0, <2>1, <2>2, <2>3
<1>5. CASE ThreadProc(x)
  <2>1. CountExact'
    BY <1>5, CountKept DEF ThreadProc, Places, CountedPlaces
  <2>2. TypeOK'
    BY <1>5 DEF ThreadProc, mainVars, TypeOK, Places, CountedPlaces
  <2>3. CallerRuns'
    BY <1>5 DEF ThreadProc, CallerRuns, InCall, TypeOK
  <2> QED
    BY <1>0, <2>1, <2>2, <2>3
<1>6. CASE Process(x)
  <2>1. CountExact'
    BY <1>6, CountKept DEF Process, Places, CountedPlaces
  <2>2. TypeOK'
    BY <1>6 DEF Process, mainVars, TypeOK, Places, CountedPlaces
  <2>3. CallerRuns'
    BY <1>6 DEF Process, CallerRuns, InCall, TypeOK
  <2> QED
    BY <1>0, <2>1, <2>2, <2>3
<1>7. CASE Decrement(x)
  <2>1. CountExact' /\ count' \in Nat
    BY <1>7, CountDecremented DEF Decrement, Places, CountedPlaces
  <2>2. TypeOK'
    BY <1>7, <2>1 DEF Decrement, mainVars, TypeOK, Places
  <2>3. CallerRuns'
    BY <1>7 DEF Decrement, CallerRuns, InCall, TypeOK
  <2> QED
    BY <1>0, <2>1, <2>2, <2>3
<1> QED
  BY <1>1, <1>2, <1>3, <1>4, <1>5, <1>6, <1>7 DEF Work

\* Every step, and stuttering.
LEMMA StepInv == Inv /\ [Next]_vars => Inv'
<1>1. ASSUME Inv, UNCHANGED vars
      PROVE  Inv'
  BY <1>1 DEF Inv, vars, TypeOK, CountExact, Active, CallerRuns, InCall,
              RaisedLast
<1> QED
  BY <1>1, OwnerInv, WorkInv DEF Next

\* The count of work items is exact, for any number of items and callers: what
\* HasWorkItems tells Stop and the destructor is true.
THEOREM CountIsExact == Spec => []CountExact
<1>1. Init => Inv
  BY InitInv
<1>2. Inv => CountExact
  BY DEF Inv
<1> QED
  BY <1>1, <1>2, StepInv, PTL DEF Spec

-----------------------------------------------------------------------------
\* With a count of zero no item is counted, hence none is processed, hence none
\* makes a call.
LEMMA NothingLeft ==
  ASSUME Inv, NoOutsideCalls, main \notin {"new", "run"}, ~HasWorkItems
  PROVE  \A x \in Items : x \notin Active /\ ~InCall(x)
<1> USE DEF Inv
<1>1. IsFiniteSet(Active)
  BY PoolAssumption, FS_Subset DEF Active
<1>2. Cardinality(Active) = 0
  BY SMTT(30) DEF HasWorkItems, TypeOK, CountExact
<1>3. Active = {}
  BY <1>1, <1>2, FS_EmptySet
<1>4. \A x \in Items : place[x] # "running"
  BY <1>3 DEF Active, CountedPlaces
<1>5. \A x \in Items : ~InCall(x)
  BY <1>4 DEF NoOutsideCalls, CallerRuns, TypeOK
<1> QED
  BY <1>3, <1>5

\* Once Stop has begun, no call from outside starts.
LEMMA OutsideStaysOut ==
  ASSUME ~LateCallers, Inv, NoOutsideCalls, [Next]_vars
  PROVE  NoOutsideCalls'
<1> USE DEF Inv
<1>1. ASSUME Owner
      PROVE  NoOutsideCalls'
  BY <1>1 DEF NoOutsideCalls, InCall, Owner, StopLoop, Initialize, Stop,
              StopSleeps, StopTimesOut, StopDrained, StopReturns, Destroy
<1>2. ASSUME NEW x \in Items, Work(x)
      PROVE  NoOutsideCalls'
  <2>1. ASSUME NEW c \in Items \cup {Outside}, CheckStopped(x, c)
        PROVE  NoOutsideCalls'
    BY <2>1, PoolAssumption
       DEF CheckStopped, MayCall, mainVars, NoOutsideCalls, InCall, TypeOK
  <2>2. CASE ~\E c \in Items \cup {Outside} : CheckStopped(x, c)
    <3>1. /\ main' = main /\ caller' = caller
          /\ \A y \in Items : InCall(y)' => InCall(y)
      BY <1>2, <2>2 DEF Work, Increment, QueueToSystem, QueueFails, ThreadProc,
                        Process, Decrement, mainVars, InCall, TypeOK
    <3> QED
      BY <3>1 DEF NoOutsideCalls
  <2> QED
    BY <2>1, <2>2
<1>3. CASE UNCHANGED vars
  BY <1>3 DEF vars, NoOutsideCalls, InCall
<1> QED
  BY <1>1, <1>2, <1>3 DEF Next

\* Stop leaves a drained pool, and it stays drained.
LEMMA StaysDrained ==
  ASSUME ~LateCallers, Inv, NoOutsideCalls, Drained, [Next]_vars
  PROVE  Drained'
<1> USE DEF Inv
<1>1. ASSUME Owner
      PROVE  Drained'
  <2>1. place' = place /\ (\A x \in Items : InCall(x)' = InCall(x)) /\ Active' = Active
    BY <1>1 DEF Owner, StopLoop, Initialize, Stop, StopSleeps, StopTimesOut,
                StopDrained, StopReturns, Destroy, InCall, Active
  <2>2. CASE Initialize \/ Stop \/ StopSleeps
    <3>1. main \in {"new", "run", "wait"} /\ raised' = raised
      BY <2>2 DEF Initialize, Stop, StopSleeps
    <3>2. ~raised'
      BY <3>1 DEF RaisedLast
    <3>3. main' \in {"run", "wait"} \/ ~event'
      BY <2>2 DEF Initialize, Stop, StopSleeps
    <3> QED
      BY <3>2, <3>3 DEF Drained
  <2>3. CASE StopTimesOut
    BY <2>3 DEF Drained, StopTimesOut
  <2>4. CASE StopDrained
    <3>1. \A x \in Items : x \notin Active /\ ~InCall(x)
      BY <2>4, NothingLeft DEF StopDrained
    <3> QED
      BY <2>1, <2>4, <3>1 DEF Drained, StopDrained
  <2>5. CASE StopReturns
    BY <2>1, <2>5 DEF Drained, StopReturns
  <2>6. CASE Destroy
    <3>1. ASSUME event, ~timedOut
          PROVE  ~HasWorkItems
      <4>1. Active = {}
        BY <2>6, <3>1 DEF Drained, Destroy, Active
      <4> QED
        BY <4>1, FS_EmptySet, SMTT(30) DEF CountExact, HasWorkItems
    <3>2. event /\ ~timedOut => ~raised'
      BY <2>6, <3>1 DEF Destroy
    <3>3. /\ main = "stopped"
          /\ event' = event /\ timedOut' = timedOut
      BY <2>6 DEF Destroy
    <3> QED
      BY <2>1, <3>2, <3>3 DEF Drained
  <2> QED
    BY <1>1, <2>2, <2>3, <2>4, <2>5, <2>6 DEF Owner, StopLoop
<1>2. ASSUME NEW x \in Items, Work(x), main # "destroyed"
      PROVE  Drained'
  <2>1. /\ main' = main /\ event' = event
        /\ timedOut' = timedOut /\ raised' = raised
    BY <1>2 DEF Work, CheckStopped, Increment, QueueToSystem, QueueFails,
                ThreadProc, Process, Decrement, mainVars
  <2>2. ASSUME main \in {"leave", "stopped"}, event, ~timedOut
        PROVE  FALSE
    <3>1. \A y \in Items : place[y] \notin CountedPlaces \cup {"checked"}
      BY <2>2 DEF Drained, Active, InCall
    <3>2. \A c \in Items \cup {Outside} : ~MayCall(c)
      BY <2>2, <3>1, PoolAssumption DEF MayCall, CountedPlaces
    <3> QED
      BY <1>2, <3>1, <3>2 DEF Work, CheckStopped, Increment, QueueToSystem,
         QueueFails, ThreadProc, Process, Decrement, CountedPlaces
  <2> QED
    BY <1>2, <2>1, <2>2 DEF Drained
<1>3. CASE UNCHANGED vars
  BY <1>3 DEF vars, Drained, Active, InCall
<1> QED
  BY <1>1, <1>2, <1>3 DEF Next

\* When calls from outside do not overlap it, Stop drains the pool unless it
\* times out or has no event, for any number of items and any delay.
THEOREM StopDrains ==
  ASSUME ~LateCallers
  PROVE  Spec => []Drained
<1>1. Init => Inv /\ NoOutsideCalls /\ Drained
  BY InitInv
<1>2. Inv /\ NoOutsideCalls /\ Drained /\ [Next]_vars
        => (Inv /\ NoOutsideCalls /\ Drained)'
  BY StepInv, OutsideStaysOut, StaysDrained
<1> QED
  BY <1>1, <1>2, PTL DEF Spec

=============================================================================
