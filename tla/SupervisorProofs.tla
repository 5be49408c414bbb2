--------------------------- MODULE SupervisorProofs ---------------------------
(***************************************************************************)
(* That the variables of Supervisor keep their types, that no process      *)
(* outlives its run, and that the run loops implement Lifecycle, for any   *)
(* upstreams, sessions, tool lists and MaxFailures.                        *)
(***************************************************************************)
EXTENDS Supervisor, TLAPS

\* The server of a run answers only while the run is under way.
AliveRuns == \A u \in Ids : alive[u] => pc[u] \in Running

\* Until the loop gives up it has not failed too often.
FailuresBelow == \A u \in Ids : pc[u] \notin {"leave", "exit"} => failures[u] < MaxFailures

IInv == TypeOK /\ NoStrayProcess /\ AliveRuns /\ FailuresBelow

(***************************************************************************)
(* Types: a lemma for each part of a run loop.                             *)
(***************************************************************************)

\* A step towards Ready keeps the types (TypeOK).
LEMMA StartsTypes ==
    ASSUME TypeOK, FailuresBelow, NEW u \in Ids, Starts(u)
    PROVE  TypeOK'
<1>1. CASE Begin(u)
    BY <1>1
    DEF Begin, At, Goto, cache, handlers, world, TypeOK, Places
<1>2. CASE HasLogin(u)
    BY <1>2
    DEF HasLogin, At, Goto, run, cache, handlers, world, TypeOK, Places
<1>3. CASE NeedsLogin(u)
    BY <1>3
    DEF NeedsLogin, At, Goto, setState, run, cache, handlers, world, TypeOK,
        Places, States
<1>4. CASE LoginFails(u)
    BY <1>4
    DEF LoginFails, At, Goto, run, cache, handlers, world, TypeOK, Places
<1>5. CASE Parked(u)
    BY <1>5
    DEF Parked, At, Goto, signalFirst, run, cache, handlers, world, TypeOK, Places
<1>6. CASE LoggedIn(u)
    BY <1>6
    DEF LoggedIn, At, Goto, setState, run, cache, handlers, world, TypeOK, Places,
        States
<1>7. CASE WaitCancelled(u)
    BY <1>7
    DEF WaitCancelled, At, Goto, run, cache, handlers, world, TypeOK, Places
<1>8. CASE Spawn(u)
    BY <1>8, SupervisorAssumption
    DEF Spawn, At, Goto, Unused, cache, handlers, TypeOK, Places
<1>9. CASE Connected(u)
    BY <1>9, SupervisorAssumption
    DEF Connected, At, Goto, handlers, world, TypeOK, Places
<1>10. CASE ConnectFails(u)
    BY <1>10, SupervisorAssumption
    DEF ConnectFails, At, Goto, killGroup, cache, handlers, TypeOK, Places, None
<1>11. CASE ListAnswers(u)
    BY <1>11
    DEF ListAnswers, At, Goto, cache, handlers, world, TypeOK, Places, Lists
<1>12. CASE ListFails(u)
    BY <1>12
    DEF ListFails, At, Goto, run, cache, handlers, world, TypeOK, Places
<1>13. CASE StoreTools(u)
    BY <1>13
    DEF StoreTools, At, Goto, handlers, world, TypeOK, Places, Lists, None
<1>14. CASE BecomeReady(u)
    BY <1>14
    DEF BecomeReady, At, Goto, setState, run, cache, handlers, world, TypeOK,
        Places, States
<1>15. CASE Settle(u)
    BY <1>15
    DEF Settle, At, Goto, signalFirst, cache, handlers, world, TypeOK, Places
<1> QED
    BY <1>1, <1>2, <1>3, <1>4, <1>5, <1>6, <1>7, <1>8, <1>9, <1>10, <1>11, <1>12, <1>13,
       <1>14, <1>15 DEF Starts

\* A step of a serving run, or of its end keeps the types (TypeOK).
LEMMA ServesTypes ==
    ASSUME TypeOK, FailuresBelow, NEW u \in Ids, Serves(u)
    PROVE  TypeOK'
<1>1. CASE Cancelled(u)
    BY <1>1
    DEF Cancelled, At, Goto, setState, run, cache, handlers, world, TypeOK,
        Places, States
<1>2. CASE Exited(u)
    BY <1>2
    DEF Exited, At, Goto, killGroup, run, cache, handlers, TypeOK, Places, None
<1>3. CASE Tick(u)
    BY <1>3
    DEF Tick, At, Goto, run, cache, handlers, world, TypeOK, Places
<1>4. CASE PingAnswers(u)
    BY <1>4
    DEF PingAnswers, At, Goto, cache, handlers, world, TypeOK, Places
<1>5. CASE PingMoot(u)
    BY <1>5
    DEF PingMoot, At, Goto, run, cache, handlers, world, TypeOK, Places
<1>6. CASE PingUnsupported(u)
    BY <1>6
    DEF PingUnsupported, At, Goto, handlers, world, TypeOK, Places
<1>7. CASE PingFails(u)
    BY <1>7
    DEF PingFails, At, Goto, run, cache, handlers, world, TypeOK, Places
<1>8. CASE shutdown(u)
    BY <1>8
    DEF shutdown, At, Goto, killGroup, run, cache, handlers, TypeOK, Places, None
<1>9. CASE Clear(u)
    BY <1>9
    DEF Clear, At, Goto, handlers, world, TypeOK, Places, Lists, None
<1> QED
    BY <1>1, <1>2, <1>3, <1>4, <1>5, <1>6, <1>7, <1>8, <1>9 DEF Serves

\* A step of the loop around the runs keeps the types (TypeOK).
LEMMA EndsTypes ==
    ASSUME TypeOK, FailuresBelow, NEW u \in Ids, Ends(u)
    PROVE  TypeOK'
<1>1. CASE Stopping(u)
    BY <1>1, SupervisorAssumption
    DEF Stopping, At, Goto, setState, run, cache, handlers, world, TypeOK, Places,
        States, FailuresBelow
<1>2. CASE GiveUp(u)
    <2>1. Failed(u) \in 0..MaxFailures
        <3>1. failures[u] \in 0..MaxFailures /\ failures[u] < MaxFailures
            BY <1>2 DEF GiveUp, At, TypeOK, FailuresBelow
        <3>2. MaxFailures \in Nat \ {0}
            BY SupervisorAssumption
        <3> QED
            BY <3>1, <3>2 DEF Failed
    <2> QED
        BY <1>2, <2>1
        DEF GiveUp, Goto, setState, run, cache, handlers, world, TypeOK, Places, States
<1>3. CASE Retry(u)
    BY <1>3, SupervisorAssumption
    DEF Retry, At, Goto, setState, Failed, TooMany, run, cache, handlers, world,
        TypeOK, Places, States, FailuresBelow
<1>4. CASE BackoffEnds(u)
    BY <1>4
    DEF BackoffEnds, At, Goto, run, cache, handlers, world, TypeOK, Places
<1>5. CASE BackoffCancelled(u)
    BY <1>5, SupervisorAssumption
    DEF BackoffCancelled, At, Goto, setState, signalFirst, loop, run, cache,
        handlers, world, TypeOK, Places, States
<1>6. CASE Leave(u)
    BY <1>6, SupervisorAssumption
    DEF Leave, At, Goto, signalFirst, run, cache, handlers, world, TypeOK, Places
<1> QED
    BY <1>1, <1>2, <1>3, <1>4, <1>5, <1>6 DEF Ends

\* A step of the server, its process or the user keeps the types (TypeOK).
LEMMA EnvironmentTypes ==
    ASSUME TypeOK, FailuresBelow, NEW u \in Ids, Environment(u)
    PROVE  TypeOK'
<1>1. CASE SessionEnds(u)
    <2>1. group' \in [Ids -> [Sessions -> {None, "child", "orphans"}]]
        <3>1. CASE u \in Stdio
            <4>1. PICK left \in {None, "orphans"} : group' = [group EXCEPT ![u][current[u]] = left]
                BY <1>1, <3>1 DEF SessionEnds
            <4> QED
                BY <4>1 DEF TypeOK
        <3>2. CASE u \notin Stdio
            BY <1>1, <3>2 DEF SessionEnds, TypeOK
        <3> QED
            BY <3>1, <3>2
    <2> QED
        BY <1>1, <2>1
        DEF SessionEnds, TypeOK, loop, run, cache, handlers
<1>2. CASE ServerChanges(u)
    <2>1. catalog' \in [Ids -> Versions]
        BY <1>2 DEF ServerChanges, TypeOK
    <2>2. pending' \in [Ids -> [Sessions -> BOOLEAN]]
        <3>1. CASE alive[u] /\ session[u] # None
            <4>1. pending' = [pending EXCEPT ![u][current[u]] = TRUE]
                BY <1>2, <3>1 DEF ServerChanges
            <4> QED
                BY <4>1, Zenon DEF TypeOK
        <3>2. CASE ~(alive[u] /\ session[u] # None)
            BY <1>2, <3>2 DEF ServerChanges, TypeOK
        <3> QED
            BY <3>1, <3>2
    <2> QED
        BY <1>2, <2>1, <2>2
        DEF ServerChanges, TypeOK, loop, run, cache
<1>3. CASE LoginChanges(u)
    BY <1>3
    DEF LoginChanges, loop, run, cache, handlers, TypeOK
<1>4. CASE Stabilise(u)
    BY <1>4
    DEF Stabilise, loop, cache, handlers, world, TypeOK
<1> QED
    BY <1>1, <1>2, <1>3, <1>4 DEF Environment

\* A step of a list_changed handler keeps the types (TypeOK).
LEMMA HandlesTypes ==
    ASSUME TypeOK, FailuresBelow, NEW u \in Ids, NEW s \in Sessions, Handles(u, s)
    PROVE  TypeOK'
<1>1. CASE HandlerStarts(u, s)
    BY <1>1, SupervisorAssumption
    DEF HandlerStarts, loop, run, cache, world, Idle, TypeOK, Lists, Handlers,
        None
<1>2. CASE HandlerAnswered(u, s)
    <2> DEFINE h == handler[u][s]
    <2>1. h \in Handlers /\ catalog[u] \in Versions
        BY DEF TypeOK
    <2>2. [h EXCEPT !.pc = "store", !.snap = catalog[u]] \in Handlers
        BY <2>1 DEF Handlers, Lists
    <2>3. handler' = [handler EXCEPT ![u][s] = [h EXCEPT !.pc = "store", !.snap = catalog[u]]]
        BY <1>2 DEF HandlerAnswered, TypeOK
    <2> HIDE DEF h
    <2>4. handler' \in [Ids -> [Sessions -> Handlers]]
        BY <2>2, <2>3 DEF TypeOK
    <2> QED
        BY <1>2, <2>4 DEF HandlerAnswered, TypeOK, loop, run, cache, world
<1>3. CASE HandlerFails(u, s)
    BY <1>3, SupervisorAssumption
    DEF HandlerFails, loop, run, cache, world, Idle, TypeOK, Lists, Handlers
<1>4. CASE HandlerStores(u, s)
    BY <1>4, SupervisorAssumption
    DEF HandlerStores, loop, run, world, Idle, TypeOK, Lists, Handlers
<1> QED
    BY <1>1, <1>2, <1>3, <1>4 DEF Handles

\* A step towards Ready keeps NoStrayProcess with what it rests on.
LEMMA StartsSweeps ==
    ASSUME IInv, NEW u \in Ids, Starts(u)
    PROVE  NoStrayProcess' /\ AliveRuns' /\ FailuresBelow'
<1> USE DEF IInv
<1>1. CASE Begin(u)
    BY <1>1
    DEF Begin, At, Goto, cache, handlers, world, TypeOK, NoStrayProcess,
        AliveRuns, FailuresBelow, Running, None, Places
<1>2. CASE HasLogin(u)
    BY <1>2
    DEF HasLogin, At, Goto, run, cache, handlers, world, TypeOK, NoStrayProcess,
        AliveRuns, FailuresBelow, Running, None, Places
<1>3. CASE NeedsLogin(u)
    BY <1>3
    DEF NeedsLogin, At, Goto, setState, run, cache, handlers, world, TypeOK,
        NoStrayProcess, AliveRuns, FailuresBelow, Running, None, Places
<1>4. CASE LoginFails(u)
    BY <1>4
    DEF LoginFails, At, Goto, run, cache, handlers, world, TypeOK, NoStrayProcess,
        AliveRuns, FailuresBelow, Running, None, Places
<1>5. CASE Parked(u)
    BY <1>5
    DEF Parked, At, Goto, signalFirst, run, cache, handlers, world, TypeOK,
        NoStrayProcess, AliveRuns, FailuresBelow, Running, None, Places
<1>6. CASE LoggedIn(u)
    BY <1>6
    DEF LoggedIn, At, Goto, setState, run, cache, handlers, world, TypeOK,
        NoStrayProcess, AliveRuns, FailuresBelow, Running, None, Places
<1>7. CASE WaitCancelled(u)
    BY <1>7
    DEF WaitCancelled, At, Goto, run, cache, handlers, world, TypeOK,
        NoStrayProcess, AliveRuns, FailuresBelow, Running, None, Places
<1>8. CASE Spawn(u)
    BY <1>8, SupervisorAssumption
    DEF Spawn, At, Goto, Unused, cache, handlers, TypeOK, NoStrayProcess,
        AliveRuns, FailuresBelow, Running, None, Places
<1>9. CASE Connected(u)
    BY <1>9
    DEF Connected, At, Goto, handlers, world, TypeOK, NoStrayProcess, AliveRuns,
        FailuresBelow, Running, None, Places
<1>10. CASE ConnectFails(u)
    BY <1>10
    DEF ConnectFails, At, Goto, killGroup, cache, handlers, TypeOK,
        NoStrayProcess, AliveRuns, FailuresBelow, Running, None, Places
<1>11. CASE ListAnswers(u)
    BY <1>11
    DEF ListAnswers, At, Goto, cache, handlers, world, TypeOK, NoStrayProcess,
        AliveRuns, FailuresBelow, Running, None, Places
<1>12. CASE ListFails(u)
    BY <1>12
    DEF ListFails, At, Goto, run, cache, handlers, world, TypeOK, NoStrayProcess,
        AliveRuns, FailuresBelow, Running, None, Places
<1>13. CASE StoreTools(u)
    BY <1>13
    DEF StoreTools, At, Goto, handlers, world, TypeOK, NoStrayProcess, AliveRuns,
        FailuresBelow, Running, None, Places
<1>14. CASE BecomeReady(u)
    BY <1>14
    DEF BecomeReady, At, Goto, setState, run, cache, handlers, world, TypeOK,
        NoStrayProcess, AliveRuns, FailuresBelow, Running, None, Places
<1>15. CASE Settle(u)
    BY <1>15
    DEF Settle, At, Goto, signalFirst, cache, handlers, world, TypeOK,
        NoStrayProcess, AliveRuns, FailuresBelow, Running, None, Places
<1> QED
    BY <1>1, <1>2, <1>3, <1>4, <1>5, <1>6, <1>7, <1>8, <1>9, <1>10, <1>11, <1>12, <1>13,
       <1>14, <1>15 DEF Starts

\* A step of a serving run, or of its end keeps NoStrayProcess with what it rests on.
LEMMA ServesSweeps ==
    ASSUME IInv, NEW u \in Ids, Serves(u)
    PROVE  NoStrayProcess' /\ AliveRuns' /\ FailuresBelow'
<1> USE DEF IInv
<1>1. CASE Cancelled(u)
    BY <1>1
    DEF Cancelled, At, Goto, setState, run, cache, handlers, world, TypeOK,
        NoStrayProcess, AliveRuns, FailuresBelow, Running, None, Places
<1>2. CASE Exited(u)
    BY <1>2
    DEF Exited, At, Goto, killGroup, run, cache, handlers, TypeOK, NoStrayProcess,
        AliveRuns, FailuresBelow, Running, None, Places
<1>3. CASE Tick(u)
    BY <1>3
    DEF Tick, At, Goto, run, cache, handlers, world, TypeOK, NoStrayProcess,
        AliveRuns, FailuresBelow, Running, None, Places
<1>4. CASE PingAnswers(u)
    BY <1>4
    DEF PingAnswers, At, Goto, cache, handlers, world, TypeOK, NoStrayProcess,
        AliveRuns, FailuresBelow, Running, None, Places
<1>5. CASE PingMoot(u)
    BY <1>5
    DEF PingMoot, At, Goto, run, cache, handlers, world, TypeOK, NoStrayProcess,
        AliveRuns, FailuresBelow, Running, None, Places
<1>6. CASE PingUnsupported(u)
    BY <1>6
    DEF PingUnsupported, At, Goto, handlers, world, TypeOK, NoStrayProcess,
        AliveRuns, FailuresBelow, Running, None, Places
<1>7. CASE PingFails(u)
    BY <1>7
    DEF PingFails, At, Goto, run, cache, handlers, world, TypeOK, NoStrayProcess,
        AliveRuns, FailuresBelow, Running, None, Places
<1>8. CASE shutdown(u)
    BY <1>8
    DEF shutdown, At, Goto, killGroup, run, cache, handlers, TypeOK,
        NoStrayProcess, AliveRuns, FailuresBelow, Running, None, Places
<1>9. CASE Clear(u)
    BY <1>9
    DEF Clear, At, Goto, handlers, world, TypeOK, NoStrayProcess, AliveRuns,
        FailuresBelow, Running, None, Places
<1> QED
    BY <1>1, <1>2, <1>3, <1>4, <1>5, <1>6, <1>7, <1>8, <1>9 DEF Serves

\* A step of the loop around the runs keeps NoStrayProcess with what it rests on.
LEMMA EndsSweeps ==
    ASSUME IInv, NEW u \in Ids, Ends(u)
    PROVE  NoStrayProcess' /\ AliveRuns' /\ FailuresBelow'
<1> USE DEF IInv
<1>1. CASE Stopping(u)
    BY <1>1
    DEF Stopping, At, Goto, setState, run, cache, handlers, world, TypeOK,
        NoStrayProcess, AliveRuns, FailuresBelow, Running, None, Places
<1>2. CASE GiveUp(u)
    BY <1>2, SupervisorAssumption
    DEF GiveUp, At, Goto, setState, Failed, TooMany, run, cache, handlers, world,
        TypeOK, NoStrayProcess, AliveRuns, FailuresBelow, Running, None, Places
<1>3. CASE Retry(u)
    BY <1>3, SupervisorAssumption
    DEF Retry, At, Goto, setState, Failed, TooMany, run, cache, handlers, world,
        TypeOK, NoStrayProcess, AliveRuns, FailuresBelow, Running, None, Places
<1>4. CASE BackoffEnds(u)
    BY <1>4
    DEF BackoffEnds, At, Goto, run, cache, handlers, world, TypeOK,
        NoStrayProcess, AliveRuns, FailuresBelow, Running, None, Places
<1>5. CASE BackoffCancelled(u)
    BY <1>5
    DEF BackoffCancelled, At, Goto, setState, signalFirst, loop, run, cache,
        handlers, world, TypeOK, NoStrayProcess, AliveRuns, FailuresBelow,
        Running, None, Places
<1>6. CASE Leave(u)
    BY <1>6
    DEF Leave, At, Goto, signalFirst, run, cache, handlers, world, TypeOK,
        NoStrayProcess, AliveRuns, FailuresBelow, Running, None, Places
<1> QED
    BY <1>1, <1>2, <1>3, <1>4, <1>5, <1>6 DEF Ends

\* A step of the server, its process or the user keeps NoStrayProcess with what it rests on.
LEMMA EnvironmentSweeps ==
    ASSUME IInv, NEW u \in Ids, Environment(u)
    PROVE  NoStrayProcess' /\ AliveRuns' /\ FailuresBelow'
<1> USE DEF IInv
<1>1. CASE SessionEnds(u)
    <2>1. pc[u] \in Running /\ pc' = pc /\ failures' = failures /\ current' = current
        BY <1>1 DEF SessionEnds, AliveRuns, loop, run
    <2>2. AliveRuns' /\ FailuresBelow'
        BY <1>1, <2>1 DEF SessionEnds, AliveRuns, FailuresBelow, TypeOK
    <2>3. NoStrayProcess'
        <3>1. ASSUME NEW v \in Ids, NEW s \in Sessions, group'[v][s] # None
              PROVE  group[v][s] # None \/ (v = u /\ s = current[u])
            BY <1>1, <3>1 DEF SessionEnds, TypeOK
        <3> QED
            BY <2>1, <3>1 DEF NoStrayProcess
    <2> QED
        BY <2>2, <2>3
<1>2. CASE ServerChanges(u)
    BY <1>2
    DEF ServerChanges, loop, run, cache, TypeOK, NoStrayProcess, AliveRuns,
        FailuresBelow, Running, None
<1>3. CASE LoginChanges(u)
    BY <1>3
    DEF LoginChanges, loop, run, cache, handlers, TypeOK, NoStrayProcess,
        AliveRuns, FailuresBelow, Running, None
<1>4. CASE Stabilise(u)
    BY <1>4
    DEF Stabilise, loop, cache, handlers, world, TypeOK, NoStrayProcess,
        AliveRuns, FailuresBelow, Running, None
<1> QED
    BY <1>1, <1>2, <1>3, <1>4 DEF Environment

\* A step of a list_changed handler keeps NoStrayProcess with what it rests on.
LEMMA HandlesSweeps ==
    ASSUME IInv, NEW u \in Ids, NEW s \in Sessions, Handles(u, s)
    PROVE  NoStrayProcess' /\ AliveRuns' /\ FailuresBelow'
<1> USE DEF IInv
<1>1. CASE HandlerStarts(u, s)
    BY <1>1
    DEF HandlerStarts, loop, run, cache, world, Idle, TypeOK, NoStrayProcess,
        AliveRuns, FailuresBelow, Running, None
<1>2. CASE HandlerAnswered(u, s)
    BY <1>2
    DEF HandlerAnswered, loop, run, cache, world, TypeOK, NoStrayProcess,
        AliveRuns, FailuresBelow, Running, None
<1>3. CASE HandlerFails(u, s)
    BY <1>3
    DEF HandlerFails, loop, run, cache, world, Idle, TypeOK, NoStrayProcess,
        AliveRuns, FailuresBelow, Running, None
<1>4. CASE HandlerStores(u, s)
    BY <1>4
    DEF HandlerStores, loop, run, world, Idle, TypeOK, NoStrayProcess, AliveRuns,
        FailuresBelow, Running, None
<1> QED
    BY <1>1, <1>2, <1>3, <1>4 DEF Handles

\* The steps that Supervisor and Catalog share keep the inductive invariant.
LEMMA WorksKeeps ==
    ASSUME IInv, Works
    PROVE  IInv'
<1>1. CASE \E u \in Ids : Starts(u) \/ Serves(u) \/ Ends(u) \/ Environment(u)
    BY <1>1, StartsTypes, ServesTypes, EndsTypes, EnvironmentTypes,
       StartsSweeps, ServesSweeps, EndsSweeps, EnvironmentSweeps DEF IInv
<1>2. CASE \E u \in Ids, s \in Sessions : Handles(u, s)
    BY <1>2, HandlesTypes, HandlesSweeps DEF IInv
<1>3. CASE Stop
    BY <1>3 DEF Stop, IInv, TypeOK, NoStrayProcess, AliveRuns, FailuresBelow, loop, run, cache,
        handlers, world
<1> QED
    BY <1>1, <1>2, <1>3 DEF Works

\* OnChange returns to a run loop.
LEMMA NotifiedKeeps ==
    ASSUME IInv, NEW u \in Ids, Notified(u)
    PROVE  IInv'
<1>1. TypeOK'
    BY DEF IInv, Notified, TypeOK, run, cache, handlers, world
<1> QED
    BY <1>1 DEF IInv, Notified, NoStrayProcess, AliveRuns, FailuresBelow, run, cache, handlers, world

\* OnChange returns to a handler.
LEMMA HandlerNotifiedKeeps ==
    ASSUME IInv, NEW u \in Ids, NEW s \in Sessions, HandlerNotified(u, s)
    PROVE  IInv'
<1>1. TypeOK'
    BY DEF IInv, HandlerNotified, TypeOK, Handlers, Idle, Lists, loop, run, cache, world
<1> QED
    BY <1>1 DEF IInv, HandlerNotified, NoStrayProcess, AliveRuns, FailuresBelow, loop, run, cache,
        world

\* The initial states satisfy the inductive invariant.
LEMMA InitHolds == Init => IInv
<1> SUFFICES ASSUME Init PROVE IInv
    OBVIOUS
<1>1. TypeOK
    <2>1. /\ owes \in [Ids -> BOOLEAN] /\ pingBroken \in [Ids -> BOOLEAN]
          /\ pinged \in [Ids -> BOOLEAN] /\ quiet \in [Ids -> BOOLEAN]
          /\ stable \in [Ids -> BOOLEAN] /\ first \in [Ids -> BOOLEAN]
          /\ alive \in [Ids -> BOOLEAN] /\ ctxDone \in BOOLEAN
        BY Zenon DEF Init
    <2>2. pending \in [Ids -> [Sessions -> BOOLEAN]]
        BY Zenon DEF Init
    <2>3. handler \in [Ids -> [Sessions -> Handlers]]
        BY DEF Init, Handlers, Idle, Lists
    <2> QED
        BY <2>1, <2>2, <2>3, SupervisorAssumption DEF Init, TypeOK, Places, States, Lists
<1> QED
    BY <1>1, SupervisorAssumption
    DEF Init, IInv, NoStrayProcess, AliveRuns, FailuresBelow, None

\* Every step keeps the inductive invariant.
LEMMA StepHolds == IInv /\ [Next]_vars => IInv'
<1> SUFFICES ASSUME IInv, [Next]_vars PROVE IInv'
    OBVIOUS
<1>1. CASE Works
    BY <1>1, WorksKeeps
<1>2. CASE \E u \in Ids : Notified(u)
    BY <1>2, NotifiedKeeps
<1>3. CASE \E u \in Ids, s \in Sessions : HandlerNotified(u, s)
    BY <1>3, HandlerNotifiedKeeps
<1>4. CASE UNCHANGED vars
    BY <1>4 DEF vars, IInv, TypeOK, NoStrayProcess, AliveRuns, FailuresBelow
<1> QED
    BY <1>1, <1>2, <1>3, <1>4 DEF Next

\* The inductive invariant holds throughout.
THEOREM Invariance == Spec => []IInv
<1> QED
    BY InitHolds, StepHolds, PTL DEF Spec

\* Every variable of the run loops and handlers keeps its type (TypeOK), and a loop that
\* has not given up yet has failed fewer than MaxFailures times in a row.
THEOREM TypeCorrect == Spec => [](TypeOK /\ FailuresBelow)
<1>1. IInv => TypeOK /\ FailuresBelow
    BY DEF IInv
<1> QED
    BY <1>1, Invariance, PTL

\* No process group outlives the run it was started for (NoStrayProcess), however runs,
\* exits, pings, handlers and Stop meet.
THEOREM NoStrays == Spec => []NoStrayProcess
<1>1. IInv => NoStrayProcess
    BY DEF IInv
<1> QED
    BY <1>1, Invariance, PTL

(***************************************************************************)
(* The run loops implement Lifecycle: the state and the session of an      *)
(* upstream go with the place its loop is at.                              *)
(***************************************************************************)

StateFits(u) ==
    /\ pc[u] \in {"begin", "login", "spawn", "connect", "list", "store", "ready", "backoff"}
            => state[u] = "starting"
    /\ pc[u] \in {"park", "wait"} => state[u] = "needsLogin"
    /\ pc[u] \in {"settle", "serve", "ping"} => state[u] = "ready"
    /\ pc[u] \in {"close", "clear"} => state[u] \in {"starting", "ready", "stopped"}
    /\ pc[u] = "account" => state[u] \in {"starting", "ready", "needsLogin", "stopped"}
    /\ state[u] = "stopped" => ctxDone
    /\ pc[u] = "account" /\ state[u] = "needsLogin" => ctxDone
    /\ state[u] = "failed" => pc[u] \in {"leave", "exit"}

\* The session that calls are sent to is that of the run, while it has one.
SessionFits(u) ==
    /\ pc[u] \in Running \cup {"clear"} => current[u] \in Sessions
    /\ session[u] = IF pc[u] \in (Running \cup {"clear"}) \ {"connect"} THEN current[u] ELSE None

\* A child that answers is there.
ChildFits(u) == alive[u] /\ u \in Stdio => group[u][current[u]] # None /\ pc[u] \in Running

Fits(u) == StateFits(u) /\ SessionFits(u) /\ ChildFits(u)
Fit == \A u \in Ids : Fits(u)

\* A step towards Ready keeps the state and the session with the place.
LEMMA StartsFit ==
    ASSUME TypeOK, NoStrayProcess, Fit, NEW u \in Ids, NEW v \in Ids, Starts(v)
    PROVE  Fits(u)'
<1> Fits(u) /\ Fits(v)
    BY DEF Fit
<1>1. CASE Begin(v)
    BY <1>1
    DEF Begin, At, Goto, cache, handlers, world, TypeOK, Fits, StateFits, SessionFits,
        ChildFits, Running
<1>2. CASE HasLogin(v)
    BY <1>2
    DEF HasLogin, At, Goto, run, cache, handlers, world, TypeOK, Fits, StateFits, SessionFits,
        ChildFits, Running
<1>3. CASE NeedsLogin(v)
    BY <1>3
    DEF NeedsLogin, At, Goto, setState, run, cache, handlers, world, TypeOK, Fits, StateFits,
        SessionFits, ChildFits, Running
<1>4. CASE LoginFails(v)
    BY <1>4
    DEF LoginFails, At, Goto, run, cache, handlers, world, TypeOK, Fits, StateFits, SessionFits,
        ChildFits, Running
<1>5. CASE Parked(v)
    BY <1>5
    DEF Parked, At, Goto, signalFirst, run, cache, handlers, world, TypeOK, Fits, StateFits,
        SessionFits, ChildFits, Running
<1>6. CASE LoggedIn(v)
    BY <1>6
    DEF LoggedIn, At, Goto, setState, run, cache, handlers, world, TypeOK, Fits, StateFits,
        SessionFits, ChildFits, Running
<1>7. CASE WaitCancelled(v)
    BY <1>7
    DEF WaitCancelled, At, Goto, run, cache, handlers, world, TypeOK, Fits, StateFits,
        SessionFits, ChildFits, Running
<1>8. CASE Spawn(v)
    <2>1. PICK s \in Sessions :
            /\ current' = [current EXCEPT ![v] = s]
            /\ group' = IF v \in Stdio THEN [group EXCEPT ![v][s] = "child"] ELSE group
        BY <1>8 DEF Spawn
    <2>2. /\ pc[v] = "spawn" /\ pc' = [pc EXCEPT ![v] = "connect"]
          /\ alive' = [alive EXCEPT ![v] = TRUE]
          /\ state' = state /\ session' = session /\ ctxDone' = ctxDone
        BY <1>8 DEF Spawn, At, Goto, cache
    <2>3. StateFits(u)'
        BY <2>2 DEF TypeOK, Fits, StateFits
    <2>4. SessionFits(u)'
        BY <2>1, <2>2 DEF TypeOK, Fits, SessionFits, Running
    <2>5. ChildFits(u)'
        BY <2>1, <2>2 DEF TypeOK, Fits, ChildFits, Running, None
    <2> QED
        BY <2>3, <2>4, <2>5 DEF Fits
<1>9. CASE Connected(v)
    BY <1>9
    DEF Connected, At, Goto, handlers, world, TypeOK, Fits, StateFits, SessionFits, ChildFits,
        Running
<1>10. CASE ConnectFails(v)
    BY <1>10
    DEF ConnectFails, At, Goto, killGroup, cache, handlers, TypeOK, Fits, StateFits,
        SessionFits, ChildFits, Running, NoStrayProcess
<1>11. CASE ListAnswers(v)
    BY <1>11
    DEF ListAnswers, At, Goto, cache, handlers, world, TypeOK, Fits, StateFits, SessionFits,
        ChildFits, Running
<1>12. CASE ListFails(v)
    BY <1>12
    DEF ListFails, At, Goto, run, cache, handlers, world, TypeOK, Fits, StateFits, SessionFits,
        ChildFits, Running
<1>13. CASE StoreTools(v)
    BY <1>13
    DEF StoreTools, At, Goto, handlers, world, TypeOK, Fits, StateFits, SessionFits, ChildFits,
        Running
<1>14. CASE BecomeReady(v)
    BY <1>14
    DEF BecomeReady, At, Goto, setState, run, cache, handlers, world, TypeOK, Fits, StateFits,
        SessionFits, ChildFits, Running
<1>15. CASE Settle(v)
    BY <1>15
    DEF Settle, At, Goto, signalFirst, cache, handlers, world, TypeOK, Fits, StateFits,
        SessionFits, ChildFits, Running
<1> QED
    BY <1>1, <1>2, <1>3, <1>4, <1>5, <1>6, <1>7, <1>8, <1>9, <1>10, <1>11, <1>12, <1>13, <1>14,
       <1>15 DEF Starts

\* A step of a serving run, or of its end keeps the state and the session with the place.
LEMMA ServesFit ==
    ASSUME TypeOK, NoStrayProcess, Fit, NEW u \in Ids, NEW v \in Ids, Serves(v)
    PROVE  Fits(u)'
<1> Fits(u) /\ Fits(v)
    BY DEF Fit
<1>1. CASE Cancelled(v)
    BY <1>1
    DEF Cancelled, At, Goto, setState, run, cache, handlers, world, TypeOK, Fits, StateFits,
        SessionFits, ChildFits, Running
<1>2. CASE Exited(v)
    BY <1>2
    DEF Exited, At, Goto, killGroup, run, cache, handlers, TypeOK, Fits, StateFits, SessionFits,
        ChildFits, Running, NoStrayProcess
<1>3. CASE Tick(v)
    BY <1>3
    DEF Tick, At, Goto, run, cache, handlers, world, TypeOK, Fits, StateFits, SessionFits,
        ChildFits, Running
<1>4. CASE PingAnswers(v)
    BY <1>4
    DEF PingAnswers, At, Goto, cache, handlers, world, TypeOK, Fits, StateFits, SessionFits,
        ChildFits, Running
<1>5. CASE PingMoot(v)
    BY <1>5
    DEF PingMoot, At, Goto, run, cache, handlers, world, TypeOK, Fits, StateFits, SessionFits,
        ChildFits, Running
<1>6. CASE PingUnsupported(v)
    BY <1>6
    DEF PingUnsupported, At, Goto, handlers, world, TypeOK, Fits, StateFits, SessionFits,
        ChildFits, Running
<1>7. CASE PingFails(v)
    BY <1>7
    DEF PingFails, At, Goto, run, cache, handlers, world, TypeOK, Fits, StateFits, SessionFits,
        ChildFits, Running
<1>8. CASE shutdown(v)
    BY <1>8
    DEF shutdown, At, Goto, killGroup, run, cache, handlers, TypeOK, Fits, StateFits,
        SessionFits, ChildFits, Running, NoStrayProcess
<1>9. CASE Clear(v)
    BY <1>9
    DEF Clear, At, Goto, handlers, world, TypeOK, Fits, StateFits, SessionFits, ChildFits,
        Running, NoStrayProcess
<1> QED
    BY <1>1, <1>2, <1>3, <1>4, <1>5, <1>6, <1>7, <1>8, <1>9 DEF Serves

\* A step of the loop around the runs keeps the state and the session with the place.
LEMMA EndsFit ==
    ASSUME TypeOK, NoStrayProcess, Fit, NEW u \in Ids, NEW v \in Ids, Ends(v)
    PROVE  Fits(u)'
<1> Fits(u) /\ Fits(v)
    BY DEF Fit
<1>1. CASE Stopping(v)
    BY <1>1
    DEF Stopping, At, Goto, setState, run, cache, handlers, world, TypeOK, Fits, StateFits,
        SessionFits, ChildFits, Running
<1>2. CASE GiveUp(v)
    BY <1>2
    DEF GiveUp, At, Goto, setState, Failed, TooMany, run, cache, handlers, world, TypeOK, Fits,
        StateFits, SessionFits, ChildFits, Running
<1>3. CASE Retry(v)
    BY <1>3
    DEF Retry, At, Goto, setState, Failed, TooMany, run, cache, handlers, world, TypeOK, Fits,
        StateFits, SessionFits, ChildFits, Running
<1>4. CASE BackoffEnds(v)
    BY <1>4
    DEF BackoffEnds, At, Goto, run, cache, handlers, world, TypeOK, Fits, StateFits,
        SessionFits, ChildFits, Running
<1>5. CASE BackoffCancelled(v)
    BY <1>5
    DEF BackoffCancelled, At, Goto, setState, run, cache, handlers, world, TypeOK, Fits,
        StateFits, SessionFits, ChildFits, Running
<1>6. CASE Leave(v)
    BY <1>6
    DEF Leave, At, Goto, signalFirst, run, cache, handlers, world, TypeOK, Fits, StateFits,
        SessionFits, ChildFits, Running
<1> QED
    BY <1>1, <1>2, <1>3, <1>4, <1>5, <1>6 DEF Ends

\* A step of the server, its process or the user keeps the state and the session with the place.
LEMMA EnvironmentFit ==
    ASSUME TypeOK, NoStrayProcess, Fit, NEW u \in Ids, NEW v \in Ids, Environment(v)
    PROVE  Fits(u)'
<1> Fits(u) /\ Fits(v)
    BY DEF Fit
<1>1. CASE SessionEnds(v)
    BY <1>1
    DEF SessionEnds, loop, run, cache, handlers, TypeOK, Fits, StateFits, SessionFits,
        ChildFits, Running, NoStrayProcess
<1>2. CASE ServerChanges(v)
    BY <1>2
    DEF ServerChanges, loop, run, cache, TypeOK, Fits, StateFits, SessionFits, ChildFits,
        Running
<1>3. CASE LoginChanges(v)
    BY <1>3
    DEF LoginChanges, loop, run, cache, handlers, TypeOK, Fits, StateFits, SessionFits,
        ChildFits, Running
<1>4. CASE Stabilise(v)
    BY <1>4
    DEF Stabilise, loop, cache, handlers, world, TypeOK, Fits, StateFits, SessionFits,
        ChildFits, Running
<1> QED
    BY <1>1, <1>2, <1>3, <1>4 DEF Environment

\* A step of a list_changed handler keeps the state and the session with the place.
LEMMA HandlesFit ==
    ASSUME TypeOK, NoStrayProcess, Fit, NEW u \in Ids, NEW v \in Ids, NEW s \in Sessions, Handles(v, s)
    PROVE  Fits(u)'
<1> Fits(u) /\ Fits(v)
    BY DEF Fit
<1>1. CASE HandlerStarts(v, s)
    BY <1>1
    DEF HandlerStarts, loop, run, cache, world, TypeOK, Fits, StateFits, SessionFits, ChildFits,
        Running
<1>2. CASE HandlerAnswered(v, s)
    BY <1>2
    DEF HandlerAnswered, loop, run, cache, world, TypeOK, Fits, StateFits, SessionFits,
        ChildFits, Running
<1>3. CASE HandlerFails(v, s)
    BY <1>3
    DEF HandlerFails, loop, run, cache, world, TypeOK, Fits, StateFits, SessionFits, ChildFits,
        Running
<1>4. CASE HandlerStores(v, s)
    BY <1>4
    DEF HandlerStores, loop, run, world, TypeOK, Fits, StateFits, SessionFits, ChildFits,
        Running
<1> QED
    BY <1>1, <1>2, <1>3, <1>4 DEF Handles

\* Every step keeps them together.
LEMMA FitStep == IInv /\ Fit /\ [Next]_vars => Fit'
<1> SUFFICES ASSUME IInv, Fit, [Next]_vars, NEW u \in Ids PROVE Fits(u)'
    BY DEF Fit
<1> USE DEF IInv
<1>1. CASE \E v \in Ids : Starts(v) \/ Serves(v) \/ Ends(v) \/ Environment(v)
    BY <1>1, StartsFit, ServesFit, EndsFit, EnvironmentFit
<1>2. CASE \E v \in Ids, s \in Sessions : Handles(v, s)
    BY <1>2, HandlesFit
<1>3. CASE Stop
    BY <1>3 DEF Stop, Fit, Fits, StateFits, SessionFits, ChildFits, loop, run, cache, world
<1>4. CASE \E v \in Ids : Notified(v)
    BY <1>4 DEF Notified, Fit, Fits, StateFits, SessionFits, ChildFits, run, cache, world
<1>5. CASE \E v \in Ids, s \in Sessions : HandlerNotified(v, s)
    BY <1>5 DEF HandlerNotified, Fit, Fits, StateFits, SessionFits, ChildFits, loop, run,
        cache, world
<1>6. CASE UNCHANGED vars
    BY <1>6 DEF vars, Fit, Fits, StateFits, SessionFits, ChildFits
<1> QED
    BY <1>1, <1>2, <1>3, <1>4, <1>5, <1>6 DEF Next, Works

-----------------------------------------------------------------------------

procs == [u \in Ids |-> {s \in Sessions : group[u][s] # None}]

\* What the steps do that Lifecycle does not see.
Unseen == UNCHANGED <<state, session, procs, ctxDone>>
LifeStep == Life!Next \/ Unseen

\* An upstream between two runs has neither a session nor a process.
LEMMA BetweenRuns ==
    ASSUME NoStrayProcess, Fit, NEW u \in Ids, pc[u] \notin Running \cup {"clear"}
    PROVE  Life!Bare(u)
<1>1. session[u] = None
    BY DEF Fit, Fits, SessionFits
<1>2. procs[u] = {}
    BY DEF procs, NoStrayProcess
<1> QED
    BY <1>1, <1>2 DEF Life!Bare, procs

\* A change of state that leaves session and processes alone is one of Lifecycle.
LEMMA Becomes ==
    ASSUME NEW u \in Ids, NEW st, state' = [state EXCEPT ![u] = st],
           session' = session, group' = group, ctxDone' = ctxDone
    PROVE  Life!Become(u, st)
    BY DEF Life!Become

\* The end of the group of a run is the end of all its processes.
LEMMA Sweeps ==
    ASSUME TypeOK, NoStrayProcess, Fit, NEW u \in Ids, pc[u] \in Running,
           killGroup(u, current[u]), state' = state, session' = session, ctxDone' = ctxDone
    PROVE  Life!Sweep(u)
<1>1. \A s \in Sessions : group[u][s] # None => s = current[u]
    BY DEF NoStrayProcess
<1>2. current[u] \in Sessions
    BY DEF Fit, Fits, SessionFits
<1>3. group' = [group EXCEPT ![u][current[u]] = None]
    BY DEF killGroup
<1>4. \A s \in Sessions : group'[u][s] = None
    BY <1>1, <1>2, <1>3 DEF TypeOK
<1>5. \A v \in Ids : v # u => group'[v] = group[v]
    BY <1>3 DEF TypeOK
<1>6. procs' = [procs EXCEPT ![u] = {}]
    BY <1>4, <1>5 DEF procs
<1> QED
    BY <1>6 DEF Life!Sweep, procs

\* A step towards Ready is one of Lifecycle, or unseen.
LEMMA StartsLife ==
    ASSUME TypeOK, NoStrayProcess, Fit, NEW u \in Ids, Starts(u)
    PROVE  LifeStep
<1>1. CASE NeedsLogin(u)
    <2>1. pc[u] = "login" /\ state[u] = "starting"
        BY <1>1 DEF NeedsLogin, At, Fit, Fits, StateFits
    <2>2. Life!Become(u, "needsLogin") /\ Life!Bare(u)
        BY <1>1, <2>1, Becomes, BetweenRuns DEF NeedsLogin, setState, cache, world, Running
    <2> QED
        BY <2>1, <2>2 DEF LifeStep, Life!Next, Life!Changes, Life!NeedsLogin
<1>2. CASE LoggedIn(u)
    <2>1. pc[u] = "wait" /\ state[u] = "needsLogin"
        BY <1>2 DEF LoggedIn, At, Fit, Fits, StateFits
    <2>2. Life!Become(u, "starting") /\ Life!Bare(u)
        BY <1>2, <2>1, Becomes, BetweenRuns DEF LoggedIn, setState, cache, world, Running
    <2> QED
        BY <2>1, <2>2 DEF LifeStep, Life!Next, Life!Changes, Life!LoggedIn
<1>3. CASE Spawn(u)
    <2>1. PICK s \in Sessions :
            group' = IF u \in Stdio THEN [group EXCEPT ![u][s] = "child"] ELSE group
        BY <1>3 DEF Spawn
    <2>2. pc[u] = "spawn" /\ state[u] = "starting"
        BY <1>3 DEF Spawn, At, Fit, Fits, StateFits
    <2>3. UNCHANGED <<state, session, ctxDone>>
        BY <1>3 DEF Spawn, cache
    <2>4. CASE u \in Stdio
        <3>1. \A t \in Sessions : group[u][t] = None
            BY <2>2 DEF NoStrayProcess, Running
        <3>2. group' = [group EXCEPT ![u][s] = "child"]
            BY <2>1, <2>4
        <3>3. \A t \in Sessions : group'[u][t] # None <=> t = s
            BY <3>1, <3>2 DEF TypeOK, None
        <3>4. \A v \in Ids : v # u => group'[v] = group[v]
            BY <3>2 DEF TypeOK
        <3>5. procs' = [procs EXCEPT ![u] = {s}]
            BY <3>3, <3>4 DEF procs
        <3>6. Life!Launch(u, s)
            BY <2>2, <2>3, <3>5, BetweenRuns DEF Life!Launch, procs, Running
        <3> QED
            BY <3>6 DEF LifeStep, Life!Next, Life!Runs
    <2>5. CASE u \notin Stdio
        BY <2>1, <2>3, <2>5 DEF LifeStep, Unseen, procs
    <2> QED
        BY <2>4, <2>5
<1>4. CASE Connected(u)
    <2>1. pc[u] = "connect" /\ state[u] = "starting" /\ current[u] \in Sessions /\ session[u] = None
        BY <1>4 DEF Connected, At, Fit, Fits, StateFits, SessionFits, Running
    <2>2. procs[u] \subseteq {current[u]}
        BY DEF procs, NoStrayProcess
    <2>3. /\ session' = [session EXCEPT ![u] = current[u]]
          /\ UNCHANGED <<state, group, ctxDone>>
        BY <1>4 DEF Connected, world
    <2>4. Life!Open(u, current[u])
        BY <2>1, <2>2, <2>3 DEF Life!Open, procs
    <2> QED
        BY <2>1, <2>4 DEF LifeStep, Life!Next, Life!Runs
<1>5. CASE ConnectFails(u)
    <2>1. Life!Sweep(u)
        BY <1>5, Sweeps DEF ConnectFails, At, cache, Running
    <2> QED
        BY <2>1 DEF LifeStep, Life!Next, Life!Runs
<1>6. CASE BecomeReady(u)
    <2>1. pc[u] = "ready" /\ state[u] = "starting" /\ session[u] = current[u] /\ current[u] \in Sessions
        BY <1>6 DEF BecomeReady, At, Fit, Fits, StateFits, SessionFits, Running
    <2>2. Life!Become(u, "ready")
        BY <1>6, Becomes DEF BecomeReady, setState, cache, world
    <2> QED
        BY <2>1, <2>2, SupervisorAssumption DEF LifeStep, Life!Next, Life!Runs, Life!BecomeReady
<1>7. CASE \/ Begin(u) \/ HasLogin(u) \/ LoginFails(u) \/ Parked(u) \/ WaitCancelled(u)
           \/ ListAnswers(u) \/ ListFails(u) \/ StoreTools(u) \/ Settle(u)
    BY <1>7 DEF LifeStep, Unseen, procs, Begin, HasLogin, LoginFails, Parked, WaitCancelled,
        ListAnswers, ListFails, StoreTools, Settle, cache, world
<1> QED
    BY <1>1, <1>2, <1>3, <1>4, <1>5, <1>6, <1>7 DEF Starts

\* A step of a serving run, or of its end, is one of Lifecycle, or unseen.
LEMMA ServesLife ==
    ASSUME TypeOK, NoStrayProcess, Fit, NEW u \in Ids, Serves(u)
    PROVE  LifeStep
<1>1. CASE Cancelled(u)
    <2>1. state[u] = "ready" /\ ctxDone
        BY <1>1 DEF Cancelled, At, Fit, Fits, StateFits
    <2>2. Life!Become(u, "stopped")
        BY <1>1, Becomes DEF Cancelled, setState, cache, world
    <2> QED
        BY <2>1, <2>2 DEF LifeStep, Life!Next, Life!Changes, Life!Halt
<1>2. CASE Exited(u)
    <2>1. Life!Sweep(u)
        BY <1>2, Sweeps DEF Exited, At, cache, Running
    <2> QED
        BY <2>1 DEF LifeStep, Life!Next, Life!Runs
<1>3. CASE shutdown(u)
    <2>1. Life!Sweep(u)
        BY <1>3, Sweeps DEF shutdown, At, cache, Running
    <2> QED
        BY <2>1 DEF LifeStep, Life!Next, Life!Runs
<1>4. CASE Clear(u)
    <2>1. procs[u] = {}
        BY <1>4 DEF Clear, At, procs, NoStrayProcess, Running
    <2>2. session' = [session EXCEPT ![u] = None] /\ UNCHANGED <<state, group, ctxDone>>
        BY <1>4 DEF Clear, world
    <2>3. Life!Close(u)
        BY <2>1, <2>2 DEF Life!Close, procs
    <2> QED
        BY <2>3 DEF LifeStep, Life!Next, Life!Runs
<1>5. CASE Tick(u) \/ PingAnswers(u) \/ PingMoot(u) \/ PingUnsupported(u) \/ PingFails(u)
    BY <1>5 DEF LifeStep, Unseen, procs, Tick, PingAnswers, PingMoot, PingUnsupported, PingFails,
        cache, world
<1> QED
    BY <1>1, <1>2, <1>3, <1>4, <1>5 DEF Serves

\* A step of the loop around the runs is one of Lifecycle, or unseen.
LEMMA EndsLife ==
    ASSUME NoStrayProcess, Fit, NEW u \in Ids, Ends(u)
    PROVE  LifeStep
<1>1. CASE Stopping(u) \/ BackoffCancelled(u)
    <2>1. state[u] # "failed" /\ ctxDone
        BY <1>1 DEF Stopping, BackoffCancelled, At, Fit, Fits, StateFits
    <2>2. Life!Become(u, "stopped")
        BY <1>1, Becomes DEF Stopping, BackoffCancelled, setState, cache, world
    <2> QED
        BY <2>1, <2>2 DEF LifeStep, Life!Next, Life!Changes, Life!Halt
<1>2. CASE GiveUp(u)
    <2>1. pc[u] = "account" /\ state[u] \in {"starting", "ready"} /\ ~ctxDone
        BY <1>2 DEF GiveUp, At, Fit, Fits, StateFits
    <2>2. Life!Become(u, "failed") /\ Life!Bare(u)
        BY <1>2, <2>1, Becomes, BetweenRuns DEF GiveUp, setState, cache, world, Running
    <2> QED
        BY <2>1, <2>2 DEF LifeStep, Life!Next, Life!Changes, Life!GiveUp
<1>3. CASE Retry(u)
    <2>1. pc[u] = "account" /\ state[u] \in {"starting", "ready"}
        BY <1>3 DEF Retry, At, Fit, Fits, StateFits
    <2>2. Life!Become(u, "starting") /\ Life!Bare(u)
        BY <1>3, <2>1, Becomes, BetweenRuns DEF Retry, setState, cache, world, Running
    <2> QED
        BY <2>1, <2>2 DEF LifeStep, Life!Next, Life!Changes, Life!Restart
<1>4. CASE BackoffEnds(u) \/ Leave(u)
    BY <1>4 DEF LifeStep, Unseen, procs, BackoffEnds, Leave, cache, world
<1> QED
    BY <1>1, <1>2, <1>3, <1>4 DEF Ends

\* Of what the server and the user do, Lifecycle sees a child that ends with all that
\* it has started.
LEMMA EnvironmentLife ==
    ASSUME TypeOK, NoStrayProcess, AliveRuns, Fit, NEW u \in Ids, Environment(u)
    PROVE  LifeStep
<1>1. CASE SessionEnds(u) /\ u \in Stdio
    <2>1. PICK left \in {None, "orphans"} : group' = [group EXCEPT ![u][current[u]] = left]
        BY <1>1 DEF SessionEnds
    <2>2. UNCHANGED <<state, session, ctxDone>> /\ alive[u]
        BY <1>1 DEF SessionEnds, loop, cache
    <2>3. CASE left = None
        <3>1. Life!Sweep(u)
            BY <2>1, <2>2, <2>3, Sweeps DEF AliveRuns, killGroup
        <3> QED
            BY <3>1 DEF LifeStep, Life!Next, Life!Runs
    <2>4. CASE left = "orphans"
        <3>1. group[u][current[u]] # None
            BY <1>1, <2>2 DEF Fit, Fits, ChildFits
        <3>2. \A v \in Ids, s \in Sessions : group'[v][s] # None <=> group[v][s] # None
            BY <2>1, <2>4, <3>1 DEF TypeOK, None
        <3>3. procs' = procs
            BY <3>2 DEF procs
        <3> QED
            BY <2>2, <3>3 DEF LifeStep, Unseen
    <2> QED
        BY <2>3, <2>4
<1>2. CASE SessionEnds(u) /\ u \notin Stdio
    BY <1>2 DEF LifeStep, Unseen, procs, SessionEnds, loop, cache
<1>3. CASE ServerChanges(u) \/ LoginChanges(u) \/ Stabilise(u)
    BY <1>3 DEF LifeStep, Unseen, procs, ServerChanges, LoginChanges, Stabilise, loop, cache, world
<1> QED
    BY <1>1, <1>2, <1>3 DEF Environment

\* Every step of the run loops is a step of Lifecycle, or changes nothing of it.
LEMMA StepLives == IInv /\ Fit /\ [Next]_vars => [Life!Next]_(Life!vars)
<1> SUFFICES ASSUME IInv, Fit, [Next]_vars PROVE LifeStep
    BY DEF LifeStep, Unseen, procs, Life!vars
<1> USE DEF IInv
<1>1. CASE \E u \in Ids : Starts(u) \/ Serves(u) \/ Ends(u) \/ Environment(u)
    BY <1>1, StartsLife, ServesLife, EndsLife, EnvironmentLife
<1>2. CASE \E u \in Ids, s \in Sessions : Handles(u, s)
    BY <1>2 DEF LifeStep, Unseen, procs, Handles, HandlerStarts, HandlerAnswered, HandlerFails,
        HandlerStores, loop, cache, world
<1>3. CASE Stop
    <2>1. Life!Stop
        BY <1>3 DEF Stop, Life!Stop, loop, cache, world
    <2> QED
        BY <2>1 DEF LifeStep, Life!Next
<1>4. CASE \E u \in Ids : Notified(u)
    BY <1>4 DEF LifeStep, Unseen, procs, Notified, cache, world
<1>5. CASE \E u \in Ids, s \in Sessions : HandlerNotified(u, s)
    BY <1>5 DEF LifeStep, Unseen, procs, HandlerNotified, loop, cache, world
<1>6. CASE UNCHANGED vars
    BY <1>6 DEF LifeStep, Unseen, procs, vars
<1> QED
    BY <1>1, <1>2, <1>3, <1>4, <1>5, <1>6 DEF Next, Works

\* The states that Start leaves are initial states of Lifecycle.
LEMMA InitLives == Init => Fit /\ Life!Init
<1> SUFFICES ASSUME Init PROVE Fit /\ Life!Init
    OBVIOUS
<1>1. Fit
    BY DEF Init, Fit, Fits, StateFits, SessionFits, ChildFits, Running
<1>2. procs = [u \in Ids |-> {}]
    BY DEF Init, procs
<1> QED
    BY <1>1, <1>2 DEF Init, Life!Init, procs

\* The run loops implement Lifecycle (KeepsLifecycle): an upstream is launched, opened,
\* swept, closed, restarted and given up in no other order, wherever its server, its
\* login and Stop come in between.
THEOREM ImplementsLifecycle == Spec => KeepsLifecycle
<1>1. Init => Fit /\ Life!Init
    BY InitLives
<1>2. IInv /\ Fit /\ [Next]_vars => Fit'
    BY FitStep
<1>3. IInv /\ Fit /\ [Next]_vars => [Life!Next]_(Life!vars)
    BY StepLives
<1> QED
    BY <1>1, <1>2, <1>3, Invariance, PTL DEF Spec, KeepsLifecycle, Life!Spec
=============================================================================
