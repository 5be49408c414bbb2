------------------------- MODULE UpstreamAuthProofs -------------------------
(***************************************************************************)
(* Proofs about UpstreamAuth, for any number of requests, logins and       *)
(* restarts: the ready channel of an entry tells whether there is a        *)
(* handler, and nobody waits on a channel that no login will close.  The   *)
(* two depend on each other: a rejection replaces the channel, and the     *)
(* waiters it leaves behind hold a closed one only because the old channel *)
(* was closed while there was a handler.                                   *)
(***************************************************************************)
EXTENDS UpstreamAuth, TLAPS

\* A handler is installed only for a grant that has been issued.
Granted == login.pc = "install" => issued # 0

IInv == TypeOK /\ ReadyTellsHandler /\ NoLostWakeup /\ Granted

-----------------------------------------------------------------------------

\* The entry that New makes: ready is closed if the store has credentials.
LEMMA InitInv == Init => IInv
<1>1. SUFFICES ASSUME Init
               PROVE  IInv
  OBVIOUS
<1>2. Stored \in Grants \cup {0}
  BY UpstreamAuthAssumption DEF Grants
<1>3. TypeOK
  <2>1. /\ handler \in Grants \cup {0} /\ loaded \in Grants \cup {0} /\ row \in Grants \cup {0}
        /\ issued \in Grants \cup {0} /\ ready = 1 /\ closed \subseteq {1}
    BY <1>1, <1>2 DEF Init
  <2>2. 1..1 = {1} /\ 0 \in 0..1 /\ 0 \in 0..MaxRestarts
    BY UpstreamAuthAssumption
  <2>3. auto \in [pc : {"boot", "start", "begin", "wait", "ended"}, on : 0..1]
    BY <1>1, <2>2 DEF Init, Booting
  <2>4. run \in [pc : {"ask", "park", "wait", "connect", "up"}, of : Grants \cup {0},
                 on : 0..1]
    BY <1>1, <2>2 DEF Init, Asking
  <2>5. req \in [Reqs -> [pc : {"idle", "send", "save", "stray", "stuck"},
                          of : Grants \cup {0}]]
    BY <1>1 DEF Init, Idle
  <2>6. /\ code = "nil" /\ loginState = "none" /\ login = NoLogin /\ offered = {}
        /\ revoked = {} /\ hears = {} /\ restarts = 0
    BY <1>1 DEF Init
  <2>7. notice \in BOOLEAN
    BY <1>1, Zenon DEF Init
  <2>8. QED
    BY <2>1, <2>2, <2>3, <2>4, <2>5, <2>6, <2>7 DEF TypeOK, NoLogin, Logins
<1>4. ReadyTellsHandler /\ NoLostWakeup /\ Granted
  BY <1>1 DEF Init, ReadyTellsHandler, NoLostWakeup, Granted, Booting, Asking, NoLogin
<1>5. QED
  BY <1>3, <1>4 DEF IInv

\* The login: only its installation touches the channel.
LEMMA LoginSteps ==
    ASSUME IInv, Logs
    PROVE  IInv'
<1> USE DEF IInv, TypeOK, ReadyTellsHandler, NoLostWakeup, Granted, Logins, entry, browser,
            requests, server
<1>1. CASE StartLogin
  BY <1>1 DEF StartLogin, Begin
<1>2. CASE Offer
  BY <1>2 DEF Offer
<1>3. CASE Take
  BY <1>3 DEF Take
<1>4. CASE LoginFails
  BY <1>4 DEF LoginFails, CallerFails, clearLogin, NoLogin
<1>5. CASE SaveLogin
  BY <1>5, UpstreamAuthAssumption DEF SaveLogin, Grants
<1>6. CASE Install
  BY <1>6 DEF Install, Grants
<1>7. CASE OnLogin
  BY <1>7 DEF OnLogin, Reconnect, Asking
<1>8. CASE EndLogin
  BY <1>8 DEF EndLogin, clearLogin, NoLogin
<1>9. ASSUME NEW s \in {"login", "stray"}, Callback(s)
      PROVE  IInv'
  BY <1>9 DEF Callback
<1>10. QED
  BY <1>1, <1>2, <1>3, <1>4, <1>5, <1>6, <1>7, <1>8, <1>9 DEF Logs

\* autoLogin reads the channel of the entry before it starts a login.
LEMMA AutoSteps ==
    ASSUME IInv, AutoLogins
    PROVE  IInv'
<1> USE DEF IInv, TypeOK, ReadyTellsHandler, NoLostWakeup, Granted, Logins, entry, browser,
            requests, server
<1>1. CASE AutoLogin \/ AutoReads
  BY <1>1 DEF AutoLogin, AutoReads
<1>2. CASE AutoStarts
  BY <1>2 DEF AutoStarts, Begin
<1>3. CASE AutoRefused \/ AutoReady \/ AutoLapses
  BY <1>3 DEF AutoRefused, AutoReady, AutoLapses
<1>4. QED
  BY <1>1, <1>2, <1>3 DEF AutoLogins

\* The run loop waits on the channel that the entry has when it asks for it.
LEMMA RunSteps ==
    ASSUME IInv, Runs
    PROVE  IInv'
<1> USE DEF IInv, TypeOK, ReadyTellsHandler, NoLostWakeup, Granted, entry, browser,
            requests, server, Asking
<1>1. CASE Ask
  BY <1>1 DEF Ask, Reqs
<1>2. CASE Wait
  BY <1>2 DEF Wait
<1>3. CASE Woken
  BY <1>3 DEF Woken
<1>4. CASE SessionEnds
  BY <1>4 DEF SessionEnds, Reconnect
<1>5. CASE OnInvalidate
  <2>1. /\ run' = (IF run.pc = "up" THEN Asking ELSE run)
        /\ UNCHANGED <<handler, loaded, ready, closed, code, loginState, login, auto, offered,
                       req, hears, row, issued, revoked, restarts>>
    BY <1>5 DEF OnInvalidate, Reconnect
  <2>2. run' \in [pc : {"ask", "park", "wait", "connect", "up"}, of : Grants \cup {0},
                  on : 0..ready]
    BY <2>1
  <2>3. notice' \in BOOLEAN
    BY <1>5, Zenon DEF OnInvalidate
  <2>4. QED
    BY <2>1, <2>2, <2>3
<1>6. QED
  BY <1>1, <1>2, <1>3, <1>4, <1>5 DEF Runs

\* A rejection: whoever waits for the entry to have a handler again waits on the
\* new channel, and whoever still holds the old one holds a closed channel.
LEMMA RejectionStep ==
    ASSUME IInv, NEW r \in Reqs, invalidate, Finish(r, "ask"),
           UNCHANGED <<loaded, closed, browser, auto, offered, server, restarts>>
    PROVE  IInv'
<1> USE DEF IInv, TypeOK, browser, server
<1>1. CASE handler = 0
  BY <1>1 DEF invalidate, Finish, Idle, ReadyTellsHandler, NoLostWakeup, Granted
<1>2. CASE handler # 0
  <2>1. /\ handler' = 0 /\ ready' = ready + 1 /\ row' \in {0, row} /\ notice' = TRUE
        /\ closed' = closed /\ ready \in closed
    BY <1>2 DEF invalidate, ReadyTellsHandler
  <2>2. ready' \notin closed'
    BY <2>1
  <2>3. TypeOK'
    BY <2>1 DEF Finish, Idle
  <2>4. NoLostWakeup'
    BY <2>1 DEF NoLostWakeup, Finish
  <2>5. QED
    BY <2>1, <2>2, <2>3, <2>4 DEF ReadyTellsHandler, Granted
<1>3. QED
  BY <1>1, <1>2

\* A request leaves the channel alone unless it is rejected.
LEMMA RequestSteps ==
    ASSUME IInv, NEW r \in Reqs, Requests(r)
    PROVE  IInv'
<1> USE DEF IInv, TypeOK, ReadyTellsHandler, NoLostWakeup, Granted, entry, browser,
            requests, server
<1>1. CASE StartCall(r)
  BY <1>1 DEF StartCall
<1>2. CASE Refreshed(r)
  BY <1>2 DEF Refreshed, Step
<1>3. CASE Save(r)
  BY <1>3 DEF Save, Step
<1>4. CASE RefreshRejected(r)
  BY <1>4, RejectionStep DEF RefreshRejected
<1>5. CASE Answered(r)
  BY <1>5 DEF Answered, Finish, Idle
<1>6. CASE RequestFails(r)
  BY <1>6 DEF RequestFails, Finish, Idle
<1>7. CASE Unauthorized(r)
  BY <1>7, RejectionStep DEF Unauthorized
<1>8. CASE StrayLogin(r)
  BY <1>8 DEF StrayLogin, Step
<1>9. CASE StrayTakes(r)
  BY <1>9 DEF StrayTakes, Step, Finish, Idle
<1>10. QED
  BY <1>1, <1>2, <1>3, <1>4, <1>5, <1>6, <1>7, <1>8, <1>9 DEF Requests

\* The server, and a new process, which builds its entry anew from the row.
LEMMA OtherSteps ==
    ASSUME IInv, Revoke \/ Restart \/ UNCHANGED vars
    PROVE  IInv'
<1> USE DEF IInv, TypeOK, ReadyTellsHandler, NoLostWakeup, Granted
<1>1. CASE Revoke
  <2>1. PICK g \in (1..issued) \ revoked : revoked' = revoked \cup {g}
    BY <1>1 DEF Revoke
  <2>2. revoked' \subseteq Grants
    BY <2>1, UpstreamAuthAssumption DEF Grants
  <2>3. QED
    BY <1>1, <2>2 DEF Revoke, entry, browser, requests
<1>2. CASE Restart
  <2>1. /\ handler' = row /\ loaded' = row /\ row' = row /\ UNCHANGED <<issued, revoked>>
        /\ ready' = 1 /\ closed' = (IF row = 0 THEN {} ELSE {1})
        /\ code' = "nil" /\ loginState' = "none" /\ login' = NoLogin /\ hears' = {}
        /\ auto' = Booting /\ offered' = {} /\ req' = [q \in Reqs |-> Idle]
        /\ run' = Asking
    BY <1>2 DEF Restart, server, clearLogin
  <2>2. restarts' \in 0..MaxRestarts
    BY <1>2, UpstreamAuthAssumption DEF Restart
  <2>3. 1..1 = {1} /\ 0 \in 0..1
    OBVIOUS
  <2>4. notice' \in BOOLEAN
    BY <1>2, Zenon DEF Restart
  <2>5. TypeOK'
    BY <2>1, <2>2, <2>3, <2>4 DEF Booting, Asking, Idle, NoLogin, Logins
  <2>6. QED
    BY <2>1, <2>5 DEF Booting, Asking, NoLogin
<1>3. CASE UNCHANGED vars
  BY <1>3 DEF vars
<1>4. QED
  BY <1>1, <1>2, <1>3

\* What the OAuth client of an upstream keeps up through logins, rejections and
\* restarts.
THEOREM Invariance == Spec => []IInv
<1>1. Init => IInv
  BY InitInv
<1>2. IInv /\ [Next]_vars => IInv'
  BY LoginSteps, AutoSteps, RunSteps, RequestSteps, OtherSteps DEF Next
<1>3. QED
  BY <1>1, <1>2, PTL DEF Spec

\* Every variable of the OAuth client keeps its type, for any number of logins.
THEOREM TypeCorrect == Spec => []TypeOK
<1>1. IInv => TypeOK
  BY DEF IInv
<1>2. QED
  BY <1>1, Invariance, PTL

\* entry.ready is closed exactly while there is a handler: install, which closes it when
\* it finds no handler, then finds it open.
THEOREM ReadyChannelTellsHandler == Spec => []ReadyTellsHandler
<1>1. IInv => ReadyTellsHandler
  BY DEF IInv
<1>2. QED
  BY <1>1, Invariance, PTL

\* An upstream that waits for a login, and autoLogin, are woken by the next login
\* whatever rejections and logins come in between.
THEOREM NoWakeupLost == Spec => []NoLostWakeup
<1>1. IInv => NoLostWakeup
  BY DEF IInv
<1>2. QED
  BY <1>1, Invariance, PTL

-----------------------------------------------------------------------------
(* The gate.  What a step does to it is told by whether there is a handler *)
(* before and after, and by the places of the two sleepers.                *)

Sleepers == {"run", "auto"}

LEMMA GateStays ==
    ASSUME handler' # 0 <=> handler # 0, Places' = Places
    PROVE  UNCHANGED Gate!vars
BY Zenon DEF Gate!vars

LEMMA GateShuts ==
    ASSUME handler' = 0, Places' = Places
    PROVE  Gate!Next
<1>1. Gate!Shut
  BY Zenon DEF Gate!Shut
<1>2. QED
  BY <1>1 DEF Gate!Next

LEMMA GateIsReset ==
    ASSUME Places' = [w \in Sleepers |-> "away"]
    PROVE  Gate!Next
<1>1. Gate!Reset
  BY Zenon DEF Gate!Reset, Gate!Away, Sleepers
<1>2. QED
  BY <1>1 DEF Gate!Next

LEMMA GateOpens ==
    ASSUME handler' # 0,
           Places' = [w \in Sleepers |-> IF Places[w] = "waiting" THEN "called" ELSE Places[w]]
    PROVE  Gate!Next
<1>1. Gate!Open
  BY Zenon DEF Gate!Open, Sleepers
<1>2. QED
  BY <1>1 DEF Gate!Next

LEMMA SleeperComes ==
    ASSUME NEW w \in Sleepers, Places[w] = "away", handler' # 0 <=> handler # 0,
           Places' = [Places EXCEPT ![w] = IF handler # 0 THEN "called" ELSE "waiting"]
    PROVE  Gate!Next
<1>1. Gate!Come(w)
  BY Zenon DEF Gate!Come
<1>2. QED
  BY <1>1 DEF Gate!Next, Sleepers

LEMMA SleeperGoes ==
    ASSUME NEW w \in Sleepers, Places[w] = "called" \/ w = "auto",
           handler' # 0 <=> handler # 0, Places' = [Places EXCEPT ![w] = "away"]
    PROVE  Gate!Next
<1>1. Gate!Go(w)
  BY Zenon DEF Gate!Go
<1>2. QED
  BY <1>1 DEF Gate!Next, Sleepers

\* The handshake is the run loop's own request: nobody waits for a login behind it.
Connecting == req[Connect].pc # "idle" => run.pc = "connect"

LEMMA InitConnects == Init => Connecting
BY DEF Init, Connecting, Idle, Reqs

LEMMA StepConnects ==
    ASSUME IInv, Connecting, [Next]_vars
    PROVE  Connecting'
<1> USE DEF Connecting, entry, browser, requests, server
<1>0. Connect \in Reqs /\ Connect \notin Calls
  BY UpstreamAuthAssumption DEF Reqs
<1>1. CASE Logs
  BY <1>1 DEF Logs, StartLogin, Begin, Offer, Take, LoginFails, clearLogin, SaveLogin, Install,
              OnLogin, Reconnect, EndLogin, Callback
<1>2. CASE AutoLogins
  BY <1>2 DEF AutoLogins, AutoLogin, AutoReads, AutoStarts, Begin, AutoRefused, AutoReady,
              AutoLapses
<1>3. CASE Ask
  BY <1>0, <1>3 DEF Ask, IInv, TypeOK
<1>4. CASE Wait \/ Woken \/ SessionEnds \/ OnInvalidate
  BY <1>4 DEF Wait, Woken, SessionEnds, OnInvalidate, Reconnect
<1>5. ASSUME NEW r \in Reqs, Requests(r)
      PROVE  Connecting'
  <2> USE DEF IInv, TypeOK
  <2>1. CASE StartCall(r)
    BY <1>0, <2>1 DEF StartCall
  <2>2. CASE Refreshed(r) \/ Save(r)
    BY <1>0, <2>2 DEF Refreshed, Save, Step
  <2>3. CASE RefreshRejected(r) \/ Unauthorized(r)
    BY <1>0, <2>3 DEF RefreshRejected, Unauthorized, Finish, Idle
  <2>4. CASE Answered(r) \/ RequestFails(r)
    BY <1>0, <2>4 DEF Answered, RequestFails, Finish, Idle
  <2>5. CASE StrayLogin(r)
    BY <1>0, <2>5 DEF StrayLogin, Step
  <2>6. CASE StrayTakes(r)
    BY <1>0, <2>6 DEF StrayTakes, Step, Finish, Idle
  <2>7. QED
    BY <1>5, <2>1, <2>2, <2>3, <2>4, <2>5, <2>6 DEF Requests
<1>6. CASE Revoke
  BY <1>6 DEF Revoke
<1>7. CASE Restart
  BY <1>0, <1>7 DEF Restart, Idle
<1>8. CASE UNCHANGED vars
  BY <1>8 DEF vars
<1>9. QED
  BY <1>1, <1>2, <1>3, <1>4, <1>5, <1>6, <1>7, <1>8 DEF Next, Runs

\* What is kept of the places when neither sleeper comes or goes.
LEMMA NobodyMoves ==
    ASSUME closed' = closed, auto' = auto,
           run' = run \/ (run.pc # "wait" /\ run'.pc # "wait")
    PROVE  Places' = Places
BY DEF Places, At

\* An open gate has nobody waiting.
LEMMA OpenGateCalls ==
    ASSUME IInv, handler # 0, NEW w \in Sleepers
    PROVE  Places[w] # "waiting"
BY DEF IInv, ReadyTellsHandler, NoLostWakeup, Places, At, Sleepers

LEMMA LoginsGate ==
    ASSUME IInv, Logs
    PROVE  [Gate!Next]_(Gate!vars)
<1> USE DEF entry, requests
<1>1. CASE StartLogin \/ Offer \/ Take \/ SaveLogin \/ EndLogin
  <2>1. handler' = handler /\ closed' = closed /\ auto' = auto /\ run' = run
    BY <1>1 DEF StartLogin, Offer, Take, SaveLogin, EndLogin
  <2>2. QED
    BY <2>1, NobodyMoves, GateStays
<1>2. ASSUME NEW s \in {"login", "stray"}, Callback(s)
      PROVE  [Gate!Next]_(Gate!vars)
  BY <1>2, NobodyMoves, GateStays DEF Callback
<1>3. CASE OnLogin
  <2>1. handler' = handler /\ closed' = closed /\ auto' = auto
    BY <1>3 DEF OnLogin
  <2>2. run' = run \/ (run.pc # "wait" /\ run'.pc # "wait")
    BY <1>3 DEF OnLogin, Reconnect, Asking
  <2>3. QED
    BY <2>1, <2>2, NobodyMoves, GateStays
<1>4. CASE LoginFails
  <2>1. handler' = handler /\ closed' = closed /\ run' = run
    BY <1>4 DEF LoginFails
  <2>2. CASE auto' = auto
    BY <2>1, <2>2, NobodyMoves, GateStays
  <2>3. CASE auto' = [auto EXCEPT !.pc = "ended"]
    <3>1. Places' = [Places EXCEPT !["auto"] = "away"]
      BY <2>1, <2>3 DEF Places, At, IInv, TypeOK
    <3>2. QED
      BY <2>1, <3>1, SleeperGoes DEF Sleepers
  <2>4. QED
    BY <1>4, <2>2, <2>3 DEF LoginFails, CallerFails
<1>5. CASE Install
  <2>1. handler' # 0 /\ run' = run /\ auto' = auto
    BY <1>5 DEF Install, IInv, Granted
  <2>2. ASSUME NEW w \in Sleepers
        PROVE  Places'[w] = IF Places[w] = "waiting" THEN "called" ELSE Places[w]
    <3>1. CASE handler = 0
      BY <1>5, <2>1, <3>1 DEF Install, IInv, NoLostWakeup, Places, At, Sleepers
    <3>2. CASE handler # 0
      BY <1>5, <2>1, <3>2, OpenGateCalls, NobodyMoves DEF Install
    <3>3. QED
      BY <3>1, <3>2
  <2>3. Places' = [w \in Sleepers |-> IF Places[w] = "waiting" THEN "called" ELSE Places[w]]
    BY <2>2 DEF Places, Sleepers
  <2>4. QED
    BY <2>1, <2>3, GateOpens
<1>6. QED
  BY <1>1, <1>2, <1>3, <1>4, <1>5 DEF Logs

LEMMA AutoGate ==
    ASSUME IInv, AutoLogins
    PROVE  [Gate!Next]_(Gate!vars)
<1> USE DEF entry, requests
<1>1. CASE AutoLogin \/ AutoStarts
  <2>1. handler' = handler /\ closed' = closed /\ run' = run
    BY <1>1 DEF AutoLogin, AutoStarts
  <2>2. Places' = Places
    BY <1>1, <2>1 DEF AutoLogin, AutoStarts, Places, At, IInv, TypeOK
  <2>3. QED
    BY <2>1, <2>2, GateStays
<1>2. CASE AutoReads
  <2>1. handler' = handler /\ closed' = closed /\ run' = run /\ auto.pc = "start"
        /\ auto' = [pc |-> "begin", on |-> ready]
    BY <1>2 DEF AutoReads
  <2>2. Places["auto"] = "away"
    BY <2>1 DEF Places, At
  <2>3. Places' = [Places EXCEPT !["auto"] = IF handler # 0 THEN "called" ELSE "waiting"]
    BY <2>1 DEF Places, At, IInv, ReadyTellsHandler
  <2>4. QED
    BY <2>1, <2>2, <2>3, SleeperComes DEF Sleepers
<1>3. CASE AutoRefused \/ AutoReady \/ AutoLapses
  <2>1. handler' = handler /\ closed' = closed /\ run' = run
        /\ auto'.pc \in {"start", "ended"}
    BY <1>3 DEF AutoRefused, AutoReady, AutoLapses, IInv, TypeOK
  <2>2. Places' = [Places EXCEPT !["auto"] = "away"]
    BY <2>1 DEF Places, At
  <2>3. QED
    BY <2>1, <2>2, SleeperGoes DEF Sleepers
<1>4. QED
  BY <1>1, <1>2, <1>3 DEF AutoLogins

LEMMA RunGate ==
    ASSUME IInv, Runs
    PROVE  [Gate!Next]_(Gate!vars)
<1> USE DEF entry, requests
<1>1. CASE Ask \/ SessionEnds \/ OnInvalidate
  <2>1. handler' = handler /\ closed' = closed /\ auto' = auto
    BY <1>1 DEF Ask, SessionEnds, OnInvalidate
  <2>2. run' = run \/ (run.pc # "wait" /\ run'.pc # "wait")
    BY <1>1 DEF Ask, SessionEnds, OnInvalidate, Reconnect, Asking, IInv, TypeOK
  <2>3. QED
    BY <2>1, <2>2, NobodyMoves, GateStays
<1>2. CASE Wait
  <2>1. handler' = handler /\ closed' = closed /\ auto' = auto /\ run.pc = "park"
        /\ run' = [pc |-> "wait", of |-> 0, on |-> ready]
    BY <1>2 DEF Wait
  <2>2. Places["run"] = "away"
    BY <2>1 DEF Places, At
  <2>3. Places' = [Places EXCEPT !["run"] = IF handler # 0 THEN "called" ELSE "waiting"]
    BY <2>1 DEF Places, At, IInv, ReadyTellsHandler
  <2>4. QED
    BY <2>1, <2>2, <2>3, SleeperComes DEF Sleepers
<1>3. CASE Woken
  <2>1. handler' = handler /\ closed' = closed /\ auto' = auto /\ run.pc = "wait"
        /\ run.on \in closed /\ run' = Asking
    BY <1>3 DEF Woken
  <2>2. Places["run"] = "called"
    BY <2>1 DEF Places, At
  <2>3. Places' = [Places EXCEPT !["run"] = "away"]
    BY <2>1 DEF Places, At, Asking
  <2>4. QED
    BY <2>1, <2>2, <2>3, SleeperGoes DEF Sleepers
<1>4. QED
  BY <1>1, <1>2, <1>3 DEF Runs

\* A rejection shuts the gate, and calls back nobody who was called.
LEMMA RequestGate ==
    ASSUME IInv, Connecting, NEW r \in Reqs, Requests(r)
    PROVE  [Gate!Next]_(Gate!vars)
<1> USE DEF entry, browser, requests
<1>1. closed' = closed /\ auto' = auto
  BY DEF Requests, StartCall, Refreshed, Save, RefreshRejected, Answered, RequestFails,
         Unauthorized, StrayLogin, StrayTakes
<1>2. run' = run \/ (run.pc # "wait" /\ run'.pc # "wait")
  <2>1. CASE StartCall(r) \/ Refreshed(r) \/ Save(r) \/ StrayLogin(r)
    BY <2>1 DEF StartCall, Refreshed, Save, StrayLogin
  <2>2. ASSUME req[r].pc # "idle", Finish(r, "ask")
        PROVE  run' = run \/ (run.pc # "wait" /\ run'.pc # "wait")
    BY <2>2 DEF Finish, Connecting, IInv, TypeOK
  <2>3. ASSUME req[r].pc # "idle", Finish(r, "up")
        PROVE  run' = run \/ (run.pc # "wait" /\ run'.pc # "wait")
    BY <2>3 DEF Finish, Connecting, IInv, TypeOK
  <2>4. CASE RefreshRejected(r) \/ Unauthorized(r) \/ Answered(r) \/ RequestFails(r)
    BY <2>2, <2>3, <2>4 DEF RefreshRejected, Unauthorized, Answered, RequestFails
  <2>5. CASE StrayTakes(r)
    BY <2>2, <2>5 DEF StrayTakes
  <2>6. QED
    BY <2>1, <2>4, <2>5 DEF Requests
<1>3. handler' = handler \/ handler' = 0
  BY DEF Requests, StartCall, Refreshed, Save, RefreshRejected, Answered, RequestFails,
         Unauthorized, StrayLogin, StrayTakes, invalidate
<1>4. Places' = Places
  BY <1>1, <1>2, NobodyMoves
<1>5. QED
  BY <1>3, <1>4, GateStays, GateShuts

LEMMA StepKeepsGate ==
    ASSUME IInv, Connecting, [Next]_vars
    PROVE  [Gate!Next]_(Gate!vars)
<1>1. CASE Revoke \/ UNCHANGED vars
  <2>1. handler' = handler /\ closed' = closed /\ auto' = auto /\ run' = run
    BY <1>1 DEF Revoke, vars, entry, requests
  <2>2. QED
    BY <2>1, NobodyMoves, GateStays
<1>2. CASE Restart
  <2>1. Places' = [w \in Sleepers |-> "away"]
    BY <1>2 DEF Restart, Places, At, Sleepers, Booting, Asking
  <2>2. QED
    BY <2>1, GateIsReset
<1>3. QED
  BY <1>1, <1>2, LoginsGate, AutoGate, RunGate, RequestGate DEF Next

LEMMA InitGate == Init => Gate!Init
<1>1. SUFFICES ASSUME Init
               PROVE  Places = [w \in Sleepers |-> "away"]
  BY Zenon DEF Gate!Init, Gate!Away, Sleepers
<1>2. QED
  BY <1>1 DEF Init, Places, At, Sleepers, Booting, Asking

\* The OAuth client implements LoginGate: the run loop leaves Wait only after a login,
\* and a login leaves neither it nor autoLogin waiting, whatever is rejected, refused or
\* restarted in between.
THEOREM ImplementsGate == Spec => KeepsGate
<1>1. Init => Connecting /\ Gate!Init
  BY InitConnects, InitGate
<1>2. IInv /\ Connecting /\ [Next]_vars => Connecting'
  BY StepConnects
<1>3. IInv /\ Connecting /\ [Next]_vars => [Gate!Next]_(Gate!vars)
  BY StepKeepsGate
<1>4. QED
  BY <1>1, <1>2, <1>3, Invariance, PTL DEF Spec, KeepsGate, Gate!Spec
=============================================================================
