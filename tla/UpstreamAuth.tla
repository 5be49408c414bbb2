---------------------------- MODULE UpstreamAuth ----------------------------
(***************************************************************************)
(* The OAuth client of one upstream: package upstreamauth's entry and its  *)
(* row in the store, the browser login (StartLogin, the callback, the      *)
(* goroutine that completes it), AutoLogin, the requests of the upstream's *)
(* session that refresh tokens and meet rejections, and the run loop as    *)
(* far as it asks for a handler, waits for one and is reconnected.         *)
(*                                                                         *)
(* A step is a critical section of Manager.mu, a call of the store, or the *)
(* return of a blocking call.  A login that succeeds yields a grant; a     *)
(* handler and a row are known by their grant, 0 being nil and no row.     *)
(***************************************************************************)
EXTENDS Integers

CONSTANTS
    Calls,          \* requests on the session besides the one that connects
    Stored,         \* the grant the store holds at the first start, or 0
    MaxLogins,      \* bound: grants the authorization server issues
    MaxRestarts     \* bound: restarts of the gateway

Connect == "connect"
Reqs == Calls \cup {Connect}
Grants == 1..MaxLogins

ASSUME UpstreamAuthAssumption ==
    /\ MaxLogins \in Nat \ {0} /\ MaxRestarts \in Nat
    /\ Stored \in {0, 1} /\ Connect \notin Calls

VARIABLES
    handler,    \* entry.handler
    loaded,     \* the handler that New built from the row: it only refreshes
    ready,      \* entry.ready, a channel known by its generation
    closed,     \* the generations of entry.ready that are closed
    code,       \* entry.code: nil, open (empty), or the state of the code in it
    loginState, \* entry.loginState: whose authorization request it is
    login,      \* the login in progress: its goroutine and who started it
    auto,       \* AutoLogin to come, then its goroutine and the channel it has read
    offered,    \* login handlers whose urlCh is full
    req,        \* requests in flight, with the grant of their session
    hears,      \* requests whose fetcher waits on the code channel in use
    run,        \* the run loop, the grant it uses and the channel it waits on
    notice,     \* a goroutine of OnInvalidate has not run
    row,        \* the store
    issued,     \* grants issued so far
    revoked,    \* grants the server has revoked
    restarts

entry == <<handler, loaded, ready, closed, notice>>
browser == <<code, loginState, login>>
requests == <<offered, req, hears>>
server == <<issued, revoked>>
vars == <<handler, loaded, ready, closed, code, loginState, login, auto, offered, req,
          hears, run, notice, row, issued, revoked, restarts>>

Logins == {"none", "begin", "await", "exchange", "install", "notify", "clear"}
NoLogin == [pc |-> "none", by |-> "user"]
Idle == [pc |-> "idle", of |-> 0]
Asking == [pc |-> "ask", of |-> 0, on |-> 0]
Booting == [pc |-> "boot", on |-> 0]

TypeOK ==
    /\ handler \in Grants \cup {0} /\ loaded \in Grants \cup {0} /\ row \in Grants \cup {0}
    /\ ready \in Nat \ {0} /\ closed \subseteq 1..ready
    /\ code \in {"nil", "open", "login", "stray"}
    /\ loginState \in {"none", "login", "stray"}
    /\ login \in [pc : Logins, by : {"user", "auto"}]
    /\ auto \in [pc : {"boot", "start", "begin", "wait", "ended"}, on : 0..ready]
    /\ offered \subseteq Grants /\ revoked \subseteq Grants
    /\ req \in [Reqs -> [pc : {"idle", "send", "save", "stray", "stuck"},
                         of : Grants \cup {0}]]
    /\ hears \subseteq Reqs
    /\ run \in [pc : {"ask", "park", "wait", "connect", "up"}, of : Grants \cup {0},
                on : 0..ready]
    /\ notice \in BOOLEAN
    /\ issued \in Grants \cup {0}
    /\ restarts \in 0..MaxRestarts

\* New builds the handler from the row, if there is one, and closes ready.
Init ==
    /\ row = Stored /\ issued = Stored
    /\ revoked = {} /\ restarts = 0
    /\ handler = row /\ loaded = row
    /\ ready = 1 /\ closed = (IF row = 0 THEN {} ELSE {1})
    /\ code = "nil" /\ loginState = "none" /\ login = NoLogin
    /\ auto = Booting
    /\ offered = {} /\ req = [r \in Reqs |-> Idle] /\ hears = {}
    /\ run = Asking /\ notice = FALSE

-----------------------------------------------------------------------------
(* invalidate, Reconnect, clearLogin *)

\* Faulty variant: the channel of an entry that has no handler is replaced too.
invalidate_Always ==
    /\ handler' = 0
    /\ ready' = ready + 1
    /\ row' \in {0, row}
    /\ notice' = (notice \/ handler # 0)

\* Faulty variant: waiters are left on the channel that the login closed.
invalidate_KeepsReady ==
    IF handler = 0 THEN UNCHANGED <<handler, ready, row, notice>>
    ELSE /\ handler' = 0
         /\ UNCHANGED ready
         /\ row' \in {0, row}
         /\ notice' = TRUE

\* Whichever handler was rejected; an error of Delete is only logged.
invalidate ==
    IF handler = 0 THEN UNCHANGED <<handler, ready, row, notice>>
    ELSE /\ handler' = 0
         /\ ready' = ready + 1
         /\ row' \in {0, row}
         /\ notice' = TRUE

\* Reconnect closes the session the upstream has, if it has one.
Reconnect ==
    run' = IF run.pc = "up" THEN Asking ELSE run

\* Nobody can send on the channel a fetcher still waits on once code is replaced.
clearLogin ==
    /\ code' = "nil" /\ loginState' = "none" /\ login' = NoLogin /\ hears' = {}

OnInvalidate ==
    /\ notice
    /\ notice' = FALSE
    /\ Reconnect
    /\ UNCHANGED <<handler, loaded, ready, closed, browser, auto, requests, row, server,
                   restarts>>

-----------------------------------------------------------------------------
(* StartLogin and the goroutine it starts *)

Begin(by) ==
    /\ code = "nil"
    /\ code' = "open"
    /\ login' = [pc |-> "begin", by |-> by]

\* The login endpoint is served after AutoLogin.
StartLogin ==
    /\ auto.pc # "boot"
    /\ Begin("user")
    /\ UNCHANGED <<entry, loginState, auto, requests, run, row, server, restarts>>

\* The caller of StartLogin gets an error: autoLogin gives up, whatever the error.
CallerFails ==
    auto' = IF login.pc = "begin" /\ login.by = "auto" THEN [auto EXCEPT !.pc = "ended"]
            ELSE auto

\* The server answers the probe with its challenge, and the fetcher is called: the
\* URL is published and StartLogin returns it.
Offer ==
    /\ login.pc = "begin"
    /\ loginState' = "login"
    /\ login' = [login EXCEPT !.pc = "await"]
    /\ UNCHANGED <<entry, code, auto, requests, run, row, server, restarts>>

\* Faulty variant: a callback without a state matches a login that has none yet.
Callback_EmptyState(s) ==
    /\ code = "open" /\ (loginState = s \/ loginState = "none")
    /\ code' = loginState
    /\ UNCHANGED <<entry, loginState, login, auto, requests, run, row, server, restarts>>

\* The browser comes back with the state of a published URL.
Callback(s) ==
    /\ code = "open" /\ loginState = s
    /\ code' = s
    /\ UNCHANGED <<entry, loginState, login, auto, requests, run, row, server, restarts>>

\* The fetcher gets the code.
Take ==
    /\ login.pc = "await" /\ code = "login"
    /\ code' = "open"
    /\ login' = [login EXCEPT !.pc = "exchange"]
    /\ UNCHANGED <<entry, loginState, auto, requests, run, row, server, restarts>>

\* The probe or Authorize fails: discovery, registration, loginTimeout, a code for
\* another request's state, the exchange, the store, or a caller that leaves.
LoginFails ==
    /\ login.pc \in {"begin", "await", "exchange"}
    /\ clearLogin
    /\ CallerFails
    /\ UNCHANGED <<entry, offered, req, run, row, server, restarts>>

\* NewTokenSource: the tokens are stored before the handler is installed.
SaveLogin ==
    /\ login.pc = "exchange" /\ issued < MaxLogins
    /\ issued' = issued + 1
    /\ row' = issued + 1
    /\ login' = [login EXCEPT !.pc = "install"]
    /\ UNCHANGED <<entry, code, loginState, auto, requests, run, revoked, restarts>>

Install ==
    /\ login.pc = "install"
    /\ handler' = issued
    /\ closed' = IF handler = 0 THEN closed \cup {ready} ELSE closed
    /\ login' = [login EXCEPT !.pc = IF handler = 0 THEN "clear" ELSE "notify"]
    /\ UNCHANGED <<loaded, ready, notice, code, loginState, auto, requests, run, row,
                   server, restarts>>

OnLogin ==
    /\ login.pc = "notify"
    /\ Reconnect
    /\ login' = [login EXCEPT !.pc = "clear"]
    /\ UNCHANGED <<entry, code, loginState, auto, requests, row, server, restarts>>

EndLogin ==
    /\ login.pc = "clear"
    /\ clearLogin
    /\ UNCHANGED <<entry, auto, offered, req, run, row, server, restarts>>

-----------------------------------------------------------------------------
(* AutoLogin and autoLogin *)

\* Start has returned: the upstream may have been refused already.
AutoLogin ==
    /\ auto.pc = "boot"
    /\ auto' = [auto EXCEPT !.pc = IF handler = 0 THEN "start" ELSE "ended"]
    /\ UNCHANGED <<entry, browser, requests, run, row, server, restarts>>

AutoReads ==
    /\ auto.pc = "start"
    /\ auto' = [pc |-> "begin", on |-> ready]
    /\ UNCHANGED <<entry, browser, requests, run, row, server, restarts>>

AutoStarts ==
    /\ auto.pc = "begin"
    /\ Begin("auto")
    /\ auto' = [auto EXCEPT !.pc = "wait"]
    /\ UNCHANGED <<entry, loginState, requests, run, row, server, restarts>>

\* "a login is already in progress"
AutoRefused ==
    /\ auto.pc = "begin" /\ code # "nil"
    /\ auto' = [auto EXCEPT !.pc = "ended"]
    /\ UNCHANGED <<entry, browser, requests, run, row, server, restarts>>

\* StartLogin has returned the URL it is called for.
AutoReady ==
    /\ auto.pc = "wait" /\ ~(login.pc = "begin" /\ login.by = "auto") /\ auto.on \in closed
    /\ auto' = [auto EXCEPT !.pc = "ended"]
    /\ UNCHANGED <<entry, browser, requests, run, row, server, restarts>>

\* loginTimeout and a second later: the login it started is over.
AutoLapses ==
    /\ auto.pc = "wait" /\ (login.pc = "none" \/ login.by = "user")
    /\ auto' = [auto EXCEPT !.pc = "start"]
    /\ UNCHANGED <<entry, browser, requests, run, row, server, restarts>>

-----------------------------------------------------------------------------
(* The run loop: awaitOAuth, connect, serve *)

Ask ==
    /\ run.pc = "ask"
    /\ IF handler = 0
       THEN /\ run' = [run EXCEPT !.pc = "park"]
            /\ UNCHANGED req
       ELSE /\ run' = [pc |-> "connect", of |-> handler, on |-> 0]
            /\ req' = [req EXCEPT ![Connect] = [pc |-> "send", of |-> handler]]
    /\ UNCHANGED <<entry, browser, auto, offered, hears, row, server, restarts>>

Wait ==
    /\ run.pc = "park"
    /\ run' = [pc |-> "wait", of |-> 0, on |-> ready]
    /\ UNCHANGED <<entry, browser, auto, requests, row, server, restarts>>

Woken ==
    /\ run.pc = "wait" /\ run.on \in closed
    /\ run' = Asking
    /\ UNCHANGED <<entry, browser, auto, requests, row, server, restarts>>

\* A ping or a tool call on the session.
StartCall(r) ==
    /\ run.pc = "up" /\ r \in Calls /\ req[r] = Idle
    /\ req' = [req EXCEPT ![r] = [pc |-> "send", of |-> run.of]]
    /\ UNCHANGED <<entry, browser, auto, offered, hears, run, row, server, restarts>>

\* The connection breaks.
SessionEnds ==
    /\ run.pc = "up"
    /\ Reconnect
    /\ UNCHANGED <<entry, browser, auto, requests, row, server, restarts>>

-----------------------------------------------------------------------------
(* A request: Token, the request itself, and Authorize when it is answered 401 *)

Step(r, place) == req' = [req EXCEPT ![r].pc = place]

\* The handshake is over: the run is Ready or has failed.
Finish(r, place) ==
    /\ req' = [req EXCEPT ![r] = Idle]
    /\ hears' = hears \ {r}
    /\ run' = IF r = Connect THEN [run EXCEPT !.pc = place] ELSE run

\* The access token has expired and the server issues another.
Refreshed(r) ==
    /\ req[r].pc = "send" /\ req[r].of \notin revoked
    /\ Step(r, "save")
    /\ UNCHANGED <<entry, browser, auto, offered, hears, run, row, issued, revoked,
                   restarts>>

\* Outside every lock; an error is only logged.
Save(r) ==
    /\ req[r].pc = "save"
    /\ row' \in {row, req[r].of}
    /\ Step(r, "send")
    /\ UNCHANGED <<entry, browser, auto, offered, hears, run, server, restarts>>

RefreshRejected(r) ==
    /\ req[r].pc = "send" /\ req[r].of \in revoked
    /\ invalidate
    /\ Finish(r, "ask")
    /\ UNCHANGED <<loaded, closed, browser, auto, offered, server, restarts>>

Answered(r) ==
    /\ req[r].pc = "send" /\ req[r].of \notin revoked
    /\ Finish(r, "up")
    /\ UNCHANGED <<entry, browser, auto, offered, row, server, restarts>>

\* The network, or the end of the request's context.
RequestFails(r) ==
    /\ req[r].pc \in {"send", "stray"}
    /\ Finish(r, "ask")
    /\ UNCHANGED <<entry, browser, auto, offered, row, server, restarts>>

\* Faulty variant: the handler of New reports the rejection and forgets it.
Unauthorized_Reports(r) ==
    /\ req[r].pc = "send" /\ req[r].of \in revoked /\ req[r].of = loaded
    /\ Finish(r, "ask")
    /\ UNCHANGED <<entry, browser, auto, offered, row, server, restarts>>

\* 401 on a handler that only refreshes: its fetcher drops the credentials.
Unauthorized(r) ==
    /\ req[r].pc = "send" /\ req[r].of \in revoked /\ req[r].of = loaded
    /\ invalidate
    /\ Finish(r, "ask")
    /\ UNCHANGED <<loaded, closed, browser, auto, offered, server, restarts>>

\* 401 on the handler of a login: the fetcher of that login runs once more, with
\* the login's urlCh, which nobody reads any longer, and whatever entry.code is.
StrayLogin(r) ==
    /\ req[r].pc = "send" /\ req[r].of \in revoked /\ req[r].of # loaded
    /\ loginState' = "stray"
    /\ IF req[r].of \in offered
       THEN Step(r, "stuck") /\ UNCHANGED <<offered, hears>>
       ELSE /\ Step(r, "stray")
            /\ offered' = offered \cup {req[r].of}
            /\ hears' = IF code = "nil" THEN hears ELSE hears \cup {r}
    /\ UNCHANGED <<entry, code, login, auto, run, row, server, restarts>>

\* The code of a login that has begun meanwhile: it is of use only if the user
\* opened the stray URL, and then the handler's grant is authorized again.
StrayTakes(r) ==
    /\ req[r].pc = "stray" /\ r \in hears /\ code \in {"login", "stray"}
    /\ code' = "open"
    /\ IF code = "stray"
       THEN /\ revoked' = revoked \ {req[r].of}
            /\ Step(r, "save") /\ hears' = hears \ {r} /\ UNCHANGED run
       ELSE Finish(r, "ask") /\ UNCHANGED revoked
    /\ UNCHANGED <<entry, loginState, login, auto, offered, row, issued, restarts>>

-----------------------------------------------------------------------------
(* The authorization server, time, and restarts *)

Revoke ==
    /\ \E g \in (1..issued) \ revoked : revoked' = revoked \cup {g}
    /\ UNCHANGED <<entry, browser, auto, requests, run, row, issued, restarts>>

\* The gateway stops or crashes at any point, and a new process starts.
Restart ==
    /\ restarts < MaxRestarts
    /\ restarts' = restarts + 1
    /\ handler' = row /\ loaded' = row
    /\ ready' = 1 /\ closed' = (IF row = 0 THEN {} ELSE {1})
    /\ clearLogin
    /\ auto' = Booting
    /\ offered' = {} /\ req' = [r \in Reqs |-> Idle]
    /\ run' = Asking /\ notice' = FALSE
    /\ UNCHANGED <<row, server>>

-----------------------------------------------------------------------------
Logs ==
    \/ StartLogin \/ Offer \/ Take \/ LoginFails \/ SaveLogin \/ Install \/ OnLogin \/ EndLogin
    \/ \E s \in {"login", "stray"} : Callback(s)

AutoLogins == AutoLogin \/ AutoReads \/ AutoStarts \/ AutoRefused \/ AutoReady \/ AutoLapses

Runs == Ask \/ Wait \/ Woken \/ SessionEnds \/ OnInvalidate

Requests(r) ==
    \/ StartCall(r) \/ Refreshed(r) \/ Save(r) \/ RefreshRejected(r)
    \/ Answered(r) \/ RequestFails(r) \/ Unauthorized(r) \/ StrayLogin(r) \/ StrayTakes(r)

Next ==
    \/ Logs \/ AutoLogins \/ Runs \/ (\E r \in Reqs : Requests(r))
    \/ Revoke \/ Restart

Spec == Init /\ [][Next]_vars

\* Goroutines run, contexts end: the probe has the client's timeout, a login has
\* loginTimeout, a connect StartTimeout, and a call its own.  The network does
\* not fail every request to a server that would reject it.
FairSpec ==
    /\ Spec
    /\ WF_vars(LoginFails) /\ WF_vars(Install \/ OnLogin \/ EndLogin)
    /\ WF_vars(Ask \/ Wait \/ Woken) /\ WF_vars(OnInvalidate)
    /\ \A r \in Reqs :
        /\ WF_vars(Save(r) \/ Answered(r) \/ RequestFails(r))
        /\ SF_vars(RefreshRejected(r) \/ Unauthorized(r) \/ StrayLogin(r))

-----------------------------------------------------------------------------
(* Properties *)

\* entry.ready is closed exactly while there is a handler: a login never closes it
\* twice, whoever invalidates in between, and who asks for it while there is no handler
\* gets one to wait on.
ReadyTellsHandler == ready \in closed <=> handler # 0

\* Nobody waits on a channel that no later login will close: the run loop and
\* autoLogin hold the channel of the entry, or one that is closed already.
NoLostWakeup ==
    /\ run.pc = "wait" => run.on = ready \/ run.on \in closed
    /\ auto.pc \in {"begin", "wait"} => auto.on = ready \/ auto.on \in closed

\* The run loop leaves Wait only when it is called; autoLogin also when the login it
\* has started is refused, fails or lapses.
At(waits, on) == IF ~waits THEN "away" ELSE IF on \in closed THEN "called" ELSE "waiting"

Places == [w \in {"run", "auto"} |->
             IF w = "run" THEN At(run.pc = "wait", run.on)
             ELSE At(auto.pc \in {"begin", "wait"}, auto.on)]

Gate == INSTANCE LoginGate WITH
    Sleepers <- {"run", "auto"}, Patient <- {"run"}, open <- handler # 0, at <- Places

\* Channels, critical sections and rejections work as a gate: a login calls everybody
\* who waits, nobody is called while there are no credentials and none have come since
\* it began to wait, and no rejection takes a call back.
KeepsGate == Gate!Spec

\* A session that is up is used: it is pinged, unless its upstream is configured or has
\* been found not to take pings or speaks a protocol without them, or clients call tools.
SessionsUsed == \A r \in Calls : WF_vars(StartCall(r))

\* "If the server revokes the grant the upstream returns to needs_login", for the
\* credentials a process has loaded: they are dropped, provided that sessions are
\* used, as it takes a request to be rejected.
LoadedRevocationNoticed ==
    LET Rejected == handler \in revoked /\ handler = loaded
    IN  SessionsUsed => (Rejected ~> ~Rejected)

\* The same for every grant, the ones of this process' own logins included.
RevocationNoticed == SessionsUsed => (handler \in revoked ~> handler \notin revoked)
=============================================================================
