----------------------------- MODULE LiveClient -----------------------------
(***************************************************************************)
(* One viewer and the exe over WebSockets: LiveClient                      *)
(* (src/viewer/src/lib/live-client.ts) on one side, WsServer               *)
(* (src/src/ws-server.cpp), CommandDispatcher::dispatch and the broadcasts *)
(* of SubManager (src/src/live-bridge.cpp) on the other.                   *)
(*                                                                         *)
(* The viewer may connect again and again, give a connection up while      *)
(* calls are under way, and find an exe that has been started anew.  In    *)
(* the browser one task runs at a time, a promise's continuation included: *)
(* each task is one action.  In the exe the thread that answers and the    *)
(* one that broadcasts run side by side.                                   *)
(***************************************************************************)
EXTENDS Naturals, Sequences

CONSTANTS
    Objects,    \* objects of the game one may subscribe to
    None,
    MaxReq,     \* bound: calls of the viewer
    MaxConn,    \* bound: connections it opens
    MaxRuns,    \* bound: times the exe is started
    MaxSubs,    \* bound: subscriptions per run of the exe
    MaxPushes   \* bound: diffs broadcast

Calls == 1..MaxReq
Conns == 1..MaxConn
Runs  == 1..MaxRuns
Subs  == 1..MaxSubs

Requests == [op : {"ping", "subscribe", "unsubscribe"}, arg : Objects \cup Subs \cup {None},
             conn : Conns]
Answers == [status : {"ok", "error"}, sub : Subs \cup {0}]
Served  == [id : Calls, conn : Conns, answer : Answers]

ASSUME ClientAssumption ==
    /\ None \notin Objects \cup Subs \cup Requests \cup Answers \cup Served
    /\ MaxReq \in Nat /\ MaxConn \in Nat /\ MaxRuns \in Nat
    /\ MaxSubs \in Nat /\ MaxPushes \in Nat

VARIABLES
    \* the viewer
    ws,            \* LiveClient.ws: a connection, or 0
    conn,          \* connections opened so far
    sock,          \* sock[c]: "none", "connecting", "open" or "closed"
    reqId,
    request,       \* request[i]: what call i asked, and on which connection
    pending,
    timers,        \* calls whose 5 s timeout is still to come
    promise,       \* promise[i]: "none", "waiting", "resolved" or "rejected"
    value,         \* value[i]: what call i was resolved with
    subscriptions, \* keys of _subscriptions
    listeners,     \* listeners[s]: the object the listener under s is for, or None
    \* the connections
    up,            \* up[c]: calls on their way to the exe
    down,          \* down[c]: messages on their way to the viewer
    \* the exe
    run,           \* times started
    alive,
    conns,         \* connections registered in id_to_hdl
    serving,       \* the call whose answer is to be sent, or None
    nextSub,       \* SubManager::m_next_id
    subs,          \* SubManager::m_subs
    looping,       \* the subscription thread still reads
    pushes,
    \* history
    runOf,         \* runOf[c]: the run connection c was made to
    subject,       \* subject[r][s]: what subscription s of run r is about
    listenRun,     \* listenRun[s]: the run the listener under s was made in
    result         \* result[i]: what dispatching call i gave

viewer  == <<ws, conn, sock, reqId, request, pending, timers, promise, value, subscriptions,
             listeners, listenRun>>
network == <<up, down>>
exe     == <<run, alive, conns, serving, nextSub, subs, looping, pushes, runOf, subject, result>>
vars    == <<viewer, network, exe>>

Response(i, a) == [kind |-> "response", id |-> i, answer |-> a]
Diff(s, o)     == [kind |-> "diff", sub |-> s, obj |-> o]
Bye            == [kind |-> "bye"]
Messages == [kind : {"response"}, id : Calls, answer : Answers]
            \cup [kind : {"diff"}, sub : Subs, obj : Objects]
            \cup {Bye}

TypeOK ==
    /\ ws \in {0} \cup Conns
    /\ conn \in 0..MaxConn
    /\ sock \in [Conns -> {"none", "connecting", "open", "closed"}]
    /\ reqId \in 0..MaxReq
    /\ request \in [Calls -> Requests \cup {None}]
    /\ pending \subseteq Calls
    /\ timers \subseteq Calls
    /\ promise \in [Calls -> {"none", "waiting", "resolved", "rejected"}]
    /\ value \in [Calls -> Answers \cup {None}]
    /\ subscriptions \subseteq Subs
    /\ listeners \in [Subs -> Objects \cup {None}]
    /\ up \in [Conns -> Seq(Calls)]
    /\ down \in [Conns -> Seq(Messages)]
    /\ run \in 0..MaxRuns
    /\ alive \in BOOLEAN
    /\ conns \subseteq Conns
    /\ serving \in Served \cup {None}
    /\ nextSub \in 1..(MaxSubs + 1)
    /\ subs \subseteq Subs
    /\ looping \in BOOLEAN
    /\ pushes \in 0..MaxPushes
    /\ runOf \in [Conns -> Runs \cup {0}]
    /\ subject \in [Runs -> [Subs -> Objects \cup {None}]]
    /\ listenRun \in [Subs -> Runs \cup {0}]
    /\ result \in [Calls -> Answers \cup {None}]

Init ==
    /\ ws = 0 /\ conn = 0 /\ sock = [c \in Conns |-> "none"]
    /\ reqId = 0 /\ request = [i \in Calls |-> None]
    /\ pending = {} /\ timers = {}
    /\ promise = [i \in Calls |-> "none"] /\ value = [i \in Calls |-> None]
    /\ subscriptions = {} /\ listeners = [s \in Subs |-> None]
    /\ up = [c \in Conns |-> <<>>] /\ down = [c \in Conns |-> <<>>]
    /\ run = 0 /\ alive = FALSE /\ conns = {} /\ serving = None
    /\ nextSub = 1 /\ subs = {} /\ looping = FALSE /\ pushes = 0
    /\ runOf = [c \in Conns |-> 0]
    /\ subject = [r \in Runs |-> [s \in Subs |-> None]]
    /\ listenRun = [s \in Subs |-> 0]
    /\ result = [i \in Calls |-> None]
-----------------------------------------------------------------------------
(* The exe. *)
ExeStarts ==
    /\ ~alive /\ run < MaxRuns
    /\ run' = run + 1 /\ alive' = TRUE
    /\ nextSub' = 1 /\ looping' = TRUE
    /\ UNCHANGED <<viewer, network, conns, serving, subs, pushes, runOf, subject, result>>

(* It is stopped or killed: its connections break, and of what it had sent  *)
(* some may still arrive.                                                  *)
ExeEnds ==
    /\ alive
    /\ alive' = FALSE
    /\ conns' = {} /\ serving' = None /\ subs' = {} /\ looping' = FALSE
    /\ up' = [c \in Conns |-> <<>>]
    /\ UNCHANGED <<viewer, down, run, nextSub, pushes, runOf, subject, result>>

(* The handshake and the open handler, register_connection. *)
Opens(c) == /\ conns' = conns \cup {c}
            /\ runOf' = [runOf EXCEPT ![c] = run]

(* The close handler; calls that were still on their way may be lost.       *)
(* Nothing else is done for the viewer that left (set_on_disconnect).       *)
Forgets(c) ==
    /\ c \in conns /\ sock[c] = "closed"
    /\ conns' = conns \ {c}
    /\ up' = [up EXCEPT ![c] = <<>>]
    /\ UNCHANGED <<viewer, down, run, alive, serving, nextSub, subs, looping, pushes, runOf,
                   subject, result>>

(* A message to a socket the viewer has closed is not seen any more. *)
Sent(c, m) == IF sock[c] = "closed" THEN down[c] ELSE Append(down[c], m)

(* Variant: the ids of erased subscriptions are given out again. *)
DispatchReusesIds(c) ==
    /\ serving = None
    /\ c \in conns /\ up[c] # <<>>
    /\ LET i == Head(up[c])
           r == request[i]
           a(st, s) == [id |-> i, conn |-> c, answer |-> [status |-> st, sub |-> s]]
       IN  /\ \/ /\ r.op = "ping"
                 /\ serving' = a("ok", 0)
                 /\ UNCHANGED <<nextSub, subs, subject>>
              \/ /\ r.op = "subscribe"
                 /\ \E s \in Subs \ subs :
                      /\ \A t \in Subs \ subs : s <= t
                      /\ subs' = subs \cup {s}
                      /\ subject' = [subject EXCEPT ![run][s] = r.arg]
                      /\ serving' = a("ok", s)
                 /\ UNCHANGED nextSub
              \/ /\ r.op = "unsubscribe"
                 /\ subs' = subs \ {r.arg}
                 /\ serving' = a("ok", 0)
                 /\ UNCHANGED <<nextSub, subject>>
           /\ result' = [result EXCEPT ![i] = serving'.answer]
    /\ up' = [up EXCEPT ![c] = Tail(@)]
    /\ UNCHANGED <<viewer, down, run, alive, conns, looping, pushes, runOf>>

(* on_message: CommandDispatcher::dispatch runs to its end on the server    *)
(* thread; without a pipe to the game mem.* commands are refused.           *)
Dispatch(c) ==
    /\ serving = None
    /\ c \in conns /\ up[c] # <<>>
    /\ LET i == Head(up[c])
           r == request[i]
           a(st, s) == [id |-> i, conn |-> c, answer |-> [status |-> st, sub |-> s]]
       IN  /\ \/ /\ r.op = "ping"
                 /\ serving' = a("ok", 0)
                 /\ UNCHANGED <<nextSub, subs, subject>>
              \/ /\ r.op = "subscribe" /\ nextSub \in Subs
                 /\ nextSub' = nextSub + 1
                 /\ subs' = subs \cup {nextSub}
                 /\ subject' = [subject EXCEPT ![run][nextSub] = r.arg]
                 /\ serving' = a("ok", nextSub)
              \/ /\ r.op = "unsubscribe"
                 /\ subs' = subs \ {r.arg}
                 /\ serving' = a("ok", 0)
                 /\ UNCHANGED <<nextSub, subject>>
              \/ /\ r.op # "ping"
                 /\ serving' = a("error", 0)
                 /\ UNCHANGED <<nextSub, subs, subject>>
           /\ result' = [result EXCEPT ![i] = serving'.answer]
    /\ up' = [up EXCEPT ![c] = Tail(@)]
    /\ UNCHANGED <<viewer, down, run, alive, conns, looping, pushes, runOf>>

(* ws_server.send, if the connection is still registered. *)
Reply ==
    /\ serving # None
    /\ LET c == serving.conn
       IN  down' = IF c \in conns
                   THEN [down EXCEPT ![c] = Sent(c, Response(serving.id, serving.answer))]
                   ELSE down
    /\ serving' = None
    /\ UNCHANGED <<viewer, up, run, alive, conns, nextSub, subs, looping, pushes, runOf, subject,
                   result>>

(* Another viewer subscribes. *)
OthersSubscribe(o) ==
    /\ alive /\ serving = None
    /\ nextSub \in Subs
    /\ nextSub' = nextSub + 1
    /\ subs' = subs \cup {nextSub}
    /\ subject' = [subject EXCEPT ![run][nextSub] = o]
    /\ UNCHANGED <<viewer, network, run, alive, conns, serving, looping, pushes, runOf, result>>

(* WsServer::broadcast: every registered connection, whoever subscribed. *)
Broadcast(m) == down' = [c \in Conns |-> IF c \in conns THEN Sent(c, m) ELSE down[c]]

(* mem.diff, from the subscription thread. *)
Push(s) ==
    /\ looping /\ s \in subs /\ pushes < MaxPushes
    /\ Broadcast(Diff(s, subject[run][s]))
    /\ pushes' = pushes + 1
    /\ UNCHANGED <<viewer, up, run, alive, conns, serving, nextSub, subs, looping, runOf, subject,
                   result>>

(* live.disconnected: a read failed, and the subscription thread ends. *)
Disconnected ==
    /\ looping /\ subs # {}
    /\ Broadcast(Bye)
    /\ looping' = FALSE
    /\ UNCHANGED <<viewer, up, run, alive, conns, serving, nextSub, subs, pushes, runOf, subject,
                   result>>
-----------------------------------------------------------------------------
(* The viewer. *)

Close(c) == [sock EXCEPT ![c] = "closed"]
NoListeners == [s \in Subs |-> None]

(* disconnect() of connection c: the calls under way are left to their      *)
(* timers, and what still arrives is not looked at.                        *)
GiveUp(c) == /\ subscriptions' = {}
             /\ listeners' = NoListeners
             /\ down' = [down EXCEPT ![c] = <<>>]

(* connect(), which gives up a connection there may be. *)
Connect ==
    /\ conn < MaxConn
    /\ conn' = conn + 1 /\ ws' = conn + 1
    /\ IF ws = 0
       THEN /\ sock' = [sock EXCEPT ![conn + 1] = "connecting"]
            /\ UNCHANGED <<subscriptions, listeners, down>>
       ELSE /\ sock' = [sock EXCEPT ![ws] = "closed", ![conn + 1] = "connecting"]
            /\ GiveUp(ws)
    /\ UNCHANGED <<reqId, request, pending, timers, promise, value, listenRun, up, exe>>

(* Variant: the calls that wait are sent again. *)
OpenedResends ==
    /\ ws # 0 /\ sock[ws] = "connecting" /\ alive
    /\ sock' = [sock EXCEPT ![ws] = "open"]
    /\ up' = [up EXCEPT ![ws] = IF pending = {} THEN <<>> ELSE <<CHOOSE i \in pending : TRUE>>]
    /\ Opens(ws)
    /\ UNCHANGED <<ws, conn, reqId, request, pending, timers, promise, value, subscriptions,
                   listeners, listenRun, down, run, alive, serving, nextSub, subs, looping,
                   pushes, subject, result>>

(* onopen. *)
Opened ==
    /\ ws # 0 /\ sock[ws] = "connecting" /\ alive
    /\ sock' = [sock EXCEPT ![ws] = "open"]
    /\ Opens(ws)
    /\ UNCHANGED <<ws, conn, reqId, request, pending, timers, promise, value, subscriptions,
                   listeners, listenRun, network, run, alive, serving, nextSub, subs, looping,
                   pushes, subject, result>>

Settle(S, st) == promise' = [i \in Calls |-> IF i \in S THEN st ELSE promise[i]]

(* onclose, after a refused connection or the end of the exe: everything    *)
(* that waits is rejected; _diffListeners is left alone.                   *)
Closed ==
    /\ ws # 0
    /\ \/ sock[ws] = "connecting" /\ ~alive
       \/ sock[ws] = "open" /\ (~alive \/ runOf[ws] # run)
    /\ ws' = 0 /\ sock' = Close(ws)
    /\ down' = [down EXCEPT ![ws] = <<>>]
    /\ Settle(pending, "rejected")
    /\ pending' = {}
    /\ subscriptions' = {}
    /\ UNCHANGED <<conn, reqId, request, timers, value, listeners, listenRun, up, exe>>

(* Variant: the calls that wait are forgotten. *)
DisconnectForgets ==
    /\ ws # 0
    /\ ws' = 0 /\ sock' = Close(ws)
    /\ GiveUp(ws)
    /\ pending' = {}
    /\ UNCHANGED <<conn, reqId, request, timers, promise, value, listenRun, up, exe>>

(* disconnect(), by the user. *)
Disconnect ==
    /\ ws # 0
    /\ ws' = 0 /\ sock' = Close(ws)
    /\ GiveUp(ws)
    /\ UNCHANGED <<conn, reqId, request, pending, timers, promise, value, listenRun, up, exe>>

(* send() over an open socket; otherwise it rejects at once.                *)
Send(op, arg) ==
    /\ ws # 0 /\ sock[ws] = "open"
    /\ reqId < MaxReq
    /\ LET i == reqId + 1
       IN  /\ reqId' = i
           /\ request' = [request EXCEPT ![i] = [op |-> op, arg |-> arg, conn |-> ws]]
           /\ pending' = pending \cup {i}
           /\ timers' = timers \cup {i}
           /\ promise' = [promise EXCEPT ![i] = "waiting"]
           /\ up' = IF ws \in conns THEN [up EXCEPT ![ws] = Append(@, i)] ELSE up
    /\ UNCHANGED <<ws, conn, sock, value, subscriptions, listeners, listenRun, down, exe>>

Ping == Send("ping", None)
Subscribe(o) == Send("subscribe", o)

(* Variant: the subscription is forgotten before the exe has answered. *)
UnsubscribeAtOnce(s) ==
    /\ s \in subscriptions
    /\ ws # 0 /\ sock[ws] = "open"
    /\ reqId < MaxReq
    /\ LET i == reqId + 1
       IN  /\ reqId' = i
           /\ request' = [request EXCEPT ![i] = [op |-> "unsubscribe", arg |-> s, conn |-> ws]]
           /\ pending' = pending \cup {i}
           /\ timers' = timers \cup {i}
           /\ promise' = [promise EXCEPT ![i] = "waiting"]
           /\ up' = IF ws \in conns THEN [up EXCEPT ![ws] = Append(@, i)] ELSE up
    /\ subscriptions' = subscriptions \ {s}
    /\ listeners' = [listeners EXCEPT ![s] = None]
    /\ UNCHANGED <<ws, conn, sock, value, listenRun, down, exe>>

Unsubscribe(s) == s \in subscriptions /\ Send("unsubscribe", s)

(* The continuations of send() in subscribe() and unsubscribe(). *)
Continue(q, sub) ==
    \/ q.op = "ping" /\ UNCHANGED <<subscriptions, listeners, listenRun>>
    \/ /\ q.op = "subscribe"
       /\ subscriptions' = subscriptions \cup {sub}
       /\ listeners' = [listeners EXCEPT ![sub] = q.arg]
       /\ listenRun' = [listenRun EXCEPT ![sub] = runOf[ws]]
    \/ /\ q.op = "unsubscribe"
       /\ subscriptions' = subscriptions \ {q.arg}
       /\ listeners' = [listeners EXCEPT ![q.arg] = None]
       /\ UNCHANGED listenRun

(* onmessage of a response: the promise settles, and its continuation runs  *)
(* before the next task.                                                   *)
Answered(i, a) ==
    /\ pending' = pending \ {i}
    /\ \/ /\ i \notin pending
          /\ UNCHANGED <<promise, value, subscriptions, listeners, listenRun>>
       \/ /\ i \in pending /\ a.status = "error"
          /\ Settle({i}, "rejected")
          /\ UNCHANGED <<value, subscriptions, listeners, listenRun>>
       \/ /\ i \in pending /\ a.status = "ok"
          /\ Settle({i}, "resolved")
          /\ value' = [value EXCEPT ![i] = a]
          /\ Continue(request[i], a.sub)

(* A diff changes nothing here: its listener is called, if there is one. *)
Message ==
    /\ ws # 0 /\ sock[ws] = "open" /\ down[ws] # <<>>
    /\ LET m == Head(down[ws])
       IN  \/ /\ m.kind = "response"
              /\ Answered(m.id, m.answer)
              /\ down' = [down EXCEPT ![ws] = Tail(@)]
              /\ UNCHANGED <<ws, sock>>
           \/ /\ m.kind = "diff"
              /\ down' = [down EXCEPT ![ws] = Tail(@)]
              /\ UNCHANGED <<ws, sock, pending, promise, value, subscriptions, listeners,
                             listenRun>>
           \/ /\ m.kind = "bye"
              /\ ws' = 0 /\ sock' = Close(ws)
              /\ GiveUp(ws)
              /\ UNCHANGED <<pending, promise, value, listenRun>>
    /\ UNCHANGED <<conn, reqId, request, timers, up, exe>>

(* setTimeout of send(). *)
Timeout(i) ==
    /\ i \in timers
    /\ timers' = timers \ {i}
    /\ pending' = pending \ {i}
    /\ Settle({i} \cap pending, "rejected")
    /\ UNCHANGED <<ws, conn, sock, reqId, request, value, subscriptions, listeners, listenRun,
                   network, exe>>
-----------------------------------------------------------------------------
Exe == \/ ExeStarts \/ ExeEnds \/ Reply \/ Disconnected
       \/ \E c \in Conns : Forgets(c) \/ Dispatch(c)
       \/ \E s \in Subs : Push(s)
       \/ \E o \in Objects : OthersSubscribe(o)

Viewer == \/ Connect \/ Opened \/ Closed \/ Disconnect \/ Ping \/ Message
          \/ \E o \in Objects : Subscribe(o)
          \/ \E s \in Subs : Unsubscribe(s)
          \/ \E i \in Calls : Timeout(i)

Next == Exe \/ Viewer

Spec == Init /\ [][Next]_vars
-----------------------------------------------------------------------------
(* PROPERTIES *)

(* The diff that the viewer is about to take from its connection. *)
Arriving(s, o) == ws # 0 /\ down[ws] # <<>> /\ Head(down[ws]) = Diff(s, o)

(* A diff listener hears of the object it was registered for, although      *)
(* every viewer gets every diff and ids are only numbers: calls that were   *)
(* given up, late answers and reconnections do not mix them up, as long as  *)
(* it is the same run of the exe.                                          *)
HearsOwn ==
    \A s \in Subs, o \in Objects :
        Arriving(s, o) /\ listeners[s] # None /\ listenRun[s] = runOf[ws] => listeners[s] = o

(* The same across runs of the exe, whose ids start again from 1.           *)
HearsOwnAlways ==
    \A s \in Subs, o \in Objects : Arriving(s, o) /\ listeners[s] # None => listeners[s] = o

(* A live subscription the viewer asked for on its present connection is    *)
(* known to it, unless it has given the call up or the answer is under way: *)
(* nothing else leaks one.                                                 *)
LeaksOnlyGivenUp ==
    \A i \in Calls :
        /\ request[i] # None /\ request[i].op = "subscribe" /\ request[i].conn = ws
        /\ alive /\ ws \in conns
        /\ promise[i] = "resolved" /\ result[i].sub \in subs
        => result[i].sub \in subscriptions

(* Calls are executed at most once and settle at most once, with their own  *)
(* result.                                                                 *)
RC == INSTANCE RemoteCalls WITH Results <- Answers, NoResult <- None
ImplementsRemoteCalls == RC!Spec
-----------------------------------------------------------------------------
(* THE INDUCTIVE INVARIANT *)

(* A call waits exactly as long as it is in pending, and then its timer     *)
(* runs; ids are given out in order.                                       *)
CallBooks ==
    /\ \A i \in Calls : promise[i] = "waiting" <=> i \in pending
    /\ pending \subseteq timers
    /\ \A i \in Calls : promise[i] = "resolved" => result[i] # None /\ result[i].status = "ok"
    /\ \A i \in Calls : i <= reqId => /\ promise[i] # "none"
                                      /\ request[i] \in Requests
                                      /\ request[i].conn <= conn
                                      /\ sock[request[i].conn] \in {"open", "closed"}
    /\ \A i \in Calls : i > reqId => promise[i] = "none" /\ request[i] = None /\ result[i] = None

(* What a connection can be while the viewer and the exe have it. *)
ConnBooks ==
    /\ ws # 0 => ws <= conn /\ sock[ws] \in {"connecting", "open"}
    /\ ws = 0 => subscriptions = {}
    /\ \A c \in Conns : /\ c > conn => sock[c] = "none"
                        /\ sock[c] \in {"none", "connecting"} => c \notin conns /\ runOf[c] = 0
                        /\ down[c] # <<>> => sock[c] = "open"
                        /\ c \in conns => alive /\ runOf[c] = run
                        /\ up[c] # <<>> => c \in conns
                        /\ sock[c] = "open" => runOf[c] \in Runs
                        /\ runOf[c] <= run
    /\ alive => run \in Runs
    /\ serving # None => alive

(* An id names one object as long as the run lasts. *)
IdBooks ==
    /\ \A r \in Runs, s \in Subs :
          r > run \/ (r = run /\ s >= nextSub) => subject[r][s] = None
    /\ \A s \in subs : alive /\ s < nextSub /\ subject[run][s] # None
    /\ \A s \in Subs : listeners[s] # None =>
          listenRun[s] \in Runs /\ subject[listenRun[s]][s] = listeners[s]
    /\ \A s \in subscriptions : runOf[ws] \in Runs /\ subject[runOf[ws]][s] # None

(* An answer is of the run its call was dispatched in. *)
AnswerFits(i) ==
    LET q == request[i]
        r == runOf[q.conn]
    IN  /\ i <= reqId
        /\ r \in Runs
        /\ q.op = "subscribe" /\ result[i].status = "ok" =>
               result[i].sub \in Subs /\ q.arg \in Objects /\ subject[r][result[i].sub] = q.arg
        /\ q.op = "unsubscribe" /\ result[i].status = "ok" /\ alive /\ r = run => q.arg \notin subs

Fits(c, m) ==
    /\ m.kind = "response" => m.id <= reqId /\ request[m.id].conn = c /\ result[m.id] = m.answer
    /\ m.kind = "diff" => subject[runOf[c]][m.sub] = m.obj

(* What is on its way, in either direction and at the exe. *)
Traffic ==
    /\ \A c \in Conns : \A k \in 1..Len(up[c]) :
          up[c][k] <= reqId /\ request[up[c][k]].conn = c /\ result[up[c][k]] = None
    /\ \A c \in Conns : \A j, k \in 1..Len(up[c]) : j < k => up[c][j] < up[c][k]
    /\ serving # None => /\ serving.id <= reqId
                         /\ request[serving.id].conn = serving.conn
                         /\ result[serving.id] = serving.answer
    /\ \A c \in Conns : \A k \in 1..Len(down[c]) : Fits(c, down[c][k])
    /\ \A i \in Calls : result[i] # None => AnswerFits(i)
    /\ \A i \in Calls : /\ i <= reqId /\ request[i].op = "subscribe" => request[i].arg \in Objects
                        /\ i <= reqId /\ request[i].op = "unsubscribe" =>
                             LET r == runOf[request[i].conn]
                             IN  /\ r \in Runs /\ request[i].arg \in Subs
                                 /\ subject[r][request[i].arg] # None

IInv == CallBooks /\ ConnBooks /\ IdBooks /\ Traffic /\ LeaksOnlyGivenUp
=============================================================================
