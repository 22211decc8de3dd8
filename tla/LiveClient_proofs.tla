-------------------------- MODULE LiveClient_proofs --------------------------
(***************************************************************************)
(* Proofs about LiveClient, for any number of calls, connections, runs of  *)
(* the exe, subscriptions and diffs.                                       *)
(***************************************************************************)
EXTENDS LiveClient, TLAPS

(* The invariant of the proofs. *)
Inv == TypeOK /\ IInv

-----------------------------------------------------------------------------
(* Queues. *)
LEMMA TailOf ==
    ASSUME NEW S, NEW q \in Seq(S), q # <<>>
    PROVE  /\ Head(q) \in S /\ Head(q) = q[1]
           /\ Tail(q) \in Seq(S)
           /\ Len(q) \in Nat /\ Len(q) >= 1 /\ Len(Tail(q)) = Len(q) - 1
           /\ \A k \in 1..Len(Tail(q)) : Tail(q)[k] = q[k + 1] /\ k + 1 \in 1..Len(q)
  OBVIOUS

LEMMA AppendOf ==
    ASSUME NEW S, NEW q \in Seq(S), NEW x \in S
    PROVE  /\ Append(q, x) \in Seq(S)
           /\ Len(q) \in Nat /\ Len(Append(q, x)) = Len(q) + 1
           /\ \A k \in 1..Len(q) : Append(q, x)[k] = q[k]
           /\ Append(q, x)[Len(q) + 1] = x
           /\ Append(q, x) # <<>>
  OBVIOUS

LEMMA TakenFrom ==
    ASSUME NEW q \in Seq(Calls), q # <<>>,
           \A j, k \in 1..Len(q) : j < k => q[j] < q[k]
    PROVE  /\ Head(q) \in Calls /\ Head(q) = q[1] /\ 1 \in 1..Len(q)
           /\ Tail(q) \in Seq(Calls)
           /\ \A k \in 1..Len(Tail(q)) : \E l \in 1..Len(q) : Tail(q)[k] = q[l] /\ q[l] # q[1]
           /\ \A j, k \in 1..Len(Tail(q)) : j < k => Tail(q)[j] < Tail(q)[k]
<1>1. /\ Head(q) \in Calls /\ Head(q) = q[1] /\ Tail(q) \in Seq(Calls)
      /\ Len(q) \in Nat /\ Len(q) >= 1 /\ Len(Tail(q)) = Len(q) - 1
      /\ \A k \in 1..Len(Tail(q)) : Tail(q)[k] = q[k + 1] /\ k + 1 \in 1..Len(q)
  BY TailOf
<1>2. 1 \in 1..Len(q) /\ \A k \in 1..Len(q) : q[k] \in Nat
  <2>1. \A k \in 1..Len(q) : q[k] \in Calls
    OBVIOUS
  <2>2. \A x \in Calls : x \in Nat
    BY DEF Calls
  <2>3. QED
    BY <1>1, <2>1, <2>2
<1>3. ASSUME NEW k \in 1..Len(Tail(q))
      PROVE  Tail(q)[k] = q[k + 1] /\ k + 1 \in 1..Len(q) /\ q[k + 1] # q[1]
  <2>1. Tail(q)[k] = q[k + 1] /\ k + 1 \in 1..Len(q) /\ 1 < k + 1
    BY <1>1
  <2>2. q[1] < q[k + 1] /\ q[1] \in Nat /\ q[k + 1] \in Nat
    BY <1>2, <2>1
  <2>3. QED
    BY <2>1, <2>2
<1>4. ASSUME NEW j \in 1..Len(Tail(q)), NEW k \in 1..Len(Tail(q)), j < k
      PROVE  Tail(q)[j] < Tail(q)[k]
  <2>1. j + 1 < k + 1
    BY <1>4
  <2>2. QED
    BY <1>3, <2>1
<1>5. QED
  BY <1>1, <1>2, <1>3, <1>4

(* Records of a call, an answer and a message. *)
LEMMA Fields ==
    /\ \A q \in Requests : /\ q.op \in {"ping", "subscribe", "unsubscribe"}
                           /\ q.arg \in Objects \cup Subs \cup {None} /\ q.conn \in Conns
    /\ \A a \in Answers : a.status \in {"ok", "error"} /\ a.sub \in Subs \cup {0}
    /\ \A v \in Served : v.id \in Calls /\ v.conn \in Conns /\ v.answer \in Answers
    /\ \A m \in Messages : /\ m.kind \in {"response", "diff", "bye"}
                           /\ m.kind = "response" => m.id \in Calls /\ m.answer \in Answers
                           /\ m.kind = "diff" => m.sub \in Subs /\ m.obj \in Objects
  BY DEF Requests, Answers, Served, Messages, Bye

LEMMA ResponseIs ==
    ASSUME NEW i \in Calls, NEW a \in Answers
    PROVE  /\ Response(i, a) \in Messages
           /\ Response(i, a).kind = "response" /\ Response(i, a).id = i
           /\ Response(i, a).answer = a
  BY DEF Response, Messages

LEMMA DiffIs ==
    ASSUME NEW s \in Subs, NEW o \in Objects
    PROVE  /\ Diff(s, o) \in Messages
           /\ Diff(s, o).kind = "diff" /\ Diff(s, o).sub = s /\ Diff(s, o).obj = o
  BY DEF Diff, Messages

LEMMA ByeIs == Bye \in Messages /\ Bye.kind = "bye"
  BY DEF Bye, Messages
-----------------------------------------------------------------------------
(* Before the exe is started and the viewer connects. *)
LEMMA InvInit == Init => Inv
<1> SUFFICES ASSUME Init PROVE Inv
  OBVIOUS
<1> USE ClientAssumption
<1>1. TypeOK
  <2>1. /\ up \in [Conns -> Seq(Calls)] /\ down \in [Conns -> Seq(Messages)]
    BY DEF Init
  <2>2. subject \in [Runs -> [Subs -> Objects \cup {None}]]
    BY DEF Init
  <2>3. /\ conn \in 0..MaxConn /\ reqId \in 0..MaxReq /\ run \in 0..MaxRuns
        /\ nextSub \in 1..(MaxSubs + 1) /\ pushes \in 0..MaxPushes
    BY DEF Init
  <2>4. /\ sock \in [Conns -> {"none", "connecting", "open", "closed"}]
        /\ request \in [Calls -> Requests \cup {None}]
        /\ promise \in [Calls -> {"none", "waiting", "resolved", "rejected"}]
        /\ value \in [Calls -> Answers \cup {None}] /\ result \in [Calls -> Answers \cup {None}]
        /\ listeners \in [Subs -> Objects \cup {None}]
        /\ runOf \in [Conns -> Runs \cup {0}] /\ listenRun \in [Subs -> Runs \cup {0}]
    BY DEF Init
  <2>5. QED
    BY <2>1, <2>2, <2>3, <2>4 DEF Init, TypeOK
<1>2. CallBooks
  BY DEF Init, CallBooks, Calls
<1>3. ConnBooks
  <2>1. \A c \in Conns : up[c] = <<>> /\ down[c] = <<>> /\ sock[c] = "none" /\ runOf[c] = 0
    BY DEF Init
  <2>2. ws = 0 /\ subscriptions = {} /\ conns = {} /\ alive = FALSE /\ run = 0 /\ serving = None
    BY DEF Init
  <2>3. QED
    BY <2>1, <2>2 DEF ConnBooks
<1>4. IdBooks
  BY DEF Init, IdBooks, Runs
<1>5. Traffic
  BY DEF Init, Traffic, Calls, Conns
<1>6. LeaksOnlyGivenUp
  BY DEF Init, LeaksOnlyGivenUp
<1>7. QED
  BY <1>1, <1>2, <1>3, <1>4, <1>5, <1>6 DEF Inv, IInv

(* A new run of the exe numbers its subscriptions from 1 again, but has no  *)
(* connection and no subscription yet.                                     *)
LEMMA ExeStartsKeepsInv == Inv /\ ExeStarts => Inv'
<1> SUFFICES ASSUME Inv, ExeStarts PROVE Inv'
  OBVIOUS
<1> USE ClientAssumption
<1>1. /\ ~alive /\ run \in 0..MaxRuns /\ run < MaxRuns /\ run' = run + 1 /\ alive' = TRUE
      /\ nextSub' = 1 /\ looping' = TRUE
      /\ run' \in Runs
      /\ UNCHANGED <<ws, conn, sock, reqId, request, pending, timers, promise, value,
                     subscriptions, listeners, listenRun, up, down, conns, serving, subs, pushes,
                     runOf, subject, result>>
  BY DEF ExeStarts, viewer, network, Inv, TypeOK, Runs
<1>2. TypeOK'
  BY <1>1 DEF Inv, TypeOK, Runs
<1>3. CallBooks'
  BY <1>1 DEF Inv, IInv, CallBooks
<1>4. conns = {} /\ subs = {} /\ serving = None
  BY <1>1 DEF Inv, IInv, TypeOK, ConnBooks, IdBooks
<1>5. ConnBooks'
  <2>1. \A c \in Conns : runOf[c] \in Nat
    BY DEF Inv, TypeOK, Runs
  <2>2. QED
    BY <1>1, <1>4, <2>1 DEF Inv, IInv, ConnBooks
<1>6. IdBooks'
  BY <1>1, <1>4 DEF Inv, IInv, IdBooks, Runs
<1>7. Traffic'
  <2>1. \A c \in Conns, m \in Messages : Fits(c, m)' <=> Fits(c, m)
    BY <1>1 DEF Fits
  <2>2. \A i \in Calls : AnswerFits(i) => AnswerFits(i)'
    BY <1>1, <1>4 DEF AnswerFits
  <2>3. \A c \in Conns : \A k \in 1..Len(down[c]) : down[c][k] \in Messages
    BY DEF Inv, TypeOK
  <2>4. QED
    BY <1>1, <2>1, <2>2, <2>3 DEF Inv, IInv, Traffic
<1>8. LeaksOnlyGivenUp'
  BY <1>1, <1>4 DEF LeaksOnlyGivenUp
<1>9. QED
  BY <1>2, <1>3, <1>5, <1>6, <1>7, <1>8 DEF Inv, IInv

(* The exe ends: with it go its connections and subscriptions, and the ids  *)
(* of the run will not be used again.                                      *)
LEMMA ExeEndsKeepsInv == Inv /\ ExeEnds => Inv'
<1> SUFFICES ASSUME Inv, ExeEnds PROVE Inv'
  OBVIOUS
<1> USE ClientAssumption
<1>1. /\ alive' = FALSE /\ conns' = {} /\ serving' = None /\ subs' = {} /\ looping' = FALSE
      /\ up' = [c \in Conns |-> <<>>]
      /\ UNCHANGED <<ws, conn, sock, reqId, request, pending, timers, promise, value,
                     subscriptions, listeners, listenRun, down, run, nextSub, pushes, runOf,
                     subject, result>>
  BY DEF ExeEnds, viewer
<1>2. up' \in [Conns -> Seq(Calls)] /\ \A c \in Conns : up'[c] = <<>> /\ Len(up'[c]) = 0
  BY <1>1
<1>3. TypeOK'
  BY <1>1, <1>2 DEF Inv, TypeOK
<1>4. CallBooks'
  BY <1>1 DEF Inv, IInv, CallBooks
<1>5. ConnBooks'
  BY <1>1, <1>2 DEF Inv, IInv, ConnBooks
<1>6. IdBooks'
  BY <1>1 DEF Inv, IInv, IdBooks
<1>7. Traffic'
  <2>1. \A c \in Conns, m \in Messages : Fits(c, m)' <=> Fits(c, m)
    BY <1>1 DEF Fits
  <2>2. \A i \in Calls : AnswerFits(i) => AnswerFits(i)'
    BY <1>1 DEF AnswerFits
  <2>3. \A c \in Conns : \A k \in 1..Len(down[c]) : down[c][k] \in Messages
    BY DEF Inv, TypeOK
  <2>4. QED
    BY <1>1, <1>2, <2>1, <2>2, <2>3 DEF Inv, IInv, Traffic
<1>8. LeaksOnlyGivenUp'
  BY <1>1 DEF LeaksOnlyGivenUp
<1>9. QED
  BY <1>3, <1>4, <1>5, <1>6, <1>7, <1>8 DEF Inv, IInv

(* A connection the viewer has closed is unregistered. *)
LEMMA ForgetsKeepsInv ==
    ASSUME NEW d \in Conns
    PROVE  Inv /\ Forgets(d) => Inv'
<1> SUFFICES ASSUME Inv, Forgets(d) PROVE Inv'
  OBVIOUS
<1> USE ClientAssumption
<1>1. /\ sock[d] = "closed" /\ conns' = conns \ {d} /\ up' = [up EXCEPT ![d] = <<>>]
      /\ UNCHANGED <<ws, conn, sock, reqId, request, pending, timers, promise, value,
                     subscriptions, listeners, listenRun, down, run, alive, serving, nextSub, subs,
                     looping, pushes, runOf, subject, result>>
  BY DEF Forgets, viewer
<1>2. /\ up' \in [Conns -> Seq(Calls)] /\ up'[d] = <<>> /\ Len(up'[d]) = 0
      /\ \A c \in Conns : c # d => up'[c] = up[c]
  BY <1>1 DEF Inv, TypeOK
<1>3. TypeOK'
  BY <1>1, <1>2 DEF Inv, TypeOK
<1>4. CallBooks'
  BY <1>1 DEF Inv, IInv, CallBooks
<1>5. ConnBooks'
  BY <1>1, <1>2 DEF Inv, IInv, ConnBooks
<1>6. IdBooks'
  BY <1>1 DEF Inv, IInv, IdBooks
<1>7. Traffic'
  <2>1. \A c \in Conns, m \in Messages : Fits(c, m)' <=> Fits(c, m)
    BY <1>1 DEF Fits
  <2>2. \A i \in Calls : AnswerFits(i) => AnswerFits(i)'
    BY <1>1 DEF AnswerFits
  <2>3. \A c \in Conns : \A k \in 1..Len(down[c]) : down[c][k] \in Messages
    BY DEF Inv, TypeOK
  <2>4. QED
    BY <1>1, <1>2, <2>1, <2>2, <2>3 DEF Inv, IInv, Traffic
<1>8. LeaksOnlyGivenUp'
  BY <1>1 DEF Inv, IInv, LeaksOnlyGivenUp
<1>9. QED
  BY <1>3, <1>4, <1>5, <1>6, <1>7, <1>8 DEF Inv, IInv

(* What the exe sends is appended to the streams of open connections. *)
LEMMA SentKeepsTraffic ==
    ASSUME Inv, NEW m \in Messages, NEW C \in SUBSET Conns,
           down' = [c \in Conns |-> IF c \in C THEN Sent(c, m) ELSE down[c]],
           C \subseteq conns,
           \A c \in C : Fits(c, m),
           UNCHANGED <<up, reqId, request, result, runOf, subject>>
    PROVE  /\ down' \in [Conns -> Seq(Messages)]
           /\ (\A c \in Conns : \A k \in 1..Len(down[c]) : Fits(c, down[c][k]))'
           /\ \A c \in Conns : down'[c] # <<>> => sock[c] = "open"
<1> SUFFICES ASSUME NEW c \in Conns
             PROVE  /\ down'[c] \in Seq(Messages)
                    /\ \A k \in 1..Len(down'[c]) : Fits(c, down[c][k])'
                    /\ down'[c] # <<>> => sock[c] = "open"
  OBVIOUS
<1>1. down[c] \in Seq(Messages) /\ \A k \in 1..Len(down[c]) : Fits(c, down[c][k])
  BY DEF Inv, IInv, TypeOK, Traffic
<1>2. \A x \in Messages : Fits(c, x) => Fits(c, x)'
  BY DEF Fits
<1>3. \A k \in 1..Len(down[c]) : down[c][k] \in Messages
  BY <1>1
<1>4. CASE c \in C /\ sock[c] # "closed"
  <2>1. down'[c] = Append(down[c], m) /\ c \in conns
    BY <1>4 DEF Sent
  <2>2. Fits(c, m)'
    BY <1>2, <1>4
  <2>3. /\ Append(down[c], m) \in Seq(Messages)
        /\ Len(down[c]) \in Nat /\ Len(Append(down[c], m)) = Len(down[c]) + 1
        /\ \A k \in 1..Len(down[c]) : Append(down[c], m)[k] = down[c][k]
        /\ Append(down[c], m)[Len(down[c]) + 1] = m
    BY <1>1, AppendOf
  <2>4. ASSUME NEW k \in 1..Len(down'[c]) PROVE Fits(c, down[c][k])'
    <3>1. CASE k \in 1..Len(down[c])
      BY <1>1, <2>1, <2>3, <3>1 DEF Fits
    <3>2. CASE k = Len(down[c]) + 1
      BY <2>1, <2>2, <2>3, <3>2 DEF Fits
    <3>3. QED
      BY <2>1, <2>3, <2>4, <3>1, <3>2
  <2>5. sock[c] = "open"
    BY <1>4, <2>1 DEF Inv, IInv, TypeOK, ConnBooks
  <2>6. QED
    BY <2>1, <2>3, <2>4, <2>5
<1>5. CASE ~(c \in C /\ sock[c] # "closed")
  <2>1. down'[c] = down[c]
    BY <1>5 DEF Sent
  <2>2. down[c] # <<>> => sock[c] = "open"
    BY DEF Inv, IInv, ConnBooks
  <2>3. QED
    BY <1>1, <2>1, <2>2 DEF Fits
<1>6. QED
  BY <1>4, <1>5

(* A step that only sends, and ends the serving of a call. *)
LEMMA SendingKeepsInv ==
    ASSUME Inv, NEW m \in Messages, NEW C \in SUBSET Conns,
           down' = [c \in Conns |-> IF c \in C THEN Sent(c, m) ELSE down[c]],
           C \subseteq conns,
           \A c \in C : Fits(c, m),
           serving' \in {serving, None}, looping' \in BOOLEAN, pushes' \in 0..MaxPushes,
           UNCHANGED <<ws, conn, sock, reqId, request, pending, timers, promise, value,
                       subscriptions, listeners, listenRun, up, run, alive, conns, nextSub, subs,
                       runOf, subject, result>>
    PROVE  Inv'
<1> USE ClientAssumption
<1>1. /\ down' \in [Conns -> Seq(Messages)]
      /\ (\A c \in Conns : \A k \in 1..Len(down[c]) : Fits(c, down[c][k]))'
      /\ \A c \in Conns : down'[c] # <<>> => sock[c] = "open"
  BY SentKeepsTraffic
<1>2. TypeOK'
  BY <1>1 DEF Inv, TypeOK
<1>3. CallBooks'
  BY DEF Inv, IInv, CallBooks
<1>4. ConnBooks'
  BY <1>1 DEF Inv, IInv, ConnBooks
<1>5. IdBooks'
  BY DEF Inv, IInv, IdBooks
<1>6. Traffic'
  <2>1. \A i \in Calls : AnswerFits(i) => AnswerFits(i)'
    BY DEF AnswerFits
  <2>2. QED
    BY <1>1, <2>1 DEF Inv, IInv, Traffic
<1>7. LeaksOnlyGivenUp'
  BY DEF Inv, IInv, LeaksOnlyGivenUp
<1>8. QED
  BY <1>2, <1>3, <1>4, <1>5, <1>6, <1>7 DEF Inv, IInv

LEMMA ExeSendsKeepsInv ==
    Inv /\ (Reply \/ Disconnected \/ \E s \in Subs : Push(s)) => Inv'
<1> SUFFICES ASSUME Inv, Reply \/ Disconnected \/ \E s \in Subs : Push(s) PROVE Inv'
  OBVIOUS
<1> USE ClientAssumption
<1>1. CASE Reply
  <2> DEFINE c == serving.conn
             m == Response(serving.id, serving.answer)
             C == IF c \in conns THEN {c} ELSE {}
  <2>1. serving \in Served /\ c \in Conns /\ m \in Messages
    BY <1>1, Fields, ResponseIs DEF Reply, Inv, TypeOK
  <2>2. down' = [d \in Conns |-> IF d \in C THEN Sent(d, m) ELSE down[d]]
    <3>1. down' = IF c \in conns THEN [down EXCEPT ![c] = Sent(c, m)] ELSE down
      BY <1>1 DEF Reply
    <3>2. DOMAIN down = Conns /\ down = [d \in Conns |-> down[d]]
      BY DEF Inv, TypeOK
    <3>3. QED
      BY <2>1, <3>1, <3>2
  <2>3. Fits(c, m)
    BY <1>1, <2>1, Fields, ResponseIs DEF Fits, Reply, Inv, IInv, Traffic
  <2>4. /\ C \in SUBSET Conns /\ C \subseteq conns /\ \A d \in C : Fits(d, m)
        /\ serving' = None /\ looping' \in BOOLEAN /\ pushes' \in 0..MaxPushes
        /\ UNCHANGED <<ws, conn, sock, reqId, request, pending, timers, promise, value,
                       subscriptions, listeners, listenRun, up, run, alive, conns, nextSub, subs,
                       runOf, subject, result>>
    BY <1>1, <2>1, <2>3 DEF Reply, viewer, Inv, TypeOK
  <2> HIDE DEF c, m, C
  <2>5. QED
    BY <2>1, <2>2, <2>4, SendingKeepsInv
<1>2. CASE Disconnected
  <2>1. /\ down' = [c \in Conns |-> IF c \in conns THEN Sent(c, Bye) ELSE down[c]]
        /\ serving' = serving /\ looping' \in BOOLEAN /\ pushes' \in 0..MaxPushes
        /\ conns \in SUBSET Conns
        /\ UNCHANGED <<ws, conn, sock, reqId, request, pending, timers, promise, value,
                       subscriptions, listeners, listenRun, up, run, alive, conns, nextSub, subs,
                       runOf, subject, result>>
    BY <1>2 DEF Disconnected, Broadcast, viewer, Inv, TypeOK
  <2>2. Bye \in Messages /\ \A c \in conns : Fits(c, Bye)
    BY ByeIs DEF Fits
  <2>3. QED
    BY <2>1, <2>2, SendingKeepsInv
<1>3. ASSUME NEW s \in Subs, Push(s) PROVE Inv'
  <2> DEFINE o == subject[run][s]
  <2>1. /\ alive /\ run \in Runs /\ o \in Objects
    BY <1>3 DEF Push, Inv, IInv, TypeOK, IdBooks, ConnBooks
  <2>2. /\ down' = [c \in Conns |-> IF c \in conns THEN Sent(c, Diff(s, o)) ELSE down[c]]
        /\ serving' = serving /\ looping' \in BOOLEAN /\ pushes' \in 0..MaxPushes
        /\ conns \in SUBSET Conns
        /\ UNCHANGED <<ws, conn, sock, reqId, request, pending, timers, promise, value,
                       subscriptions, listeners, listenRun, up, run, alive, conns, nextSub, subs,
                       runOf, subject, result>>
    BY <1>3 DEF Push, Broadcast, viewer, Inv, TypeOK
  <2>3. Diff(s, o) \in Messages /\ \A c \in conns : Fits(c, Diff(s, o))
    BY <2>1, DiffIs DEF Fits, Inv, IInv, TypeOK, ConnBooks
  <2> HIDE DEF o
  <2>4. QED
    BY <2>2, <2>3, SendingKeepsInv
<1>4. QED
  BY <1>1, <1>2, <1>3

(* A new id names its object from now on, and nothing said of the ids       *)
(* before it changes.                                                      *)
LEMMA NewSubject ==
    ASSUME Inv, alive, nextSub \in Subs, NEW o \in Objects,
           nextSub' = nextSub + 1, subs' = subs \cup {nextSub},
           subject' = [subject EXCEPT ![run][nextSub] = o],
           UNCHANGED <<run, alive, runOf, listeners, listenRun, subscriptions, ws>>
    PROVE  /\ nextSub' \in 1..(MaxSubs + 1) /\ subs' \subseteq Subs
           /\ run \in Runs
           /\ subject' \in [Runs -> [Subs -> Objects \cup {None}]]
           /\ subject'[run][nextSub] = o
           /\ \A r \in Runs, s \in Subs : subject[r][s] # None => subject'[r][s] = subject[r][s]
           /\ IdBooks'
<1> USE ClientAssumption
<1>1. run \in Runs /\ subject[run] \in [Subs -> Objects \cup {None}]
  BY DEF Inv, IInv, TypeOK, ConnBooks
<1>2. nextSub' \in 1..(MaxSubs + 1) /\ subs' \subseteq Subs /\ nextSub \in Nat
  <2>1. nextSub \in 1..MaxSubs
    BY DEF Subs
  <2>2. nextSub' \in 1..(MaxSubs + 1) /\ nextSub \in Nat
    BY <2>1
  <2>3. subs' \subseteq Subs
    BY DEF Inv, TypeOK
  <2>4. QED
    BY <2>2, <2>3
<1>3. subject' \in [Runs -> [Subs -> Objects \cup {None}]]
  BY <1>1 DEF Inv, TypeOK
<1>4. /\ subject'[run][nextSub] = o
      /\ \A r \in Runs, s \in Subs : r # run \/ s # nextSub => subject'[r][s] = subject[r][s]
  BY <1>1 DEF Inv, TypeOK
<1>5. subject[run][nextSub] = None
  BY <1>1, <1>2 DEF Inv, IInv, IdBooks
<1>6. \A r \in Runs, s \in Subs : subject[r][s] # None => subject'[r][s] = subject[r][s]
  BY <1>4, <1>5
<1>7. IdBooks'
  <2>1. \A r \in Runs, s \in Subs :
           r > run \/ (r = run /\ s >= nextSub') => subject'[r][s] = None
    BY <1>1, <1>2, <1>4 DEF Inv, IInv, IdBooks, Runs, Subs
  <2>2. \A s \in subs' : alive /\ s < nextSub' /\ subject'[run][s] # None
    BY <1>1, <1>2, <1>4, <1>6 DEF Inv, IInv, TypeOK, IdBooks, Subs
  <2>3. \A s \in Subs : listeners[s] # None =>
           listenRun[s] \in Runs /\ subject'[listenRun[s]][s] = listeners[s]
    BY <1>6 DEF Inv, IInv, IdBooks
  <2>4. \A s \in subscriptions : runOf[ws] \in Runs /\ subject'[runOf[ws]][s] # None
    BY <1>6 DEF Inv, IInv, TypeOK, IdBooks
  <2>5. QED
    BY <2>1, <2>2, <2>3, <2>4 DEF IdBooks
<1>8. QED
  BY <1>1, <1>2, <1>3, <1>4, <1>6, <1>7

(* Subjects may be added and results too: what is on its way still fits. *)
LEMMA SubjectsGrow ==
    ASSUME Inv, alive, run \in Runs,
           \A r \in Runs, s \in Subs : subject[r][s] # None => subject'[r][s] = subject[r][s],
           \A s \in subs' : s \in subs \/ (s \in Subs /\ subject[run][s] = None),
           \A i \in Calls : result[i] # None => result'[i] = result[i],
           UNCHANGED <<down, run, alive, runOf, reqId, request>>
    PROVE  /\ (\A c \in Conns : \A k \in 1..Len(down[c]) : Fits(c, down[c][k]))'
           /\ \A i \in Calls : result[i] # None => AnswerFits(i)'
           /\ \A i \in Calls : i <= reqId /\ request[i].op = "unsubscribe" =>
                 LET r == runOf[request[i].conn]
                 IN  /\ r \in Runs /\ request[i].arg \in Subs
                     /\ subject'[r][request[i].arg] # None
<1> USE ClientAssumption
<1>1. ASSUME NEW c \in Conns, NEW k \in 1..Len(down[c]) PROVE Fits(c, down[c][k])'
  <2> DEFINE m == down[c][k]
  <2>1. Fits(c, m) /\ m \in Messages /\ runOf[c] \in Runs
    BY DEF Inv, IInv, TypeOK, Traffic, ConnBooks
  <2>2. m.kind = "diff" => m.sub \in Subs /\ subject[runOf[c]][m.sub] # None
    <3>1. \A x \in Objects : x # None
      OBVIOUS
    <3>2. QED
      BY <2>1, <3>1, Fields DEF Fits
  <2>3. m.kind = "response" => m.id \in Calls /\ result[m.id] # None
    <3>1. \A x \in Answers : x # None
      OBVIOUS
    <3>2. QED
      BY <2>1, <3>1, Fields DEF Fits
  <2>4. QED
    BY <2>1, <2>2, <2>3 DEF Fits
<1>2. ASSUME NEW i \in Calls, i <= reqId, request[i].op = "unsubscribe"
      PROVE  LET r == runOf[request[i].conn]
             IN  /\ r \in Runs /\ request[i].arg \in Subs
                 /\ subject[r][request[i].arg] # None
                 /\ subject'[r][request[i].arg] # None
  BY <1>2 DEF Inv, IInv, Traffic
<1>3. ASSUME NEW i \in Calls, result[i] # None PROVE AnswerFits(i)'
  <2>1. AnswerFits(i) /\ result'[i] = result[i] /\ i <= reqId
    BY <1>3 DEF Inv, IInv, Traffic, AnswerFits
  <2>2. \A x \in Objects : x # None
    OBVIOUS
  <2>3. request[i].op = "unsubscribe" /\ runOf[request[i].conn] = run /\ request[i].arg \notin subs
           => request[i].arg \notin subs'
    BY <1>2, <2>1
  <2>4. QED
    BY <2>1, <2>2, <2>3 DEF AnswerFits
<1>4. QED
  BY <1>1, <1>2, <1>3

LEMMA OthersSubscribeKeepsInv ==
    ASSUME NEW o \in Objects
    PROVE  Inv /\ OthersSubscribe(o) => Inv'
<1> SUFFICES ASSUME Inv, OthersSubscribe(o) PROVE Inv'
  OBVIOUS
<1> USE ClientAssumption
<1>1. /\ alive /\ nextSub \in Subs /\ nextSub' = nextSub + 1 /\ subs' = subs \cup {nextSub}
      /\ subject' = [subject EXCEPT ![run][nextSub] = o]
      /\ UNCHANGED <<ws, conn, sock, reqId, request, pending, timers, promise, value,
                     subscriptions, listeners, listenRun, up, down, run, alive, conns, serving,
                     looping, pushes, runOf, result>>
  BY DEF OthersSubscribe, viewer, network
<1>2. /\ nextSub' \in 1..(MaxSubs + 1) /\ subs' \subseteq Subs
      /\ run \in Runs
      /\ subject' \in [Runs -> [Subs -> Objects \cup {None}]]
      /\ subject'[run][nextSub] = o
      /\ \A r \in Runs, s \in Subs : subject[r][s] # None => subject'[r][s] = subject[r][s]
      /\ IdBooks'
  BY <1>1, NewSubject
<1>3. TypeOK'
  BY <1>1, <1>2 DEF Inv, TypeOK
<1>4. CallBooks'
  BY <1>1 DEF Inv, IInv, CallBooks
<1>5. ConnBooks'
  BY <1>1 DEF Inv, IInv, ConnBooks
<1>6. Traffic'
  <2>1. nextSub \in Subs /\ subject[run][nextSub] = None
    BY <1>1, <1>2 DEF Inv, IInv, IdBooks, Subs
  <2>2. /\ (\A c \in Conns : \A k \in 1..Len(down[c]) : Fits(c, down[c][k]))'
        /\ \A i \in Calls : result[i] # None => AnswerFits(i)'
        /\ \A i \in Calls : i <= reqId /\ request[i].op = "unsubscribe" =>
              LET r == runOf[request[i].conn]
              IN  /\ r \in Runs /\ request[i].arg \in Subs
                  /\ subject'[r][request[i].arg] # None
    BY <1>1, <1>2, <2>1, SubjectsGrow
  <2>3. QED
    BY <1>1, <2>2 DEF Inv, IInv, Traffic
<1>7. LeaksOnlyGivenUp'
  <2>1. SUFFICES ASSUME NEW i \in Calls, request[i] # None, request[i].op = "subscribe",
                        request[i].conn = ws, alive, ws \in conns, promise[i] = "resolved",
                        result[i].sub \in subs'
                 PROVE  result[i].sub \in subscriptions
    BY <1>1 DEF LeaksOnlyGivenUp
  <2>2. CASE result[i].sub \in subs
    BY <2>1, <2>2 DEF Inv, IInv, LeaksOnlyGivenUp
  <2>3. CASE result[i].sub = nextSub
    <3>1. result[i] # None /\ result[i].status = "ok" /\ AnswerFits(i) /\ ws \in Conns
      BY <2>1 DEF Inv, IInv, TypeOK, CallBooks, Traffic
    <3>2. /\ runOf[request[i].conn] = run
          /\ request[i].arg \in Objects /\ subject[run][nextSub] = request[i].arg
      BY <1>1, <2>1, <2>3, <3>1 DEF AnswerFits, Inv, IInv, ConnBooks
    <3>3. subject[run][nextSub] = None
      BY <1>1, <1>2 DEF Inv, IInv, IdBooks, Subs
    <3>4. QED
      BY <3>2, <3>3
  <2>4. QED
    BY <1>1, <2>1, <2>2, <2>3
<1>8. QED
  BY <1>2, <1>3, <1>4, <1>5, <1>6, <1>7 DEF Inv, IInv

(* A call is taken from the stream and dispatched: it had no result, and a  *)
(* new subscription is about what was asked.                               *)
LEMMA DispatchKeepsInv ==
    ASSUME NEW d \in Conns
    PROVE  Inv /\ Dispatch(d) => Inv'
<1> SUFFICES ASSUME Inv, Dispatch(d) PROVE Inv'
  OBVIOUS
<1> USE ClientAssumption
<1>1. /\ serving = None /\ d \in conns /\ up[d] # <<>>
      /\ up' = [up EXCEPT ![d] = Tail(@)]
      /\ UNCHANGED <<ws, conn, sock, reqId, request, pending, timers, promise, value,
                     subscriptions, listeners, listenRun, down, run, alive, conns, looping, pushes,
                     runOf>>
  BY DEF Dispatch, viewer
<1>2. PICK i \in Calls :
         /\ i = Head(up[d]) /\ i = up[d][1] /\ 1 \in 1..Len(up[d])
         /\ Tail(up[d]) \in Seq(Calls)
         /\ \A k \in 1..Len(Tail(up[d])) :
               \E l \in 1..Len(up[d]) : Tail(up[d])[k] = up[d][l] /\ up[d][l] # i
         /\ \A j, k \in 1..Len(Tail(up[d])) : j < k => Tail(up[d])[j] < Tail(up[d])[k]
  <2>1. up[d] \in Seq(Calls) /\ \A j, k \in 1..Len(up[d]) : j < k => up[d][j] < up[d][k]
    BY DEF Inv, IInv, TypeOK, Traffic
  <2>2. /\ Head(up[d]) \in Calls /\ Head(up[d]) = up[d][1] /\ 1 \in 1..Len(up[d])
        /\ Tail(up[d]) \in Seq(Calls)
        /\ \A k \in 1..Len(Tail(up[d])) :
              \E l \in 1..Len(up[d]) : Tail(up[d])[k] = up[d][l] /\ up[d][l] # up[d][1]
        /\ \A j, k \in 1..Len(Tail(up[d])) : j < k => Tail(up[d])[j] < Tail(up[d])[k]
    BY <1>1, <2>1, TakenFrom
  <2>3. QED
    BY <2>2
<1> DEFINE r == request[i]
<1>3. alive /\ run \in Runs /\ runOf[d] = run
  BY <1>1 DEF Inv, IInv, ConnBooks
<1>4. i <= reqId /\ r.conn = d /\ result[i] = None /\ r \in Requests
  BY <1>2 DEF Inv, IInv, Traffic, CallBooks
<1>5. PICK ans \in Answers :
         /\ serving' = [id |-> i, conn |-> d, answer |-> ans]
         /\ result' = [result EXCEPT ![i] = ans]
         /\ \/ /\ r.op \in {"ping", "unsubscribe"} /\ UNCHANGED <<nextSub, subject>>
               /\ \/ r.op = "ping" /\ subs' = subs
                  \/ r.op = "unsubscribe" /\ subs' = subs \ {r.arg}
            \/ /\ r.op = "subscribe" /\ nextSub \in Subs /\ ans.status = "ok" /\ ans.sub = nextSub
               /\ nextSub' = nextSub + 1 /\ subs' = subs \cup {nextSub}
               /\ subject' = [subject EXCEPT ![run][nextSub] = r.arg]
            \/ ans.status = "error" /\ UNCHANGED <<nextSub, subs, subject>>
  <2> DEFINE a(st, s) == [id |-> i, conn |-> d, answer |-> [status |-> st, sub |-> s]]
             ok0 == [status |-> "ok", sub |-> 0]
             err0 == [status |-> "error", sub |-> 0]
             okn == [status |-> "ok", sub |-> nextSub]
  <2>1. ok0 \in Answers /\ err0 \in Answers /\ (nextSub \in Subs => okn \in Answers)
    BY DEF Answers
  <2>2. CASE r.op = "ping" /\ serving' = a("ok", 0) /\ UNCHANGED <<nextSub, subs, subject>>
    <3>1. serving'.answer = ok0
      BY <2>2
    <3>2. QED
      BY <2>1, <2>2, <3>1 DEF Dispatch
  <2>3. CASE /\ r.op = "subscribe" /\ nextSub \in Subs
             /\ nextSub' = nextSub + 1 /\ subs' = subs \cup {nextSub}
             /\ subject' = [subject EXCEPT ![run][nextSub] = r.arg]
             /\ serving' = a("ok", nextSub)
    <3>1. serving'.answer = okn /\ okn.status = "ok" /\ okn.sub = nextSub
      BY <2>3
    <3>2. QED
      BY <2>1, <2>3, <3>1 DEF Dispatch
  <2>4. CASE /\ r.op = "unsubscribe" /\ subs' = subs \ {r.arg}
             /\ serving' = a("ok", 0) /\ UNCHANGED <<nextSub, subject>>
    <3>1. serving'.answer = ok0
      BY <2>4
    <3>2. QED
      BY <2>1, <2>4, <3>1 DEF Dispatch
  <2>5. CASE serving' = a("error", 0) /\ UNCHANGED <<nextSub, subs, subject>>
    <3>1. serving'.answer = err0 /\ err0.status = "error"
      BY <2>5
    <3>2. QED
      BY <2>1, <2>5, <3>1 DEF Dispatch
  <2>6. \/ r.op = "ping" /\ serving' = a("ok", 0) /\ UNCHANGED <<nextSub, subs, subject>>
        \/ /\ r.op = "subscribe" /\ nextSub \in Subs
           /\ nextSub' = nextSub + 1 /\ subs' = subs \cup {nextSub}
           /\ subject' = [subject EXCEPT ![run][nextSub] = r.arg]
           /\ serving' = a("ok", nextSub)
        \/ /\ r.op = "unsubscribe" /\ subs' = subs \ {r.arg}
           /\ serving' = a("ok", 0) /\ UNCHANGED <<nextSub, subject>>
        \/ serving' = a("error", 0) /\ UNCHANGED <<nextSub, subs, subject>>
    BY <1>2 DEF Dispatch
  <2>7. QED
    BY <2>2, <2>3, <2>4, <2>5, <2>6
<1>6. /\ serving' \in Served /\ serving'.id = i /\ serving'.conn = d /\ serving'.answer = ans
  BY <1>2, <1>5 DEF Served
<1>7. /\ result' \in [Calls -> Answers \cup {None}] /\ result'[i] = ans /\ ans # None
      /\ \A j \in Calls : j # i => result'[j] = result[j]
  BY <1>2, <1>5 DEF Inv, TypeOK
<1>8. /\ up' \in [Conns -> Seq(Calls)] /\ up'[d] = Tail(up[d])
      /\ \A c \in Conns : c # d => up'[c] = up[c]
  BY <1>1, <1>2 DEF Inv, TypeOK
<1>9. /\ nextSub' \in 1..(MaxSubs + 1) /\ subs' \subseteq Subs
      /\ subject' \in [Runs -> [Subs -> Objects \cup {None}]]
      /\ \A q \in Runs, s \in Subs : subject[q][s] # None => subject'[q][s] = subject[q][s]
      /\ \A s \in subs' : s \in subs \/ (s \in Subs /\ subject[run][s] = None)
      /\ IdBooks'
      /\ r.op = "subscribe" /\ ans.status = "ok" =>
            /\ ans.sub \in Subs /\ r.arg \in Objects /\ subject'[run][ans.sub] = r.arg
            /\ subs' \subseteq subs \cup {ans.sub} /\ subject[run][ans.sub] = None
      /\ r.op = "unsubscribe" /\ ans.status = "ok" => r.arg \notin subs'
      /\ r.op # "subscribe" => subs' \subseteq subs
  <2>1. CASE /\ r.op \in {"ping", "unsubscribe"} /\ UNCHANGED <<nextSub, subject>>
             /\ \/ r.op = "ping" /\ subs' = subs
                \/ r.op = "unsubscribe" /\ subs' = subs \ {r.arg}
    BY <1>1, <2>1 DEF Inv, IInv, TypeOK, IdBooks
  <2>2. CASE /\ r.op = "subscribe" /\ nextSub \in Subs /\ ans.status = "ok" /\ ans.sub = nextSub
             /\ nextSub' = nextSub + 1 /\ subs' = subs \cup {nextSub}
             /\ subject' = [subject EXCEPT ![run][nextSub] = r.arg]
    <3>1. r.arg \in Objects
      BY <1>2, <1>4, <2>2 DEF Inv, IInv, Traffic
    <3>2. subject[run][nextSub] = None
      BY <1>3, <2>2 DEF Inv, IInv, IdBooks, Subs
    <3>3. /\ nextSub' \in 1..(MaxSubs + 1) /\ subs' \subseteq Subs
          /\ subject' \in [Runs -> [Subs -> Objects \cup {None}]]
          /\ subject'[run][nextSub] = r.arg
          /\ \A q \in Runs, s \in Subs : subject[q][s] # None => subject'[q][s] = subject[q][s]
          /\ IdBooks'
      <4> HIDE DEF r
      <4>1. QED
        BY <1>1, <1>3, <2>2, <3>1, NewSubject
    <3>4. QED
      BY <2>2, <3>1, <3>2, <3>3
  <2>3. CASE ans.status = "error" /\ UNCHANGED <<nextSub, subs, subject>>
    BY <1>1, <2>3 DEF Inv, IInv, TypeOK, IdBooks
  <2>4. QED
    BY <1>5, <2>1, <2>2, <2>3
<1> HIDE DEF r
<1>10. TypeOK'
  BY <1>1, <1>6, <1>7, <1>8, <1>9 DEF Inv, TypeOK
<1>11. CallBooks'
  <2>1. \A j \in Calls : promise[j] = "resolved" => result'[j] # None /\ result'[j].status = "ok"
    BY <1>4, <1>7 DEF Inv, IInv, CallBooks
  <2>2. \A j \in Calls : j > reqId => result'[j] = None
    <3>1. reqId \in Nat /\ \A j \in Calls : j \in Nat
      BY DEF Inv, TypeOK, Calls
    <3>2. QED
      BY <1>4, <1>7, <3>1 DEF Inv, IInv, CallBooks
  <2>3. QED
    BY <1>1, <2>1, <2>2 DEF Inv, IInv, CallBooks
<1>12. ConnBooks'
  BY <1>1, <1>3, <1>8 DEF Inv, IInv, ConnBooks
<1>13. Traffic'
  <2>1. \A j \in Calls : result[j] # None => result'[j] = result[j]
    BY <1>4, <1>7
  <2>2. /\ (\A c \in Conns : \A k \in 1..Len(down[c]) : Fits(c, down[c][k]))'
        /\ \A j \in Calls : result[j] # None => AnswerFits(j)'
        /\ \A j \in Calls : j <= reqId /\ request[j].op = "unsubscribe" =>
              LET q == runOf[request[j].conn]
              IN  /\ q \in Runs /\ request[j].arg \in Subs
                  /\ subject'[q][request[j].arg] # None
    BY <1>1, <1>3, <1>9, <2>1, SubjectsGrow
  <2>3. AnswerFits(i)'
    BY <1>1, <1>2, <1>3, <1>4, <1>7, <1>9 DEF AnswerFits, r
  <2>4. \A j \in Calls : result'[j] # None => AnswerFits(j)'
    BY <1>7, <2>2, <2>3
  <2>5. ASSUME NEW c \in Conns, NEW k \in 1..Len(up'[c])
        PROVE  /\ up'[c][k] <= reqId /\ request[up'[c][k]].conn = c /\ result'[up'[c][k]] = None
               /\ \A j \in 1..Len(up'[c]) : j < k => up'[c][j] < up'[c][k]
    <3>1. CASE c = d
      <4>1. up'[c] = Tail(up[d])
        BY <1>8, <3>1
      <4>2. PICK l \in 1..Len(up[d]) : up'[c][k] = up[d][l] /\ up[d][l] # i
        BY <1>2, <4>1
      <4>3. up[d][l] <= reqId /\ request[up[d][l]].conn = d /\ result[up[d][l]] = None
        BY DEF Inv, IInv, Traffic
      <4>4. up[d][l] \in Calls
        BY DEF Inv, TypeOK
      <4>5. \A j \in 1..Len(up'[c]) : j < k => up'[c][j] < up'[c][k]
        BY <1>2, <4>1
      <4>6. QED
        BY <1>7, <3>1, <4>2, <4>3, <4>4, <4>5
    <3>2. CASE c # d
      <4>1. up'[c] = up[c] /\ up[c][k] \in Calls
        BY <1>8, <3>2 DEF Inv, TypeOK
      <4>2. up[c][k] <= reqId /\ request[up[c][k]].conn = c /\ result[up[c][k]] = None
        BY <4>1 DEF Inv, IInv, Traffic
      <4>3. up[c][k] # i
        BY <1>4, <3>2, <4>2 DEF r
      <4>4. \A j, l \in 1..Len(up[c]) : j < l => up[c][j] < up[c][l]
        BY DEF Inv, IInv, Traffic
      <4>5. QED
        BY <1>7, <4>1, <4>2, <4>3, <4>4
    <3>3. QED
      BY <3>1, <3>2
  <2>6. serving' # None => /\ serving'.id <= reqId
                           /\ request[serving'.id].conn = serving'.conn
                           /\ result'[serving'.id] = serving'.answer
    BY <1>4, <1>6, <1>7 DEF r
  <2>7. \A j \in Calls : j <= reqId /\ request[j].op = "subscribe" => request[j].arg \in Objects
    BY DEF Inv, IInv, Traffic
  <2>8. QED
    <3>1. /\ \A c \in Conns : \A k \in 1..Len(up'[c]) :
                up'[c][k] <= reqId /\ request[up'[c][k]].conn = c /\ result'[up'[c][k]] = None
          /\ \A c \in Conns : \A j, k \in 1..Len(up'[c]) : j < k => up'[c][j] < up'[c][k]
      BY <2>5
    <3>2. reqId' = reqId /\ request' = request /\ runOf' = runOf
      BY <1>1
    <3>3. \A j \in Calls :
             /\ j <= reqId /\ request[j].op = "subscribe" => request[j].arg \in Objects
             /\ j <= reqId /\ request[j].op = "unsubscribe" =>
                  LET q == runOf[request[j].conn]
                  IN  /\ q \in Runs /\ request[j].arg \in Subs
                      /\ subject'[q][request[j].arg] # None
      BY <2>2, <2>7
    <3>4. (\A c \in Conns : \A k \in 1..Len(down[c]) : Fits(c, down[c][k]))'
      BY <2>2
    <3>5. QED
      BY <2>4, <2>6, <3>1, <3>2, <3>3, <3>4 DEF Traffic
<1>14. LeaksOnlyGivenUp'
  <2>1. SUFFICES ASSUME NEW j \in Calls, request[j] # None, request[j].op = "subscribe",
                        request[j].conn = ws, alive, ws \in conns, promise[j] = "resolved",
                        result'[j].sub \in subs'
                 PROVE  result'[j].sub \in subscriptions
    BY <1>1 DEF LeaksOnlyGivenUp
  <2>2. result[j] # None /\ result[j].status = "ok" /\ AnswerFits(j) /\ ws \in Conns
    BY <2>1 DEF Inv, IInv, TypeOK, CallBooks, Traffic
  <2>3. j # i /\ result'[j] = result[j]
    BY <1>4, <1>7, <2>2
  <2>4. /\ result[j].sub \in Subs /\ request[j].arg \in Objects
        /\ subject[run][result[j].sub] = request[j].arg
    BY <2>1, <2>2 DEF AnswerFits, Inv, IInv, ConnBooks
  <2>5. subject[run][result[j].sub] # None
    BY <2>4
  <2>6. result[j].sub \in subs
    BY <1>9, <2>1, <2>3, <2>5
  <2>7. QED
    BY <2>1, <2>3, <2>6 DEF Inv, IInv, LeaksOnlyGivenUp
<1>15. QED
  BY <1>9, <1>10, <1>11, <1>12, <1>13, <1>14 DEF Inv, IInv
-----------------------------------------------------------------------------
(* The viewer.  What is left of a connection that is cut is not seen. *)
LEMMA CutKeepsTraffic ==
    ASSUME Inv, NEW c \in Conns, down' = [down EXCEPT ![c] = <<>>],
           UNCHANGED <<reqId, request, result, runOf, subject>>
    PROVE  /\ down' \in [Conns -> Seq(Messages)]
           /\ down'[c] = <<>>
           /\ \A d \in Conns : d # c => down'[d] = down[d]
           /\ (\A d \in Conns : \A k \in 1..Len(down[d]) : Fits(d, down[d][k]))'
<1>1. <<>> \in Seq(Messages)
  OBVIOUS
<1>2. /\ down' \in [Conns -> Seq(Messages)]
      /\ down'[c] = <<>>
      /\ \A d \in Conns : d # c => down'[d] = down[d]
  BY <1>1 DEF Inv, TypeOK
<1>3. ASSUME NEW d \in Conns, NEW k \in 1..Len(down'[d])
      PROVE  Fits(d, down[d][k])'
  <2>1. d # c /\ down'[d] = down[d]
    BY <1>2, <1>3
  <2>2. Fits(d, down[d][k])
    BY <2>1 DEF Inv, IInv, Traffic
  <2>3. QED
    BY <2>1, <2>2 DEF Fits
<1>4. QED
  BY <1>2, <1>3

(* A step that gives the connection up, closed by either side or replaced   *)
(* by the next one.                                                        *)
LEMMA GivingUpKeepsInv ==
    ASSUME Inv, ws # 0, sock' = Close(ws), ws' = 0,
           down' = [down EXCEPT ![ws] = <<>>],
           subscriptions' = {},
           listeners' \in {listeners, NoListeners},
           pending' \subseteq Calls, pending' \subseteq timers,
           promise' \in [Calls -> {"none", "waiting", "resolved", "rejected"}],
           \A i \in Calls : promise'[i] = "waiting" <=> i \in pending',
           \A i \in Calls : promise[i] = "none" <=> promise'[i] = "none",
           \A i \in Calls : promise'[i] = "resolved" => promise[i] = "resolved",
           UNCHANGED <<conn, reqId, request, timers, value, listenRun, up, run, alive, conns,
                       serving, nextSub, subs, looping, pushes, runOf, subject, result>>
    PROVE  Inv'
<1> USE ClientAssumption
<1>1. /\ ws \in Conns /\ 0 \notin Conns
      /\ sock' \in [Conns -> {"none", "connecting", "open", "closed"}]
      /\ sock'[ws] = "closed" /\ sock[ws] \in {"connecting", "open"} /\ ws <= conn
      /\ \A c \in Conns : c # ws => sock'[c] = sock[c]
  BY DEF Close, Inv, IInv, TypeOK, ConnBooks, Conns
<1>2. /\ down' \in [Conns -> Seq(Messages)]
      /\ down'[ws] = <<>>
      /\ \A d \in Conns : d # ws => down'[d] = down[d]
      /\ (\A d \in Conns : \A k \in 1..Len(down[d]) : Fits(d, down[d][k]))'
  BY <1>1, CutKeepsTraffic
<1>3. listeners' \in [Subs -> Objects \cup {None}]
  BY DEF NoListeners, Inv, TypeOK
<1>4. TypeOK'
  BY <1>1, <1>2, <1>3 DEF Inv, TypeOK
<1>5. CallBooks'
  <2>1. \A i \in Calls : i <= reqId => /\ request[i] \in Requests /\ request[i].conn \in Conns
                                       /\ request[i].conn <= conn
                                       /\ sock'[request[i].conn] \in {"open", "closed"}
    BY <1>1, Fields DEF Inv, IInv, CallBooks
  <2>2. QED
    BY <2>1 DEF Inv, IInv, CallBooks
<1>6. ConnBooks'
  <2>1. \A c \in Conns : c > conn => c # ws
    BY <1>1 DEF Inv, TypeOK, Conns
  <2>2. QED
    BY <1>1, <1>2, <2>1 DEF Inv, IInv, ConnBooks
<1>7. IdBooks'
  <2>1. \A s \in Subs : listeners'[s] # None => listeners'[s] = listeners[s] /\ listeners[s] # None
    BY DEF NoListeners
  <2>2. QED
    BY <2>1 DEF Inv, IInv, IdBooks
<1>8. Traffic'
  <2>1. \A i \in Calls : AnswerFits(i) => AnswerFits(i)'
    BY DEF AnswerFits
  <2>2. \A i \in Calls : result'[i] # None => AnswerFits(i)'
    BY <2>1 DEF Inv, IInv, Traffic
  <2>3. Traffic
    BY DEF Inv, IInv
  <2>4. QED
    BY <1>2, <2>2, <2>3 DEF Traffic
<1>9. LeaksOnlyGivenUp'
  BY <1>1 DEF LeaksOnlyGivenUp, Inv, TypeOK
<1>10. QED
  BY <1>4, <1>5, <1>6, <1>7, <1>8, <1>9 DEF Inv, IInv

(* The socket is refused or breaks, and all that waits is rejected; or the  *)
(* user closes it, and the calls are left to their timers.                 *)
LEMMA ClosedKeepsInv == Inv /\ (Closed \/ Disconnect) => Inv'
<1> SUFFICES ASSUME Inv, Closed \/ Disconnect PROVE Inv'
  OBVIOUS
<1>1. CASE Closed
  <2>1. /\ ws # 0 /\ sock' = Close(ws) /\ ws' = 0 /\ down' = [down EXCEPT ![ws] = <<>>]
        /\ subscriptions' = {} /\ listeners' = listeners /\ pending' = {}
        /\ promise' = [i \in Calls |-> IF i \in pending THEN "rejected" ELSE promise[i]]
        /\ UNCHANGED <<conn, reqId, request, timers, value, listenRun, up, run, alive, conns,
                       serving, nextSub, subs, looping, pushes, runOf, subject, result>>
    BY <1>1 DEF Closed, Settle, exe
  <2>2. /\ promise' \in [Calls -> {"none", "waiting", "resolved", "rejected"}]
        /\ \A i \in Calls : promise'[i] = IF i \in pending THEN "rejected" ELSE promise[i]
    BY <2>1 DEF Inv, TypeOK
  <2>3. \A i \in Calls : promise[i] = "waiting" <=> i \in pending
    BY DEF Inv, IInv, CallBooks
  <2>4. /\ pending' \subseteq Calls /\ pending' \subseteq timers
        /\ \A i \in Calls : promise'[i] = "waiting" <=> i \in pending'
        /\ \A i \in Calls : promise[i] = "none" <=> promise'[i] = "none"
        /\ \A i \in Calls : promise'[i] = "resolved" => promise[i] = "resolved"
    BY <2>1, <2>2, <2>3
  <2>5. QED
    BY <2>1, <2>2, <2>4, GivingUpKeepsInv
<1>2. CASE Disconnect
  <2>1. /\ ws # 0 /\ sock' = Close(ws) /\ ws' = 0 /\ down' = [down EXCEPT ![ws] = <<>>]
        /\ subscriptions' = {} /\ listeners' = NoListeners
        /\ UNCHANGED <<conn, reqId, request, pending, timers, promise, value, listenRun, up, run,
                       alive, conns, serving, nextSub, subs, looping, pushes, runOf, subject,
                       result>>
    BY <1>2 DEF Disconnect, GiveUp, exe
  <2>2. /\ pending \subseteq Calls /\ pending \subseteq timers
        /\ promise \in [Calls -> {"none", "waiting", "resolved", "rejected"}]
        /\ \A i \in Calls : promise[i] = "waiting" <=> i \in pending
    BY DEF Inv, IInv, TypeOK, CallBooks
  <2>3. QED
    BY <2>1, <2>2, GivingUpKeepsInv
<1>3. QED
  BY <1>1, <1>2

(* The next connection, after giving up the one there may be. *)
LEMMA ConnectKeepsInv == Inv /\ Connect => Inv'
<1> SUFFICES ASSUME Inv, Connect PROVE Inv'
  OBVIOUS
<1> USE ClientAssumption
<1>1. /\ conn < MaxConn /\ ws' = conn + 1 /\ conn' = conn + 1
      /\ UNCHANGED <<reqId, request, pending, timers, promise, value, listenRun, up, run, alive,
                     conns, serving, nextSub, subs, looping, pushes, runOf, subject, result>>
  BY DEF Connect, exe
<1>2. /\ conn \in Nat /\ conn + 1 \in Conns /\ conn + 1 \in 1..MaxConn
      /\ sock[conn + 1] = "none" /\ conn + 1 \notin conns /\ down[conn + 1] = <<>>
  <2>1. conn \in 0..MaxConn
    BY DEF Inv, TypeOK
  <2>2. conn \in Nat /\ conn + 1 \in 1..MaxConn /\ conn + 1 > conn
    BY <1>1, <2>1
  <2>3. conn + 1 \in Conns
    BY <2>2 DEF Conns
  <2>4. sock[conn + 1] = "none"
    BY <2>2, <2>3 DEF Inv, IInv, ConnBooks
  <2>5. QED
    BY <2>2, <2>3, <2>4 DEF Inv, IInv, ConnBooks
<1>3. /\ sock' \in [Conns -> {"none", "connecting", "open", "closed"}]
      /\ sock'[conn + 1] = "connecting"
      /\ \A c \in Conns : c # conn + 1 => sock'[c] = IF c = ws THEN "closed" ELSE sock[c]
  <2>1. CASE ws = 0
    <3>1. sock' = [sock EXCEPT ![conn + 1] = "connecting"] /\ 0 \notin Conns
      BY <2>1 DEF Connect, Conns
    <3>2. QED
      BY <1>2, <2>1, <3>1 DEF Inv, TypeOK
  <2>2. CASE ws # 0
    <3>1. /\ sock' = [sock EXCEPT ![ws] = "closed", ![conn + 1] = "connecting"]
          /\ ws \in Conns
      BY <2>2 DEF Connect, Inv, TypeOK
    <3>2. QED
      BY <1>2, <3>1 DEF Inv, TypeOK
  <2>3. QED
    BY <2>1, <2>2
<1>4. /\ down' \in [Conns -> Seq(Messages)]
      /\ \A c \in Conns : down'[c] # <<>> => c # ws /\ down'[c] = down[c]
      /\ (\A c \in Conns : \A k \in 1..Len(down[c]) : Fits(c, down[c][k]))'
  <2>1. CASE ws = 0
    <3>1. down' = down /\ 0 \notin Conns
      BY <2>1 DEF Connect, Conns
    <3>2. \A c \in Conns : \A k \in 1..Len(down[c]) : Fits(c, down[c][k])
      BY DEF Inv, IInv, Traffic
    <3>3. QED
      BY <1>1, <2>1, <3>1, <3>2 DEF Fits, Inv, TypeOK
  <2>2. CASE ws # 0
    <3>1. down' = [down EXCEPT ![ws] = <<>>] /\ ws \in Conns
      BY <2>2 DEF Connect, GiveUp, Inv, TypeOK
    <3>2. /\ down' \in [Conns -> Seq(Messages)]
          /\ down'[ws] = <<>>
          /\ \A d \in Conns : d # ws => down'[d] = down[d]
          /\ (\A d \in Conns : \A k \in 1..Len(down[d]) : Fits(d, down[d][k]))'
      BY <1>1, <3>1, CutKeepsTraffic
    <3>3. QED
      BY <3>2
  <2>3. QED
    BY <2>1, <2>2
<1>5. /\ subscriptions' = {}
      /\ listeners' \in [Subs -> Objects \cup {None}]
      /\ \A s \in Subs : listeners'[s] # None => listeners'[s] = listeners[s]
  BY DEF Connect, GiveUp, NoListeners, Inv, IInv, TypeOK, ConnBooks
<1>6. TypeOK'
  BY <1>1, <1>2, <1>3, <1>4, <1>5 DEF Inv, TypeOK
<1>7. CallBooks'
  <2>1. ASSUME NEW i \in Calls, i <= reqId
        PROVE  /\ request[i] \in Requests /\ request[i].conn <= conn + 1
               /\ sock'[request[i].conn] \in {"open", "closed"}
    <3>1. request[i] \in Requests /\ request[i].conn \in Conns /\ request[i].conn <= conn
      BY <2>1, Fields DEF Inv, IInv, CallBooks
    <3>2. request[i].conn # conn + 1 /\ request[i].conn <= conn + 1
      BY <1>2, <3>1 DEF Conns
    <3>3. QED
      BY <1>3, <2>1, <3>1, <3>2 DEF Inv, IInv, CallBooks
  <2>2. QED
    BY <1>1, <2>1 DEF Inv, IInv, CallBooks
<1>8. ConnBooks'
  <2>1. \A c \in Conns : c > conn + 1 => c > conn /\ c # conn + 1 /\ c # ws
    <3>1. ws = 0 \/ ws <= conn
      BY DEF Inv, IInv, ConnBooks
    <3>2. QED
      BY <1>2, <3>1 DEF Conns
  <2>2. ws' # 0 /\ ws' <= conn'
    BY <1>1, <1>2
  <2>3. runOf[conn + 1] = 0 /\ (ws # 0 => sock[ws] # "none")
    BY <1>2 DEF Inv, IInv, ConnBooks
  <2>4. QED
    BY <1>1, <1>2, <1>3, <1>4, <2>1, <2>2, <2>3 DEF Inv, IInv, ConnBooks
<1>9. IdBooks'
  BY <1>1, <1>5 DEF Inv, IInv, ConnBooks, IdBooks
<1>10. Traffic'
  <2>1. \A i \in Calls : AnswerFits(i) => AnswerFits(i)'
    BY <1>1 DEF AnswerFits
  <2>2. \A i \in Calls : result'[i] # None => AnswerFits(i)'
    BY <1>1, <2>1 DEF Inv, IInv, Traffic
  <2>3. Traffic
    BY DEF Inv, IInv
  <2>4. QED
    BY <1>1, <1>4, <2>2, <2>3 DEF Traffic
<1>11. LeaksOnlyGivenUp'
  BY <1>1, <1>2 DEF LeaksOnlyGivenUp
<1>12. QED
  BY <1>6, <1>7, <1>8, <1>9, <1>10, <1>11 DEF Inv, IInv

(* onopen: the exe takes the connection, on which nothing was said yet. *)
LEMMA OpenedKeepsInv == Inv /\ Opened => Inv'
<1> SUFFICES ASSUME Inv, Opened PROVE Inv'
  OBVIOUS
<1> USE ClientAssumption
<1>1. /\ ws # 0 /\ sock[ws] = "connecting" /\ alive
      /\ sock' = [sock EXCEPT ![ws] = "open"]
      /\ conns' = conns \cup {ws} /\ runOf' = [runOf EXCEPT ![ws] = run]
      /\ UNCHANGED <<ws, conn, reqId, request, pending, timers, promise, value, subscriptions,
                     listeners, listenRun, up, down, run, alive, serving, nextSub, subs, looping,
                     pushes, subject, result>>
  BY DEF Opened, Opens, network
<1>2. /\ ws \in Conns /\ run \in Runs /\ run \in Nat
      /\ sock' \in [Conns -> {"none", "connecting", "open", "closed"}]
      /\ sock'[ws] = "open" /\ \A c \in Conns : c # ws => sock'[c] = sock[c]
      /\ runOf' \in [Conns -> Runs \cup {0}]
      /\ runOf'[ws] = run /\ \A c \in Conns : c # ws => runOf'[c] = runOf[c]
  BY <1>1 DEF Inv, IInv, TypeOK, ConnBooks
<1>3. /\ ws \notin conns /\ runOf[ws] = 0 /\ 0 \notin Runs /\ ws <= conn
      /\ up[ws] = <<>> /\ down[ws] = <<>> /\ Len(down[ws]) = 0
      /\ subscriptions = {}
  BY <1>1, <1>2 DEF Inv, IInv, ConnBooks, IdBooks, Runs
<1>4. \A i \in Calls : i <= reqId => /\ request[i] \in Requests /\ request[i].conn # ws
                                     /\ request[i].conn \in Conns
  BY <1>1, Fields DEF Inv, IInv, CallBooks
<1>5. TypeOK'
  BY <1>1, <1>2 DEF Inv, TypeOK
<1>6. CallBooks'
  BY <1>1, <1>2, <1>4 DEF Inv, IInv, CallBooks
<1>7. ConnBooks'
  <2>1. \A c \in Conns : c > conn => c # ws
    BY <1>3 DEF Inv, TypeOK, Conns
  <2>2. run <= run
    BY <1>2
  <2>3. QED
    BY <1>1, <1>2, <1>3, <2>1, <2>2 DEF Inv, IInv, ConnBooks
<1>8. IdBooks'
  BY <1>1, <1>3 DEF Inv, IInv, IdBooks
<1>9. Traffic'
  <2>1. ASSUME NEW c \in Conns, NEW k \in 1..Len(down'[c]) PROVE Fits(c, down[c][k])'
    <3>1. c # ws /\ Fits(c, down[c][k]) /\ runOf'[c] = runOf[c]
      BY <1>1, <1>2, <1>3, <2>1 DEF Inv, IInv, Traffic
    <3>2. QED
      BY <1>1, <3>1 DEF Fits
  <2>2. \A i \in Calls : AnswerFits(i) => AnswerFits(i)'
    BY <1>1, <1>2, <1>4 DEF AnswerFits
  <2>3. ASSUME NEW i \in Calls, i <= reqId
        PROVE  runOf'[request[i].conn] = runOf[request[i].conn]
    BY <1>2, <1>4, <2>3
  <2>4. QED
    BY <1>1, <2>1, <2>2, <2>3 DEF Inv, IInv, Traffic
<1>10. LeaksOnlyGivenUp'
  <2>1. \A i \in Calls : request[i] # None => i <= reqId
    <3>1. reqId \in Nat /\ \A i \in Calls : i \in Nat
      BY DEF Inv, TypeOK, Calls
    <3>2. QED
      BY <3>1 DEF Inv, IInv, CallBooks
  <2>2. QED
    BY <1>1, <1>4, <2>1 DEF LeaksOnlyGivenUp
<1>11. QED
  BY <1>5, <1>6, <1>7, <1>8, <1>9, <1>10 DEF Inv, IInv

(* A call is sent: it has no result yet, and it is the last in its stream.  *)
LEMMA SendKeepsInv ==
    ASSUME NEW op \in {"ping", "subscribe", "unsubscribe"},
           NEW arg \in Objects \cup Subs \cup {None},
           op = "subscribe" => arg \in Objects,
           op = "unsubscribe" => arg \in Subs /\ arg \in subscriptions
    PROVE  Inv /\ Send(op, arg) => Inv'
<1> SUFFICES ASSUME Inv, Send(op, arg) PROVE Inv'
  OBVIOUS
<1> USE ClientAssumption
<1> DEFINE n == reqId + 1
           q == [op |-> op, arg |-> arg, conn |-> ws]
<1>1. /\ ws # 0 /\ sock[ws] = "open" /\ reqId < MaxReq
      /\ reqId' = n /\ request' = [request EXCEPT ![n] = q]
      /\ pending' = pending \cup {n} /\ timers' = timers \cup {n}
      /\ promise' = [promise EXCEPT ![n] = "waiting"]
      /\ up' = IF ws \in conns THEN [up EXCEPT ![ws] = Append(@, n)] ELSE up
      /\ UNCHANGED <<ws, conn, sock, value, subscriptions, listeners, listenRun, down, run, alive,
                     conns, serving, nextSub, subs, looping, pushes, runOf, subject, result>>
  BY DEF Send, exe
<1>2. /\ ws \in Conns /\ reqId \in Nat /\ n \in Calls /\ n \in 1..MaxReq /\ n > reqId
      /\ ws <= conn
      /\ \A i \in Calls : i \in Nat /\ (i <= reqId => i # n)
  <2>1. reqId \in 0..MaxReq /\ ws \in Conns /\ ws <= conn
    BY <1>1 DEF Inv, IInv, TypeOK, ConnBooks
  <2>2. reqId \in Nat /\ n \in 1..MaxReq /\ n > reqId
    BY <1>1, <2>1
  <2>3. \A i \in Calls : i \in Nat /\ (i <= reqId => i # n)
    BY <2>1 DEF Calls
  <2>4. QED
    BY <2>1, <2>2, <2>3 DEF Calls
<1>3. q \in Requests /\ q.op = op /\ q.arg = arg /\ q.conn = ws
  BY <1>2 DEF Requests
<1>4. /\ promise[n] = "none" /\ result[n] = None /\ n \notin pending
      /\ request' \in [Calls -> Requests \cup {None}]
      /\ request'[n] = q /\ \A i \in Calls : i # n => request'[i] = request[i]
      /\ promise' \in [Calls -> {"none", "waiting", "resolved", "rejected"}]
      /\ promise'[n] = "waiting" /\ \A i \in Calls : i # n => promise'[i] = promise[i]
  BY <1>1, <1>2, <1>3 DEF Inv, IInv, TypeOK, CallBooks
<1>5. /\ up' \in [Conns -> Seq(Calls)]
      /\ \A c \in Conns : up'[c] # <<>> => c \in conns
      /\ \A c \in Conns : \/ up'[c] = up[c]
                          \/ c = ws /\ up'[c] = Append(up[c], n)
  <2>1. up[ws] \in Seq(Calls)
    BY <1>2 DEF Inv, TypeOK
  <2>2. Append(up[ws], n) \in Seq(Calls)
    BY <1>2, <2>1, AppendOf
  <2>3. CASE ws \in conns
    BY <1>1, <1>2, <2>2, <2>3 DEF Inv, IInv, TypeOK, ConnBooks
  <2>4. CASE ws \notin conns
    BY <1>1, <2>4 DEF Inv, IInv, TypeOK, ConnBooks
  <2>5. QED
    BY <2>3, <2>4
<1> HIDE DEF n, q
<1>6. TypeOK'
  <2>1. reqId' \in 0..MaxReq /\ pending' \subseteq Calls /\ timers' \subseteq Calls
    BY <1>1, <1>2 DEF Inv, TypeOK
  <2>2. QED
    BY <1>1, <1>4, <1>5, <2>1 DEF Inv, TypeOK
<1>7. \A i \in Calls : i <= n <=> i <= reqId \/ i = n
  BY <1>2 DEF n
<1>8. CallBooks'
  <2>1. \A i \in Calls : promise'[i] = "waiting" <=> i \in pending'
    BY <1>1, <1>4 DEF Inv, IInv, CallBooks
  <2>2. pending' \subseteq timers'
    BY <1>1 DEF Inv, IInv, CallBooks
  <2>3. \A i \in Calls : promise'[i] = "resolved" => result[i] # None /\ result[i].status = "ok"
    BY <1>4 DEF Inv, IInv, CallBooks
  <2>4. \A i \in Calls : i <= n => /\ promise'[i] # "none"
                                   /\ request'[i] \in Requests
                                   /\ request'[i].conn <= conn
                                   /\ sock[request'[i].conn] \in {"open", "closed"}
    BY <1>1, <1>2, <1>3, <1>4, <1>7 DEF Inv, IInv, CallBooks
  <2>5. \A i \in Calls : i > n => promise'[i] = "none" /\ request'[i] = None /\ result[i] = None
    <3>1. \A i \in Calls : i > n => i > reqId /\ i # n
      BY <1>2
    <3>2. QED
      BY <1>4, <3>1 DEF Inv, IInv, CallBooks
  <2>6. QED
    BY <1>1, <2>1, <2>2, <2>3, <2>4, <2>5 DEF CallBooks
<1>9. ConnBooks'
  BY <1>1, <1>5 DEF Inv, IInv, ConnBooks
<1>10. IdBooks'
  BY <1>1 DEF Inv, IInv, IdBooks
<1>11. Traffic'
  <2>1. \A i \in Calls : i <= reqId => i <= n /\ request'[i] = request[i]
    BY <1>2, <1>4, <1>7
  <2>2. ASSUME NEW c \in Conns, NEW k \in 1..Len(up'[c])
        PROVE  /\ up'[c][k] <= n /\ request'[up'[c][k]].conn = c /\ result[up'[c][k]] = None
               /\ \A j \in 1..Len(up'[c]) : j < k => up'[c][j] < up'[c][k]
    <3>1. up[c] \in Seq(Calls) /\ \A j \in 1..Len(up[c]) : up[c][j] \in Calls
      BY DEF Inv, TypeOK
    <3>2. /\ \A j \in 1..Len(up[c]) : /\ up[c][j] <= reqId /\ request[up[c][j]].conn = c
                                      /\ result[up[c][j]] = None
          /\ \A j, l \in 1..Len(up[c]) : j < l => up[c][j] < up[c][l]
      BY DEF Inv, IInv, Traffic
    <3>3. CASE up'[c] = up[c]
      BY <2>1, <3>1, <3>2, <3>3
    <3>4. CASE c = ws /\ up'[c] = Append(up[c], n)
      <4>1. /\ Len(up[c]) \in Nat /\ Len(up'[c]) = Len(up[c]) + 1
            /\ \A j \in 1..Len(up[c]) : up'[c][j] = up[c][j]
            /\ up'[c][Len(up[c]) + 1] = n
        BY <1>2, <3>1, <3>4, AppendOf
      <4>2. CASE k \in 1..Len(up[c])
        <5>1. \A j \in 1..Len(up'[c]) : j < k => j \in 1..Len(up[c])
          BY <4>1, <4>2
        <5>2. QED
          BY <2>1, <3>1, <3>2, <4>1, <4>2, <5>1
      <4>3. CASE k = Len(up[c]) + 1
        <5>1. \A j \in 1..Len(up'[c]) : j < k => j \in 1..Len(up[c])
          BY <4>1, <4>3
        <5>2. \A j \in 1..Len(up[c]) : up[c][j] < n
          <6>1. \A x \in Calls : x <= reqId => x < n
            BY <1>2
          <6>2. QED
            BY <3>1, <3>2, <6>1
        <5>3. n <= n
          BY <1>2
        <5>4. QED
          BY <1>3, <1>4, <3>4, <4>1, <4>3, <5>1, <5>2, <5>3
      <4>4. k \in 1..Len(up[c]) \/ k = Len(up[c]) + 1
        BY <4>1
      <4>5. QED
        BY <4>2, <4>3, <4>4
    <3>5. QED
      BY <1>5, <3>3, <3>4
  <2>3. serving # None => /\ serving.id <= n
                          /\ request'[serving.id].conn = serving.conn
                          /\ result[serving.id] = serving.answer
    <3>1. serving # None => serving.id \in Calls
      BY Fields DEF Inv, TypeOK
    <3>2. QED
      BY <2>1, <3>1 DEF Inv, IInv, Traffic
  <2>4. ASSUME NEW c \in Conns, NEW k \in 1..Len(down[c]) PROVE Fits(c, down[c][k])'
    <3>1. down[c][k] \in Messages /\ Fits(c, down[c][k])
      BY DEF Inv, IInv, TypeOK, Traffic
    <3>2. down[c][k].kind = "response" => down[c][k].id \in Calls
      BY <3>1, Fields
    <3>3. QED
      BY <1>1, <2>1, <3>1, <3>2 DEF Fits
  <2>5. ASSUME NEW i \in Calls, result[i] # None PROVE AnswerFits(i)'
    <3>1. AnswerFits(i) /\ i <= reqId
      BY <2>5 DEF AnswerFits, Inv, IInv, Traffic
    <3>2. QED
      BY <1>1, <2>1, <3>1 DEF AnswerFits
  <2>6. ASSUME NEW i \in Calls, i <= n
        PROVE  /\ request'[i].op = "subscribe" => request'[i].arg \in Objects
               /\ request'[i].op = "unsubscribe" =>
                    LET r == runOf[request'[i].conn]
                    IN  /\ r \in Runs /\ request'[i].arg \in Subs
                        /\ subject[r][request'[i].arg] # None
    <3>1. CASE i <= reqId
      BY <2>1, <3>1 DEF Inv, IInv, Traffic
    <3>2. CASE i = n
      BY <1>3, <1>4, <3>2 DEF Inv, IInv, IdBooks
    <3>3. QED
      BY <1>7, <2>6, <3>1, <3>2
  <2>7. /\ \A c \in Conns : \A k \in 1..Len(up'[c]) :
              up'[c][k] <= n /\ request'[up'[c][k]].conn = c /\ result[up'[c][k]] = None
        /\ \A c \in Conns : \A j, k \in 1..Len(up'[c]) : j < k => up'[c][j] < up'[c][k]
    BY <2>2
  <2>8. QED
    BY <1>1, <2>3, <2>4, <2>5, <2>6, <2>7 DEF Traffic
<1>12. LeaksOnlyGivenUp'
  <2>1. \A i \in Calls : promise'[i] = "resolved" => i # n
    BY <1>4
  <2>2. QED
    BY <1>1, <1>4, <2>1 DEF Inv, IInv, LeaksOnlyGivenUp
<1>13. QED
  BY <1>6, <1>8, <1>9, <1>10, <1>11, <1>12 DEF Inv, IInv

(* A message is taken from the stream; what stays behind still fits. *)
LEMMA TakingKeepsTraffic ==
    ASSUME Inv, NEW c \in Conns, down[c] # <<>>, down' = [down EXCEPT ![c] = Tail(@)],
           UNCHANGED <<reqId, request, result, runOf, subject>>
    PROVE  /\ Head(down[c]) \in Messages /\ Fits(c, Head(down[c]))
           /\ down' \in [Conns -> Seq(Messages)]
           /\ \A d \in Conns : down'[d] # <<>> => down[d] # <<>>
           /\ (\A d \in Conns : \A k \in 1..Len(down[d]) : Fits(d, down[d][k]))'
<1>1. down[c] \in Seq(Messages) /\ \A d \in Conns : \A k \in 1..Len(down[d]) : Fits(d, down[d][k])
  BY DEF Inv, IInv, TypeOK, Traffic
<1>2. /\ Head(down[c]) \in Messages /\ Head(down[c]) = down[c][1]
      /\ Tail(down[c]) \in Seq(Messages)
      /\ Len(down[c]) \in Nat /\ Len(down[c]) >= 1
      /\ \A k \in 1..Len(Tail(down[c])) :
            Tail(down[c])[k] = down[c][k + 1] /\ k + 1 \in 1..Len(down[c])
  BY <1>1, TailOf
<1>3. /\ down' \in [Conns -> Seq(Messages)] /\ down'[c] = Tail(down[c])
      /\ \A d \in Conns : d # c => down'[d] = down[d]
  BY <1>2 DEF Inv, TypeOK
<1>4. ASSUME NEW d \in Conns, NEW k \in 1..Len(down'[d]) PROVE Fits(d, down[d][k])'
  <2>1. CASE d = c
    <3>1. /\ down'[d] = Tail(down[c]) /\ down'[d][k] = down[c][k + 1]
          /\ k + 1 \in 1..Len(down[c])
      BY <1>2, <1>3, <2>1
    <3>2. Fits(d, down[c][k + 1])
      BY <1>1, <2>1, <3>1
    <3>3. QED
      BY <3>1, <3>2 DEF Fits
  <2>2. CASE d # c
    <3>1. down'[d] = down[d] /\ Fits(d, down[d][k])
      BY <1>1, <1>3, <2>2
    <3>2. QED
      BY <3>1 DEF Fits
  <2>3. QED
    BY <2>1, <2>2
<1>5. Fits(c, Head(down[c]))
  <2>1. 1 \in 1..Len(down[c])
    BY <1>2
  <2>2. QED
    BY <1>1, <1>2, <2>1
<1>6. \A d \in Conns : down'[d] # <<>> => down[d] # <<>>
  BY <1>3
<1>7. QED
  BY <1>2, <1>3, <1>4, <1>5, <1>6

(* A step that settles some of the calls that wait and touches nothing else *)
(* but what waits in the stream.                                           *)
LEMMA SettlingKeepsInv ==
    ASSUME Inv, NEW S \in SUBSET pending,
           down' \in [Conns -> Seq(Messages)],
           \A d \in Conns : down'[d] # <<>> => down[d] # <<>>,
           (\A d \in Conns : \A k \in 1..Len(down[d]) : Fits(d, down[d][k]))',
           pending' = pending \ S, timers' \subseteq timers, pending' \subseteq timers',
           promise' = [i \in Calls |-> IF i \in S THEN "rejected" ELSE promise[i]],
           UNCHANGED <<ws, conn, sock, reqId, request, value, subscriptions, listeners, listenRun,
                       up, exe>>
    PROVE  Inv'
<1> USE ClientAssumption
<1>1. UNCHANGED <<ws, conn, sock, reqId, request, value, subscriptions, listeners, listenRun,
                  up, run, alive, conns, serving, nextSub, subs, looping, pushes, runOf, subject,
                  result>>
  BY DEF exe
<1>2. /\ promise' \in [Calls -> {"none", "waiting", "resolved", "rejected"}]
      /\ \A i \in Calls : promise'[i] = IF i \in S THEN "rejected" ELSE promise[i]
  BY DEF Inv, TypeOK
<1>3. TypeOK'
  BY <1>1, <1>2 DEF Inv, TypeOK
<1>4. CallBooks'
  <2>1. \A i \in Calls : i \in S => promise[i] = "waiting"
    BY DEF Inv, IInv, CallBooks
  <2>2. \A i \in Calls : i > reqId => i \notin S
    BY <2>1 DEF Inv, IInv, CallBooks
  <2>3. QED
    BY <1>1, <1>2, <2>1, <2>2 DEF Inv, IInv, CallBooks
<1>5. ConnBooks'
  BY <1>1 DEF Inv, IInv, ConnBooks
<1>6. IdBooks'
  BY <1>1 DEF Inv, IInv, IdBooks
<1>7. Traffic'
  <2>1. \A i \in Calls : AnswerFits(i) => AnswerFits(i)'
    BY <1>1 DEF AnswerFits
  <2>2. \A i \in Calls : result'[i] # None => AnswerFits(i)'
    BY <1>1, <2>1 DEF Inv, IInv, Traffic
  <2>3. Traffic
    BY DEF Inv, IInv
  <2>4. QED
    BY <1>1, <2>2, <2>3 DEF Traffic
<1>8. LeaksOnlyGivenUp'
  BY <1>1, <1>2 DEF Inv, IInv, LeaksOnlyGivenUp
<1>9. QED
  BY <1>3, <1>4, <1>5, <1>6, <1>7, <1>8 DEF Inv, IInv

LEMMA TimeoutKeepsInv ==
    ASSUME NEW i \in Calls
    PROVE  Inv /\ Timeout(i) => Inv'
<1> SUFFICES ASSUME Inv, Timeout(i) PROVE Inv'
  OBVIOUS
<1> DEFINE S == {i} \cap pending
<1>1. /\ timers' = timers \ {i} /\ pending' = pending \ {i}
      /\ promise' = [j \in Calls |-> IF j \in S THEN "rejected" ELSE promise[j]]
      /\ UNCHANGED <<ws, conn, sock, reqId, request, value, subscriptions, listeners, listenRun,
                     up, down, exe>>
  BY DEF Timeout, Settle, network
<1>2. /\ S \in SUBSET pending /\ pending' = pending \ S
      /\ timers' \subseteq timers /\ pending' \subseteq timers'
  BY <1>1 DEF Inv, IInv, CallBooks
<1>3. /\ down' \in [Conns -> Seq(Messages)]
      /\ \A d \in Conns : down'[d] # <<>> => down[d] # <<>>
  BY <1>1 DEF Inv, TypeOK
<1>4. (\A d \in Conns : \A k \in 1..Len(down[d]) : Fits(d, down[d][k]))'
  <2>1. UNCHANGED <<reqId, request, result, runOf, subject, down>>
    BY <1>1 DEF exe
  <2>2. \A d \in Conns : \A k \in 1..Len(down[d]) : Fits(d, down[d][k])
    BY DEF Inv, IInv, Traffic
  <2>3. QED
    BY <2>1, <2>2 DEF Fits
<1> HIDE DEF S
<1>5. QED
  BY <1>1, <1>2, <1>3, <1>4, SettlingKeepsInv

(* The answer a call waits for: what it tells is still so when the          *)
(* continuation of the promise writes it down.                             *)
LEMMA AnswerKeepsInv ==
    ASSUME Inv, ws # 0, down[ws] # <<>>, down' = [down EXCEPT ![ws] = Tail(@)],
           NEW i \in Calls, NEW a \in Answers,
           i \in pending, request[i].conn = ws, result[i] = a, a.status = "ok",
           pending' = pending \ {i},
           promise' = [j \in Calls |-> IF j \in {i} THEN "resolved" ELSE promise[j]],
           value' = [value EXCEPT ![i] = a],
           Continue(request[i], a.sub),
           UNCHANGED <<ws, conn, sock, reqId, request, timers, up, exe>>
    PROVE  Inv'
<1> USE ClientAssumption
<1> DEFINE q == request[i]
<1>1. UNCHANGED <<ws, conn, sock, reqId, request, timers, up, run, alive, conns, serving, nextSub,
                  subs, looping, pushes, runOf, subject, result>>
  BY DEF exe
<1>2. ws \in Conns /\ promise[i] = "waiting" /\ a # None
  BY DEF Inv, IInv, TypeOK, CallBooks
<1>3. AnswerFits(i) /\ i <= reqId /\ q \in Requests
  BY <1>2 DEF AnswerFits, Inv, IInv, Traffic, CallBooks
<1>4. /\ runOf[ws] \in Runs
      /\ q.op = "subscribe" => /\ a.sub \in Subs /\ q.arg \in Objects
                               /\ subject[runOf[ws]][a.sub] = q.arg
      /\ q.op = "unsubscribe" => /\ q.arg \in Subs
                                 /\ alive /\ runOf[ws] = run => q.arg \notin subs
  BY <1>3 DEF AnswerFits, Inv, IInv, Traffic
<1>5. /\ down' \in [Conns -> Seq(Messages)]
      /\ \A d \in Conns : down'[d] # <<>> => down[d] # <<>>
      /\ (\A d \in Conns : \A k \in 1..Len(down[d]) : Fits(d, down[d][k]))'
  BY <1>1, <1>2, TakingKeepsTraffic
<1>6. /\ promise' \in [Calls -> {"none", "waiting", "resolved", "rejected"}]
      /\ \A j \in Calls : promise'[j] = IF j = i THEN "resolved" ELSE promise[j]
      /\ value' \in [Calls -> Answers \cup {None}]
  BY DEF Inv, TypeOK
<1>7. \/ q.op = "ping" /\ UNCHANGED <<subscriptions, listeners, listenRun>>
      \/ /\ q.op = "subscribe"
         /\ subscriptions' = subscriptions \cup {a.sub}
         /\ listeners' = [listeners EXCEPT ![a.sub] = q.arg]
         /\ listenRun' = [listenRun EXCEPT ![a.sub] = runOf[ws]]
      \/ /\ q.op = "unsubscribe"
         /\ subscriptions' = subscriptions \ {q.arg}
         /\ listeners' = [listeners EXCEPT ![q.arg] = None]
         /\ UNCHANGED listenRun
  BY DEF Continue
<1>8. /\ subscriptions' \subseteq Subs
      /\ listeners' \in [Subs -> Objects \cup {None}]
      /\ listenRun' \in [Subs -> Runs \cup {0}]
      /\ \A s \in Subs : listeners'[s] # None =>
            \/ listeners[s] # None /\ listeners'[s] = listeners[s] /\ listenRun'[s] = listenRun[s]
            \/ /\ listenRun'[s] = runOf[ws] /\ subject[runOf[ws]][s] = listeners'[s]
      /\ \A s \in subscriptions' : s \in subscriptions \/ subject[runOf[ws]][s] # None
  <2>1. CASE q.op = "ping" /\ UNCHANGED <<subscriptions, listeners, listenRun>>
    BY <2>1 DEF Inv, TypeOK
  <2>2. CASE /\ q.op = "subscribe"
             /\ subscriptions' = subscriptions \cup {a.sub}
             /\ listeners' = [listeners EXCEPT ![a.sub] = q.arg]
             /\ listenRun' = [listenRun EXCEPT ![a.sub] = runOf[ws]]
    BY <1>4, <2>2 DEF Inv, TypeOK
  <2>3. CASE /\ q.op = "unsubscribe"
             /\ subscriptions' = subscriptions \ {q.arg}
             /\ listeners' = [listeners EXCEPT ![q.arg] = None]
             /\ UNCHANGED listenRun
    BY <1>4, <2>3 DEF Inv, TypeOK
  <2>4. QED
    BY <1>7, <2>1, <2>2, <2>3
<1>9. TypeOK'
  BY <1>1, <1>5, <1>6, <1>8 DEF Inv, TypeOK
<1>10. CallBooks'
  <2>1. ~(i > reqId)
    BY <1>3 DEF Inv, TypeOK, Calls
  <2>2. CallBooks
    BY DEF Inv, IInv
  <2>3. /\ \A j \in Calls : promise'[j] = "waiting" <=> j \in pending'
        /\ pending' \subseteq timers
    BY <1>6, <2>2 DEF CallBooks
  <2>4. \A j \in Calls : promise'[j] = "resolved" => result[j] # None /\ result[j].status = "ok"
    BY <1>2, <1>6, <2>2 DEF CallBooks
  <2>5. /\ \A j \in Calls : j <= reqId => promise'[j] # "none"
        /\ \A j \in Calls : j > reqId => promise'[j] = "none"
    <3>1. \A j \in Calls : j > reqId => j # i
      BY <2>1
    <3>2. QED
      BY <1>6, <2>2, <3>1 DEF CallBooks
  <2>6. QED
    BY <1>1, <2>2, <2>3, <2>4, <2>5 DEF CallBooks
<1>11. ConnBooks'
  BY <1>1, <1>5 DEF Inv, IInv, ConnBooks
<1>12. IdBooks'
  BY <1>1, <1>4, <1>8 DEF Inv, IInv, IdBooks
<1>13. Traffic'
  <2>1. \A j \in Calls : AnswerFits(j) => AnswerFits(j)'
    BY <1>1 DEF AnswerFits
  <2>2. \A j \in Calls : result'[j] # None => AnswerFits(j)'
    BY <1>1, <2>1 DEF Inv, IInv, Traffic
  <2>3. Traffic
    BY DEF Inv, IInv
  <2>4. UNCHANGED <<up, serving, reqId, request, result, runOf, subject>>
    BY <1>1
  <2>5. (\A d \in Conns : \A k \in 1..Len(down[d]) : Fits(d, down[d][k]))'
    BY <1>5
  <2>6. /\ \A c \in Conns : \A k \in 1..Len(up'[c]) :
              up'[c][k] <= reqId' /\ request'[up'[c][k]].conn = c /\ result'[up'[c][k]] = None
        /\ \A c \in Conns : \A j, k \in 1..Len(up'[c]) : j < k => up'[c][j] < up'[c][k]
    BY <2>3, <2>4 DEF Traffic
  <2>7. serving' # None => /\ serving'.id <= reqId'
                           /\ request'[serving'.id].conn = serving'.conn
                           /\ result'[serving'.id] = serving'.answer
    BY <2>3, <2>4 DEF Traffic
  <2>8. \A j \in Calls :
           /\ j <= reqId' /\ request'[j].op = "subscribe" => request'[j].arg \in Objects
           /\ j <= reqId' /\ request'[j].op = "unsubscribe" =>
                LET r == runOf'[request'[j].conn]
                IN  /\ r \in Runs /\ request'[j].arg \in Subs
                    /\ subject'[r][request'[j].arg] # None
    BY <2>3, <2>4 DEF Traffic
  <2>9. QED
    BY <2>2, <2>5, <2>6, <2>7, <2>8 DEF Traffic
<1>14. LeaksOnlyGivenUp'
  <2>1. SUFFICES ASSUME NEW j \in Calls, request[j] # None, request[j].op = "subscribe",
                        request[j].conn = ws, alive, ws \in conns, promise'[j] = "resolved",
                        result[j].sub \in subs
                 PROVE  result[j].sub \in subscriptions'
    BY <1>1 DEF LeaksOnlyGivenUp
  <2>2. runOf[ws] = run
    BY <1>2, <2>1 DEF Inv, IInv, ConnBooks
  <2>3. CASE j = i
    BY <1>7, <2>1, <2>3
  <2>4. CASE j # i
    <3>1. result[j].sub \in subscriptions
      BY <1>6, <2>1, <2>4 DEF Inv, IInv, LeaksOnlyGivenUp
    <3>2. q.op = "unsubscribe" => result[j].sub # q.arg
      BY <1>4, <2>1, <2>2
    <3>3. QED
      BY <1>7, <3>1, <3>2
  <2>5. QED
    BY <2>3, <2>4
<1>15. QED
  BY <1>9, <1>10, <1>11, <1>12, <1>13, <1>14 DEF Inv, IInv

LEMMA MessageKeepsInv == Inv /\ Message => Inv'
<1> SUFFICES ASSUME Inv, Message PROVE Inv'
  OBVIOUS
<1>1. /\ ws # 0 /\ sock[ws] = "open" /\ down[ws] # <<>> /\ ws \in Conns
      /\ UNCHANGED <<conn, reqId, request, timers, up, exe>>
  BY DEF Message, Inv, TypeOK
<1>2. PICK m \in Messages :
         /\ m = Head(down[ws]) /\ Fits(ws, m)
         /\ \/ /\ m.kind = "response" /\ Answered(m.id, m.answer)
               /\ down' = [down EXCEPT ![ws] = Tail(@)] /\ UNCHANGED <<ws, sock>>
            \/ /\ down' = [down EXCEPT ![ws] = Tail(@)]
               /\ UNCHANGED <<ws, sock, pending, promise, value, subscriptions, listeners, listenRun>>
            \/ /\ ws' = 0 /\ sock' = Close(ws) /\ GiveUp(ws)
               /\ UNCHANGED <<pending, promise, value, listenRun>>
  <2>1. down[ws] \in Seq(Messages) /\ \A k \in 1..Len(down[ws]) : Fits(ws, down[ws][k])
    BY <1>1 DEF Inv, IInv, TypeOK, Traffic
  <2>2. /\ Head(down[ws]) \in Messages /\ Head(down[ws]) = down[ws][1] /\ 1 \in 1..Len(down[ws])
    <3>1. /\ Head(down[ws]) \in Messages /\ Head(down[ws]) = down[ws][1]
          /\ Len(down[ws]) \in Nat /\ Len(down[ws]) >= 1
      BY <1>1, <2>1, TailOf
    <3>2. QED
      BY <3>1
  <2>3. QED
    BY <2>1, <2>2 DEF Message
<1>3. UNCHANGED <<run, alive, conns, serving, nextSub, subs, looping, pushes, runOf, subject, result>>
  BY <1>1 DEF exe
<1>4. CASE ws' = 0 /\ sock' = Close(ws) /\ GiveUp(ws) /\ UNCHANGED <<pending, promise, value, listenRun>>
  <2>1. /\ pending \subseteq Calls /\ pending \subseteq timers
        /\ promise \in [Calls -> {"none", "waiting", "resolved", "rejected"}]
        /\ \A i \in Calls : promise[i] = "waiting" <=> i \in pending
    BY DEF Inv, IInv, TypeOK, CallBooks
  <2>2. /\ down' = [down EXCEPT ![ws] = <<>>] /\ subscriptions' = {} /\ listeners' = NoListeners
    BY <1>4 DEF GiveUp
  <2>3. QED
    BY <1>1, <1>3, <1>4, <2>1, <2>2, GivingUpKeepsInv
<1>5. CASE down' = [down EXCEPT ![ws] = Tail(@)]
  <2>1. /\ down' \in [Conns -> Seq(Messages)]
        /\ \A d \in Conns : down'[d] # <<>> => down[d] # <<>>
        /\ (\A d \in Conns : \A k \in 1..Len(down[d]) : Fits(d, down[d][k]))'
    BY <1>1, <1>3, <1>5, TakingKeepsTraffic
  <2>2. pending \subseteq timers /\ promise \in [Calls -> {"none", "waiting", "resolved", "rejected"}]
    BY DEF Inv, IInv, TypeOK, CallBooks
  <2>3. ASSUME UNCHANGED <<ws, sock, pending, promise, value, subscriptions, listeners, listenRun>>
        PROVE  Inv'
    <3>1. /\ {} \in SUBSET pending /\ pending' = pending \ {} /\ timers' \subseteq timers
          /\ pending' \subseteq timers'
          /\ promise' = [i \in Calls |-> IF i \in {} THEN "rejected" ELSE promise[i]]
      BY <1>1, <2>2, <2>3
    <3>2. QED
      BY <1>1, <2>1, <2>3, <3>1, SettlingKeepsInv
  <2>4. ASSUME m.kind = "response", Answered(m.id, m.answer), UNCHANGED <<ws, sock>>
        PROVE  Inv'
    <3>1. /\ m.id \in Calls /\ m.answer \in Answers
          /\ request[m.id].conn = ws /\ result[m.id] = m.answer
      BY <1>2, <2>4, Fields DEF Fits
    <3>2. CASE /\ m.id \notin pending /\ pending' = pending \ {m.id}
               /\ UNCHANGED <<promise, value, subscriptions, listeners, listenRun>>
      BY <2>3, <2>4, <3>2
    <3>3. CASE /\ m.id \in pending /\ pending' = pending \ {m.id}
               /\ Settle({m.id}, "rejected")
               /\ UNCHANGED <<value, subscriptions, listeners, listenRun>>
      <4>1. /\ {m.id} \in SUBSET pending /\ timers' \subseteq timers /\ pending' \subseteq timers'
            /\ promise' = [i \in Calls |-> IF i \in {m.id} THEN "rejected" ELSE promise[i]]
        BY <1>1, <2>2, <3>3 DEF Settle
      <4>2. QED
        BY <1>1, <2>1, <2>4, <3>3, <4>1, SettlingKeepsInv
    <3>4. CASE /\ m.id \in pending /\ m.answer.status = "ok" /\ pending' = pending \ {m.id}
               /\ Settle({m.id}, "resolved") /\ value' = [value EXCEPT ![m.id] = m.answer]
               /\ Continue(request[m.id], m.answer.sub)
      <4>1. promise' = [j \in Calls |-> IF j \in {m.id} THEN "resolved" ELSE promise[j]]
        BY <3>4 DEF Settle
      <4>2. QED
        BY <1>1, <1>5, <2>4, <3>1, <3>4, <4>1, AnswerKeepsInv
    <3>5. QED
      BY <2>4, <3>2, <3>3, <3>4 DEF Answered
  <2>5. QED
    BY <1>2, <1>4, <2>3, <2>4
<1>6. QED
  BY <1>2, <1>5, <1>4

LEMMA InvNext == Inv /\ [Next]_vars => Inv'
<1> SUFFICES ASSUME Inv, [Next]_vars PROVE Inv'
  OBVIOUS
<1>1. CASE Exe
  BY <1>1, ExeStartsKeepsInv, ExeEndsKeepsInv, ExeSendsKeepsInv, ForgetsKeepsInv,
     DispatchKeepsInv, OthersSubscribeKeepsInv DEF Exe
<1>2. CASE Viewer
  <2>1. ASSUME Ping PROVE Inv'
    BY <2>1, SendKeepsInv DEF Ping
  <2>2. ASSUME NEW o \in Objects, Subscribe(o) PROVE Inv'
    BY <2>2, SendKeepsInv DEF Subscribe
  <2>3. ASSUME NEW s \in Subs, Unsubscribe(s) PROVE Inv'
    BY <2>3, SendKeepsInv DEF Unsubscribe
  <2>4. QED
    BY <1>2, <2>1, <2>2, <2>3, ConnectKeepsInv, OpenedKeepsInv, ClosedKeepsInv, MessageKeepsInv,
       TimeoutKeepsInv DEF Viewer
<1>3. CASE UNCHANGED vars
  <2>1. UNCHANGED <<ws, conn, sock, reqId, request, pending, timers, promise, value, subscriptions,
                    listeners, listenRun, up, down, run, alive, conns, serving, nextSub, subs,
                    looping, pushes, runOf, subject, result>>
    BY <1>3 DEF vars, viewer, network, exe
  <2>2. TypeOK' /\ CallBooks' /\ ConnBooks' /\ IdBooks' /\ LeaksOnlyGivenUp'
    BY <2>1 DEF Inv, IInv, TypeOK, CallBooks, ConnBooks, IdBooks, LeaksOnlyGivenUp
  <2>3. Traffic'
    <3>1. \A c \in Conns, m \in Messages : Fits(c, m)' <=> Fits(c, m)
      BY <2>1 DEF Fits
    <3>2. \A i \in Calls : AnswerFits(i) => AnswerFits(i)'
      BY <2>1 DEF AnswerFits
    <3>3. \A c \in Conns : \A k \in 1..Len(down[c]) : down[c][k] \in Messages
      BY DEF Inv, TypeOK
    <3>4. QED
      BY <2>1, <3>1, <3>2, <3>3 DEF Inv, IInv, Traffic
  <2>4. QED
    BY <2>2, <2>3 DEF Inv, IInv
<1>4. QED
  BY <1>1, <1>2, <1>3 DEF Next

-----------------------------------------------------------------------------
THEOREM InvAlways == Spec => []Inv
  BY InvInit, InvNext, PTL DEF Spec

(* All variables keep their types. *)
THEOREM TypeCorrect == Spec => []TypeOK
<1>1. Inv => TypeOK
  BY DEF Inv
<1>2. QED
  BY <1>1, InvAlways, PTL

(* The books of calls, connections and ids, and what is under way, agree at  *)
(* every step of viewer, connections and exe.                              *)
THEOREM BooksCorrect == Spec => []IInv
<1>1. Inv => IInv
  BY DEF Inv
<1>2. QED
  BY <1>1, InvAlways, PTL

(* A listener hears of its own object as long as the run of the exe lasts,  *)
(* whatever was given up, answered late or connected anew.                 *)
THEOREM HearsOwnCorrect == Spec => []HearsOwn
<1>1. Inv => HearsOwn
  <2> SUFFICES ASSUME Inv, NEW s \in Subs, NEW o \in Objects, Arriving(s, o),
                      listeners[s] # None, listenRun[s] = runOf[ws]
               PROVE  listeners[s] = o
    BY DEF HearsOwn
  <2>1. /\ ws \in Conns /\ down[ws] \in Seq(Messages) /\ down[ws] # <<>>
        /\ Head(down[ws]) = Diff(s, o)
    BY DEF Arriving, Inv, TypeOK
  <2>2. Head(down[ws]) = down[ws][1] /\ Len(down[ws]) \in Nat /\ Len(down[ws]) >= 1
    BY <2>1, TailOf
  <2>3. 1 \in 1..Len(down[ws])
    BY <2>2
  <2>4. Fits(ws, Diff(s, o))
    BY <2>1, <2>2, <2>3 DEF Inv, IInv, Traffic
  <2>5. subject[runOf[ws]][s] = o
    BY <2>4, DiffIs DEF Fits
  <2>6. QED
    BY <2>5 DEF Inv, IInv, IdBooks
<1>2. QED
  BY <1>1, InvAlways, PTL

(* A subscription of this connection that lives is known to the viewer,     *)
(* unless it gave the call up or the answer is on its way.                 *)
THEOREM LeaksCorrect == Spec => []LeaksOnlyGivenUp
<1>1. Inv => LeaksOnlyGivenUp
  BY DEF Inv, IInv
<1>2. QED
  BY <1>1, InvAlways, PTL

(* The two machines keep the promise of LiveClient.send: executed at most   *)
(* once, settled at most once, and with its own result.                    *)
LEMMA StepImplements == Inv /\ [Next]_vars => [RC!Next]_(RC!vars)
<1> SUFFICES ASSUME Inv, [Next]_vars PROVE [RC!Next]_(RC!vars)
  OBVIOUS
<1>1. promise = [i \in Calls |-> promise[i]]
  BY DEF Inv, TypeOK
<1>2. ASSUME UNCHANGED <<promise, value, result>> PROVE [RC!Next]_(RC!vars)
  BY <1>2 DEF RC!vars
<1>3. ASSUME NEW S \in SUBSET Calls, \A i \in S : promise[i] = "waiting",
             promise' = [i \in Calls |-> IF i \in S THEN "rejected" ELSE promise[i]],
             UNCHANGED <<value, result>>
      PROVE  [RC!Next]_(RC!vars)
  <2>1. CASE S = {}
    <3>1. promise' = promise
      BY <1>1, <1>3, <2>1
    <3>2. QED
      BY <1>2, <1>3, <3>1
  <2>2. CASE S # {}
    <3>1. RC!Reject(S)
      BY <1>3, <2>2 DEF RC!Reject
    <3>2. QED
      BY <3>1 DEF RC!Next
  <2>3. QED
    BY <2>1, <2>2
<1>4. ASSUME NEW op \in {"ping", "subscribe", "unsubscribe"}, NEW arg, Send(op, arg)
      PROVE  [RC!Next]_(RC!vars)
  <2>1. reqId + 1 \in Calls /\ promise[reqId + 1] = "none"
    <3>1. reqId \in 0..MaxReq /\ reqId < MaxReq
      BY <1>4 DEF Send, Inv, TypeOK
    <3>2. reqId + 1 \in Calls /\ reqId + 1 > reqId
      BY <3>1, ClientAssumption DEF Calls
    <3>3. QED
      BY <3>2 DEF Inv, IInv, CallBooks
  <2>2. RC!Invoke(reqId + 1)
    BY <1>4, <2>1 DEF Send, exe, RC!Invoke
  <2>3. QED
    BY <2>1, <2>2 DEF RC!Next
<1>5. ASSUME NEW c \in Conns, Dispatch(c) PROVE [RC!Next]_(RC!vars)
  <2> DEFINE i == Head(up[c])
  <2>1. i \in Calls /\ i <= reqId /\ result[i] = None
    <3>1. /\ up[c] # <<>> /\ up[c] \in Seq(Calls)
          /\ \A k \in 1..Len(up[c]) : up[c][k] <= reqId /\ result[up[c][k]] = None
      BY <1>5 DEF Dispatch, Inv, IInv, TypeOK, Traffic
    <3>2. i \in Calls /\ i = up[c][1] /\ Len(up[c]) \in Nat /\ Len(up[c]) >= 1
      BY <3>1, TailOf
    <3>3. 1 \in 1..Len(up[c])
      BY <3>2
    <3>4. QED
      BY <3>1, <3>2, <3>3
  <2>2. promise[i] # "none"
    BY <2>1 DEF Inv, IInv, CallBooks
  <2>3. \E a \in Answers : result' = [result EXCEPT ![i] = a]
    <3> DEFINE r == request[i]
               sv(st, s) == [id |-> i, conn |-> c, answer |-> [status |-> st, sub |-> s]]
    <3>1. /\ [status |-> "ok", sub |-> 0] \in Answers /\ [status |-> "error", sub |-> 0] \in Answers
          /\ nextSub \in Subs => [status |-> "ok", sub |-> nextSub] \in Answers
      BY DEF Answers
    <3>2. /\ \/ serving' = sv("ok", 0)
             \/ nextSub \in Subs /\ serving' = sv("ok", nextSub)
             \/ serving' = sv("error", 0)
          /\ result' = [result EXCEPT ![i] = serving'.answer]
      BY <1>5 DEF Dispatch
    <3>3. serving'.answer \in Answers
      BY <3>1, <3>2
    <3>4. QED
      BY <3>2, <3>3
  <2>4. UNCHANGED <<promise, value>>
    BY <1>5 DEF Dispatch, viewer
  <2> HIDE DEF i
  <2>5. RC!Execute(i)
    BY <2>1, <2>2, <2>3, <2>4 DEF RC!Execute
  <2>6. QED
    BY <2>1, <2>5 DEF RC!Next
<1>6. ASSUME NEW i \in Calls, NEW a \in Answers, Answered(i, a), result[i] = a, UNCHANGED result
      PROVE  [RC!Next]_(RC!vars)
  <2>1. i \in pending => promise[i] = "waiting"
    BY DEF Inv, IInv, CallBooks
  <2>2. CASE UNCHANGED <<promise, value>>
    BY <1>2, <1>6, <2>2
  <2>3. CASE i \in pending /\ Settle({i}, "rejected") /\ UNCHANGED value
    <3>1. /\ {i} \in SUBSET Calls /\ \A j \in {i} : promise[j] = "waiting"
          /\ promise' = [j \in Calls |-> IF j \in {i} THEN "rejected" ELSE promise[j]]
          /\ UNCHANGED <<value, result>>
      BY <1>6, <2>1, <2>3 DEF Settle
    <3>2. QED
      BY <1>3, <3>1
  <2>4. CASE i \in pending /\ Settle({i}, "resolved") /\ value' = [value EXCEPT ![i] = a]
    <3>1. promise' = [promise EXCEPT ![i] = "resolved"]
      BY <1>1, <2>4 DEF Settle
    <3>2. a # None
      BY ClientAssumption
    <3>3. RC!Resolve(i)
      BY <1>6, <2>1, <2>4, <3>1, <3>2 DEF RC!Resolve
    <3>4. QED
      BY <3>3 DEF RC!Next
  <2>5. QED
    BY <1>6, <2>2, <2>3, <2>4 DEF Answered
<1>7. ASSUME Message PROVE [RC!Next]_(RC!vars)
  <2>1. UNCHANGED result /\ ws \in Conns /\ down[ws] # <<>>
    BY <1>7 DEF Message, exe, Inv, TypeOK
  <2>2. CASE UNCHANGED <<promise, value>>
    BY <1>2, <2>1, <2>2
  <2>3. ASSUME NEW m, m = Head(down[ws]), m.kind = "response", Answered(m.id, m.answer)
        PROVE  [RC!Next]_(RC!vars)
    <3>1. down[ws] \in Seq(Messages) /\ \A k \in 1..Len(down[ws]) : Fits(ws, down[ws][k])
      BY <2>1 DEF Inv, IInv, TypeOK, Traffic
    <3>2. m \in Messages /\ m = down[ws][1] /\ Len(down[ws]) \in Nat /\ Len(down[ws]) >= 1
      BY <2>1, <2>3, <3>1, TailOf
    <3>3. 1 \in 1..Len(down[ws])
      BY <3>2
    <3>4. m.id \in Calls /\ m.answer \in Answers /\ result[m.id] = m.answer
      BY <2>3, <3>1, <3>2, <3>3, Fields DEF Fits
    <3>5. QED
      BY <1>6, <2>1, <2>3, <3>4
  <2>4. QED
    BY <1>7, <2>2, <2>3 DEF Message
<1>8. ASSUME Closed PROVE [RC!Next]_(RC!vars)
  <2>1. pending \in SUBSET Calls /\ \A i \in pending : promise[i] = "waiting"
    BY DEF Inv, IInv, TypeOK, CallBooks
  <2>2. QED
    BY <1>3, <1>8, <2>1 DEF Closed, Settle, exe
<1>9. ASSUME NEW i \in Calls, Timeout(i) PROVE [RC!Next]_(RC!vars)
  <2> DEFINE S == {i} \cap pending
  <2>1. S \in SUBSET Calls /\ \A j \in S : promise[j] = "waiting"
    BY DEF Inv, IInv, CallBooks
  <2>2. /\ promise' = [j \in Calls |-> IF j \in S THEN "rejected" ELSE promise[j]]
        /\ UNCHANGED <<value, result>>
    BY <1>9 DEF Timeout, Settle, exe
  <2> HIDE DEF S
  <2>3. QED
    BY <1>3, <2>1, <2>2
<1>10. CASE Exe
  <2>1. ASSUME \/ ExeStarts \/ ExeEnds \/ Reply \/ Disconnected
               \/ \E c \in Conns : Forgets(c)
               \/ \E s \in Subs : Push(s)
               \/ \E o \in Objects : OthersSubscribe(o)
        PROVE  UNCHANGED <<promise, value, result>>
    BY <2>1 DEF ExeStarts, ExeEnds, Reply, Disconnected, Forgets, Push, OthersSubscribe, viewer
  <2>2. QED
    BY <1>2, <1>5, <1>10, <2>1 DEF Exe
<1>11. CASE Viewer
  <2>1. ASSUME Connect \/ Opened \/ Disconnect PROVE UNCHANGED <<promise, value, result>>
    BY <2>1 DEF Connect, Opened, Disconnect, exe
  <2>2. ASSUME Ping \/ (\E o \in Objects : Subscribe(o)) \/ (\E s \in Subs : Unsubscribe(s))
        PROVE  [RC!Next]_(RC!vars)
    BY <1>4, <2>2 DEF Ping, Subscribe, Unsubscribe
  <2>3. QED
    <3>1. CASE Connect \/ Opened \/ Disconnect
      BY <1>2, <2>1, <3>1
    <3>2. CASE Ping \/ (\E o \in Objects : Subscribe(o)) \/ (\E s \in Subs : Unsubscribe(s))
      BY <2>2, <3>2
    <3>3. CASE \E i \in Calls : Timeout(i)
      BY <1>9, <3>3
    <3>4. CASE Message \/ Closed
      BY <1>7, <1>8, <3>4
    <3>5. QED
      BY <1>11, <3>1, <3>2, <3>3, <3>4 DEF Viewer
<1>12. CASE UNCHANGED vars
  BY <1>2, <1>12 DEF vars, viewer, exe
<1>13. QED
  BY <1>10, <1>11, <1>12 DEF Next

(* Calls are executed at most once and settle at most once, with their own  *)
(* result.                                                                 *)
THEOREM ImplementsRemoteCallsCorrect == Spec => ImplementsRemoteCalls
<1>1. Init => RC!Init
  BY DEF Init, RC!Init
<1>2. QED
  BY <1>1, InvAlways, StepImplements, PTL DEF Spec, ImplementsRemoteCalls, RC!Spec
=============================================================================
