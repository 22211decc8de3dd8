------------------------------ MODULE LivePipe ------------------------------
(***************************************************************************)
(* The named pipe \\.\pipe\dezlock-live: PipeClient in the exe             *)
(* (src/src/live-bridge.cpp), run_pipe_server in the injected worker       *)
(* (src/worker.cpp) and the life of the connection in run_live_server      *)
(* (src/main.cpp).                                                         *)
(*                                                                         *)
(* Several threads of the exe share one PipeClient.  One call is a request *)
(* header, for module_base a name, then a response header and maybe a      *)
(* payload, each its own WriteFile or ReadFile: each is one action here,   *)
(* so the game may exit, the exe may be killed and other threads may run   *)
(* between any two of them.                                                *)
(***************************************************************************)
EXTENDS Naturals, Sequences

CONSTANTS
    Threads,      \* exe threads that call PipeClient: WebSocket, subscriptions
    Main,         \* the thread of run_live_server; it only connects and shuts down
    NoOne,        \* the mutex is free
    Objects,      \* addresses whose reads succeed
    Faulting,     \* addresses whose reads raise a structured exception
    Loaded,       \* names GetModuleHandle finds
    NotLoaded,    \* names it does not find
    BadArg,       \* a size or a name PipeClient refuses by itself
    Values,       \* contents of an object
    Nothing, Failure,
    PipeRequired  \* run_live_server's parameter

ASSUME PipeAssumption ==
    /\ Main \notin Threads
    /\ NoOne \notin Threads \cup {Main}
    /\ Failure \notin Values \cup Loaded \cup {Nothing}
    /\ Nothing \notin Values \cup Loaded
    /\ Objects \cap Faulting = {}
    /\ Loaded \cap NotLoaded = {}
    /\ BadArg \notin Objects \cup Faulting \cup Loaded \cup NotLoaded
    /\ PipeRequired \in BOOLEAN

Requests == [op : {"read"}, arg : Objects \cup Faulting \cup {BadArg}]
            \cup [op : {"module"}, arg : Loaded \cup NotLoaded \cup {BadArg}]
ShutdownRequest == [op |-> "shutdown", arg |-> BadArg]

(* What a request yields in memory m.  A module's base is written as its name. *)
Answer(m, r) == IF r.op = "read" /\ r.arg \in Objects THEN m[r.arg]
                ELSE IF r.op = "module" /\ r.arg \in Loaded THEN r.arg
                ELSE Failure

VARIABLES
    mem,       \* the game's memory
    wpc,       \* where the worker's pipe server stands; "gone": unloaded or game exited
    wreq,      \* the request it serves
    wbuf,      \* the answer it is about to write
    toWorker,  \* bytes written by the exe, one element per WriteFile
    toExe,     \* bytes written by the worker
    handle,    \* PipeClient::m_pipe: "open" or INVALID_HANDLE_VALUE ("none")
    mtx,       \* owner of PipeClient::m_mtx
    pc,        \* pc[t]: where thread t stands in its call
    req,       \* req[t]: its request
    ret,       \* ret[t]: what its last call returned
    mpc,       \* where the main thread stands in run_live_server
    pipe_ok    \* the local of run_live_server

worker == <<wpc, wreq, wbuf>>
client == <<handle, mtx, pc, req, ret>>
main   == <<mpc, pipe_ok>>
vars   == <<mem, worker, toWorker, toExe, client, main>>

Header(st) == [kind |-> "header", status |-> st]
Payload(v) == [kind |-> "payload", v |-> v]
(* The header of MODULE_BASE carries the length of the name, not the name. *)
Hdr(r)     == [kind |-> "request", op |-> r.op,
               arg |-> IF r.op = "read" THEN r.arg ELSE BadArg]
Name(n)    == [kind |-> "name", n |-> n]

(* The other end still has its handle open. *)
WorkerEnd == wpc \in {"serve", "name", "perform", "header", "payload", "close"}
ExeEnd    == handle = "open"

WorkerInput == [kind : {"request"}, op : {"read", "module", "shutdown"},
                arg : Objects \cup Faulting \cup {BadArg}]
               \cup [kind : {"name"}, n : Loaded \cup NotLoaded \cup {BadArg}]
ExeInput == [kind : {"header"}, status : {"OK", "SEH", "BAD_ARGS"}]
            \cup [kind : {"payload"}, v : Values \cup Loaded]

TypeOK ==
    /\ mem \in [Objects -> Values]
    /\ wpc \in {"create", "listen", "serve", "name", "perform", "header", "payload",
                "close", "gone"}
    /\ wreq \in Requests \cup {ShutdownRequest, Nothing}
    /\ wbuf \in Values \cup Loaded \cup {Nothing, Failure}
    /\ toWorker \in Seq(WorkerInput)
    /\ toExe \in Seq(ExeInput)
    /\ handle \in {"none", "open"}
    /\ mtx \in Threads \cup {Main, NoOne}
    /\ pc \in [Threads -> {"off", "idle", "lock", "sendHdr", "sendName", "recvHdr",
                           "recvPayload"}]
    /\ req \in [Threads -> Requests \cup {Nothing}]
    /\ ret \in [Threads -> Values \cup Loaded \cup {Nothing, Failure}]
    /\ mpc \in {"boot", "setup", "run", "stop", "sendBye", "recvBye", "done", "killed"}
    /\ pipe_ok \in BOOLEAN

Init ==
    /\ mem \in [Objects -> Values]
    /\ wpc = "create" /\ wreq = Nothing /\ wbuf = Nothing
    /\ toWorker = <<>> /\ toExe = <<>>
    /\ handle = "none" /\ mtx = NoOne
    /\ pc = [t \in Threads |-> "off"]
    /\ req = [t \in Threads |-> Nothing]
    /\ ret = [t \in Threads |-> Nothing]
    /\ mpc = "boot" /\ pipe_ok = FALSE
-----------------------------------------------------------------------------
(* The game. *)
GameStore ==
    /\ \E o \in Objects, v \in Values : mem' = [mem EXCEPT ![o] = v]
    /\ UNCHANGED <<worker, toWorker, toExe, client, main>>

(* The game process ends, and the worker's thread with it; what it had      *)
(* written stays readable, then reads fail.                                *)
GameExit ==
    /\ wpc # "gone"
    /\ wpc' = "gone"
    /\ wreq' = Nothing /\ wbuf' = Nothing
    /\ toWorker' = <<>>
    /\ UNCHANGED <<mem, toExe, client, main>>
-----------------------------------------------------------------------------
(* The worker: run_pipe_server. *)
WorkerCreate ==
    /\ wpc = "create"
    /\ wpc' \in {"listen", "gone"}   \* CreateNamedPipe may fail: unload
    /\ UNCHANGED <<mem, wreq, wbuf, toWorker, toExe, client, main>>

(* Variant: a failed read of the header does not leave the loop. *)
WorkerRequestRetries ==
    /\ wpc = "serve"
    /\ toWorker # <<>>
    /\ wreq' = [op |-> Head(toWorker).op, arg |-> Head(toWorker).arg]
    /\ toWorker' = Tail(toWorker)
    /\ wpc' = IF wreq'.op = "module" THEN "name" ELSE "perform"
    /\ UNCHANGED <<mem, wbuf, toExe, client, main>>

(* pipe_read_exact of the next request header; at end of stream it leaves   *)
(* the loop.  READ is answered from the header alone, MODULE_BASE reads the *)
(* name first.                                                             *)
WorkerRequest ==
    /\ wpc = "serve"
    /\ \/ /\ toWorker # <<>>
          /\ wreq' = [op |-> Head(toWorker).op, arg |-> Head(toWorker).arg]
          /\ toWorker' = Tail(toWorker)
          /\ wpc' = IF wreq'.op = "module" THEN "name" ELSE "perform"
       \/ /\ toWorker = <<>> /\ ~ExeEnd
          /\ wpc' = "close"
          /\ UNCHANGED <<wreq, toWorker>>
    /\ UNCHANGED <<mem, wbuf, toExe, client, main>>

(* The name of MODULE_BASE.  Failing to read it leaves the switch only: the *)
(* loop goes on, and its next read fails too.                              *)
WorkerName ==
    /\ wpc = "name"
    /\ \/ /\ toWorker # <<>>
          /\ wreq' = [op |-> wreq.op, arg |-> Head(toWorker).n]
          /\ toWorker' = Tail(toWorker)
          /\ wpc' = "perform"
       \/ /\ toWorker = <<>> /\ ~ExeEnd
          /\ wpc' = "serve"
          /\ UNCHANGED <<wreq, toWorker>>
    /\ UNCHANGED <<mem, wbuf, toExe, client, main>>

(* Variant: the buffer of the previous request is sent again. *)
WorkerPerformStale ==
    /\ wpc = "perform"
    /\ wbuf' = IF wbuf = Nothing THEN Answer(mem, wreq) ELSE wbuf
    /\ wpc' = "header"
    /\ UNCHANGED <<mem, wreq, toWorker, toExe, client, main>>

(* seh_memcpy_read, GetModuleHandle, or running = false. *)
WorkerPerform ==
    /\ wpc = "perform"
    /\ wbuf' = Answer(mem, wreq)
    /\ wpc' = "header"
    /\ UNCHANGED <<mem, wreq, toWorker, toExe, client, main>>

Status(r, v) == IF v # Failure \/ r = ShutdownRequest THEN "OK"
                ELSE IF r.op = "read" THEN "SEH" ELSE "BAD_ARGS"

(* The response header.  A write to a closed pipe fails and is ignored. *)
WorkerHeader ==
    /\ wpc = "header"
    /\ toExe' = IF ExeEnd
                THEN Append(toExe, Header(Status(wreq, wbuf)))
                ELSE toExe
    /\ wpc' = IF wreq = ShutdownRequest THEN "close"
              ELSE IF wbuf # Failure THEN "payload" ELSE "serve"
    /\ UNCHANGED <<mem, wreq, wbuf, toWorker, client, main>>

WorkerPayload ==
    /\ wpc = "payload"
    /\ toExe' = IF ExeEnd THEN Append(toExe, Payload(wbuf)) ELSE toExe
    /\ wpc' = "serve"
    /\ UNCHANGED <<mem, wreq, wbuf, toWorker, client, main>>

(* DisconnectNamedPipe discards what the exe has not read; then the DLL     *)
(* frees itself and the thread ends.                                       *)
WorkerClose ==
    /\ wpc = "close"
    /\ wpc' = "gone"
    /\ wreq' = Nothing /\ wbuf' = Nothing
    /\ toWorker' = <<>> /\ toExe' = <<>>
    /\ UNCHANGED <<mem, client, main>>

Worker == \/ WorkerCreate \/ WorkerRequest \/ WorkerName \/ WorkerPerform
          \/ WorkerHeader \/ WorkerPayload \/ WorkerClose
-----------------------------------------------------------------------------
(* PipeClient::read and PipeClient::module_base, on thread t. *)
Call(t) ==
    /\ pc[t] = "idle"
    /\ \E r \in Requests : req' = [req EXCEPT ![t] = r]
    /\ pc' = [pc EXCEPT ![t] = "lock"]
    /\ ret' = [ret EXCEPT ![t] = Nothing]
    /\ UNCHANGED <<mem, worker, toWorker, toExe, handle, mtx, main>>

(* The call of t ends with result v and releases the mutex. *)
Finish(t, v) ==
    /\ pc' = [pc EXCEPT ![t] = "idle"]
    /\ ret' = [ret EXCEPT ![t] = v]
    /\ mtx' = NoOne

(* Variant: without the lock_guard. *)
AcquireUnlocked(t) ==
    /\ pc[t] = "lock"
    /\ IF handle = "none" \/ req[t].arg = BadArg
       THEN Finish(t, Failure)
       ELSE /\ mtx' = t
            /\ pc' = [pc EXCEPT ![t] = "sendHdr"]
            /\ UNCHANGED ret
    /\ UNCHANGED <<mem, worker, toWorker, toExe, handle, req, main>>

(* lock_guard, and the early return of a closed pipe or refused arguments. *)
Acquire(t) ==
    /\ pc[t] = "lock"
    /\ mtx = NoOne
    /\ IF handle = "none" \/ req[t].arg = BadArg
       THEN Finish(t, Failure)
       ELSE /\ mtx' = t
            /\ pc' = [pc EXCEPT ![t] = "sendHdr"]
            /\ UNCHANGED ret
    /\ UNCHANGED <<mem, worker, toWorker, toExe, handle, req, main>>

SendHdr(t) ==
    /\ pc[t] = "sendHdr"
    /\ IF WorkerEnd
       THEN /\ toWorker' = Append(toWorker, Hdr(req[t]))
            /\ pc' = [pc EXCEPT ![t] = IF req[t].op = "module" THEN "sendName" ELSE "recvHdr"]
            /\ UNCHANGED <<mtx, ret>>
       ELSE Finish(t, Failure) /\ UNCHANGED toWorker
    /\ UNCHANGED <<mem, worker, toExe, handle, req, main>>

(* Variant: a name is refused after its header has been sent. *)
SendNameRefuses(t) ==
    /\ pc[t] = "sendName"
    /\ Finish(t, Failure)
    /\ UNCHANGED <<mem, worker, toWorker, toExe, handle, req, main>>

SendName(t) ==
    /\ pc[t] = "sendName"
    /\ IF WorkerEnd
       THEN /\ toWorker' = Append(toWorker, Name(req[t].arg))
            /\ pc' = [pc EXCEPT ![t] = "recvHdr"]
            /\ UNCHANGED <<mtx, ret>>
       ELSE Finish(t, Failure) /\ UNCHANGED toWorker
    /\ UNCHANGED <<mem, worker, toExe, handle, req, main>>

(* Variant: the payload that follows a good header is left unread. *)
RecvHdrOnly(t) ==
    /\ pc[t] = "recvHdr"
    /\ \/ toExe # <<>> /\ toExe' = Tail(toExe)
       \/ toExe = <<>> /\ ~WorkerEnd /\ UNCHANGED toExe
    /\ Finish(t, Failure)
    /\ UNCHANGED <<mem, worker, toWorker, handle, req, main>>

(* Variant: the end of the stream is not noticed. *)
RecvHdrWaits(t) ==
    /\ pc[t] = "recvHdr"
    /\ toExe # <<>>
    /\ toExe' = Tail(toExe)
    /\ IF Head(toExe).status = "OK"
       THEN pc' = [pc EXCEPT ![t] = "recvPayload"] /\ UNCHANGED <<mtx, ret>>
       ELSE Finish(t, Failure)
    /\ UNCHANGED <<mem, worker, toWorker, handle, req, main>>

(* pipe_read_exact blocks until there is data or the other end is gone; a   *)
(* failed read leaves m_pipe as it is.                                     *)
RecvHdr(t) ==
    /\ pc[t] = "recvHdr"
    /\ \/ /\ toExe # <<>>
          /\ toExe' = Tail(toExe)
          /\ IF Head(toExe).status = "OK"
             THEN pc' = [pc EXCEPT ![t] = "recvPayload"] /\ UNCHANGED <<mtx, ret>>
             ELSE Finish(t, Failure)
       \/ /\ toExe = <<>> /\ ~WorkerEnd
          /\ Finish(t, Failure)
          /\ UNCHANGED toExe
    /\ UNCHANGED <<mem, worker, toWorker, handle, req, main>>

RecvPayload(t) ==
    /\ pc[t] = "recvPayload"
    /\ \/ /\ toExe # <<>>
          /\ toExe' = Tail(toExe)
          /\ Finish(t, Head(toExe).v)
       \/ /\ toExe = <<>> /\ ~WorkerEnd
          /\ Finish(t, Failure)
          /\ UNCHANGED toExe
    /\ UNCHANGED <<mem, worker, toWorker, handle, req, main>>

(* Once main is stopping, a thread between two calls leaves its loop. *)
Stop(t) ==
    /\ mpc = "stop"
    /\ pc[t] = "idle"
    /\ pc' = [pc EXCEPT ![t] = "off"]
    /\ UNCHANGED <<mem, worker, toWorker, toExe, handle, mtx, req, ret, main>>

InCall(t) == Acquire(t) \/ SendHdr(t) \/ SendName(t) \/ RecvHdr(t) \/ RecvPayload(t)
-----------------------------------------------------------------------------
(* run_live_server. *)

(* PipeClient::connect: WaitNamedPipe fails at once when the pipe does not  *)
(* exist (yet, or any more).  Without a pipe the bridge gives up or serves  *)
(* the schema only.                                                        *)
Connect ==
    /\ mpc = "boot"
    /\ IF wpc = "listen"
       THEN /\ wpc' = "serve"
            /\ handle' = "open" /\ pipe_ok' = TRUE
            /\ mpc' = "setup"
       ELSE /\ mpc' = IF PipeRequired THEN "done" ELSE "setup"
            /\ UNCHANGED <<wpc, handle, pipe_ok>>
    /\ UNCHANGED <<mem, wreq, wbuf, toWorker, toExe, mtx, pc, req, ret>>

ThreadsUp == pc' = [t \in Threads |-> "idle"]
Bye       == IF pipe_ok THEN "sendBye" ELSE "done"

(* Loading the schema or opening the port fails: shut the worker down and   *)
(* return; otherwise the threads start.                                    *)
Setup ==
    /\ mpc = "setup"
    /\ \/ mpc' = Bye /\ UNCHANGED pc
       \/ mpc' = "run" /\ ThreadsUp
    /\ UNCHANGED <<mem, worker, toWorker, toExe, handle, mtx, req, ret, pipe_ok>>

(* The 100 ms loop asks connected() under the mutex. *)
Poll ==
    /\ mpc = "run" /\ pipe_ok
    /\ mtx = NoOne
    /\ pipe_ok' = (handle = "open")
    /\ UNCHANGED <<mem, worker, toWorker, toExe, client, mpc>>

CtrlC ==
    /\ mpc = "run"
    /\ mpc' = "stop"
    /\ UNCHANGED <<mem, worker, toWorker, toExe, client, pipe_ok>>

(* subs.stop() and ws_server.stop() join both threads. *)
Joined ==
    /\ mpc = "stop"
    /\ \A t \in Threads : pc[t] = "off"
    /\ mpc' = Bye
    /\ UNCHANGED <<mem, worker, toWorker, toExe, client, pipe_ok>>

(* PipeClient::shutdown closes m_pipe whatever happens to its request. *)
ShutdownSend ==
    /\ mpc = "sendBye"
    /\ mtx = NoOne
    /\ IF WorkerEnd
       THEN /\ toWorker' = Append(toWorker, Hdr(ShutdownRequest))
            /\ mtx' = Main
            /\ mpc' = "recvBye"
            /\ UNCHANGED handle
       ELSE /\ handle' = "none"
            /\ mpc' = "done"
            /\ UNCHANGED <<toWorker, mtx>>
    /\ UNCHANGED <<mem, worker, toExe, pc, req, ret, pipe_ok>>

(* Variant: the answer is waited for even if the worker is gone. *)
ShutdownRecvWaits ==
    /\ mpc = "recvBye"
    /\ toExe # <<>>
    /\ toExe' = <<>>
    /\ handle' = "none" /\ mtx' = NoOne
    /\ mpc' = "done"
    /\ UNCHANGED <<mem, worker, toWorker, pc, req, ret, pipe_ok>>

ShutdownRecv ==
    /\ mpc = "recvBye"
    /\ toExe # <<>> \/ ~WorkerEnd
    /\ toExe' = <<>>
    /\ handle' = "none" /\ mtx' = NoOne
    /\ mpc' = "done"
    /\ UNCHANGED <<mem, worker, toWorker, pc, req, ret, pipe_ok>>

MainThread == Connect \/ Setup \/ Poll \/ Joined \/ ShutdownSend \/ ShutdownRecv

(* The exe is killed or crashes at any moment: the system closes its handle, *)
(* the worker can still read what was written.                              *)
ExeDies ==
    /\ mpc \notin {"done", "killed"}
    /\ mpc' = "killed"
    /\ handle' = "none" /\ mtx' = NoOne
    /\ pc' = [t \in Threads |-> "off"]
    /\ ret' = [t \in Threads |-> IF pc[t] \in {"off", "idle"} THEN ret[t] ELSE Failure]
    /\ toExe' = <<>>
    /\ UNCHANGED <<mem, worker, toWorker, req, pipe_ok>>
-----------------------------------------------------------------------------
Next == \/ GameStore \/ GameExit \/ ExeDies \/ CtrlC
        \/ Worker \/ MainThread
        \/ \E t \in Threads : Call(t) \/ InCall(t) \/ Stop(t)

(* The game's thread scheduler runs the worker, the exe's runs its threads;  *)
(* nobody promises that the game or the user ever acts, or that a thread    *)
(* gets a contended mutex.                                                 *)
Fairness == /\ WF_vars(Worker)
            /\ WF_vars(MainThread)
            /\ \A t \in Threads : WF_vars(InCall(t))

Spec == Init /\ [][Next]_vars
FairSpec == Spec /\ Fairness
-----------------------------------------------------------------------------
(* PROPERTIES *)

(* Every reader finds at the head of its stream the kind of element it is   *)
(* about to interpret: no side ever takes a payload for a header, however   *)
(* calls of several threads and exits of the processes interleave           *)
(* (pipe_read_exact on both sides reads by length only and cannot tell).    *)
FramingInSync ==
    /\ wpc = "serve" /\ toWorker # <<>> => Head(toWorker).kind = "request"
    /\ wpc = "name" /\ toWorker # <<>> => Head(toWorker).kind = "name"
    /\ \A t \in Threads :
        /\ pc[t] = "recvHdr" /\ toExe # <<>> => Head(toExe).kind = "header"
        /\ pc[t] = "recvPayload" /\ toExe # <<>> => Head(toExe).kind = "payload"

(* While both ends are open, a free mutex means that nothing is left over   *)
(* in either stream and that the worker waits for a header: no error path   *)
(* of read or module_base leaves bytes for the next caller to misread.      *)
NothingLeftOver ==
    ExeEnd /\ WorkerEnd /\ mtx = NoOne => wpc = "serve" /\ toWorker = <<>> /\ toExe = <<>>

(* A thread that got the mutex gives it back: no call waits forever for a   *)
(* worker that is gone, or for one that never answers.                      *)
LockReleased == \A t \in Threads : (mtx = t) ~> (mtx # t)

(* However the exe ends, by the shutdown command, by an error or by being   *)
(* killed, a worker it was connected to leaves its loop and unloads.        *)
WorkerUnloads == (mpc \in {"done", "killed"} /\ WorkerEnd) ~> (wpc = "gone")

(* run_live_server gets through shutdown() and returns.                     *)
ShutdownReturns == (mpc = "sendBye") ~> (mpc \in {"done", "killed"})

(* What the main loop says of itself ("Check if pipe is still alive", "Game *)
(* disconnected (pipe broken)."): when the game is gone, the loop finds out. *)
GameExitNoticed == (mpc = "run" /\ pipe_ok /\ wpc = "gone") ~> (mpc # "run" \/ ~pipe_ok)

(* As FairSpec, with viewers and subscriptions that keep asking. *)
BusySpec == FairSpec /\ \A t \in Threads : WF_vars(Call(t)) /\ SF_vars(InCall(t))

(* The answer that the owner of the mutex is going to get, once the worker  *)
(* has determined it or the connection is lost.                            *)
Arriving ==
    LET last == toExe[Len(toExe)]
    IN  IF wpc \in {"header", "payload"} THEN wbuf
        ELSE IF toExe # <<>> /\ last.kind = "payload" THEN last.v
        ELSE IF toExe # <<>> \/ wpc = "gone" THEN Failure
        ELSE Nothing

(* The pipe implements RemoteMemory: the bytes read() returns are what the  *)
(* address held at one instant of the call, in spite of the copies on the   *)
(* way, and never the answer to another thread's request.                   *)
Active == [t \in Threads |-> pc[t] \notin {"off", "idle"}]
Ret    == [t \in Threads |-> IF pc[t] \in {"off", "idle", "lock"} THEN ret[t] ELSE Arriving]

RM == INSTANCE RemoteMemory WITH active <- Active, ret <- Ret
ImplementsRemoteMemory == RM!Spec
-----------------------------------------------------------------------------
(* THE INDUCTIVE INVARIANT: where both sides stand in the one exchange that *)
(* is going on, and what is in the two streams meanwhile.                  *)

Busy == {"sendHdr", "sendName", "recvHdr", "recvPayload"}
Answers == Values \cup Loaded

(* Nobody is served. *)
Quiet == wpc = "serve" /\ toWorker = <<>> /\ toExe = <<>>

(* The mutex is owned by the one thread inside a call, over an open handle, *)
(* and the threads exist only while run_live_server has them.              *)
Ownership ==
    /\ \A t \in Threads : /\ (pc[t] \in Busy) <=> (mtx = t)
                          /\ pc[t] \in Busy \cup {"lock"} => req[t] \in Requests
                          /\ pc[t] = "sendName" => req[t].op = "module"
    /\ (mpc = "recvBye") <=> (mtx = Main)
    /\ mtx # NoOne => ExeEnd
    /\ ExeEnd => pipe_ok /\ mpc \in {"setup", "run", "stop", "sendBye", "recvBye"}
    /\ pipe_ok /\ mpc \notin {"done", "killed"} => ExeEnd
    /\ mpc = "sendBye" => ExeEnd
    /\ mpc \notin {"run", "stop"} => \A t \in Threads : pc[t] = "off"

(* What the worker finds in its stream, whether or not the exe still lives. *)
WorkerSide ==
    /\ wpc \in {"create", "listen"} => handle = "none" /\ toExe = <<>>
    /\ wpc \notin {"serve", "name"} => toWorker = <<>>
    /\ wpc = "name" => /\ wreq \in Requests /\ wreq.op = "module"
                       /\ toWorker = <<>> \/ \E n \in Loaded \cup NotLoaded \cup {BadArg} :
                                               toWorker = <<Name(n)>>
    /\ wpc = "serve" => \/ toWorker = <<>>
                        \/ \E r \in Requests \cup {ShutdownRequest} : toWorker = <<Hdr(r)>>
                        \/ \E r \in Requests : /\ r.op = "module"
                                               /\ toWorker = <<Hdr(r), Name(r.arg)>>
    /\ wpc \in {"perform", "header", "payload"} => wreq \in Requests \cup {ShutdownRequest}
    /\ wpc = "header" => wbuf \in Answers \cup {Failure}
    /\ wpc = "payload" => wbuf \in Answers /\ wreq # ShutdownRequest

(* Both ends open: t's request is the one in the stream or at the worker,   *)
(* and the answer comes piece by piece.                                    *)
OpenExchange(t) ==
    /\ pc[t] = "sendHdr" => Quiet
    /\ pc[t] = "sendName" => /\ toExe = <<>>
                             /\ \/ wpc = "serve" /\ toWorker = <<Hdr(req[t])>>
                                \/ wpc = "name" /\ toWorker = <<>>
    /\ pc[t] = "recvHdr" =>
        \/ /\ wpc = "serve" /\ toExe = <<>>
           /\ IF req[t].op = "module" THEN toWorker = <<Hdr(req[t]), Name(req[t].arg)>>
                                      ELSE toWorker = <<Hdr(req[t])>>
        \/ /\ wpc = "name" /\ toExe = <<>> /\ req[t].op = "module"
           /\ toWorker = <<Name(req[t].arg)>>
        \/ wpc \in {"perform", "header"} /\ toExe = <<>> /\ wreq = req[t]
        \/ wpc = "payload" /\ toExe = <<Header("OK")>>
        \/ /\ wpc = "serve" /\ toWorker = <<>>
           /\ \/ \E st \in {"SEH", "BAD_ARGS"} : toExe = <<Header(st)>>
              \/ \E v \in Answers : toExe = <<Header("OK"), Payload(v)>>
    /\ pc[t] = "recvPayload" =>
        \/ wpc = "payload" /\ toExe = <<>>
        \/ /\ wpc = "serve" /\ toWorker = <<>>
           /\ \E v \in Answers : toExe = <<Payload(v)>>

(* The worker is gone: what it had written is a prefix of an answer to t. *)
GoneExchange(t) ==
    /\ pc[t] \in {"sendHdr", "sendName"} => toExe = <<>>
    /\ pc[t] = "recvHdr" => \/ toExe = <<>>
                            \/ \E st \in {"OK", "SEH", "BAD_ARGS"} : toExe = <<Header(st)>>
                            \/ \E v \in Answers : toExe = <<Header("OK"), Payload(v)>>
    /\ pc[t] = "recvPayload" => \/ toExe = <<>>
                                \/ \E v \in Answers : toExe = <<Payload(v)>>

(* The last exchange of all, of main's shutdown(). *)
ByeExchange ==
    \/ wpc = "serve" /\ toExe = <<>> /\ toWorker = <<Hdr(ShutdownRequest)>>
    \/ wpc \in {"perform", "header"} /\ toExe = <<>> /\ wreq = ShutdownRequest
    \/ wpc = "close"

Exchange ==
    ExeEnd => /\ WorkerEnd /\ mtx = NoOne => Quiet
              /\ WorkerEnd /\ mtx = Main => ByeExchange
              /\ \A t \in Threads : WorkerEnd => OpenExchange(t)
              /\ ~WorkerEnd /\ mtx = NoOne => toExe = <<>>
              /\ \A t \in Threads : ~WorkerEnd => GoneExchange(t)

IInv == Ownership /\ WorkerSide /\ Exchange
=============================================================================
