--------------------------- MODULE LivePipe_proofs ---------------------------
(***************************************************************************)
(* Proofs about LivePipe, for every set of threads, addresses, modules and *)
(* contents.                                                               *)
(***************************************************************************)
EXTENDS LivePipe, TLAPS

-----------------------------------------------------------------------------
(* Streams hold at most two elements: what the sequence operators do to     *)
(* them.                                                                   *)

(* Writing to an empty stream, and to one that holds an element (Append is  *)
(* the WriteFile of either side).                                          *)
LEMMA StreamWrite ==
    ASSUME NEW x, NEW y
    PROVE  Append(<<>>, x) = <<x>> /\ Append(<<x>>, y) = <<x, y>>
<1> DEFINE S == {x, y}  s == <<x>>  t == <<x, y>>
<1>1. Append(<<>>, x) = <<x>>
  OBVIOUS
<1>2. s \in Seq(S) /\ t \in Seq(S) /\ y \in S
  OBVIOUS
<1>3. Len(s) = 1 /\ s[1] = x
  OBVIOUS
<1>4. Len(t) = 2 /\ t[1] = x /\ t[2] = y
  OBVIOUS
<1>5. Append(s, y) \in Seq(S) /\ Len(Append(s, y)) = 2
  BY <1>2, <1>3
<1>6. Append(s, y)[1] = x /\ Append(s, y)[2] = y
  BY <1>2, <1>3
<1> HIDE DEF s, t
<1>7. Append(s, y) = t
  BY <1>2, <1>4, <1>5, <1>6
<1>8. QED
  BY <1>1, <1>7 DEF s, t

(* A stream that has been read to its end is a stream of any kind. *)
LEMMA EmptyStream == \A S : <<>> \in Seq(S)
OBVIOUS

(* Reading from a stream takes its first element (ReadFile of either side). *)
LEMMA StreamRead ==
    /\ \A x : <<x>> # <<>> /\ Head(<<x>>) = x /\ Tail(<<x>>) = <<>>
    /\ \A x, y : <<x, y>> # <<>> /\ Head(<<x, y>>) = x /\ Tail(<<x, y>>) = <<y>>
OBVIOUS

(* No stream content is taken for another of a different length or content. *)
LEMMA StreamEqual ==
    /\ \A x, y : (<<x>> = <<y>>) => x = y
    /\ \A x, y, z : <<x, y>> # <<z>>
OBVIOUS

(* What the elements of the streams say of themselves. *)
LEMMA Kinds ==
    /\ \A r : Hdr(r).kind = "request" /\ Hdr(r).op = r.op
    /\ \A n : Name(n).kind = "name" /\ Name(n).n = n
    /\ \A st : Header(st).kind = "header" /\ Header(st).status = st
    /\ \A v : Payload(v).kind = "payload" /\ Payload(v).v = v
BY DEF Hdr, Name, Header, Payload

(* The header of a request tells its operation. *)
LEMMA HdrRequest ==
    /\ \A r \in Requests : [op |-> Hdr(r).op, arg |-> Hdr(r).arg] \in Requests
    /\ \A r \in Requests : r.op # "module" => [op |-> Hdr(r).op, arg |-> Hdr(r).arg] = r
    /\ \A r \in Requests : r = [op |-> r.op, arg |-> r.arg]
    /\ [op |-> Hdr(ShutdownRequest).op, arg |-> Hdr(ShutdownRequest).arg] = ShutdownRequest
    /\ ShutdownRequest.op = "shutdown" /\ ShutdownRequest \notin Requests
BY DEF Hdr, Requests, ShutdownRequest

(* Every request is answered by a content, a base or the failure result. *)
LEMMA AnswerType ==
    ASSUME mem \in [Objects -> Values]
    PROVE  /\ \A r \in Requests : Answer(mem, r) \in Answers \cup {Failure}
           /\ Answer(mem, ShutdownRequest) = Failure
BY DEF Answer, Answers, Requests, ShutdownRequest
-----------------------------------------------------------------------------
(* The invariant of the proofs: types and the state of the exchange. *)
Inv == TypeOK /\ IInv

(* The three parts are established before the worker has created its pipe. *)
LEMMA InvInit == Init => Inv
<1> SUFFICES ASSUME Init PROVE Inv
  OBVIOUS
<1>1. TypeOK
  BY EmptyStream DEF Init, TypeOK
<1>2. Ownership
  BY PipeAssumption DEF Init, Ownership, Busy, ExeEnd
<1>3. WorkerSide
  BY DEF Init, WorkerSide
<1>4. Exchange
  BY DEF Init, Exchange, ExeEnd
<1>5. QED
  BY <1>1, <1>2, <1>3, <1>4 DEF Inv, IInv

(* What the invariant says, for the property that the runs check. *)
LEMMA InvSafe == Inv => FramingInSync /\ NothingLeftOver
<1> SUFFICES ASSUME Inv PROVE FramingInSync /\ NothingLeftOver
  OBVIOUS
<1> USE DEF Inv, IInv
<1>1. NothingLeftOver
  BY DEF Exchange, NothingLeftOver, Quiet
<1>2. wpc = "serve" /\ toWorker # <<>> => Head(toWorker).kind = "request"
  BY StreamRead, Kinds DEF WorkerSide
<1>3. wpc = "name" /\ toWorker # <<>> => Head(toWorker).kind = "name"
  BY StreamRead, Kinds DEF WorkerSide
<1>4. ASSUME NEW t \in Threads, pc[t] = "recvHdr", toExe # <<>>
      PROVE  Head(toExe).kind = "header"
  <2>1. ExeEnd
    BY <1>4, PipeAssumption DEF Ownership, Busy
  <2>2. CASE WorkerEnd
    BY <1>4, <2>1, <2>2, StreamRead, Kinds DEF Exchange, OpenExchange
  <2>3. CASE ~WorkerEnd
    BY <1>4, <2>1, <2>3, StreamRead, Kinds DEF Exchange, GoneExchange
  <2>4. QED
    BY <2>2, <2>3
<1>5. ASSUME NEW t \in Threads, pc[t] = "recvPayload", toExe # <<>>
      PROVE  Head(toExe).kind = "payload"
  <2>1. ExeEnd
    BY <1>5, PipeAssumption DEF Ownership, Busy
  <2>2. CASE WorkerEnd
    BY <1>5, <2>1, <2>2, StreamRead, Kinds DEF Exchange, OpenExchange
  <2>3. CASE ~WorkerEnd
    BY <1>5, <2>1, <2>3, StreamRead, Kinds DEF Exchange, GoneExchange
  <2>4. QED
    BY <2>2, <2>3
<1>6. QED
  BY <1>1, <1>2, <1>3, <1>4, <1>5 DEF FramingInSync
-----------------------------------------------------------------------------
(* Every step keeps the invariant: one lemma for each actor. *)

(* The game: storing touches the memory only; exiting closes the worker's   *)
(* end and leaves a prefix of the answer in the stream.                    *)
LEMMA GameKeepsInv == Inv /\ (GameStore \/ GameExit) => Inv'
<1> USE DEF Inv, IInv, worker, client, main
<1>1. ASSUME Inv, GameStore PROVE Inv'
  <2>1. TypeOK'
    BY <1>1 DEF GameStore, TypeOK
  <2>2. Ownership' /\ WorkerSide' /\ Exchange'
    BY <1>1 DEF GameStore, Ownership, WorkerSide, Exchange, ExeEnd, WorkerEnd, Quiet,
                OpenExchange, GoneExchange, ByeExchange
  <2>3. QED
    BY <2>1, <2>2
<1>2. ASSUME Inv, GameExit PROVE Inv'
  <2>1. TypeOK'
    BY <1>2, EmptyStream DEF GameExit, TypeOK
  <2>2. Ownership'
    BY <1>2 DEF GameExit, Ownership, ExeEnd
  <2>3. WorkerSide'
    BY <1>2 DEF GameExit, WorkerSide
  <2>4. ~WorkerEnd'
    BY <1>2 DEF GameExit, WorkerEnd
  <2>5. ExeEnd' /\ mtx' = NoOne => toExe' = <<>>
    BY <1>2 DEF GameExit, Exchange, ExeEnd, Quiet
  <2>6. ASSUME NEW t \in Threads, ExeEnd' PROVE GoneExchange(t)'
    <3>1. ExeEnd /\ toExe' = toExe /\ pc' = pc
      BY <1>2, <2>6 DEF GameExit, ExeEnd
    <3>2. CASE ~WorkerEnd
      BY <1>2, <3>1, <3>2 DEF Exchange, GoneExchange
    <3>3. CASE WorkerEnd
      BY <1>2, <3>1, <3>3 DEF Exchange, OpenExchange, GoneExchange, Quiet
    <3>4. QED
      BY <3>2, <3>3
  <2>7. QED
    BY <2>1, <2>2, <2>3, <2>4, <2>5, <2>6 DEF Exchange
<1>3. QED
  BY <1>1, <1>2

(* Exchange, seen from the worker: while it serves a connection it is       *)
(* serving the owner of the mutex, a thread or main.                       *)
LEMMA Owner ==
    ASSUME Inv, ExeEnd
    PROVE  \/ mtx = NoOne
           \/ mtx = Main
           \/ mtx \in Threads /\ pc[mtx] \in Busy
BY DEF Inv, IInv, TypeOK, Ownership

(* A thread outside its call constrains nothing. *)
LEMMA NotOwner ==
    ASSUME Inv, NEW t \in Threads, t # mtx
    PROVE  pc[t] \notin Busy
BY DEF Inv, IInv, Ownership

(* The worker between two connections. *)
LEMMA WorkerEndsKeepInv == Inv /\ (WorkerCreate \/ WorkerClose) => Inv'
<1> USE DEF Inv, IInv, worker, client, main
<1>1. ASSUME Inv, WorkerCreate PROVE Inv'
  <2>1. TypeOK'
    BY <1>1 DEF WorkerCreate, TypeOK
  <2>2. Ownership'
    BY <1>1 DEF WorkerCreate, Ownership, ExeEnd
  <2>3. WorkerSide' /\ ~ExeEnd'
    BY <1>1 DEF WorkerCreate, WorkerSide, ExeEnd
  <2>4. QED
    BY <2>1, <2>2, <2>3 DEF Exchange
<1>2. ASSUME Inv, WorkerClose PROVE Inv'
  <2>1. TypeOK'
    BY <1>2, EmptyStream DEF WorkerClose, TypeOK
  <2>2. Ownership'
    BY <1>2 DEF WorkerClose, Ownership, ExeEnd
  <2>3. WorkerSide'
    BY <1>2 DEF WorkerClose, WorkerSide
  <2>4. ~WorkerEnd' /\ toExe' = <<>>
    BY <1>2 DEF WorkerClose, WorkerEnd
  <2>5. QED
    BY <2>1, <2>2, <2>3, <2>4 DEF Exchange, GoneExchange
<1>3. QED
  BY <1>1, <1>2

(* The worker reads: a header, then the name of MODULE_BASE. *)
LEMMA WorkerReadsKeepInv == Inv /\ (WorkerRequest \/ WorkerName) => Inv'
<1> USE DEF Inv, IInv, worker, client, main
<1>1. ASSUME Inv, WorkerRequest PROVE Inv'
  <2>1. CASE toWorker = <<>> /\ ~ExeEnd
    <3>1. TypeOK'
      BY <1>1, <2>1 DEF WorkerRequest, TypeOK
    <3>2. Ownership' /\ ~ExeEnd'
      BY <1>1, <2>1 DEF WorkerRequest, Ownership, ExeEnd
    <3>3. WorkerSide'
      BY <1>1, <2>1 DEF WorkerRequest, WorkerSide
    <3>4. QED
      BY <3>1, <3>2, <3>3 DEF Exchange
  <2>2. ASSUME NEW r \in Requests \cup {ShutdownRequest}, toWorker = <<Hdr(r)>>
        PROVE  Inv'
    <3>1. /\ toWorker' = <<>>
          /\ wreq' = [op |-> Hdr(r).op, arg |-> Hdr(r).arg]
          /\ wpc' = IF r.op = "module" THEN "name" ELSE "perform"
          /\ wpc = "serve"
          /\ UNCHANGED <<mem, wbuf, toExe, handle, mtx, pc, req, ret, mpc, pipe_ok>>
      BY <1>1, <2>2, StreamRead, Kinds DEF WorkerRequest
    <3>2. /\ wreq' \in Requests \cup {ShutdownRequest}
          /\ wreq'.op = r.op
          /\ wreq' = ShutdownRequest <=> r = ShutdownRequest
      BY <3>1, HdrRequest, Kinds
    <3>3. TypeOK'
      BY <1>1, <3>1, <3>2, EmptyStream DEF TypeOK
    <3>4. Ownership'
      BY <1>1, <3>1 DEF Ownership, ExeEnd
    <3>5. WorkerSide'
      BY <1>1, <3>1, <3>2, HdrRequest DEF WorkerSide
    <3>6. ASSUME ExeEnd PROVE mtx # NoOne /\ WorkerEnd'
      BY <1>1, <2>2, <3>1, <3>6, StreamRead DEF Exchange, WorkerEnd, Quiet
    <3>7. ASSUME ExeEnd, mtx = Main PROVE ByeExchange'
      BY <1>1, <2>2, <3>1, <3>2, <3>7, StreamRead, StreamEqual, Kinds, HdrRequest
      DEF Exchange, WorkerEnd, ByeExchange
    <3>8. ASSUME ExeEnd, NEW t \in Threads PROVE OpenExchange(t)'
      <4>1. OpenExchange(t)
        BY <1>1, <3>1, <3>8 DEF Exchange, WorkerEnd
      <4>2. CASE pc[t] = "sendHdr"
        BY <2>2, <4>1, <4>2, StreamRead DEF OpenExchange, Quiet
      <4>3. CASE pc[t] = "sendName"
        BY <1>1, <2>2, <3>1, <4>1, <4>3, StreamRead, StreamEqual, Kinds
        DEF OpenExchange, Ownership
      <4>4. CASE pc[t] = "recvHdr"
        <5>1. /\ toExe = <<>>
              /\ req[t].op # "module"
              /\ toWorker = <<Hdr(req[t])>>
              /\ req[t] \in Requests
          BY <1>1, <2>2, <3>1, <4>1, <4>4, StreamRead, StreamEqual
          DEF OpenExchange, Ownership, Busy
        <5>2. r # ShutdownRequest
          BY <2>2, <5>1, StreamEqual, Kinds, HdrRequest DEF Requests
        <5>3. QED
          <6>1. r = req[t]
            BY <2>2, <5>1, <5>2, StreamEqual, Kinds, HdrRequest DEF Hdr
          <6>2. r.op # "module" /\ wreq' = req[t]
            BY <3>1, <5>1, <6>1, HdrRequest
          <6>3. QED
            BY <3>1, <4>4, <5>1, <6>2 DEF OpenExchange
      <4>5. CASE pc[t] = "recvPayload"
        BY <2>2, <3>1, <4>1, <4>5, StreamRead DEF OpenExchange
      <4>6. CASE pc[t] \notin Busy
        BY <3>1, <4>6 DEF OpenExchange, Busy
      <4>7. QED
        BY <4>2, <4>3, <4>4, <4>5, <4>6 DEF Busy
    <3>9. Exchange'
      BY <3>1, <3>6, <3>7, <3>8 DEF Exchange, ExeEnd
    <3>10. QED
      BY <3>3, <3>4, <3>5, <3>9
  <2>3. ASSUME NEW r \in Requests, r.op = "module", toWorker = <<Hdr(r), Name(r.arg)>>
        PROVE  Inv'
    <3>1. /\ toWorker' = <<Name(r.arg)>>
          /\ wreq' = [op |-> Hdr(r).op, arg |-> Hdr(r).arg]
          /\ wpc' = "name"
          /\ wpc = "serve"
          /\ UNCHANGED <<mem, wbuf, toExe, handle, mtx, pc, req, ret, mpc, pipe_ok>>
      BY <1>1, <2>3, StreamRead, Kinds DEF WorkerRequest
    <3>2. wreq' \in Requests /\ wreq'.op = "module"
      BY <2>3, <3>1, HdrRequest, Kinds
    <3>3. r.arg \in Loaded \cup NotLoaded \cup {BadArg}
      BY <2>3 DEF Requests
    <3>4. TypeOK'
      <4>1. toWorker' \in Seq(WorkerInput)
        BY <1>1, <2>3, <3>1, StreamRead DEF TypeOK
      <4>2. QED
        BY <1>1, <3>1, <3>2, <4>1 DEF TypeOK
    <3>5. Ownership'
      BY <1>1, <3>1 DEF Ownership, ExeEnd
    <3>6. WorkerSide'
      BY <1>1, <3>1, <3>2, <3>3 DEF WorkerSide
    <3>7. ASSUME ExeEnd PROVE mtx # NoOne /\ mtx # Main /\ WorkerEnd'
      BY <1>1, <2>3, <3>1, <3>7, StreamRead, StreamEqual DEF Exchange, WorkerEnd, Quiet, ByeExchange
    <3>8. ASSUME ExeEnd, NEW t \in Threads PROVE OpenExchange(t)'
      <4>1. OpenExchange(t)
        BY <1>1, <3>1, <3>8 DEF Exchange, WorkerEnd
      <4>2. CASE pc[t] = "recvHdr"
        BY <2>3, <3>1, <4>1, <4>2, StreamRead, StreamEqual DEF OpenExchange
      <4>3. CASE pc[t] # "recvHdr"
        BY <2>3, <3>1, <4>1, <4>3, StreamRead, StreamEqual DEF OpenExchange, Quiet
      <4>4. QED
        BY <4>2, <4>3
    <3>9. Exchange'
      BY <3>1, <3>7, <3>8 DEF Exchange, ExeEnd
    <3>10. QED
      BY <3>4, <3>5, <3>6, <3>9
  <2>4. QED
    BY <1>1, <2>1, <2>2, <2>3 DEF WorkerRequest, WorkerSide
<1>2. ASSUME Inv, WorkerName PROVE Inv'
  <2>1. CASE toWorker = <<>> /\ ~ExeEnd
    <3>1. TypeOK'
      BY <1>2, <2>1 DEF WorkerName, TypeOK
    <3>2. Ownership' /\ ~ExeEnd'
      BY <1>2, <2>1 DEF WorkerName, Ownership, ExeEnd
    <3>3. WorkerSide'
      BY <1>2, <2>1 DEF WorkerName, WorkerSide
    <3>4. QED
      BY <3>1, <3>2, <3>3 DEF Exchange
  <2>2. ASSUME NEW n \in Loaded \cup NotLoaded \cup {BadArg}, toWorker = <<Name(n)>>
        PROVE  Inv'
    <3>1. /\ toWorker' = <<>>
          /\ wreq' = [op |-> wreq.op, arg |-> n]
          /\ wpc' = "perform"
          /\ wpc = "name"
          /\ UNCHANGED <<mem, wbuf, toExe, handle, mtx, pc, req, ret, mpc, pipe_ok>>
      BY <1>2, <2>2, StreamRead, Kinds DEF WorkerName
    <3>2. wreq' \in Requests /\ wreq' # ShutdownRequest
      BY <1>2, <3>1, HdrRequest DEF WorkerSide, Requests
    <3>3. TypeOK'
      BY <1>2, <3>1, <3>2, EmptyStream DEF TypeOK
    <3>4. Ownership'
      BY <1>2, <3>1 DEF Ownership, ExeEnd
    <3>5. WorkerSide'
      BY <1>2, <3>1, <3>2 DEF WorkerSide
    <3>6. ASSUME ExeEnd PROVE mtx # NoOne /\ mtx # Main /\ WorkerEnd'
      BY <1>2, <3>1, <3>6 DEF Exchange, WorkerEnd, Quiet, ByeExchange
    <3>7. ASSUME ExeEnd, NEW t \in Threads PROVE OpenExchange(t)'
      <4>1. OpenExchange(t)
        BY <1>2, <3>1, <3>7 DEF Exchange, WorkerEnd
      <4>2. CASE pc[t] = "recvHdr"
        <5>1. /\ toExe = <<>> /\ n = req[t].arg
              /\ req[t] \in Requests /\ wreq.op = "module"
          BY <1>2, <2>2, <3>1, <3>7, <4>1, <4>2, StreamEqual, StreamRead, Kinds
          DEF OpenExchange, Ownership, WorkerSide, Busy
        <5>2. req[t].op = "module" /\ wreq' = req[t]
          BY <1>2, <3>1, <4>1, <4>2, <5>1, HdrRequest DEF OpenExchange
        <5>3. QED
          BY <3>1, <4>2, <5>1, <5>2 DEF OpenExchange
      <4>3. CASE pc[t] # "recvHdr"
        BY <2>2, <3>1, <4>1, <4>3, StreamRead DEF OpenExchange, Quiet
      <4>4. QED
        BY <4>2, <4>3
    <3>8. Exchange'
      BY <3>1, <3>6, <3>7 DEF Exchange, ExeEnd
    <3>9. QED
      BY <3>3, <3>4, <3>5, <3>8
  <2>3. QED
    BY <1>2, <2>1, <2>2 DEF WorkerName, WorkerSide
<1>3. QED
  BY <1>1, <1>2

(* The worker answers: it looks, then writes a header and maybe a payload. *)
LEMMA WorkerAnswersKeepInv == Inv /\ (WorkerPerform \/ WorkerHeader \/ WorkerPayload) => Inv'
<1> USE DEF Inv, IInv, worker, client, main
<1>1. ASSUME Inv, WorkerPerform PROVE Inv'
  <2>1. wreq \in Requests \cup {ShutdownRequest} /\ wbuf' \in Answers \cup {Failure}
    BY <1>1, AnswerType DEF WorkerPerform, WorkerSide, TypeOK
  <2>2. TypeOK'
    BY <1>1, <2>1 DEF WorkerPerform, TypeOK, Answers
  <2>3. Ownership'
    BY <1>1 DEF WorkerPerform, Ownership, ExeEnd
  <2>4. WorkerSide'
    BY <1>1, <2>1 DEF WorkerPerform, WorkerSide
  <2>5. Exchange'
    BY <1>1 DEF WorkerPerform, Exchange, ExeEnd, WorkerEnd, Quiet, OpenExchange, ByeExchange
  <2>6. QED
    BY <2>2, <2>3, <2>4, <2>5
<1>2. ASSUME Inv, WorkerHeader PROVE Inv'
  <2>1. /\ wreq \in Requests \cup {ShutdownRequest}
        /\ wbuf \in Answers \cup {Failure}
        /\ toWorker = <<>>
    BY <1>2 DEF WorkerHeader, WorkerSide
  <2>2. Status(wreq, wbuf) \in {"OK", "SEH", "BAD_ARGS"}
    BY DEF Status
  <2>3. TypeOK'
    <3>1. Header(Status(wreq, wbuf)) \in ExeInput
      BY <2>2 DEF Header, ExeInput
    <3>2. toExe' \in Seq(ExeInput)
      BY <1>2, <3>1 DEF WorkerHeader, TypeOK
    <3>3. QED
      BY <1>2, <3>2 DEF WorkerHeader, TypeOK
  <2>4. Ownership'
    BY <1>2 DEF WorkerHeader, Ownership, ExeEnd
  <2>5. WorkerSide'
    BY <1>2, <2>1 DEF WorkerHeader, WorkerSide
  <2>6. ASSUME ExeEnd PROVE mtx # NoOne /\ toExe = <<>> /\ WorkerEnd'
    <3>1. mtx # NoOne /\ WorkerEnd /\ WorkerEnd'
      BY <1>2, <2>6 DEF WorkerHeader, Exchange, WorkerEnd, Quiet
    <3>2. mtx = Main => toExe = <<>>
      BY <1>2, <2>6, <3>1 DEF WorkerHeader, Exchange, ByeExchange
    <3>3. ASSUME mtx \in Threads PROVE toExe = <<>>
      <4>1. pc[mtx] \in Busy /\ OpenExchange(mtx)
        BY <1>2, <2>6, <3>1, <3>3 DEF Exchange, Ownership
      <4>2. QED
        BY <1>2, <4>1 DEF WorkerHeader, OpenExchange, Busy, Quiet
    <3>4. QED
      BY <1>2, <3>1, <3>2, <3>3 DEF TypeOK
  <2>7. ASSUME ExeEnd, mtx = Main PROVE ByeExchange'
    BY <1>2, <2>7 DEF WorkerHeader, Exchange, WorkerEnd, ByeExchange
  <2>8. ASSUME ExeEnd, NEW t \in Threads PROVE OpenExchange(t)'
    <3>1. OpenExchange(t) /\ toExe = <<>>
      BY <1>2, <2>6, <2>8 DEF WorkerHeader, Exchange, WorkerEnd
    <3>2. toExe' = <<Header(Status(wreq, wbuf))>>
      BY <1>2, <2>8, <3>1, StreamWrite DEF WorkerHeader
    <3>3. CASE pc[t] = "recvHdr"
      <4>1. wreq # ShutdownRequest
        BY <1>2, <2>8, <3>1, <3>3, HdrRequest
        DEF WorkerHeader, OpenExchange, Ownership, Busy
      <4>2. CASE wbuf = Failure
        <5>1. Status(wreq, wbuf) \in {"SEH", "BAD_ARGS"} /\ wpc' = "serve"
          BY <1>2, <4>1, <4>2 DEF WorkerHeader, Status
        <5>2. QED
          BY <1>2, <2>1, <3>2, <3>3, <5>1 DEF WorkerHeader, OpenExchange
      <4>3. CASE wbuf # Failure
        <5>1. Status(wreq, wbuf) = "OK" /\ wpc' = "payload"
          BY <1>2, <4>1, <4>3 DEF WorkerHeader, Status
        <5>2. QED
          BY <1>2, <3>2, <3>3, <5>1 DEF WorkerHeader, OpenExchange
      <4>4. QED
        BY <4>2, <4>3
    <3>4. CASE pc[t] # "recvHdr"
      BY <1>2, <3>1, <3>4 DEF WorkerHeader, OpenExchange, Quiet
    <3>5. QED
      BY <3>3, <3>4
  <2>9. Exchange'
    BY <1>2, <2>6, <2>7, <2>8 DEF WorkerHeader, Exchange, ExeEnd
  <2>10. QED
    BY <2>3, <2>4, <2>5, <2>9
<1>3. ASSUME Inv, WorkerPayload PROVE Inv'
  <2>1. wbuf \in Answers /\ toWorker = <<>>
    BY <1>3 DEF WorkerPayload, WorkerSide
  <2>2. TypeOK'
    <3>1. Payload(wbuf) \in ExeInput
      BY <2>1 DEF Payload, ExeInput, Answers
    <3>2. toExe' \in Seq(ExeInput)
      BY <1>3, <3>1 DEF WorkerPayload, TypeOK
    <3>3. QED
      BY <1>3, <3>2 DEF WorkerPayload, TypeOK
  <2>3. Ownership'
    BY <1>3 DEF WorkerPayload, Ownership, ExeEnd
  <2>4. WorkerSide'
    BY <1>3, <2>1 DEF WorkerPayload, WorkerSide
  <2>5. ASSUME ExeEnd PROVE mtx # NoOne /\ mtx # Main /\ WorkerEnd'
    BY <1>3, <2>5 DEF WorkerPayload, Exchange, WorkerEnd, Quiet, ByeExchange
  <2>6. ASSUME ExeEnd, NEW t \in Threads PROVE OpenExchange(t)'
    <3>1. OpenExchange(t)
      BY <1>3, <2>6 DEF WorkerPayload, Exchange, WorkerEnd
    <3>2. CASE pc[t] = "recvHdr"
      <4>1. toExe' = <<Header("OK"), Payload(wbuf)>>
        BY <1>3, <2>6, <3>1, <3>2, StreamWrite DEF WorkerPayload, OpenExchange
      <4>2. QED
        BY <1>3, <2>1, <3>2, <4>1 DEF WorkerPayload, OpenExchange
    <3>3. CASE pc[t] = "recvPayload"
      <4>1. toExe' = <<Payload(wbuf)>>
        BY <1>3, <2>6, <3>1, <3>3, StreamWrite DEF WorkerPayload, OpenExchange
      <4>2. QED
        BY <1>3, <2>1, <3>3, <4>1 DEF WorkerPayload, OpenExchange
    <3>4. CASE pc[t] \notin {"recvHdr", "recvPayload"}
      BY <1>3, <3>1, <3>4 DEF WorkerPayload, OpenExchange, Quiet
    <3>5. QED
      BY <3>2, <3>3, <3>4
  <2>7. Exchange'
    BY <1>3, <2>5, <2>6 DEF WorkerPayload, Exchange, ExeEnd
  <2>8. QED
    BY <2>2, <2>3, <2>4, <2>7
<1>4. QED
  BY <1>1, <1>2, <1>3

(* The threads: taking the mutex, or failing at once, and being idle. *)
LEMMA ThreadStartsKeepInv ==
    ASSUME NEW t \in Threads
    PROVE  Inv /\ (Call(t) \/ Acquire(t) \/ Stop(t)) => Inv'
<1> USE DEF Inv, IInv, worker, client, main
<1>1. ASSUME Inv, Call(t) PROVE Inv'
  <2>1. TypeOK'
    BY <1>1 DEF Call, TypeOK
  <2>2. pc[t] = "idle" /\ pc' = [pc EXCEPT ![t] = "lock"] /\ req'[t] \in Requests
    BY <1>1 DEF Call, TypeOK
  <2>3. /\ \A u \in Threads : u # t => pc'[u] = pc[u] /\ req'[u] = req[u]
        /\ pc'[t] = "lock" /\ mpc \in {"run", "stop"}
    BY <1>1, <2>2 DEF Call, TypeOK, Ownership
  <2>4. Ownership'
    BY <1>1, <2>2, <2>3 DEF Call, Ownership, ExeEnd, Busy
  <2>5. WorkerSide'
    BY <1>1 DEF Call, WorkerSide
  <2>6. Exchange'
    BY <1>1, <2>2, <2>3
    DEF Call, Exchange, ExeEnd, WorkerEnd, Quiet, OpenExchange, GoneExchange, ByeExchange
  <2>7. QED
    BY <2>1, <2>4, <2>5, <2>6
<1>2. ASSUME Inv, Acquire(t) PROVE Inv'
  <2>1. /\ pc[t] = "lock" /\ mtx = NoOne
        /\ \A u \in Threads : u # t => pc'[u] = pc[u]
        /\ pc'[t] \in {"idle", "sendHdr"} /\ mpc \in {"run", "stop"}
        /\ mtx' = IF pc'[t] = "idle" THEN NoOne ELSE t
        /\ pc'[t] = "sendHdr" => ExeEnd
        /\ UNCHANGED <<handle, req, mpc, pipe_ok>> /\ mtx' \in Threads \cup {NoOne}
    BY <1>2, PipeAssumption DEF Acquire, Finish, TypeOK, Ownership, ExeEnd
  <2>2. TypeOK'
    BY <1>2 DEF Acquire, Finish, TypeOK
  <2>3. Ownership'
    <3>1. ASSUME NEW u \in Threads
          PROVE  /\ (pc'[u] \in Busy) <=> (mtx' = u)
                 /\ pc'[u] \in Busy \cup {"lock"} => req[u] \in Requests
                 /\ pc'[u] = "sendName" => req[u].op = "module"
      BY <1>2, <2>1, PipeAssumption DEF Ownership, Busy
    <3>2. QED
      BY <1>2, <2>1, <3>1, PipeAssumption DEF Ownership, ExeEnd
  <2>4. WorkerSide'
    BY <1>2 DEF Acquire, WorkerSide
  <2>5. \A u \in Threads : pc[u] \notin Busy
    BY <1>2, <2>1, PipeAssumption DEF Ownership
  <2>6. ASSUME NEW u \in Threads, ExeEnd
        PROVE  (WorkerEnd => OpenExchange(u)') /\ (~WorkerEnd => GoneExchange(u)')
    BY <1>2, <2>1, <2>5, <2>6
    DEF Acquire, Exchange, OpenExchange, GoneExchange, Quiet, Busy
  <2>7. Exchange'
    BY <1>2, <2>1, <2>6, PipeAssumption
    DEF Acquire, Exchange, ExeEnd, WorkerEnd, Quiet
  <2>8. QED
    BY <2>2, <2>3, <2>4, <2>7
<1>3. ASSUME Inv, Stop(t) PROVE Inv'
  <2>1. /\ \A u \in Threads : u # t => pc'[u] = pc[u]
        /\ pc'[t] = "off" /\ pc[t] = "idle"
    BY <1>3 DEF Stop, TypeOK
  <2>2. TypeOK'
    BY <1>3 DEF Stop, TypeOK
  <2>3. Ownership' /\ WorkerSide'
    BY <1>3, <2>1 DEF Stop, Ownership, WorkerSide, ExeEnd, Busy
  <2>4. Exchange'
    BY <1>3, <2>1
    DEF Stop, Exchange, ExeEnd, WorkerEnd, Quiet, OpenExchange, GoneExchange, ByeExchange
  <2>5. QED
    BY <2>2, <2>3, <2>4
<1>4. QED
  BY <1>1, <1>2, <1>3

(* A call that ends gives up the mutex; nobody else was inside a call. *)
LEMMA FinishOwnership ==
    ASSUME Inv, NEW t \in Threads, mtx = t, NEW v, Finish(t, v),
           UNCHANGED <<handle, req, mpc, pipe_ok>>
    PROVE  /\ Ownership'
           /\ mtx' = NoOne
           /\ \A u \in Threads : pc'[u] \notin Busy
<1> USE DEF Inv, IInv
<1>1. /\ pc'[t] = "idle" /\ mtx' = NoOne /\ mpc \in {"run", "stop"}
      /\ \A u \in Threads : u # t => pc'[u] = pc[u] /\ pc[u] \notin Busy
  BY PipeAssumption DEF Finish, TypeOK, Ownership, Busy
<1>2. QED
  BY <1>1, PipeAssumption DEF TypeOK, Ownership, ExeEnd, Busy

(* Failing because the worker is gone leaves nothing behind that a later    *)
(* call could misread: a dead stream that is read to its end stays so.      *)
LEMMA FinishExchange ==
    ASSUME Inv, NEW t \in Threads, mtx = t, NEW v, Finish(t, v),
           UNCHANGED <<handle, req, mpc, pipe_ok>>,
           IF WorkerEnd' THEN Quiet' ELSE toExe' = <<>>
    PROVE  Exchange'
BY FinishOwnership, PipeAssumption
DEF Exchange, OpenExchange, GoneExchange, Quiet, Busy

(* A thread sends: its request is now in the stream, or the worker is gone. *)
LEMMA ThreadSendsKeepInv ==
    ASSUME NEW t \in Threads
    PROVE  Inv /\ (SendHdr(t) \/ SendName(t)) => Inv'
<1> USE DEF Inv, IInv, worker, client, main
<1>1. ASSUME Inv, pc[t] \in {"sendHdr", "sendName"}
      PROVE  /\ mtx = t /\ ExeEnd /\ req[t] \in Requests
             /\ toExe = <<>>
             /\ mpc \in {"run", "stop"}
             /\ \A u \in Threads : u # t => pc[u] \notin Busy
             /\ WorkerEnd => OpenExchange(t)
  <2>1. mtx = t /\ ExeEnd /\ req[t] \in Requests /\ mpc \in {"run", "stop"}
    BY <1>1, PipeAssumption DEF Ownership, Busy
  <2>2. \A u \in Threads : u # t => pc[u] \notin Busy
    BY <1>1, <2>1 DEF Ownership
  <2>3. (WorkerEnd => OpenExchange(t)) /\ (~WorkerEnd => GoneExchange(t))
    BY <1>1, <2>1 DEF Exchange
  <2>4. toExe = <<>>
    BY <1>1, <2>3 DEF OpenExchange, GoneExchange, Quiet
  <2>5. QED
    BY <2>1, <2>2, <2>3, <2>4
<1>2. ASSUME Inv, pc[t] \in {"sendHdr", "sendName"}, ~WorkerEnd, Finish(t, Failure),
             UNCHANGED <<mem, worker, toWorker, toExe, handle, req, main>>
      PROVE  Inv'
  <2>1. TypeOK'
    BY <1>2 DEF Finish, TypeOK
  <2>2. Ownership'
    BY <1>1, <1>2, FinishOwnership
  <2>3. ~WorkerEnd' /\ WorkerSide'
    BY <1>2 DEF WorkerSide, WorkerEnd
  <2>4. Exchange'
    BY <1>1, <1>2, <2>3, FinishExchange
  <2>5. QED
    BY <2>1, <2>2, <2>3, <2>4
<1>3. ASSUME Inv, SendHdr(t) PROVE Inv'
  <2>1. CASE ~WorkerEnd
    BY <1>2, <1>3, <2>1 DEF SendHdr
  <2>2. CASE WorkerEnd
    <3>1. /\ wpc = "serve" /\ toWorker = <<>> /\ toExe = <<>> /\ mtx = t /\ ExeEnd
          /\ req[t] \in Requests /\ mpc \in {"run", "stop"}
      BY <1>1, <1>3, <2>2 DEF SendHdr, OpenExchange, Quiet
    <3>2. /\ toWorker' = <<Hdr(req[t])>>
          /\ pc'[t] = IF req[t].op = "module" THEN "sendName" ELSE "recvHdr"
          /\ \A u \in Threads : u # t => pc'[u] = pc[u] /\ pc'[u] \notin Busy
          /\ UNCHANGED <<mem, worker, toExe, handle, mtx, req, ret, main>>
      BY <1>1, <1>3, <2>2, <3>1, StreamWrite DEF SendHdr, TypeOK
    <3>3. Hdr(req[t]) \in WorkerInput
      BY <3>1 DEF Hdr, WorkerInput, Requests
    <3>4. TypeOK'
      <4>1. toWorker' \in Seq(WorkerInput)
        BY <3>2, <3>3
      <4>2. pc' \in [Threads -> {"off", "idle", "lock", "sendHdr", "sendName", "recvHdr",
                                 "recvPayload"}]
        BY <1>3, <2>2 DEF SendHdr, TypeOK
      <4>3. QED
        BY <1>3, <3>2, <4>1, <4>2 DEF TypeOK
    <3>5. Ownership'
      BY <1>3, <3>1, <3>2, PipeAssumption DEF Ownership, ExeEnd, Busy
    <3>6. WorkerSide'
      BY <1>3, <3>1, <3>2 DEF WorkerSide
    <3>7. Exchange'
      BY <3>1, <3>2, PipeAssumption
      DEF Exchange, WorkerEnd, OpenExchange, Busy
    <3>8. QED
      BY <3>4, <3>5, <3>6, <3>7
  <2>3. QED
    BY <2>1, <2>2
<1>4. ASSUME Inv, SendName(t) PROVE Inv'
  <2>1. CASE ~WorkerEnd
    BY <1>2, <1>4, <2>1 DEF SendName
  <2>2. CASE WorkerEnd
    <3>1. /\ toExe = <<>> /\ mtx = t /\ ExeEnd
          /\ req[t] \in Requests /\ req[t].op = "module" /\ mpc \in {"run", "stop"}
          /\ \/ wpc = "serve" /\ toWorker = <<Hdr(req[t])>>
             \/ wpc = "name" /\ toWorker = <<>>
      BY <1>1, <1>4, <2>2 DEF SendName, OpenExchange, Ownership
    <3>2. /\ toWorker' = IF wpc = "serve" THEN <<Hdr(req[t]), Name(req[t].arg)>>
                         ELSE <<Name(req[t].arg)>>
          /\ pc'[t] = "recvHdr"
          /\ \A u \in Threads : u # t => pc'[u] = pc[u] /\ pc'[u] \notin Busy
          /\ UNCHANGED <<mem, worker, toExe, handle, mtx, req, ret, main>>
      BY <1>1, <1>4, <2>2, <3>1, StreamWrite DEF SendName, TypeOK
    <3>3. req[t].arg \in Loaded \cup NotLoaded \cup {BadArg}
      BY <3>1 DEF Requests
    <3>4. TypeOK'
      <4>1. Name(req[t].arg) \in WorkerInput
        BY <3>3 DEF Name, WorkerInput
      <4>2. toWorker' \in Seq(WorkerInput)
        BY <1>4, <2>2, <4>1 DEF SendName, TypeOK
      <4>3. pc' \in [Threads -> {"off", "idle", "lock", "sendHdr", "sendName", "recvHdr",
                                 "recvPayload"}]
        BY <1>4, <2>2 DEF SendName, TypeOK
      <4>4. QED
        BY <1>4, <3>2, <4>2, <4>3 DEF TypeOK
    <3>5. Ownership'
      BY <1>4, <3>1, <3>2, PipeAssumption DEF Ownership, ExeEnd, Busy
    <3>6. WorkerSide'
      BY <1>4, <3>1, <3>2, <3>3 DEF WorkerSide
    <3>7. Exchange'
      BY <3>1, <3>2, PipeAssumption
      DEF Exchange, WorkerEnd, OpenExchange, Busy
    <3>8. QED
      BY <3>4, <3>5, <3>6, <3>7
  <2>3. QED
    BY <2>1, <2>2
<1>5. QED
  BY <1>3, <1>4

(* A thread receives: a header, then the payload that a header announced. *)
LEMMA ThreadReceivesKeepInv ==
    ASSUME NEW t \in Threads
    PROVE  Inv /\ (RecvHdr(t) \/ RecvPayload(t)) => Inv'
<1> USE DEF Inv, IInv, worker, client, main
<1>1. ASSUME Inv, pc[t] \in {"recvHdr", "recvPayload"}
      PROVE  /\ mtx = t /\ ExeEnd /\ req[t] \in Requests
             /\ mpc \in {"run", "stop"}
             /\ \A u \in Threads : u # t => pc[u] \notin Busy
             /\ WorkerEnd => OpenExchange(t)
             /\ ~WorkerEnd => GoneExchange(t)
  <2>1. mtx = t /\ ExeEnd /\ req[t] \in Requests /\ mpc \in {"run", "stop"}
    BY <1>1, PipeAssumption DEF Ownership, Busy
  <2>2. \A u \in Threads : u # t => pc[u] \notin Busy
    BY <1>1, <2>1 DEF Ownership
  <2>3. QED
    BY <1>1, <2>1, <2>2 DEF Exchange
<1>2. ASSUME Inv, pc[t] \in {"recvHdr", "recvPayload"},
             NEW v \in Answers \cup {Failure}, Finish(t, v),
             UNCHANGED <<mem, worker, toWorker, handle, req, main>>,
             toExe' = <<>>, WorkerEnd => Quiet'
      PROVE  Inv'
  <2>1. TypeOK'
    BY <1>2, EmptyStream DEF Finish, TypeOK, Answers
  <2>2. Ownership'
    BY <1>1, <1>2, FinishOwnership
  <2>3. WorkerEnd' = WorkerEnd /\ WorkerSide'
    BY <1>2 DEF WorkerSide, WorkerEnd
  <2>4. Exchange'
    BY <1>1, <1>2, <2>3, FinishExchange
  <2>5. QED
    BY <2>1, <2>2, <2>3, <2>4
<1>3. ASSUME Inv, RecvHdr(t) PROVE Inv'
  <2>1. CASE toExe = <<>> /\ ~WorkerEnd
    BY <1>2, <1>3, <2>1 DEF RecvHdr
  <2>2. ASSUME NEW st \in {"SEH", "BAD_ARGS"}, toExe = <<Header(st)>> PROVE Inv'
    <3>1. toExe' = <<>> /\ Finish(t, Failure)
      BY <1>3, <2>2, StreamRead, Kinds DEF RecvHdr
    <3>2. WorkerEnd => Quiet'
      BY <1>1, <1>3, <2>2, <3>1, StreamRead, StreamEqual, Kinds DEF RecvHdr, OpenExchange, Quiet
    <3>3. QED
      BY <1>2, <1>3, <3>1, <3>2 DEF RecvHdr
  <2>3. ASSUME toExe = <<Header("OK")>> \/ \E v \in Answers : toExe = <<Header("OK"), Payload(v)>>
        PROVE  Inv'
    <3>1. /\ \/ toExe = <<Header("OK")>> /\ toExe' = <<>>
             \/ \E v \in Answers : /\ toExe = <<Header("OK"), Payload(v)>>
                                   /\ toExe' = <<Payload(v)>>
          /\ pc'[t] = "recvPayload"
          /\ \A u \in Threads : u # t => pc'[u] = pc[u] /\ pc'[u] \notin Busy
          /\ UNCHANGED <<mem, worker, toWorker, handle, mtx, req, ret, main>>
          /\ mtx = t /\ ExeEnd /\ req[t] \in Requests /\ mpc \in {"run", "stop"}
      <4>1. toExe # <<>> /\ Head(toExe).status = "OK"
        BY <2>3, StreamRead, Kinds
      <4>2. /\ pc' = [pc EXCEPT ![t] = "recvPayload"]
            /\ toExe' = Tail(toExe)
            /\ UNCHANGED <<mem, worker, toWorker, handle, mtx, req, ret, main>>
        BY <1>3, <4>1 DEF RecvHdr
      <4>3. /\ mtx = t /\ ExeEnd /\ req[t] \in Requests /\ mpc \in {"run", "stop"}
            /\ \A u \in Threads : u # t => pc[u] \notin Busy
        BY <1>1, <1>3 DEF RecvHdr
      <4>4. /\ pc'[t] = "recvPayload"
            /\ \A u \in Threads : u # t => pc'[u] = pc[u] /\ pc'[u] \notin Busy
        BY <1>3, <4>2, <4>3 DEF TypeOK
      <4>5. QED
        BY <2>3, <4>2, <4>3, <4>4, StreamRead
    <3>2. TypeOK'
      <4>1. toExe' \in Seq(ExeInput)
        BY <1>3, <2>3, StreamRead DEF RecvHdr, TypeOK
      <4>2. pc' \in [Threads -> {"off", "idle", "lock", "sendHdr", "sendName", "recvHdr",
                                 "recvPayload"}]
        <5>1. toExe # <<>> /\ Head(toExe).status = "OK"
          BY <2>3, StreamRead, Kinds
        <5>2. QED
          BY <1>3, <5>1 DEF RecvHdr, TypeOK
      <4>3. QED
        BY <1>3, <3>1, <4>1, <4>2 DEF TypeOK
    <3>3. Ownership'
      BY <1>1, <1>3, <3>1, PipeAssumption DEF Ownership, ExeEnd, Busy
    <3>4. WorkerSide'
      <4>1. wpc \notin {"create", "listen"}
        BY <1>3, <2>3, StreamRead DEF WorkerSide
      <4>2. QED
        BY <1>3, <3>1, <4>1 DEF WorkerSide
    <3>5. ASSUME WorkerEnd PROVE OpenExchange(t)'
      <4>1. \/ wpc = "payload" /\ toExe = <<Header("OK")>>
            \/ /\ wpc = "serve" /\ toWorker = <<>>
               /\ \E v \in Answers : toExe = <<Header("OK"), Payload(v)>>
        BY <1>1, <1>3, <2>3, <3>5, StreamRead, StreamEqual, Kinds DEF RecvHdr, OpenExchange
      <4>2. QED
        BY <3>1, <4>1, StreamEqual DEF OpenExchange
    <3>6. GoneExchange(t)'
      BY <3>1 DEF GoneExchange
    <3>7. Exchange'
      BY <1>1, <1>3, <3>1, <3>5, <3>6, PipeAssumption
      DEF RecvHdr, Exchange, WorkerEnd, OpenExchange, GoneExchange, Busy
    <3>8. QED
      BY <3>2, <3>3, <3>4, <3>7
  <2>4. QED
    BY <1>1, <1>3, <2>1, <2>2, <2>3 DEF RecvHdr, OpenExchange, GoneExchange
<1>4. ASSUME Inv, RecvPayload(t) PROVE Inv'
  <2>1. CASE toExe = <<>> /\ ~WorkerEnd
    BY <1>2, <1>4, <2>1 DEF RecvPayload
  <2>2. ASSUME NEW v \in Answers, toExe = <<Payload(v)>> PROVE Inv'
    <3>1. toExe' = <<>> /\ Finish(t, v)
      BY <1>4, <2>2, StreamRead, Kinds DEF RecvPayload
    <3>2. WorkerEnd => Quiet'
      BY <1>1, <1>4, <2>2, <3>1, StreamRead DEF RecvPayload, OpenExchange, Quiet
    <3>3. QED
      BY <1>2, <1>4, <2>2, <3>1, <3>2 DEF RecvPayload
  <2>3. QED
    BY <1>1, <1>4, <2>1, <2>2 DEF RecvPayload, OpenExchange, GoneExchange
<1>5. QED
  BY <1>3, <1>4

(* The main thread, until the shutdown: no thread is inside a call when it  *)
(* opens the pipe or has joined them.                                      *)
LEMMA MainRunsKeepInv == Inv /\ (Connect \/ Setup \/ Poll \/ CtrlC \/ Joined) => Inv'
<1> USE DEF Inv, IInv, worker, client, main
<1>1. ASSUME Inv, Connect PROVE Inv'
  <2>1. TypeOK'
    BY <1>1 DEF Connect, TypeOK
  <2>2. handle = "none" /\ mtx = NoOne /\ \A t \in Threads : pc[t] = "off"
    BY <1>1, PipeAssumption DEF Connect, TypeOK, Ownership, ExeEnd, Busy
  <2>3. Ownership'
    BY <1>1, <2>2, PipeAssumption DEF Connect, Ownership, ExeEnd, Busy
  <2>4. WorkerSide'
    BY <1>1 DEF Connect, WorkerSide
  <2>5. Exchange'
    BY <1>1, <2>2, PipeAssumption
    DEF Connect, Exchange, ExeEnd, WorkerSide, WorkerEnd, Quiet, OpenExchange, GoneExchange
  <2>6. QED
    BY <2>1, <2>3, <2>4, <2>5
<1>2. ASSUME Inv, Setup PROVE Inv'
  <2>1. TypeOK'
    BY <1>2 DEF Setup, Bye, ThreadsUp, TypeOK
  <2>2. /\ mtx = NoOne
        /\ \A t \in Threads : pc[t] = "off" /\ pc'[t] \in {"off", "idle"}
        /\ mpc' # "run" => \A t \in Threads : pc'[t] = "off"
    BY <1>2, PipeAssumption DEF Setup, ThreadsUp, Bye, TypeOK, Ownership, Busy
  <2>3. ExeEnd => pipe_ok /\ mpc' \in {"run", "sendBye"}
    BY <1>2 DEF Setup, Bye, Ownership
  <2>4. Ownership'
    BY <1>2, <2>2, <2>3, PipeAssumption DEF Setup, Bye, Ownership, ExeEnd, Busy
  <2>5. WorkerSide'
    BY <1>2 DEF Setup, WorkerSide
  <2>6. Exchange'
    BY <1>2, <2>2 DEF Setup, Exchange, ExeEnd, WorkerEnd, Quiet, OpenExchange, GoneExchange,
                      ByeExchange
  <2>7. QED
    BY <2>1, <2>4, <2>5, <2>6
<1>3. ASSUME Inv, Poll \/ CtrlC \/ Joined PROVE Inv'
  <2>1. TypeOK'
    BY <1>3 DEF Poll, CtrlC, Joined, Bye, TypeOK
  <2>2. /\ UNCHANGED <<mem, worker, toWorker, toExe, client>>
        /\ mpc \in {"run", "stop"}
        /\ mpc' = mpc \/ mpc' = "stop" \/ (mpc' = Bye /\ \A t \in Threads : pc[t] = "off")
        /\ ExeEnd <=> pipe_ok
        /\ pipe_ok' = pipe_ok
        /\ mpc' = "sendBye" => pipe_ok
        /\ mpc' = "done" => ~pipe_ok
    BY <1>3 DEF Poll, CtrlC, Joined, Bye, ExeEnd, Ownership
  <2>3. Ownership'
    BY <1>3, <2>2 DEF Bye, Ownership, ExeEnd, Busy
  <2>4. WorkerSide' /\ Exchange'
    BY <1>3, <2>2 DEF WorkerSide, Exchange, ExeEnd, WorkerEnd, Quiet, OpenExchange,
                      GoneExchange, ByeExchange
  <2>5. QED
    BY <2>1, <2>3, <2>4
<1>4. QED
  BY <1>1, <1>2, <1>3

(* The shutdown: the last request, whose end closes the handle whatever     *)
(* became of it; and the end of the exe at any other moment.               *)
LEMMA MainEndsKeepInv == Inv /\ (ShutdownSend \/ ShutdownRecv \/ ExeDies) => Inv'
<1> USE DEF Inv, IInv, worker, client, main
<1>1. ASSUME Inv, ShutdownSend PROVE Inv'
  <2>1. /\ \A t \in Threads : pc[t] = "off"
        /\ mtx = NoOne /\ mpc = "sendBye" /\ ExeEnd
    BY <1>1 DEF ShutdownSend, Ownership
  <2>2. CASE ~WorkerEnd
    <3>1. TypeOK' /\ Ownership' /\ WorkerSide'
      BY <1>1, <2>1, <2>2, PipeAssumption
      DEF ShutdownSend, TypeOK, Ownership, WorkerSide, ExeEnd, WorkerEnd, Busy
    <3>2. ~ExeEnd'
      BY <1>1, <2>2 DEF ShutdownSend, ExeEnd
    <3>3. QED
      BY <3>1, <3>2 DEF Exchange
  <2>3. CASE WorkerEnd
    <3>1. /\ wpc = "serve" /\ toWorker = <<>> /\ toExe = <<>> /\ pipe_ok
      BY <1>1, <2>1, <2>3 DEF Exchange, Quiet, Ownership
    <3>2. /\ toWorker' = <<Hdr(ShutdownRequest)>> /\ mtx' = Main /\ mpc' = "recvBye"
          /\ UNCHANGED <<mem, worker, toExe, handle, pc, req, ret, pipe_ok>>
      BY <1>1, <2>3, <3>1, StreamWrite DEF ShutdownSend
    <3>3. Hdr(ShutdownRequest) \in WorkerInput
      BY DEF Hdr, ShutdownRequest, WorkerInput
    <3>4. TypeOK'
      <4>1. toWorker' \in Seq(WorkerInput)
        BY <3>2, <3>3
      <4>2. QED
        BY <1>1, <3>2, <4>1 DEF TypeOK
    <3>5. Ownership'
      BY <1>1, <2>1, <2>3, <3>1, <3>2, PipeAssumption DEF Ownership, ExeEnd, Busy
    <3>6. WorkerSide'
      BY <1>1, <3>1, <3>2 DEF WorkerSide
    <3>7. Exchange'
      BY <2>1, <3>1, <3>2, PipeAssumption DEF Exchange, WorkerEnd, ByeExchange, OpenExchange
    <3>8. QED
      BY <3>4, <3>5, <3>6, <3>7
  <2>4. QED
    BY <2>2, <2>3
<1>2. ASSUME Inv, ShutdownRecv PROVE Inv'
  <2>1. TypeOK'
    BY <1>2, EmptyStream DEF ShutdownRecv, TypeOK
  <2>2. Ownership' /\ ~ExeEnd'
    BY <1>2, PipeAssumption DEF ShutdownRecv, Ownership, ExeEnd, Busy
  <2>3. WorkerSide'
    BY <1>2 DEF ShutdownRecv, WorkerSide
  <2>4. QED
    BY <2>1, <2>2, <2>3 DEF Exchange
<1>3. ASSUME Inv, ExeDies PROVE Inv'
  <2>1. TypeOK'
    BY <1>3, EmptyStream DEF ExeDies, TypeOK
  <2>2. Ownership' /\ ~ExeEnd'
    BY <1>3, PipeAssumption DEF ExeDies, Ownership, ExeEnd, Busy
  <2>3. WorkerSide'
    BY <1>3 DEF ExeDies, WorkerSide
  <2>4. QED
    BY <2>1, <2>2, <2>3 DEF Exchange
<1>4. QED
  BY <1>1, <1>2, <1>3
-----------------------------------------------------------------------------
(* Every step of the pipe, and every stutter, keeps the invariant. *)
LEMMA InvNext == Inv /\ [Next]_vars => Inv'
<1> SUFFICES ASSUME Inv, [Next]_vars PROVE Inv'
  OBVIOUS
<1>1. CASE Worker
  BY <1>1, WorkerEndsKeepInv, WorkerReadsKeepInv, WorkerAnswersKeepInv DEF Worker
<1>2. CASE MainThread \/ CtrlC \/ ExeDies
  BY <1>2, MainRunsKeepInv, MainEndsKeepInv DEF MainThread
<1>3. ASSUME NEW t \in Threads, Call(t) \/ InCall(t) \/ Stop(t) PROVE Inv'
  BY <1>3, ThreadStartsKeepInv, ThreadSendsKeepInv, ThreadReceivesKeepInv DEF InCall
<1>4. CASE GameStore \/ GameExit
  BY <1>4, GameKeepsInv
<1>5. CASE UNCHANGED vars
  <2>1. TypeOK'
    BY <1>5 DEF vars, worker, client, main, Inv, TypeOK
  <2>2. IInv'
    BY <1>5 DEF vars, worker, client, main, Inv, IInv, Ownership, WorkerSide, Exchange, ExeEnd,
                WorkerEnd, Quiet, OpenExchange, GoneExchange, ByeExchange
  <2>3. QED
    BY <2>1, <2>2 DEF Inv
<1>6. QED
  BY <1>1, <1>2, <1>3, <1>4, <1>5 DEF Next

(* Where both sides stand in the exchange, in every reachable state. *)
THEOREM InvAlways == Spec => []Inv
BY InvInit, InvNext, PTL DEF Spec

(* PipeClient and run_pipe_server keep their variables and streams within   *)
(* their types.                                                            *)
THEOREM TypeCorrect == Spec => []TypeOK
<1>1. Inv => TypeOK
  BY DEF Inv
<1>2. QED
  BY <1>1, InvAlways, PTL

(* The mutex, the streams and the worker agree on whose exchange is going   *)
(* on and how far it is.                                                   *)
THEOREM ExchangeCorrect == Spec => []IInv
<1>1. Inv => IInv
  BY DEF Inv
<1>2. QED
  BY <1>1, InvAlways, PTL

(* pipe_read_exact never takes one kind of message for another, on either   *)
(* side, whatever the interleaving and whenever a process ends.            *)
THEOREM FramingCorrect == Spec => []FramingInSync
BY InvSafe, InvAlways, PTL

(* With both ends open, a caller that gets m_mtx finds clean streams and a  *)
(* worker waiting for a header.                                            *)
THEOREM NothingLeftOverCorrect == Spec => []NothingLeftOver
BY InvSafe, InvAlways, PTL
-----------------------------------------------------------------------------
(***************************************************************************)
(* LivePipe implements RemoteMemory, for every set of threads, addresses,   *)
(* modules and contents.  Each step of the pipe is a stutter of             *)
(* RemoteMemory, but for the call, the worker's performing of the request,  *)
(* the return, and the steps that lose the answer of the one call that has  *)
(* the mutex.                                                              *)
(***************************************************************************)
(* A call that waits for the mutex has no answer yet. *)
Calling == \A t \in Threads : pc[t] = "lock" => ret[t] = Nothing

LEMMA CallingInit == Init => Calling
BY DEF Init, Calling

LEMMA CallingNext == TypeOK /\ Calling /\ [Next]_vars => Calling'
<1> SUFFICES ASSUME TypeOK, Calling, [Next]_vars PROVE Calling'
  OBVIOUS
<1> USE DEF worker, client, main
<1>1. CASE UNCHANGED <<pc, ret>>
  BY <1>1 DEF Calling
<1>2. ASSUME NEW t \in Threads, Call(t) \/ InCall(t) \/ Stop(t) PROVE Calling'
  BY <1>2 DEF Calling, TypeOK, Call, InCall, Stop, Acquire, SendHdr, SendName, RecvHdr, RecvPayload, Finish
<1>3. CASE ExeDies
  BY <1>3 DEF Calling, ExeDies
<1>4. CASE Setup
  BY <1>4 DEF Calling, Setup, ThreadsUp
<1>5. CASE GameStore \/ GameExit \/ CtrlC \/ Worker
  <2>1. UNCHANGED <<pc, ret>>
    BY <1>5 DEF GameStore, GameExit, CtrlC, Worker, WorkerCreate, WorkerRequest, WorkerName, WorkerPerform, WorkerHeader,
                WorkerPayload, WorkerClose
  <2> QED BY <1>1, <2>1
<1>6. CASE Connect \/ Poll \/ Joined \/ ShutdownSend \/ ShutdownRecv
  <2>1. UNCHANGED <<pc, ret>>
    BY <1>6 DEF Connect, Poll, Joined, ShutdownSend, ShutdownRecv
  <2> QED BY <1>1, <2>1
<1>7. CASE UNCHANGED vars
  BY <1>1, <1>7 DEF vars
<1> QED BY <1>2, <1>3, <1>4, <1>5, <1>6, <1>7 DEF Next, MainThread

LEMMA InitRefines == Init => RM!Init
BY DEF Init, RM!Init, Active, Ret

(* A step that changes nothing of this is a stutter of RemoteMemory. *)
LEMMA Stutters ==
    ASSUME UNCHANGED <<mem, req, Active, Ret>>
    PROVE  UNCHANGED RM!vars
BY DEF RM!vars

(* The answer under way, by what the stream to the exe holds. *)
LEMMA ArrivingIs ==
    /\ wpc \in {"header", "payload"} => Arriving = wbuf
    /\ wpc \notin {"header", "payload"} =>
          /\ toExe = <<>> /\ wpc # "gone" => Arriving = Nothing
          /\ toExe = <<>> /\ wpc = "gone" => Arriving = Failure
          /\ \A st : toExe = <<Header(st)>> => Arriving = Failure
          /\ \A v : toExe = <<Payload(v)>> => Arriving = v
          /\ \A st, v : toExe = <<Header(st), Payload(v)>> => Arriving = v
<1>1. \A x : Len(<<x>>) = 1 /\ <<x>>[1] = x /\ <<x>> # <<>>
  OBVIOUS
<1>2. \A x, y : Len(<<x, y>>) = 2 /\ <<x, y>>[2] = y /\ <<x, y>> # <<>>
  OBVIOUS
<1> QED BY <1>1, <1>2, Kinds DEF Arriving

(* What RemoteMemory sees of a thread. *)
LEMMA BarsAre ==
    ASSUME TypeOK, NEW t \in Threads
    PROVE  /\ Active[t] <=> pc[t] \in Busy \cup {"lock"}
           /\ pc[t] \in Busy => Ret[t] = Arriving
           /\ pc[t] \notin Busy => Ret[t] = ret[t]
BY DEF Active, Ret, TypeOK, Busy

(* The thread whose exchange is going on is the only one. *)
LEMMA OwnerIs ==
    ASSUME Inv, NEW t \in Threads, pc[t] \in Busy
    PROVE  /\ mtx = t /\ ExeEnd /\ req[t] \in Requests /\ req[t] # ShutdownRequest
           /\ \A s \in Threads : s # t => pc[s] \notin Busy
           /\ WorkerEnd => OpenExchange(t)
           /\ ~WorkerEnd => wpc = "gone" /\ GoneExchange(t)
<1> USE DEF Inv, IInv
<1>1. mtx = t /\ ExeEnd /\ req[t] \in Requests /\ \A s \in Threads : s # t => pc[s] \notin Busy
  BY PipeAssumption DEF Ownership
<1>2. ~WorkerEnd => wpc = "gone"
  BY <1>1 DEF WorkerSide, WorkerEnd, ExeEnd, TypeOK
<1>3. (WorkerEnd => OpenExchange(t)) /\ (~WorkerEnd => GoneExchange(t))
  BY <1>1 DEF Exchange
<1> QED BY <1>1, <1>2, <1>3, HdrRequest

(* A step of the worker or of main that leaves the answer under way alone. *)
LEMMA SameAnswer ==
    ASSUME TypeOK, UNCHANGED <<mem, req, pc, ret>>,
           \A t \in Threads : pc[t] \in Busy => Arriving' = Arriving
    PROVE  UNCHANGED RM!vars
<1>1. Active' = Active
  BY DEF Active
<1>2. Ret' = Ret
  <2>1. \A t \in Threads : pc[t] \notin {"off", "idle", "lock"} => pc[t] \in Busy
    BY DEF TypeOK, Busy
  <2> QED BY <2>1 DEF Ret
<1> QED BY <1>1, <1>2, Stutters

(* RM!Lose, read off what RemoteMemory sees. *)
LEMMA Loses ==
    ASSUME NEW L \in SUBSET {t \in Threads : Active[t]}, NEW R \in SUBSET L, L # {}, UNCHANGED <<mem, req>>,
           Ret' = [t \in Threads |-> IF t \in L THEN Failure ELSE Ret[t]],
           Active' = [t \in Threads |-> Active[t] /\ t \notin R]
    PROVE  RM!Lose
<1>1. R \in SUBSET Threads
  OBVIOUS
<1> QED BY <1>1, Zenon DEF RM!Lose

(* A call fails, and goes on or returns. *)
LEMMA Fails ==
    ASSUME NEW t \in Threads, Active[t], UNCHANGED <<mem, req>>,
           Ret' = [Ret EXCEPT ![t] = Failure],
           Active' \in {Active, [Active EXCEPT ![t] = FALSE]}
    PROVE  RM!Lose
<1>1. /\ Active = [s \in Threads |-> Active[s]] /\ Ret = [s \in Threads |-> Ret[s]]
      /\ \A s \in Threads : Active[s] \in BOOLEAN
  BY DEF Active, Ret
<1>2. Ret' = [s \in Threads |-> IF s \in {t} THEN Failure ELSE Ret[s]]
  BY <1>1
<1>3. PICK R \in {{}, {t}} : Active' = [s \in Threads |-> Active[s] /\ s \notin R]
  <2>1. CASE Active' = Active
    BY <1>1, <2>1
  <2>2. CASE Active' = [Active EXCEPT ![t] = FALSE]
    BY <1>1, <2>2
  <2> QED BY <2>1, <2>2
<1>4. {t} \in SUBSET {s \in Threads : Active[s]} /\ R \in SUBSET {t} /\ {t} # {}
  OBVIOUS
<1> QED BY <1>2, <1>3, <1>4, Loses

LEMMA Returns ==
    ASSUME NEW t \in Threads, Active[t], Ret[t] # Nothing, UNCHANGED <<mem, req, Ret>>,
           Active' = [Active EXCEPT ![t] = FALSE]
    PROVE  RM!Return(t)
BY DEF RM!Return

(* The steps of the game. *)
LEMMA GameRefines == ASSUME Inv, GameStore \/ GameExit PROVE RM!Next \/ UNCHANGED RM!vars
<1> USE DEF Inv
<1>1. CASE GameStore
  <2>1. UNCHANGED <<req, Active, Ret>>
    BY <1>1 DEF GameStore, Active, Ret, Arriving, worker, client, main
  <2>2. RM!GameStore
    BY <1>1, <2>1 DEF GameStore, RM!GameStore, worker, client, main
  <2> QED BY <2>2 DEF RM!Next
<1>2. CASE GameExit
  <2>1. UNCHANGED <<mem, toExe, pc, ret, req>> /\ wpc # "gone" /\ wpc' = "gone"
    BY <1>2 DEF GameExit, client, main
  <2>2. ASSUME NEW t \in Threads, pc[t] \in Busy, Arriving' # Arriving PROVE RM!Lose
    <3>1. OpenExchange(t) /\ \A s \in Threads : s # t => pc[s] \notin Busy
      BY <2>1, <2>2, OwnerIs
    <3>2. /\ toExe = <<>> => Arriving' = Failure
          /\ \A st : toExe = <<Header(st)>> => Arriving' = Failure
          /\ \A v : toExe = <<Payload(v)>> => Arriving' = v
          /\ \A st, v : toExe = <<Header(st), Payload(v)>> => Arriving' = v
      <4>1. \A x : Len(<<x>>) = 1 /\ <<x>>[1] = x /\ <<x>> # <<>>
        OBVIOUS
      <4>2. \A x, y : Len(<<x, y>>) = 2 /\ <<x, y>>[2] = y /\ <<x, y>> # <<>>
        OBVIOUS
      <4> QED BY <2>1, <4>1, <4>2, Kinds DEF Arriving
    <3>3. Arriving' = Failure
      BY <2>1, <2>2, <3>1, <3>2, ArrivingIs DEF OpenExchange, Quiet, Busy
    <3>4. Active' = Active
      BY <2>1 DEF Active
    <3>5. Ret' = [Ret EXCEPT ![t] = Failure]
      <4>1. \A s \in Threads : s # t => (IF pc[s] \in {"off", "idle", "lock"} THEN ret[s] ELSE Arriving') = Ret[s]
        BY <3>1 DEF Ret, TypeOK, Busy
      <4>2. pc[t] \notin {"off", "idle", "lock"}
        BY <2>2 DEF Busy
      <4> QED BY <2>1, <3>3, <4>1, <4>2 DEF Ret
    <3> QED BY <2>1, <2>2, <3>4, <3>5, BarsAre, Fails
  <2>3. CASE \A t \in Threads : pc[t] \in Busy => Arriving' = Arriving
    BY <2>1, <2>3, SameAnswer
  <2> QED BY <2>2, <2>3 DEF RM!Next
<1> QED BY <1>1, <1>2

(* The worker: only performing a request determines an answer. *)
LEMMA WorkerRefines == ASSUME Inv, Worker PROVE RM!Next \/ UNCHANGED RM!vars
<1> USE DEF Inv
<1>1. UNCHANGED <<mem, req, pc, ret, handle>>
  BY DEF Worker, WorkerCreate, WorkerRequest, WorkerName, WorkerPerform, WorkerHeader, WorkerPayload, WorkerClose,
         client, main
<1>2. SUFFICES ASSUME NEW t \in Threads, pc[t] \in Busy, Arriving' # Arriving
               PROVE  RM!Next
  BY <1>1, SameAnswer
<1>3. /\ ExeEnd /\ req[t] \in Requests /\ req[t] # ShutdownRequest /\ wpc # "create"
      /\ \A s \in Threads : s # t => pc[s] \notin Busy
      /\ WorkerEnd => OpenExchange(t)
  BY <1>2, OwnerIs DEF WorkerEnd
<1>4. ASSUME WorkerRequest \/ WorkerName PROVE FALSE
  <2>1. OpenExchange(t) /\ toWorker # <<>> /\ wpc \in {"serve", "name"} /\ wpc' \in {"name", "perform"} /\ toExe' = toExe
    BY <1>3, <1>4 DEF WorkerRequest, WorkerName, WorkerEnd
  <2>2. toExe = <<>>
    BY <1>2, <2>1 DEF OpenExchange, Quiet, Busy
  <2>3. Arriving = Nothing /\ Arriving' = Nothing
    BY <2>1, <2>2 DEF Arriving
  <2> QED BY <1>2, <2>3
<1>5. CASE WorkerPerform
  <2>1. /\ wpc = "perform" /\ wbuf' = Answer(mem, wreq) /\ wpc' = "header" /\ OpenExchange(t)
    BY <1>3, <1>5 DEF WorkerPerform, WorkerEnd
  <2>2. toExe = <<>> /\ wreq = req[t]
    BY <1>2, <2>1 DEF OpenExchange, Quiet, Busy
  <2>3. Arriving = Nothing /\ Arriving' = Answer(mem, req[t])
    BY <2>1, <2>2 DEF Arriving
  <2>4. Active' = Active /\ Active[t] /\ Ret[t] = Nothing
    BY <1>1, <1>2, <2>3, BarsAre DEF Active
  <2>5. Ret' = [Ret EXCEPT ![t] = Answer(mem, req[t])]
    <3>1. \A s \in Threads : s # t => (IF pc[s] \in {"off", "idle", "lock"} THEN ret[s] ELSE Arriving') = Ret[s]
      BY <1>3 DEF Ret, TypeOK, Busy
    <3>2. pc[t] \notin {"off", "idle", "lock"}
      BY <1>2 DEF Busy
    <3> QED BY <1>1, <2>3, <3>1, <3>2 DEF Ret
  <2>6. RM!Perform(t)
    BY <1>1, <2>4, <2>5 DEF RM!Perform
  <2> QED BY <2>6 DEF RM!Next
<1>6. ASSUME WorkerHeader PROVE FALSE
  <2>1. /\ wpc = "header" /\ OpenExchange(t) /\ toExe' = Append(toExe, Header(Status(wreq, wbuf)))
        /\ wbuf' = wbuf
    BY <1>3, <1>6 DEF WorkerHeader, WorkerEnd
  <2>2. toExe = <<>> /\ wreq = req[t] /\ wreq # ShutdownRequest
    BY <1>2, <1>3, <2>1 DEF OpenExchange, Quiet, Busy
  <2>3. wpc' = (IF wbuf # Failure THEN "payload" ELSE "serve") /\ toExe' = <<Header(Status(wreq, wbuf))>>
    BY <1>6, <2>1, <2>2, StreamWrite DEF WorkerHeader
  <2>4. Arriving = wbuf
    BY <2>1, ArrivingIs
  <2>5. Arriving' = wbuf
    <3>1. \A x : Len(<<x>>) = 1 /\ <<x>>[1] = x /\ <<x>> # <<>>
      OBVIOUS
    <3> QED BY <2>1, <2>3, <3>1, Kinds DEF Arriving
  <2> QED BY <1>2, <2>4, <2>5
<1>7. ASSUME WorkerPayload PROVE FALSE
  <2>1. wpc = "payload" /\ OpenExchange(t) /\ wpc' = "serve" /\ toExe' = Append(toExe, Payload(wbuf))
    BY <1>3, <1>7 DEF WorkerPayload, WorkerEnd
  <2>2. toExe = <<>> \/ toExe = <<Header("OK")>>
    BY <1>2, <2>1 DEF OpenExchange, Quiet, Busy
  <2>3. toExe' = <<Payload(wbuf)>> \/ toExe' = <<Header("OK"), Payload(wbuf)>>
    BY <2>1, <2>2, StreamWrite
  <2>4. Arriving = wbuf
    BY <2>1, ArrivingIs
  <2>5. Arriving' = wbuf
    <3>1. \A x : Len(<<x>>) = 1 /\ <<x>>[1] = x /\ <<x>> # <<>>
      OBVIOUS
    <3>2. \A x, y : Len(<<x, y>>) = 2 /\ <<x, y>>[2] = y /\ <<x, y>> # <<>>
      OBVIOUS
    <3> QED BY <2>1, <2>3, <3>1, <3>2, Kinds DEF Arriving
  <2> QED BY <1>2, <2>4, <2>5
<1>8. ASSUME WorkerCreate \/ WorkerClose PROVE FALSE
  BY <1>2, <1>3, <1>8 DEF WorkerCreate, WorkerClose, WorkerEnd, OpenExchange, Quiet, Busy
<1> QED BY <1>4, <1>5, <1>6, <1>7, <1>8 DEF Worker

(* The end of a call, seen from RemoteMemory. *)
LEMMA FinishReturns ==
    ASSUME Inv, NEW t \in Threads, pc[t] \in Busy, Finish(t, Arriving), Arriving # Nothing, UNCHANGED <<mem, req>>
    PROVE  RM!Return(t)
<1> USE DEF Inv
<1>1. \A s \in Threads : s # t => pc[s] \notin Busy
  BY OwnerIs
<1>2. /\ pc' = [pc EXCEPT ![t] = "idle"] /\ ret' = [ret EXCEPT ![t] = Arriving]
  BY DEF Finish
<1>3. Active' = [Active EXCEPT ![t] = FALSE]
  BY <1>2 DEF Active, TypeOK
<1>4. Ret' = Ret
  <2>1. \A s \in Threads : (IF pc'[s] \in {"off", "idle", "lock"} THEN ret'[s] ELSE Arriving') = Ret[s]
    BY <1>1, <1>2 DEF Ret, TypeOK, Busy
  <2> QED BY <2>1 DEF Ret
<1> QED BY <1>3, <1>4, BarsAre, Returns

(* A transfer in the middle of a call. *)
LEMMA GoesOn ==
    ASSUME Inv, NEW t \in Threads, pc[t] \in Busy, Arriving' = Arriving, NEW p \in Busy,
           pc' = [pc EXCEPT ![t] = p], UNCHANGED <<mem, req, ret>>
    PROVE  UNCHANGED RM!vars
<1> USE DEF Inv
<1>1. Active' = Active
  BY DEF Active, TypeOK, Busy
<1>2. Ret' = Ret
  BY DEF Ret, TypeOK, Busy
<1> QED BY <1>1, <1>2, Stutters

(* A call begins: it is invoked, and it may fail before it reaches the pipe. *)
LEMMA StartRefines ==
    ASSUME Inv, Calling, NEW t \in Threads, Call(t) \/ Acquire(t) \/ Stop(t)
    PROVE  RM!Next \/ UNCHANGED RM!vars
<1> USE DEF Inv
<1>1. CASE Call(t)
  <2>1. /\ pc[t] = "idle" /\ pc' = [pc EXCEPT ![t] = "lock"] /\ ret' = [ret EXCEPT ![t] = Nothing]
        /\ UNCHANGED <<mem, wpc, wbuf, toExe>>
    BY <1>1 DEF Call, worker
  <2>2. PICK r \in Requests : req' = [req EXCEPT ![t] = r]
    BY <1>1 DEF Call
  <2>3. Active' = [Active EXCEPT ![t] = TRUE] /\ ~Active[t]
    BY <2>1 DEF Active, TypeOK
  <2>4. Ret' = [Ret EXCEPT ![t] = Nothing]
    BY <2>1 DEF Ret, TypeOK, Arriving
  <2>5. RM!Invoke(t)
    BY <2>1, <2>2, <2>3, <2>4 DEF RM!Invoke
  <2> QED BY <2>5 DEF RM!Next
<1>2. CASE Acquire(t)
  <2>1. /\ pc[t] = "lock" /\ mtx = NoOne /\ UNCHANGED <<mem, req, wpc, wbuf, toExe>> /\ Active[t] /\ ret[t] = Nothing
    BY <1>2, BarsAre DEF Acquire, Calling, worker
  <2>2. \A s \in Threads : pc[s] \notin Busy
    BY <2>1, PipeAssumption DEF IInv, Ownership
  <2>3. CASE Finish(t, Failure)
    <3>1. pc' = [pc EXCEPT ![t] = "idle"] /\ ret' = [ret EXCEPT ![t] = Failure]
      BY <2>3 DEF Finish
    <3>2. Active' = [Active EXCEPT ![t] = FALSE]
      BY <3>1 DEF Active, TypeOK
    <3>3. Ret' = [Ret EXCEPT ![t] = Failure]
      <4>1. \A s \in Threads : s # t => (IF pc'[s] \in {"off", "idle", "lock"} THEN ret'[s] ELSE Arriving') = Ret[s]
        BY <2>2, <3>1 DEF Ret, TypeOK, Busy
      <4> QED BY <3>1, <4>1 DEF Ret, TypeOK
    <3> QED BY <2>1, <3>2, <3>3, Fails DEF RM!Next
  <2>4. CASE handle # "none" /\ pc' = [pc EXCEPT ![t] = "sendHdr"] /\ UNCHANGED ret
    <3>1. Active' = Active
      BY <2>1, <2>4 DEF Active, TypeOK
    <3>2. Ret' = [Ret EXCEPT ![t] = Arriving]
      <4>1. Arriving' = Arriving
        BY <2>1 DEF Arriving
      <4>2. \A s \in Threads : s # t => (IF pc'[s] \in {"off", "idle", "lock"} THEN ret'[s] ELSE Arriving') = Ret[s]
        BY <2>2, <2>4 DEF Ret, TypeOK, Busy
      <4> QED BY <2>4, <4>1, <4>2 DEF Ret, TypeOK
    <3>3. ExeEnd
      BY <2>4 DEF ExeEnd, TypeOK
    <3>4. CASE WorkerEnd
      <4>1. Arriving = Nothing
        BY <2>1, <3>3, <3>4, ArrivingIs DEF IInv, Exchange, Quiet
      <4>2. Ret[t] = Nothing
        BY <2>1, <2>2, BarsAre
      <4>3. Ret' = Ret
        BY <3>2, <4>1, <4>2 DEF Ret
      <4> QED BY <2>1, <3>1, <4>3, Stutters
    <3>5. CASE ~WorkerEnd
      <4>1. wpc = "gone" /\ toExe = <<>>
        BY <2>1, <3>3, <3>5 DEF IInv, Exchange, WorkerSide, WorkerEnd, ExeEnd, TypeOK
      <4>2. Arriving = Failure
        BY <4>1, ArrivingIs
      <4> QED BY <2>1, <3>1, <3>2, <4>2, Fails DEF RM!Next
    <3> QED BY <3>4, <3>5
  <2> QED BY <1>2, <2>3, <2>4 DEF Acquire
<1>3. CASE Stop(t)
  <2>1. pc[t] = "idle" /\ pc' = [pc EXCEPT ![t] = "off"] /\ UNCHANGED <<mem, req, ret, wpc, wbuf, toExe>>
    BY <1>3 DEF Stop, worker
  <2>2. Active' = Active /\ Ret' = Ret
    BY <2>1 DEF Active, Ret, Arriving, TypeOK
  <2> QED BY <2>1, <2>2, Stutters
<1> QED BY <1>1, <1>2, <1>3

(* The transfers of a call: each leaves the answer under way alone, or is    *)
(* the last one and returns it.                                            *)
LEMMA TransferRefines ==
    ASSUME Inv, NEW t \in Threads, SendHdr(t) \/ SendName(t) \/ RecvHdr(t) \/ RecvPayload(t)
    PROVE  RM!Next \/ UNCHANGED RM!vars
<1> USE DEF Inv
<1>1. pc[t] \in Busy /\ UNCHANGED <<mem, wpc, wbuf, req>>
  BY DEF SendHdr, SendName, RecvHdr, RecvPayload, Busy, worker
<1>2. /\ ExeEnd /\ (WorkerEnd => OpenExchange(t)) /\ (~WorkerEnd => wpc = "gone" /\ GoneExchange(t))
  BY <1>1, OwnerIs
<1>3. Failure # Nothing /\ \A v \in Answers : v # Nothing
  BY PipeAssumption DEF Answers
<1>4. SUFFICES ASSUME ~(Finish(t, Arriving) /\ Arriving # Nothing)
               PROVE  UNCHANGED RM!vars
  BY <1>1, FinishReturns DEF RM!Next
<1>5. CASE SendHdr(t) \/ SendName(t)
  <2>1. toExe' = toExe /\ pc[t] \in {"sendHdr", "sendName"}
    BY <1>5 DEF SendHdr, SendName
  <2>2. CASE WorkerEnd
    <3>1. pc' = [pc EXCEPT ![t] = "sendName"] \/ pc' = [pc EXCEPT ![t] = "recvHdr"]
      BY <1>5, <2>2 DEF SendHdr, SendName
    <3>2. ret' = ret
      BY <1>5, <2>2 DEF SendHdr, SendName
    <3>3. Arriving' = Arriving
      BY <1>1, <2>1 DEF Arriving
    <3> QED BY <1>1, <3>1, <3>2, <3>3, GoesOn DEF Busy
  <2>3. CASE ~WorkerEnd
    <3>1. Arriving = Failure
      BY <1>2, <2>1, <2>3, ArrivingIs DEF GoneExchange
    <3>2. Finish(t, Failure)
      BY <1>5, <2>3 DEF SendHdr, SendName
    <3> QED BY <1>3, <1>4, <3>1, <3>2
  <2> QED BY <2>2, <2>3
<1>6. CASE RecvHdr(t)
  <2>1. CASE toExe = <<>>
    <3>1. ~WorkerEnd /\ Finish(t, Failure)
      BY <1>6, <2>1 DEF RecvHdr
    <3>2. Arriving = Failure
      BY <1>2, <2>1, <3>1, ArrivingIs
    <3> QED BY <1>3, <1>4, <3>1, <3>2
  <2>2. CASE toExe # <<>>
    <3>1. /\ pc[t] = "recvHdr" /\ toExe' = Tail(toExe)
          /\ IF Head(toExe).status = "OK" THEN pc' = [pc EXCEPT ![t] = "recvPayload"] /\ ret' = ret
                                          ELSE Finish(t, Failure)
      BY <1>6, <2>2 DEF RecvHdr
    <3>2. \/ wpc = "payload" /\ toExe = <<Header("OK")>>
          \/ wpc \in {"serve", "gone"} /\ \E st \in {"SEH", "BAD_ARGS"} : toExe = <<Header(st)>>
          \/ wpc \in {"serve", "gone"} /\ \E v \in Answers : toExe = <<Header("OK"), Payload(v)>>
          \/ wpc = "gone" /\ toExe = <<Header("OK")>>
      BY <1>2, <2>2, <3>1 DEF OpenExchange, GoneExchange
    <3>3. CASE toExe = <<Header("OK")>> /\ wpc \in {"payload", "gone"}
      <4>1. toExe' = <<>> /\ pc' = [pc EXCEPT ![t] = "recvPayload"] /\ ret' = ret
        BY <3>1, <3>3, StreamRead, Kinds
      <4>2. Arriving' = Arriving
        <5>1. wpc = "payload" => Arriving = wbuf /\ Arriving' = wbuf
          BY <1>1, ArrivingIs DEF Arriving
        <5>2. wpc = "gone" => Arriving = Failure /\ Arriving' = Failure
          BY <1>1, <3>3, <4>1, ArrivingIs DEF Arriving
        <5> QED BY <3>3, <5>1, <5>2
      <4> QED BY <1>1, <4>1, <4>2, GoesOn DEF Busy
    <3>4. ASSUME NEW st \in {"SEH", "BAD_ARGS"}, toExe = <<Header(st)>>, wpc \in {"serve", "gone"} PROVE FALSE
      <4>1. Finish(t, Failure) /\ Arriving = Failure
        BY <3>1, <3>4, StreamRead, Kinds, ArrivingIs
      <4> QED BY <1>3, <1>4, <4>1
    <3>5. ASSUME NEW v \in Answers, toExe = <<Header("OK"), Payload(v)>>, wpc \in {"serve", "gone"}
          PROVE  UNCHANGED RM!vars
      <4>1. toExe' = <<Payload(v)>> /\ pc' = [pc EXCEPT ![t] = "recvPayload"] /\ ret' = ret
        BY <3>1, <3>5, StreamRead, Kinds
      <4>2. Arriving = v
        BY <3>5, ArrivingIs
      <4>3. Arriving' = v
        <5>1. \A x : Len(<<x>>) = 1 /\ <<x>>[1] = x /\ <<x>> # <<>>
          OBVIOUS
        <5> QED BY <1>1, <3>5, <4>1, <5>1, Kinds DEF Arriving
      <4> QED BY <1>1, <4>1, <4>2, <4>3, GoesOn DEF Busy
    <3> QED BY <3>2, <3>3, <3>4, <3>5
  <2> QED BY <2>1, <2>2
<1>7. ASSUME RecvPayload(t) PROVE FALSE
  <2>1. CASE toExe = <<>>
    <3>1. ~WorkerEnd /\ Finish(t, Failure)
      BY <1>7, <2>1 DEF RecvPayload
    <3>2. Arriving = Failure
      BY <1>2, <2>1, <3>1, ArrivingIs
    <3> QED BY <1>3, <1>4, <3>1, <3>2
  <2>2. CASE toExe # <<>>
    <3>1. pc[t] = "recvPayload" /\ Finish(t, Head(toExe).v)
      BY <1>7, <2>2 DEF RecvPayload
    <3>2. PICK v \in Answers : toExe = <<Payload(v)>> /\ wpc \in {"serve", "gone"}
      BY <1>2, <2>2, <3>1 DEF OpenExchange, GoneExchange
    <3>3. Arriving = v /\ Finish(t, v)
      BY <3>1, <3>2, StreamRead, Kinds, ArrivingIs
    <3> QED BY <1>3, <1>4, <3>3
  <2> QED BY <2>1, <2>2
<1> QED BY <1>5, <1>6, <1>7

(* main() does not take part in calls, except that its death fails them. *)
LEMMA MainRefines == ASSUME Inv, MainThread \/ CtrlC \/ ExeDies PROVE RM!Next \/ UNCHANGED RM!vars
<1> USE DEF Inv
<1>1. CASE Connect \/ ShutdownSend \/ ShutdownRecv
  <2>1. UNCHANGED <<mem, req, pc, ret>> /\ mpc \notin {"run", "stop"}
    BY <1>1 DEF Connect, ShutdownSend, ShutdownRecv
  <2>2. \A t \in Threads : pc[t] \notin Busy
    BY <2>1 DEF IInv, Ownership, Busy
  <2> QED BY <2>1, <2>2, SameAnswer
<1>2. CASE Poll \/ CtrlC \/ Joined
  <2>1. UNCHANGED <<mem, req, pc, ret, wpc, wbuf, toExe>>
    BY <1>2 DEF Poll, CtrlC, Joined, worker, client
  <2>2. Arriving' = Arriving
    BY <2>1 DEF Arriving
  <2> QED BY <2>1, <2>2, SameAnswer
<1>3. CASE Setup
  <2>1. /\ UNCHANGED <<mem, req, ret>> /\ \A t \in Threads : pc[t] = "off"
        /\ pc' = pc \/ pc' = [t \in Threads |-> "idle"]
    BY <1>3 DEF Setup, ThreadsUp, IInv, Ownership
  <2>2. Active' = Active /\ Ret' = Ret
    BY <2>1 DEF Active, Ret
  <2> QED BY <2>1, <2>2, Stutters
<1>4. CASE ExeDies
  <2> DEFINE L == {t \in Threads : Active[t]}
  <2>1. /\ pc' = [t \in Threads |-> "off"] /\ UNCHANGED <<mem, req>>
        /\ ret' = [t \in Threads |-> IF pc[t] \in {"off", "idle"} THEN ret[t] ELSE Failure]
    BY <1>4 DEF ExeDies
  <2>2. Active' = [t \in Threads |-> Active[t] /\ t \notin L]
    BY <2>1 DEF Active
  <2>3. Ret' = [t \in Threads |-> IF t \in L THEN Failure ELSE Ret[t]]
    BY <2>1 DEF Active, Ret
  <2>4. CASE L = {}
    <3>1. Active' = Active
      BY <2>2, <2>4 DEF Active
    <3>2. Ret' = Ret
      BY <2>3, <2>4 DEF Ret
    <3> QED BY <2>1, <3>1, <3>2, Stutters
  <2>5. CASE L # {}
    <3>1. RM!Lose
      <4> HIDE DEF L
      <4>1. L \in SUBSET {t \in Threads : Active[t]} /\ L \in SUBSET L
        BY DEF L
      <4> QED BY <2>1, <2>2, <2>3, <2>5, <4>1, Loses
    <3> QED BY <3>1 DEF RM!Next
  <2> QED BY <2>4, <2>5
<1> QED BY <1>1, <1>2, <1>3, <1>4 DEF MainThread

LEMMA NextRefines == Inv /\ Calling /\ [Next]_vars => [RM!Next]_(RM!vars)
<1> SUFFICES ASSUME Inv, Calling, [Next]_vars PROVE RM!Next \/ UNCHANGED RM!vars
  OBVIOUS
<1>1. ASSUME NEW t \in Threads, Call(t) \/ InCall(t) \/ Stop(t) PROVE RM!Next \/ UNCHANGED RM!vars
  BY <1>1, StartRefines, TransferRefines DEF InCall
<1>2. CASE UNCHANGED vars
  <2>1. UNCHANGED <<mem, req, pc, ret, wpc, wbuf, toExe>>
    BY <1>2 DEF vars, worker, client
  <2>2. Arriving' = Arriving
    BY <2>1 DEF Arriving
  <2> QED BY <2>1, <2>2, SameAnswer DEF Inv
<1> QED BY <1>1, <1>2, GameRefines, WorkerRefines, MainRefines DEF Next

(* What read() returns is what the address held at one instant of the call,  *)
(* never another call's answer, or the call fails.                         *)
THEOREM ImplementsRemoteMemoryCorrect == Spec => ImplementsRemoteMemory
<1>1. Init => Calling
  BY CallingInit
<1>2. Inv /\ Calling /\ [Next]_vars => Calling'
  BY CallingNext DEF Inv
<1>3. Spec => []Calling
  BY <1>1, <1>2, InvAlways, PTL DEF Spec
<1>4. Init => RM!Init
  BY InitRefines
<1>5. Inv /\ Calling /\ [Next]_vars => [RM!Next]_(RM!vars)
  BY NextRefines
<1> QED BY <1>3, <1>4, <1>5, InvAlways, PTL DEF Spec, ImplementsRemoteMemory, RM!Spec
=============================================================================
