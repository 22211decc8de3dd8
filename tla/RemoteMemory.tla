---------------------------- MODULE RemoteMemory ----------------------------
(***************************************************************************)
(* What the named pipe between the exe and the injected worker promises:   *)
(* a thread of the exe asks for a piece of the game's memory, and the      *)
(* answer is the content that memory had at ONE instant between the call   *)
(* and its return, or the failure result.  There is no pipe, no mutex and  *)
(* no worker here; LivePipe implements this module.                        *)
(***************************************************************************)
CONSTANTS Threads,   \* threads of the exe that call PipeClient
          Requests,  \* what a thread may ask for
          Nothing,   \* no answer determined yet
          Failure,   \* the empty vector / zero base of a failed call
          Objects,   \* readable addresses
          Values     \* contents of a readable address

CONSTANT Answer(_, _) \* Answer(m, r): what request r yields in memory m

VARIABLES mem,       \* the game's memory
          active,    \* active[t]: t is inside a call
          req,       \* req[t]: the request of t's current (or last) call
          ret        \* ret[t]: the answer t holds or will be given

vars == <<mem, active, req, ret>>

Init == /\ mem \in [Objects -> Values]
        /\ active = [t \in Threads |-> FALSE]
        /\ req = [t \in Threads |-> Nothing]
        /\ ret = [t \in Threads |-> Nothing]

(* The game writes its own memory whenever it likes. *)
GameStore == /\ \E o \in Objects, v \in Values : mem' = [mem EXCEPT ![o] = v]
             /\ UNCHANGED <<active, req, ret>>

Invoke(t) == /\ ~active[t]
             /\ \E r \in Requests : req' = [req EXCEPT ![t] = r]
             /\ active' = [active EXCEPT ![t] = TRUE]
             /\ ret' = [ret EXCEPT ![t] = Nothing]
             /\ UNCHANGED mem

(* The instant at which the answer is determined. *)
Perform(t) == /\ active[t]
              /\ ret[t] = Nothing
              /\ ret' = [ret EXCEPT ![t] = Answer(mem, req[t])]
              /\ UNCHANGED <<mem, active, req>>

Return(t) == /\ active[t]
             /\ ret[t] # Nothing
             /\ active' = [active EXCEPT ![t] = FALSE]
             /\ UNCHANGED <<mem, req, ret>>

(* The connection or one of the processes is lost: any unanswered calls,    *)
(* and any answers still on their way, fail; a call may fail before it     *)
(* reaches the game and then returns at once.                              *)
Lose == /\ \E L \in SUBSET {t \in Threads : active[t]}, R \in SUBSET Threads :
              /\ L # {}
              /\ R \subseteq L
              /\ ret' = [t \in Threads |-> IF t \in L THEN Failure ELSE ret[t]]
              /\ active' = [t \in Threads |-> active[t] /\ t \notin R]
        /\ UNCHANGED <<mem, req>>

Next == \/ GameStore
        \/ Lose
        \/ \E t \in Threads : Invoke(t) \/ Perform(t) \/ Return(t)

Spec == Init /\ [][Next]_vars
=============================================================================
