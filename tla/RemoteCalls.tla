---------------------------- MODULE RemoteCalls ----------------------------
(***************************************************************************)
(* What LiveClient.send promises: every call settles at most once; it is   *)
(* executed at most once, perhaps after its caller has given it up; and a  *)
(* promise that resolves does so with the result of its own execution.     *)
(***************************************************************************)
CONSTANTS Calls, Results, NoResult

VARIABLES
    promise,  \* promise[i]: "none", "waiting", "resolved" or "rejected"
    value,    \* value[i]: what it was resolved with
    result    \* result[i]: what executing call i gave

vars == <<promise, value, result>>

Init == /\ promise = [i \in Calls |-> "none"]
        /\ value = [i \in Calls |-> NoResult]
        /\ result = [i \in Calls |-> NoResult]

Invoke(i) == /\ promise[i] = "none"
             /\ promise' = [promise EXCEPT ![i] = "waiting"]
             /\ UNCHANGED <<value, result>>

Execute(i) == /\ promise[i] # "none"
              /\ result[i] = NoResult
              /\ \E r \in Results : result' = [result EXCEPT ![i] = r]
              /\ UNCHANGED <<promise, value>>

Resolve(i) == /\ promise[i] = "waiting"
              /\ result[i] # NoResult
              /\ promise' = [promise EXCEPT ![i] = "resolved"]
              /\ value' = [value EXCEPT ![i] = result[i]]
              /\ UNCHANGED result

(* One call times out or is answered by an error, or a connection is lost   *)
(* with all the calls that wait.                                           *)
Reject(S) == /\ S # {}
             /\ \A i \in S : promise[i] = "waiting"
             /\ promise' = [i \in Calls |-> IF i \in S THEN "rejected" ELSE promise[i]]
             /\ UNCHANGED <<value, result>>

Next == \/ \E i \in Calls : Invoke(i) \/ Execute(i) \/ Resolve(i)
        \/ \E S \in SUBSET Calls : Reject(S)

Spec == Init /\ [][Next]_vars
=============================================================================
