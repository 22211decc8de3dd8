-------------------------- MODULE EntityInspector --------------------------
(***************************************************************************)
(* The pane of the viewer that shows the values of one entity              *)
(* (viewer/src/components/entity/entity-inspector-pane.tsx), on top of      *)
(* LiveClient and the two threads of the exe that read the game for it:     *)
(* the one of the WebSocket server answers calls one by one, the one of the *)
(* subscriptions sends what changes.                                       *)
(*                                                                         *)
(* An entity has one field; its value is an age, which grows.  The pane is  *)
(* driven by effects: React runs one when the entity changes, after the     *)
(* clean-up of the one before.  An effect awaits its subscription, and      *)
(* goes on when that settles, whatever is shown by then.  The connection    *)
(* stays open here; what its loss does to calls is in LiveClient.          *)
(***************************************************************************)
EXTENDS Naturals, Sequences, SequencesExt, Functions

CONSTANTS
    Entities,
    MaxEffects,  \* bound: effects that run
    MaxAge,      \* bound: changes of all entities together
    MaxOpen,     \* bound: messages under way when an interval sends one more
    None

Effects == 1..MaxEffects
Subs    == 1..MaxEffects   \* every effect asks for one subscription
Ages    == Nat

Values == [of : Entities, age : Ages]

VARIABLES
    cur,        \* the effect that is not cancelled, or 0 when the pane is closed
    ran,        \* effects that have run
    mounted,    \* the first effect of the pane that is open now
    of,         \* of[i]: the entity of effect i
    phase,      \* phase[i]: how far effect i is
    listens,    \* listens[s]: the effect that listens to subscription s, or 0
    subId,      \* subIdRef, or 0
    timer,      \* timerRef: the effect whose interval it is, or 0
    intervals,  \* effects whose interval runs
    value,      \* liveValues, or None
    up,         \* requests to the exe
    down,       \* messages from the exe
    age,        \* age[e]: the value of the field of e, in the game
    subs,       \* SubManager: subs[s] is None or the subscription
    nextSub,    \* SubManager.m_next_id
    answer,     \* what the WebSocket thread is about to send, or None
    diff,       \* what the subscription thread is about to send, or None
    overtaken   \* history: effects cancelled, or given up, before they had their answer

pane == <<cur, ran, mounted, of, phase, listens, subId, timer, intervals, value>>
exe  == <<subs, nextSub, answer, diff>>
vars == <<pane, up, down, age, exe, overtaken>>

Phases == {"none", "subscribing", "subscribed", "polling"}

Requests == [op : {"subscribe", "read"}, effect : Effects] \cup [op : {"unsubscribe"}, sub : Subs]
Answers  == [op : {"subscribed"}, effect : Effects, sub : Subs]
                \cup [op : {"refused"}, effect : Effects]
                \cup [op : {"data"}, effect : Effects, value : Values]
Diffs    == [op : {"diff"}, sub : Subs, value : Values]
Watched  == [by : Effects, of : Entities, last : Ages \cup {None}]

ASSUME InspectorAssumption ==
    /\ MaxEffects \in Nat /\ MaxAge \in Nat /\ MaxOpen \in Nat
    /\ None \notin Entities \cup Values \cup Answers \cup Diffs \cup Watched

TypeOK ==
    /\ cur \in Effects \cup {0} /\ ran \in 0..MaxEffects /\ mounted \in 1..(MaxEffects + 1)
    /\ of \in [Effects -> Entities \cup {None}]
    /\ phase \in [Effects -> Phases]
    /\ listens \in [Subs -> Effects \cup {0}]
    /\ subId \in Subs \cup {0}
    /\ timer \in Effects \cup {0} /\ intervals \subseteq Effects
    /\ value \in Values \cup {None}
    /\ up \in Seq(Requests) /\ down \in Seq(Answers \cup Diffs)
    /\ age \in [Entities -> Ages]
    /\ subs \in [Subs -> Watched \cup {None}]
    /\ nextSub \in 1..(MaxEffects + 1)
    /\ answer \in Answers \cup {None} /\ diff \in Diffs \cup {None}
    /\ overtaken \subseteq Effects

Init ==
    /\ cur = 0 /\ ran = 0 /\ mounted = 1
    /\ of = [i \in Effects |-> None] /\ phase = [i \in Effects |-> "none"]
    /\ listens = [s \in Subs |-> 0]
    /\ subId = 0 /\ timer = 0 /\ intervals = {} /\ value = None
    /\ up = <<>> /\ down = <<>> /\ age = [e \in Entities |-> 0]
    /\ subs = [s \in Subs |-> None] /\ nextSub = 1 /\ answer = None /\ diff = None
    /\ overtaken = {}

Shown == IF cur = 0 THEN None ELSE of[cur]
Now(e) == [of |-> e, age |-> age[e]]

Subscribe(i)   == [op |-> "subscribe", effect |-> i]
Read(i)        == [op |-> "read", effect |-> i]
Unsubscribe(s) == [op |-> "unsubscribe", sub |-> s]
-----------------------------------------------------------------------------
(* The pane. *)

(* Variant: only an interval is stopped, and the subscription if there is none. *)
StopForgets(queue) == IF subId = 0 \/ timer # 0 THEN queue ELSE Append(queue, Unsubscribe(subId))

(* stopInspector: the requests with what it sends. *)
Stop(queue) == IF subId = 0 THEN queue ELSE Append(queue, Unsubscribe(subId))

(* The clean-up of an effect: it is cancelled, and stopInspector runs. *)
CleanUp ==
    /\ subId' = 0
    /\ timer' = 0 /\ intervals' = intervals \ {timer}
    /\ overtaken' = overtaken \cup {i \in {cur} : i # 0 /\ phase[i] = "subscribing"}

(* An entity is selected, or the pane is opened anew with one. *)
Select(e) ==
    /\ ran < MaxEffects /\ e # Shown
    /\ CleanUp
    /\ ran' = ran + 1 /\ cur' = ran + 1
    /\ of' = [of EXCEPT ![ran + 1] = e]
    /\ phase' = [phase EXCEPT ![ran + 1] = "subscribing"]
    /\ value' = None
    /\ up' = Append(Stop(up), Subscribe(ran + 1))
    /\ UNCHANGED <<mounted, listens, down, age, exe>>

(* Another view is opened: the pane is unmounted. *)
Unmount ==
    /\ cur # 0
    /\ CleanUp
    /\ cur' = 0 /\ mounted' = ran + 1
    /\ value' = None
    /\ up' = Stop(up)
    /\ UNCHANGED <<ran, of, phase, listens, down, age, exe>>

Receives(op) == down # <<>> /\ Head(down).op = op /\ down' = Tail(down)

(* Variant: an answer that comes too late is taken all the same. *)
TakenLate(i) == phase[i] \in {"subscribing", "polling"}

(* A call settles once. *)
Awaits(i) == phase[i] = "subscribing"

(* The answer to subscribe(), unless it comes too late.  The references of   *)
(* a pane that has been unmounted are not those of the next one.           *)
Subscribed ==
    /\ Receives("subscribed")
    /\ LET i == Head(down).effect
           s == Head(down).sub
       IN IF Awaits(i)
          THEN /\ phase' = [phase EXCEPT ![i] = "subscribed"]
               /\ listens' = [listens EXCEPT ![s] = i]
               /\ subId' = IF i >= mounted THEN s ELSE subId
               /\ up' = Append(up, Read(i))
          ELSE UNCHANGED <<phase, listens, subId, up>>
    /\ UNCHANGED <<cur, ran, mounted, of, timer, intervals, value, age, exe, overtaken>>

(* Variant: the fallback reads once. *)
FallBackOnce(i) ==
    /\ phase' = [phase EXCEPT ![i] = "polling"]
    /\ up' = Append(up, Read(i))
    /\ UNCHANGED <<cur, ran, mounted, of, listens, subId, value, age, exe, timer, intervals>>

(* The polling fallback, begun whether the effect is cancelled or not. *)
FallBack(i) ==
    /\ phase' = [phase EXCEPT ![i] = "polling"]
    /\ up' = Append(up, Read(i))
    /\ timer' = IF i >= mounted THEN i ELSE timer
    /\ intervals' = intervals \cup {i}
    /\ UNCHANGED <<cur, ran, mounted, of, listens, subId, value, age, exe>>

Refused ==
    /\ Receives("refused")
    /\ LET i == Head(down).effect
       IN IF Awaits(i) THEN FallBack(i)
                       ELSE UNCHANGED <<pane, up, age, exe>>
    /\ UNCHANGED overtaken

(* LiveClient gives the call up after 5 s. *)
TimesOut(i) ==
    /\ phase[i] = "subscribing"
    /\ FallBack(i)
    /\ overtaken' = overtaken \cup {i}
    /\ UNCHANGED down

Tick(i) ==
    /\ i \in intervals /\ i = cur
    /\ Len(up) + Len(down) < MaxOpen
    /\ up' = Append(up, Read(i))
    /\ UNCHANGED <<pane, down, age, exe, overtaken>>

(* refreshInspector goes on: the values are taken as they are. *)
Data ==
    /\ Receives("data")
    /\ value' = IF Head(down).effect >= mounted THEN Head(down).value ELSE value
    /\ UNCHANGED <<cur, ran, mounted, of, phase, listens, subId, timer, intervals, up, age, exe, overtaken>>

(* The read has failed or was given up. *)
NoData ==
    /\ Receives("data")
    /\ UNCHANGED <<pane, up, age, exe, overtaken>>

(* Variant: a listener does not look whether its effect is cancelled. *)
HearsCancelled(i) == i # 0 /\ i >= mounted

(* A diff reaches the listener of an effect that is not cancelled. *)
Hears(i) == i # 0 /\ i = cur

Diff ==
    /\ Receives("diff")
    /\ value' = IF Hears(listens[Head(down).sub]) THEN Head(down).value ELSE value
    /\ UNCHANGED <<cur, ran, mounted, of, phase, listens, subId, timer, intervals, up, age, exe, overtaken>>

Pane == \/ \E e \in Entities : Select(e)
        \/ \E i \in Effects : TimesOut(i) \/ Tick(i)
        \/ Unmount \/ Subscribed \/ Refused \/ Data \/ NoData \/ Diff
-----------------------------------------------------------------------------
(* The exe and the game. *)

(* The game changes an entity. *)
Change(e) ==
    /\ FoldFunction(+, 0, age) < MaxAge
    /\ age' = [age EXCEPT ![e] = @ + 1]
    /\ UNCHANGED <<pane, up, down, exe, overtaken>>

Takes(op) == answer = None /\ up # <<>> /\ Head(up).op = op /\ up' = Tail(up)

(* CommandDispatcher::handle, of the WebSocket thread. *)
HandleSubscribe ==
    /\ Takes("subscribe")
    /\ LET i == Head(up).effect
       IN \/ /\ nextSub' = nextSub + 1
             /\ subs' = [subs EXCEPT ![nextSub] = [by |-> i, of |-> of[i], last |-> None]]
             /\ answer' = [op |-> "subscribed", effect |-> i, sub |-> nextSub]
          \/ /\ answer' = [op |-> "refused", effect |-> i]
             /\ UNCHANGED <<subs, nextSub>>
    /\ UNCHANGED <<pane, down, age, diff, overtaken>>

HandleUnsubscribe ==
    /\ Takes("unsubscribe")
    /\ subs' = [subs EXCEPT ![Head(up).sub] = None]
    /\ UNCHANGED <<pane, down, age, nextSub, answer, diff, overtaken>>

HandleRead ==
    /\ Takes("read")
    /\ LET i == Head(up).effect
       IN answer' = [op |-> "data", effect |-> i, value |-> Now(of[i])]
    /\ UNCHANGED <<pane, down, age, subs, nextSub, diff, overtaken>>

Reply ==
    /\ answer # None
    /\ down' = Append(down, answer) /\ answer' = None
    /\ UNCHANGED <<pane, up, age, subs, nextSub, diff, overtaken>>

(* SubManager::loop reads the object of a subscription, and compares. *)
Poll(s) ==
    /\ diff = None /\ subs[s] # None
    /\ subs[s].last # age[subs[s].of]
    /\ subs' = [subs EXCEPT ![s].last = age[subs[s].of]]
    /\ diff' = [op |-> "diff", sub |-> s, value |-> Now(subs[s].of)]
    /\ UNCHANGED <<pane, up, down, age, nextSub, answer, overtaken>>

Push ==
    /\ diff # None
    /\ down' = Append(down, diff) /\ diff' = None
    /\ UNCHANGED <<pane, up, age, subs, nextSub, answer, overtaken>>

Exe == HandleSubscribe \/ HandleUnsubscribe \/ HandleRead \/ Reply \/ Push \/ \E s \in Subs : Poll(s)

Next == Pane \/ Exe \/ \E e \in Entities : Change(e)

Spec == Init /\ [][Next]_vars

(* Both threads of the exe run, messages are delivered, intervals elapse,   *)
(* and of reads that are repeated for ever not all fail.                   *)
FairSpec ==
    /\ Spec
    /\ WF_vars(HandleSubscribe \/ HandleUnsubscribe \/ HandleRead) /\ WF_vars(Reply)
    /\ WF_vars(Push) /\ \A s \in Subs : WF_vars(Poll(s))
    /\ WF_vars(Subscribed \/ Refused \/ Diff \/ Data \/ NoData) /\ SF_vars(Data)
    /\ \A i \in Effects : WF_vars(Tick(i))
-----------------------------------------------------------------------------
(* PROPERTIES *)

(* The references of the pane agree with what its effects have come to: an  *)
(* interval runs only for an effect that polls, a listener only for one     *)
(* that is subscribed, and the subscription that is kept is listened to by  *)
(* an effect of the pane that is open.                                     *)
PaneBooks ==
    /\ cur # 0 => cur = ran /\ mounted <= cur
    /\ mounted <= ran + 1
    /\ \A i \in Effects : phase[i] = "none" <=> i > ran
    /\ \A i \in Effects : of[i] = None <=> i > ran
    /\ \A i \in intervals : phase[i] = "polling"
    /\ \A s \in Subs : listens[s] # 0 => phase[listens[s]] = "subscribed"
    /\ subId # 0 => listens[subId] >= mounted
    /\ timer # 0 => timer \in intervals /\ timer >= mounted
    /\ cur # 0 /\ phase[cur] = "polling" => cur \in intervals

(* What the exe has sent or is about to send, and was asked to subscribe. *)
Sent    == (ToSet(down) \cup {answer, diff}) \ {None}
Settles(m) == m # None /\ m.op \in {"subscribed", "refused"}
Settling == {m \in Sent : Settles(m)}
Asked    == {q \in ToSet(up) : q.op = "subscribe"}

(* Subscriptions are asked for and answered in the order of the effects. *)
AskInOrder(queue) ==
    \A j, k \in DOMAIN queue :
        j < k /\ queue[j].op = "subscribe" /\ queue[k].op = "subscribe" => queue[j].effect < queue[k].effect

DownInOrder ==
    /\ \A j, k \in DOMAIN down :
          j < k /\ Settles(down[j]) /\ Settles(down[k]) => down[j].effect < down[k].effect
    /\ \A m \in ToSet(down) : Settles(m) /\ Settles(answer) => m.effect < answer.effect

(* An effect whose answer is to come is not overtaken by a later one. *)
NoneLater(i) == \A j \in Effects : i <= j => phase[j] # "subscribed"

Order ==
    /\ AskInOrder(up) /\ DownInOrder
    /\ \A q \in Asked :
          /\ \A m \in Settling : m.effect < q.effect
          /\ nextSub <= q.effect /\ NoneLater(q.effect)
          /\ phase[q.effect] = "subscribing" \/ q.effect \in overtaken
    /\ \A m \in Settling : m.effect <= ran /\ NoneLater(m.effect)
    /\ \A q \in ToSet(up) : q.op # "unsubscribe" => q.effect <= ran

(* A number means one subscription, of one effect and one entity, at both    *)
(* ends and in everything between them.                                    *)
SubBooks ==
    /\ nextSub <= ran + 1
    /\ \A s \in Subs : subs[s] # None =>
          /\ s < nextSub /\ subs[s].by <= ran /\ subs[s].of = of[subs[s].by]
          /\ listens[s] \in {0, subs[s].by}
          /\ \A t \in Subs : subs[t] # None /\ subs[t].by = subs[s].by => t = s
          /\ \A q \in Asked : subs[s].by < q.effect
    /\ \A s \in Subs : listens[s] # 0 => s < nextSub

(* And the messages under way agree with that. *)
SentBooks ==
    /\ \A m \in Sent : m.op = "subscribed" =>
          /\ m.sub < nextSub /\ listens[m.sub] = 0
          /\ \A n \in Sent : n.op = "subscribed" /\ n.sub = m.sub => n.effect = m.effect
          /\ \A n \in Sent : n.op = "diff" /\ n.sub = m.sub => n.value.of = of[m.effect]
    /\ \A m \in Sent : m.op = "diff" =>
          /\ m.sub < nextSub
          /\ listens[m.sub] # 0 => m.value.of = of[listens[m.sub]]
    /\ \A m \in Sent, s \in Subs : subs[s] # None =>
          /\ m.op = "refused" => m.effect # subs[s].by
          /\ m.op = "subscribed" => (m.effect = subs[s].by <=> m.sub = s)

(* An effect that gets its subscription after its clean-up is known as one. *)
Cancelled ==
    /\ \A i \in Effects : phase[i] = "subscribing" => i = cur \/ i \in overtaken
    /\ subId # 0 => listens[subId] = cur \/ listens[subId] \in overtaken

IInv == TypeOK /\ PaneBooks /\ Order /\ SubBooks /\ SentBooks /\ Cancelled

(* A diff changes what is shown only if it is about the entity shown: the   *)
(* listener of an effect that was cancelled does not touch the pane.       *)
DiffsAreOwn == [][Diff /\ value' # value => value'.of = Shown]_vars

(* A subscription of the exe is the one the pane knows, or its              *)
(* unsubscription or its answer is under way, unless its effect was         *)
(* cancelled or gave up before it had the answer.                          *)
LeaksOnlyOvertaken ==
    \A s \in Subs : subs[s] # None =>
        \/ s = subId
        \/ Unsubscribe(s) \in ToSet(up)
        \/ phase[subs[s].by] = "subscribing"
        \/ subs[s].by \in overtaken

(* Once nothing is selected and nothing changes any more, a pane that polls *)
(* comes to show the present values of its entity, and keeps to them.      *)
PollingConverges == <>[](cur # 0 /\ phase[cur] = "polling" => value = Now(Shown))

(* What is shown is about the entity selected. *)
ShownIsOwn == value # None => value.of = Shown
=============================================================================
