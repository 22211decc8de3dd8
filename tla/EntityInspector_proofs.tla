----------------------- MODULE EntityInspector_proofs -----------------------
(***************************************************************************)
(* Proofs about EntityInspector, for any number of effects, entities and    *)
(* changes.  IInv is inductive: an effect asks once, questions and answers  *)
(* stay in order, and whatever is said of a subscription is about the       *)
(* entity of the effect that asked for it.                                 *)
(***************************************************************************)
EXTENDS EntityInspector, TLAPS

Messages == Answers \cup Diffs

-----------------------------------------------------------------------------
(* What requests and messages are made of. *)
LEMMA RequestIs ==
    /\ \A q \in Requests : /\ q.op \in {"subscribe", "read", "unsubscribe"}
                           /\ q.op \in {"subscribe", "read"} => q.effect \in Effects
                           /\ q.op = "unsubscribe" => q.sub \in Subs
    /\ \A i \in Effects : /\ Subscribe(i) \in Requests /\ Read(i) \in Requests
                          /\ Subscribe(i).op = "subscribe" /\ Read(i).op = "read"
                          /\ Subscribe(i).effect = i /\ Read(i).effect = i
    /\ \A s \in Subs : Unsubscribe(s) \in Requests /\ Unsubscribe(s).op = "unsubscribe" /\ Unsubscribe(s).sub = s
BY DEF Requests, Subscribe, Read, Unsubscribe

LEMMA MessageIs ==
    \A m \in Messages :
        /\ m # None /\ m.op \in {"subscribed", "refused", "data", "diff"}
        /\ m.op = "subscribed" => m.effect \in Effects /\ m.sub \in Subs
        /\ m.op \in {"refused", "data"} => m.effect \in Effects
        /\ m.op = "diff" => m.sub \in Subs
        /\ m.op \in {"data", "diff"} => m.value \in Values
BY InspectorAssumption DEF Messages, Answers, Diffs

LEMMA Numbers == /\ Effects \subseteq Nat /\ Subs \subseteq Nat /\ 0 \notin Effects /\ 0 \notin Subs
                 /\ \A j, k \in Effects : j < k => j # k /\ j <= k
                 /\ Subs = Effects /\ MaxEffects \in Nat /\ \A n \in Nat : n \in Effects <=> 1 <= n /\ n <= MaxEffects
BY InspectorAssumption DEF Effects, Subs

LEMMA TypeNumbers == TypeOK => ran \in Nat /\ cur \in Nat /\ mounted \in Nat /\ mounted >= 1 /\ nextSub \in Nat /\ nextSub >= 1
BY Numbers DEF TypeOK

(* Queues. *)
LEMMA MembersOf ==
    ASSUME NEW S, NEW q \in Seq(S)
    PROVE  /\ ToSet(q) \subseteq S
           /\ \A k \in DOMAIN q : q[k] \in ToSet(q)
           /\ \A x \in ToSet(q) : \E k \in DOMAIN q : q[k] = x
BY DEF ToSet

LEMMA AppendOf ==
    ASSUME NEW S, NEW q \in Seq(S), NEW x \in S
    PROVE  /\ Append(q, x) \in Seq(S)
           /\ ToSet(Append(q, x)) = ToSet(q) \cup {x}
           /\ \A j, k \in DOMAIN Append(q, x) :
                 j < k => /\ j \in DOMAIN q /\ Append(q, x)[j] = q[j]
                          /\ (k \in DOMAIN q /\ Append(q, x)[k] = q[k]) \/ (k \notin DOMAIN q /\ Append(q, x)[k] = x)
<1>1. /\ Append(q, x) \in Seq(S) /\ Len(q) \in Nat /\ Len(Append(q, x)) = Len(q) + 1
      /\ DOMAIN q = 1..Len(q) /\ DOMAIN Append(q, x) = 1..(Len(q) + 1)
      /\ \A k \in 1..Len(q) : Append(q, x)[k] = q[k]
      /\ Append(q, x)[Len(q) + 1] = x
    OBVIOUS
<1>2. ToSet(Append(q, x)) = ToSet(q) \cup {x}
    <2>1. \A y \in ToSet(Append(q, x)) : y \in ToSet(q) \cup {x}
        BY <1>1 DEF ToSet
    <2>2. \A y \in ToSet(q) : y \in ToSet(Append(q, x))
        BY <1>1 DEF ToSet
    <2>3. x \in ToSet(Append(q, x))
        BY <1>1 DEF ToSet
    <2> QED BY <2>1, <2>2, <2>3
<1>3. \A j, k \in 1..(Len(q) + 1) : j < k => j \in 1..Len(q) /\ (k \in 1..Len(q) \/ k = Len(q) + 1)
    BY <1>1
<1> QED BY <1>1, <1>2, <1>3

LEMMA TailOf ==
    ASSUME NEW S, NEW q \in Seq(S), q # <<>>
    PROVE  /\ Head(q) \in S /\ Head(q) \in ToSet(q) /\ Tail(q) \in Seq(S)
           /\ ToSet(q) = {Head(q)} \cup ToSet(Tail(q))
           /\ 1 \in DOMAIN q /\ q[1] = Head(q)
           /\ \A k \in DOMAIN Tail(q) : k + 1 \in DOMAIN q /\ 1 < k + 1 /\ Tail(q)[k] = q[k + 1] /\ k \in Nat
<1>1. /\ Head(q) \in S /\ Head(q) = q[1] /\ Tail(q) \in Seq(S)
      /\ Len(q) \in Nat /\ Len(q) >= 1 /\ Len(Tail(q)) = Len(q) - 1
      /\ DOMAIN q = 1..Len(q) /\ DOMAIN Tail(q) = 1..Len(Tail(q))
      /\ \A k \in 1..Len(Tail(q)) : Tail(q)[k] = q[k + 1]
    OBVIOUS
<1>2. \A k \in DOMAIN Tail(q) : k + 1 \in DOMAIN q /\ 1 < k + 1 /\ k \in Nat
    BY <1>1
<1>3. \A k \in DOMAIN q : k = 1 \/ (k - 1 \in DOMAIN Tail(q) /\ Tail(q)[k - 1] = q[k])
    BY <1>1
<1>4. ToSet(q) = {Head(q)} \cup ToSet(Tail(q))
    <2>1. ASSUME NEW y \in ToSet(q) PROVE y \in {Head(q)} \cup ToSet(Tail(q))
        <3>1. PICK k \in DOMAIN q : y = q[k]
            BY DEF ToSet
        <3>2. k = 1 \/ (k - 1 \in DOMAIN Tail(q) /\ Tail(q)[k - 1] = y)
            BY <3>1, <1>3
        <3> QED BY <3>1, <3>2, <1>1 DEF ToSet
    <2>2. \A y \in ToSet(Tail(q)) : y \in ToSet(q)
        BY <1>1, <1>2 DEF ToSet
    <2>3. Head(q) \in ToSet(q)
        BY <1>1 DEF ToSet
    <2> QED BY <2>1, <2>2, <2>3
<1> QED BY <1>1, <1>2, <1>4

(* What the pane sends keeps the order, if a question is about an effect    *)
(* later than all before.                                                  *)
LEMMA SendKeepsOrder ==
    ASSUME NEW q \in Seq(Requests), AskInOrder(q), NEW x \in Requests,
           x.op = "subscribe" => \A r \in ToSet(q) : r.op = "subscribe" => r.effect < x.effect
    PROVE  /\ Append(q, x) \in Seq(Requests) /\ AskInOrder(Append(q, x))
           /\ ToSet(Append(q, x)) = ToSet(q) \cup {x}
<1>1. /\ Append(q, x) \in Seq(Requests) /\ ToSet(Append(q, x)) = ToSet(q) \cup {x}
      /\ \A j, k \in DOMAIN Append(q, x) :
            j < k => /\ j \in DOMAIN q /\ Append(q, x)[j] = q[j]
                     /\ (k \in DOMAIN q /\ Append(q, x)[k] = q[k]) \/ (k \notin DOMAIN q /\ Append(q, x)[k] = x)
    BY AppendOf, Zenon
<1>2. \A j \in DOMAIN q : q[j] \in ToSet(q)
    BY DEF ToSet
<1>3. AskInOrder(Append(q, x))
    BY <1>1, <1>2 DEF AskInOrder
<1> QED BY <1>1, <1>3

(* The exe takes a request. *)
LEMMA TakeKeepsOrder ==
    ASSUME up \in Seq(Requests), AskInOrder(up), NEW op, Takes(op)
    PROVE  /\ Head(up) \in Requests /\ Head(up) \in ToSet(up) /\ Head(up).op = op /\ answer = None
           /\ up' \in Seq(Requests) /\ AskInOrder(up)'
           /\ ToSet(up) = ToSet(up)' \cup {Head(up)} /\ Asked' \subseteq Asked
           /\ op = "subscribe" => Head(up) \in Asked /\ \A q \in Asked' : Head(up).effect < q.effect
<1>1. up # <<>> /\ up' = Tail(up) /\ Head(up).op = op /\ answer = None
    BY DEF Takes
<1>2. /\ Head(up) \in Requests /\ Head(up) \in ToSet(up) /\ Tail(up) \in Seq(Requests)
      /\ ToSet(up) = {Head(up)} \cup ToSet(Tail(up))
      /\ 1 \in DOMAIN up /\ up[1] = Head(up)
      /\ \A k \in DOMAIN Tail(up) : k + 1 \in DOMAIN up /\ 1 < k + 1 /\ Tail(up)[k] = up[k + 1] /\ k \in Nat
    BY <1>1, TailOf, Zenon
<1>3. AskInOrder(up)'
    <2>1. \A j, k \in DOMAIN Tail(up) : j < k => j + 1 < k + 1
        BY <1>2
    <2> QED BY <1>1, <1>2, <2>1 DEF AskInOrder
<1>4. op = "subscribe" => \A q \in Asked' : Head(up).effect < q.effect
    <2> SUFFICES ASSUME op = "subscribe", NEW q \in Asked' PROVE Head(up).effect < q.effect
        OBVIOUS
    <2>1. PICK k \in DOMAIN Tail(up) : Tail(up)[k] = q
        BY <1>1 DEF Asked, ToSet
    <2>2. k + 1 \in DOMAIN up /\ 1 < k + 1 /\ up[k + 1] = q /\ q.op = "subscribe"
        BY <1>2, <2>1 DEF Asked
    <2> QED BY <1>1, <1>2, <2>2 DEF AskInOrder
<1> QED BY <1>1, <1>2, <1>3, <1>4 DEF Asked

(* The pane takes a message. *)
LEMMA ReceiveKeepsOrder ==
    ASSUME TypeOK, DownInOrder, NEW op, Receives(op), UNCHANGED <<answer, diff>>
    PROVE  /\ Head(down) \in Messages /\ Head(down) \in Sent /\ Head(down).op = op
           /\ down' \in Seq(Messages) /\ DownInOrder'
           /\ Sent' \subseteq Sent /\ Sent \subseteq Sent' \cup {Head(down)}
           /\ Settling' \subseteq Settling
           /\ op \in {"subscribed", "refused"} =>
                 Head(down) \in Settling /\ \A m \in Settling' : Head(down).effect < m.effect
<1>1. down # <<>> /\ down' = Tail(down) /\ Head(down).op = op /\ down \in Seq(Messages)
    BY DEF Receives, TypeOK, Messages
<1>2. /\ Head(down) \in Messages /\ Head(down) \in ToSet(down) /\ Tail(down) \in Seq(Messages)
      /\ ToSet(down) = {Head(down)} \cup ToSet(Tail(down))
      /\ 1 \in DOMAIN down /\ down[1] = Head(down)
      /\ \A k \in DOMAIN Tail(down) : k + 1 \in DOMAIN down /\ 1 < k + 1 /\ Tail(down)[k] = down[k + 1] /\ k \in Nat
    BY <1>1, TailOf, Zenon
<1>3. Head(down) # None /\ Head(down) \in Sent
    BY <1>2, MessageIs DEF Sent
<1>4. Sent' \subseteq Sent /\ Sent \subseteq Sent' \cup {Head(down)}
    BY <1>1, <1>2 DEF Sent
<1>5. \A m : Settles(m)' <=> Settles(m)
    BY DEF Settles
<1>6. DownInOrder'
    <2>1. \A j, k \in DOMAIN Tail(down) : j < k => j + 1 < k + 1
        BY <1>2
    <2>2. \A j, k \in DOMAIN down' : j < k /\ Settles(down'[j]) /\ Settles(down'[k]) => down'[j].effect < down'[k].effect
        BY <1>1, <1>2, <2>1 DEF DownInOrder
    <2>3. \A m \in ToSet(down') : Settles(m) /\ Settles(answer) => m.effect < answer.effect
        BY <1>1, <1>2 DEF DownInOrder
    <2> QED BY <2>2, <2>3 DEF DownInOrder, Settles
<1>7. op \in {"subscribed", "refused"} =>
         Head(down) \in Settling /\ \A m \in Settling' : Head(down).effect < m.effect
    <2> SUFFICES ASSUME op \in {"subscribed", "refused"}
                 PROVE  Head(down) \in Settling /\ \A m \in Settling' : Head(down).effect < m.effect
        OBVIOUS
    <2>1. Settles(Head(down)) /\ Head(down) \in Settling
        BY <1>1, <1>3 DEF Settles, Settling
    <2>2. ASSUME NEW m \in Settling' PROVE Head(down).effect < m.effect
        <3>1. Settles(m) /\ m \in Sent' /\ m # None
            BY DEF Settling, Settles
        <3>2. CASE m = answer
            BY <3>1, <3>2, <2>1, <1>2 DEF DownInOrder
        <3>3. CASE m \in ToSet(Tail(down))
            <4>1. PICK k \in DOMAIN Tail(down) : Tail(down)[k] = m
                BY <3>3 DEF ToSet
            <4>2. k + 1 \in DOMAIN down /\ 1 < k + 1 /\ down[k + 1] = m
                BY <1>2, <4>1
            <4> QED BY <4>2, <3>1, <2>1, <1>2 DEF DownInOrder
        <3>4. CASE m = diff
            BY <3>4, <3>1 DEF TypeOK, Diffs, Settles
        <3> QED BY <3>1, <3>2, <3>3, <3>4, <1>1 DEF Sent
    <2> QED BY <2>1, <2>2
<1> QED BY <1>1, <1>2, <1>3, <1>4, <1>6, <1>7 DEF Settling, Settles

-----------------------------------------------------------------------------
(* What is proved to hold always. *)
Inv == IInv /\ LeaksOnlyOvertaken

LEMMA InvUnfold ==
    Inv <=> TypeOK /\ PaneBooks /\ Order /\ SubBooks /\ SentBooks /\ Cancelled /\ LeaksOnlyOvertaken
BY DEF Inv, IInv

LEMMA InitInv == Init => Inv
<1> SUFFICES ASSUME Init PROVE Inv
    OBVIOUS
<1>1. TypeOK
    BY InspectorAssumption, Numbers DEF Init, TypeOK, Phases, Ages
<1>2. PaneBooks
    BY Numbers DEF Init, PaneBooks
<1>3. /\ ToSet(up) = {} /\ ToSet(down) = {} /\ DOMAIN up = {} /\ DOMAIN down = {}
    BY DEF Init, ToSet
<1>4. Sent = {} /\ Settling = {} /\ Asked = {}
    BY <1>3 DEF Init, Sent, Settling, Asked
<1>5. Order
    BY <1>3, <1>4 DEF Order, AskInOrder, DownInOrder
<1>6. SubBooks /\ SentBooks
    BY <1>4 DEF Init, SubBooks, SentBooks
<1>7. Cancelled /\ LeaksOnlyOvertaken
    BY DEF Init, Cancelled, LeaksOnlyOvertaken
<1> QED BY <1>1, <1>2, <1>5, <1>6, <1>7, InvUnfold

(* Order, SubBooks and SentBooks speak of what is under way and of what the *)
(* exe keeps: they stay true when there is less of both.                    *)
LEMMA LessTraffic ==
    ASSUME Inv, UNCHANGED <<ran, of, phase, listens, nextSub, overtaken>>,
           AskInOrder(up)', DownInOrder', Asked' \subseteq Asked,
           \A q \in ToSet(up)' : q \in ToSet(up) \/ q.op = "unsubscribe" \/ q.effect <= ran,
           \A m \in Sent' : m \in Sent \/ m.op = "data",
           \A s \in Subs : subs'[s] # None => subs[s] # None /\ subs'[s].by = subs[s].by /\ subs'[s].of = subs[s].of
    PROVE  Order' /\ SubBooks' /\ SentBooks'
<1> USE InvUnfold
<1>1. Settling' \subseteq Settling
    BY DEF Settling, Settles
<1>2. Order'
    BY <1>1 DEF Order, NoneLater
<1>3. SubBooks'
    BY DEF SubBooks
<1>4. SentBooks'
    BY DEF SentBooks
<1> QED BY <1>2, <1>3, <1>4

-----------------------------------------------------------------------------
(* The pane: an interval, data and diffs. *)
LEMMA TickInv == ASSUME Inv, NEW i \in Effects, Tick(i) PROVE Inv'
<1> USE InvUnfold
<1>1. /\ up' = Append(up, Read(i)) /\ i = cur /\ UNCHANGED <<pane, down, age, exe, overtaken>>
      /\ Read(i) \in Requests /\ Read(i).op = "read" /\ Read(i).effect = i
    BY RequestIs DEF Tick
<1>2. /\ up' \in Seq(Requests) /\ AskInOrder(up)' /\ ToSet(up)' = ToSet(up) \cup {Read(i)} /\ Asked' = Asked
    <2>1. up \in Seq(Requests) /\ AskInOrder(up)
        BY DEF TypeOK, Order
    <2>2. /\ Append(up, Read(i)) \in Seq(Requests) /\ AskInOrder(Append(up, Read(i)))
          /\ ToSet(Append(up, Read(i))) = ToSet(up) \cup {Read(i)}
        BY <1>1, <2>1, SendKeepsOrder
    <2> QED BY <1>1, <2>2 DEF Asked, AskInOrder
<1>3. i <= ran /\ Sent' = Sent
    BY <1>1, Numbers DEF PaneBooks, TypeOK, pane, exe, Sent
<1>4. TypeOK' /\ PaneBooks' /\ Cancelled'
    BY <1>1, <1>2 DEF TypeOK, PaneBooks, Cancelled, pane, exe
<1>5. DownInOrder'
    BY <1>1 DEF Order, DownInOrder, Settles, pane, exe
<1>6. Order' /\ SubBooks' /\ SentBooks'
    BY <1>1, <1>2, <1>3, <1>5, LessTraffic DEF pane, exe
<1>7. LeaksOnlyOvertaken'
    BY <1>1, <1>2 DEF LeaksOnlyOvertaken, pane, exe, Unsubscribe
<1> QED BY <1>4, <1>6, <1>7 DEF Inv, IInv

LEMMA HeardInv ==
    ASSUME Inv, NEW op, Receives(op), value' \in {value, Head(down).value}, op \in {"data", "diff"} \/ value' = value,
           UNCHANGED <<cur, ran, mounted, of, phase, listens, subId, timer, intervals, up, age, exe, overtaken>>
    PROVE  Inv'
<1> USE InvUnfold
<1>1. /\ Head(down) \in Messages /\ Head(down).op = op
      /\ down' \in Seq(Messages) /\ DownInOrder' /\ Sent' \subseteq Sent
    BY ReceiveKeepsOrder DEF exe, Order
<1>2. value' \in Values \cup {None}
    BY <1>1, MessageIs DEF TypeOK
<1>3. TypeOK' /\ PaneBooks' /\ Cancelled'
    BY <1>1, <1>2 DEF TypeOK, PaneBooks, Cancelled, Messages, exe
<1>4. Asked' = Asked /\ ToSet(up)' = ToSet(up) /\ AskInOrder(up)'
    BY DEF Asked, Order, AskInOrder
<1>5. \A q \in ToSet(up)' : q \in ToSet(up)
    BY <1>4
<1>6. Order' /\ SubBooks' /\ SentBooks'
    BY <1>1, <1>4, <1>5, LessTraffic DEF exe
<1>7. LeaksOnlyOvertaken'
    BY DEF LeaksOnlyOvertaken, exe, Unsubscribe
<1> QED BY <1>3, <1>6, <1>7 DEF Inv, IInv

LEMMA DataInv == ASSUME Inv, Data \/ NoData \/ Diff PROVE Inv'
<1>1. CASE Data
    BY <1>1, HeardInv DEF Data
<1>2. CASE NoData
    BY <1>2, HeardInv DEF NoData, pane
<1>3. CASE Diff
    BY <1>3, HeardInv DEF Diff
<1> QED BY <1>1, <1>2, <1>3

-----------------------------------------------------------------------------
(* The game and the exe. *)
LEMMA ChangeInv == ASSUME Inv, NEW e \in Entities, Change(e) PROVE Inv'
<1> USE InvUnfold
<1>1. /\ age' = [age EXCEPT ![e] = @ + 1] /\ UNCHANGED <<pane, up, down, exe, overtaken>>
    BY DEF Change
<1>2. TypeOK'
    BY <1>1 DEF TypeOK, Ages, pane, exe
<1>3. Sent' = Sent /\ Settling' = Settling /\ Asked' = Asked
    BY <1>1 DEF Sent, Settling, Settles, Asked, pane, exe
<1>4. PaneBooks' /\ Cancelled' /\ LeaksOnlyOvertaken'
    BY <1>1 DEF PaneBooks, Cancelled, LeaksOnlyOvertaken, Unsubscribe, pane, exe
<1>5. Order' /\ SubBooks' /\ SentBooks'
    BY <1>1, <1>3 DEF Order, AskInOrder, DownInOrder, NoneLater, Settles, SubBooks, SentBooks, pane, exe
<1> QED BY <1>2, <1>4, <1>5 DEF Inv, IInv

LEMMA HandleReadInv == ASSUME Inv, HandleRead PROVE Inv'
<1> USE InvUnfold
<1> DEFINE i == Head(up).effect
<1>1. /\ Takes("read") /\ answer' = [op |-> "data", effect |-> i, value |-> Now(of[i])]
      /\ UNCHANGED <<pane, down, age, subs, nextSub, diff, overtaken>>
    BY DEF HandleRead
<1>2. /\ Head(up) \in Requests /\ Head(up) \in ToSet(up) /\ Head(up).op = "read" /\ answer = None
      /\ up' \in Seq(Requests) /\ AskInOrder(up)'
      /\ ToSet(up) = ToSet(up)' \cup {Head(up)} /\ Asked' \subseteq Asked
    BY <1>1, TakeKeepsOrder DEF TypeOK, Order
<1>3. i \in Effects /\ i <= ran
    BY <1>2, RequestIs DEF Order
<1>4. of[i] \in Entities
    <2>1. i \in Nat
        BY <1>3, Numbers
    <2>2. ran \in Nat
        BY TypeNumbers
    <2>3. ~(i > ran)
        BY <1>3, <2>1, <2>2
    <2> QED BY <1>3, <2>3 DEF TypeOK, PaneBooks
<1>5. answer' \in Answers /\ answer'.op = "data"
    BY <1>1, <1>3, <1>4 DEF Answers, Values, Now, TypeOK, pane
<1>6. TypeOK' /\ PaneBooks' /\ Cancelled'
    BY <1>1, <1>2, <1>5 DEF TypeOK, PaneBooks, Cancelled, pane
<1>7. \A m \in Sent' : m \in Sent \/ m.op = "data"
    BY <1>1, <1>5 DEF Sent
<1>8. DownInOrder'
    BY <1>1, <1>5 DEF Order, DownInOrder, Settles
<1>9. Order' /\ SubBooks' /\ SentBooks'
    BY <1>1, <1>2, <1>7, <1>8, LessTraffic DEF pane
<1>10. LeaksOnlyOvertaken'
    <2>1. ASSUME NEW s \in Subs, Unsubscribe(s) \in ToSet(up) PROVE Unsubscribe(s) \in ToSet(up)'
        BY <2>1, <1>2, RequestIs
    <2> QED BY <1>1, <2>1 DEF LeaksOnlyOvertaken, pane, Unsubscribe
<1> QED BY <1>6, <1>9, <1>10 DEF Inv, IInv

LEMMA HandleUnsubscribeInv == ASSUME Inv, HandleUnsubscribe PROVE Inv'
<1> USE InvUnfold
<1> DEFINE s == Head(up).sub
<1>1. /\ Takes("unsubscribe") /\ subs' = [subs EXCEPT ![s] = None]
      /\ UNCHANGED <<pane, down, age, nextSub, answer, diff, overtaken>>
    BY DEF HandleUnsubscribe
<1>2. /\ Head(up) \in Requests /\ Head(up).op = "unsubscribe"
      /\ up' \in Seq(Requests) /\ AskInOrder(up)'
      /\ ToSet(up) = ToSet(up)' \cup {Head(up)} /\ Asked' \subseteq Asked
    BY <1>1, TakeKeepsOrder DEF TypeOK, Order
<1>3. s \in Subs /\ Head(up) = Unsubscribe(s)
    BY <1>2 DEF Requests, Unsubscribe
<1>4. /\ subs'[s] = None /\ \A t \in Subs : t # s => subs'[t] = subs[t]
    BY <1>1, <1>3 DEF TypeOK
<1>5. TypeOK' /\ PaneBooks' /\ Cancelled'
    BY <1>1, <1>2 DEF TypeOK, PaneBooks, Cancelled, pane
<1>6. Sent' = Sent /\ DownInOrder'
    BY <1>1 DEF Sent, Order, DownInOrder, Settles
<1>7. Order' /\ SubBooks' /\ SentBooks'
    BY <1>1, <1>2, <1>4, <1>6, LessTraffic DEF pane
<1>8. LeaksOnlyOvertaken'
    <2>1. ASSUME NEW t \in Subs, t # s, Unsubscribe(t) \in ToSet(up) PROVE Unsubscribe(t) \in ToSet(up)'
        BY <2>1, <1>2, <1>3, RequestIs
    <2> QED BY <1>1, <1>4, <2>1 DEF LeaksOnlyOvertaken, pane, Unsubscribe
<1> QED BY <1>5, <1>7, <1>8 DEF Inv, IInv

LEMMA ReplyInv == ASSUME Inv, Reply PROVE Inv'
<1> USE InvUnfold
<1>1. /\ answer # None /\ down' = Append(down, answer) /\ answer' = None
      /\ UNCHANGED <<pane, up, age, subs, nextSub, diff, overtaken>>
    BY DEF Reply
<1>2. /\ down \in Seq(Messages) /\ answer \in Answers /\ answer \in Messages /\ DownInOrder
    BY <1>1 DEF TypeOK, Messages, Order
<1>3. /\ down' \in Seq(Messages) /\ ToSet(down') = ToSet(down) \cup {answer}
      /\ \A j, k \in DOMAIN down' :
            j < k => /\ j \in DOMAIN down /\ down'[j] = down[j]
                     /\ (k \in DOMAIN down /\ down'[k] = down[k]) \/ (k \notin DOMAIN down /\ down'[k] = answer)
    <2>1. /\ Append(down, answer) \in Seq(Messages) /\ ToSet(Append(down, answer)) = ToSet(down) \cup {answer}
          /\ \A j, k \in DOMAIN Append(down, answer) :
                j < k => /\ j \in DOMAIN down /\ Append(down, answer)[j] = down[j]
                         /\ (k \in DOMAIN down /\ Append(down, answer)[k] = down[k]) \/ (k \notin DOMAIN down /\ Append(down, answer)[k] = answer)
        BY <1>2, AppendOf, Zenon
    <2> QED BY <1>1, <2>1
<1>4. DownInOrder'
    <2>1. \A j \in DOMAIN down : down[j] \in ToSet(down)
        BY DEF ToSet
    <2> QED BY <1>1, <1>2, <1>3, <2>1 DEF DownInOrder, Settles
<1>5. Sent' = Sent
    BY <1>1, <1>3 DEF Sent
<1>6. TypeOK' /\ PaneBooks' /\ Cancelled'
    BY <1>1, <1>3 DEF TypeOK, PaneBooks, Cancelled, pane, Messages
<1>7. Asked' = Asked /\ AskInOrder(up)' /\ ToSet(up)' = ToSet(up)
    BY <1>1 DEF Asked, Order, AskInOrder
<1>8. \A q \in ToSet(up)' : q \in ToSet(up)
    BY <1>7
<1>9. Order' /\ SubBooks' /\ SentBooks'
    BY <1>1, <1>4, <1>5, <1>7, <1>8, LessTraffic DEF pane
<1>10. LeaksOnlyOvertaken'
    BY <1>1 DEF LeaksOnlyOvertaken, pane, Unsubscribe
<1> QED BY <1>6, <1>9, <1>10 DEF Inv, IInv

LEMMA PushInv == ASSUME Inv, Push PROVE Inv'
<1> USE InvUnfold
<1>1. /\ diff # None /\ down' = Append(down, diff) /\ diff' = None
      /\ UNCHANGED <<pane, up, age, subs, nextSub, answer, overtaken>>
    BY DEF Push
<1>2. /\ down \in Seq(Messages) /\ diff \in Diffs /\ diff \in Messages /\ DownInOrder /\ diff.op = "diff"
    BY <1>1 DEF TypeOK, Messages, Order, Diffs
<1>3. /\ down' \in Seq(Messages) /\ ToSet(down') = ToSet(down) \cup {diff}
      /\ \A j, k \in DOMAIN down' :
            j < k => /\ j \in DOMAIN down /\ down'[j] = down[j]
                     /\ (k \in DOMAIN down /\ down'[k] = down[k]) \/ (k \notin DOMAIN down /\ down'[k] = diff)
    <2>1. /\ Append(down, diff) \in Seq(Messages) /\ ToSet(Append(down, diff)) = ToSet(down) \cup {diff}
          /\ \A j, k \in DOMAIN Append(down, diff) :
                j < k => /\ j \in DOMAIN down /\ Append(down, diff)[j] = down[j]
                         /\ (k \in DOMAIN down /\ Append(down, diff)[k] = down[k]) \/ (k \notin DOMAIN down /\ Append(down, diff)[k] = diff)
        BY <1>2, AppendOf, Zenon
    <2> QED BY <1>1, <2>1
<1>4. DownInOrder'
    BY <1>1, <1>2, <1>3 DEF DownInOrder, Settles
<1>5. Sent' = Sent
    BY <1>1, <1>3 DEF Sent
<1>6. TypeOK' /\ PaneBooks' /\ Cancelled'
    BY <1>1, <1>3 DEF TypeOK, PaneBooks, Cancelled, pane, Messages
<1>7. Asked' = Asked /\ AskInOrder(up)' /\ ToSet(up)' = ToSet(up)
    BY <1>1 DEF Asked, Order, AskInOrder
<1>8. \A q \in ToSet(up)' : q \in ToSet(up)
    BY <1>7
<1>9. Order' /\ SubBooks' /\ SentBooks'
    BY <1>1, <1>4, <1>5, <1>7, <1>8, LessTraffic DEF pane
<1>10. LeaksOnlyOvertaken'
    BY <1>1 DEF LeaksOnlyOvertaken, pane, Unsubscribe
<1> QED BY <1>6, <1>9, <1>10 DEF Inv, IInv

LEMMA PollInv == ASSUME Inv, NEW s \in Subs, Poll(s) PROVE Inv'
<1> USE InvUnfold
<1>1. /\ diff = None /\ subs[s] # None
      /\ subs' = [subs EXCEPT ![s].last = age[subs[s].of]]
      /\ diff' = [op |-> "diff", sub |-> s, value |-> Now(subs[s].of)]
      /\ UNCHANGED <<pane, up, down, age, nextSub, answer, overtaken>>
    BY DEF Poll
<1>2. subs[s] \in Watched /\ subs[s].of \in Entities /\ subs[s].by \in Effects /\ age[subs[s].of] \in Ages
    BY <1>1 DEF TypeOK, Watched
<1>3. /\ subs'[s] \in Watched /\ subs'[s] # None /\ subs'[s].by = subs[s].by /\ subs'[s].of = subs[s].of
      /\ \A t \in Subs : t # s => subs'[t] = subs[t]
    BY <1>1, <1>2, InspectorAssumption DEF TypeOK, Watched
<1>4. diff' \in Diffs /\ diff'.op = "diff" /\ diff'.sub = s /\ diff'.value.of = subs[s].of
    BY <1>1, <1>2 DEF Diffs, Values, Now
<1>5. TypeOK'
    BY <1>1, <1>3, <1>4 DEF TypeOK, pane
<1>6. PaneBooks' /\ Cancelled'
    BY <1>1 DEF PaneBooks, Cancelled, pane
<1>7. Sent' = Sent \cup {diff'} /\ Settling' = Settling /\ Asked' = Asked /\ ToSet(up)' = ToSet(up)
    BY <1>1, <1>4, MessageIs DEF Sent, Settling, Settles, Asked, Messages
<1>8. Order'
    BY <1>1, <1>7 DEF Order, AskInOrder, DownInOrder, NoneLater, Settles, pane
<1>9. SubBooks'
    BY <1>1, <1>3, <1>7 DEF SubBooks, pane
<1>10. s < nextSub /\ listens[s] \in {0, subs[s].by} /\ subs[s].of = of[subs[s].by]
    BY <1>1 DEF SubBooks
<1>11. SentBooks'
    <2>1. ASSUME NEW m \in Sent, m.op = "subscribed", m.sub = s PROVE of[m.effect] = subs[s].of
        BY <1>1, <1>10, <2>1 DEF SentBooks
    <2>2. ASSUME NEW m \in Sent, m.op = "subscribed"
          PROVE  /\ m.sub < nextSub /\ listens[m.sub] = 0
                 /\ \A n \in Sent' : n.op = "subscribed" /\ n.sub = m.sub => n.effect = m.effect
                 /\ \A n \in Sent' : n.op = "diff" /\ n.sub = m.sub => n.value.of = of[m.effect]
        BY <1>4, <1>7, <2>1, <2>2 DEF SentBooks
    <2>3. ASSUME NEW m \in Sent', m.op = "diff"
          PROVE  m.sub < nextSub /\ (listens[m.sub] # 0 => m.value.of = of[listens[m.sub]])
        BY <1>4, <1>7, <1>10, <2>3 DEF SentBooks
    <2>4. ASSUME NEW m \in Sent', NEW t \in Subs, subs'[t] # None
          PROVE  /\ m.op = "refused" => m.effect # subs'[t].by
                 /\ m.op = "subscribed" => (m.effect = subs'[t].by <=> m.sub = t)
        BY <1>1, <1>3, <1>4, <1>7, <2>4 DEF SentBooks
    <2> QED BY <1>1, <1>4, <1>7, <2>2, <2>3, <2>4 DEF SentBooks, pane
<1>12. LeaksOnlyOvertaken'
    BY <1>1, <1>3 DEF LeaksOnlyOvertaken, pane, Unsubscribe
<1> QED BY <1>5, <1>6, <1>8, <1>9, <1>11, <1>12 DEF Inv, IInv

-----------------------------------------------------------------------------
(* The pane: effects begin and are cleaned up. *)
LEMMA StopKeepsOrder ==
    ASSUME Inv
    PROVE  /\ Stop(up) \in Seq(Requests) /\ AskInOrder(Stop(up))
           /\ ToSet(up) \subseteq ToSet(Stop(up))
           /\ \A q \in ToSet(Stop(up)) : q \in ToSet(up) \/ q.op = "unsubscribe"
           /\ subId # 0 => Unsubscribe(subId) \in ToSet(Stop(up))
<1> USE InvUnfold
<1>1. up \in Seq(Requests) /\ AskInOrder(up) /\ subId \in Subs \cup {0}
    BY DEF TypeOK, Order
<1>2. CASE subId = 0
    BY <1>1, <1>2 DEF Stop
<1>3. CASE subId # 0
    <2> DEFINE x == Unsubscribe(subId)
    <2>1. x \in Requests /\ x.op = "unsubscribe"
        BY <1>1, <1>3, RequestIs
    <2>2. /\ Append(up, x) \in Seq(Requests) /\ AskInOrder(Append(up, x))
          /\ ToSet(Append(up, x)) = ToSet(up) \cup {x}
        BY <1>1, <2>1, SendKeepsOrder
    <2>3. Stop(up) = Append(up, x)
        BY <1>3 DEF Stop
    <2> QED BY <2>1, <2>2, <2>3
<1> QED BY <1>2, <1>3

(* No effect has a later number than the last that ran. *)
LEMMA NotAfterRan ==
    ASSUME Inv
    PROVE  /\ \A i \in Effects : i <= ran <=> phase[i] # "none"
           /\ \A i \in Effects : i <= ran <=> of[i] # None
           /\ \A m \in Sent : m.op \in {"subscribed", "refused"} => m.effect \in Effects /\ m.effect <= ran
           /\ \A s \in Subs : listens[s] # 0 => listens[s] \in Effects /\ listens[s] <= ran
           /\ \A s \in Subs : subs[s] # None => subs[s].by \in Effects /\ subs[s].by <= ran
           /\ \A q \in Asked : q.effect \in Effects /\ q.effect <= ran
           /\ Sent \subseteq Messages
<1> USE InvUnfold
<1>1. \A i \in Effects : i <= ran <=> ~(i > ran)
    BY Numbers, TypeNumbers
<1>2. Sent \subseteq Messages
    <2>1. ToSet(down) \subseteq Messages
        BY MembersOf DEF TypeOK, Messages
    <2> QED BY <2>1 DEF Sent, TypeOK, Messages
<1>3. \A m \in Sent : m.op \in {"subscribed", "refused"} => m.effect \in Effects /\ m.effect <= ran
    <2>1. \A m \in Sent : m.op \in {"subscribed", "refused"} => m \in Settling
        BY DEF Settling, Settles, Sent
    <2> QED BY <1>2, <2>1, MessageIs DEF Order
<1>4. \A s \in Subs : listens[s] # 0 => listens[s] \in Effects /\ listens[s] <= ran
    BY <1>1 DEF TypeOK, PaneBooks
<1>5. \A s \in Subs : subs[s] # None => subs[s].by \in Effects /\ subs[s].by <= ran
    BY DEF TypeOK, Watched, SubBooks
<1>6. \A q \in Asked : q.effect \in Effects /\ q.effect <= ran
    <2>1. ToSet(up) \subseteq Requests
        BY MembersOf DEF TypeOK
    <2> QED BY <2>1, RequestIs DEF Asked, Order
<1> QED BY <1>1, <1>2, <1>3, <1>4, <1>5, <1>6 DEF PaneBooks

LEMMA SelectInv == ASSUME Inv, NEW e \in Entities, Select(e) PROVE Inv'
<1> USE InvUnfold
<1> DEFINE n == ran + 1
           x == Subscribe(n)
<1>1. /\ ran < MaxEffects /\ CleanUp /\ ran' = n /\ cur' = n
      /\ of' = [of EXCEPT ![n] = e]
      /\ phase' = [phase EXCEPT ![n] = "subscribing"]
      /\ value' = None /\ up' = Append(Stop(up), x)
      /\ UNCHANGED <<mounted, listens, down, age, exe>>
    BY DEF Select
<1>2. /\ subId' = 0 /\ timer' = 0 /\ intervals' = intervals \ {timer}
      /\ overtaken' = overtaken \cup {i \in {cur} : i # 0 /\ phase[i] = "subscribing"}
    BY <1>1 DEF CleanUp
<1>3. /\ n \in Effects /\ n \in Nat /\ ran \in Nat
      /\ \A i \in Effects : i # n => (i <= ran <=> i <= n)
      /\ \A i \in Effects : i <= ran => i # n /\ i < n
    BY <1>1, Numbers, TypeNumbers
<1>4. x \in Requests /\ x.op = "subscribe" /\ x.effect = n
    BY <1>3, RequestIs
<1>5. /\ up' \in Seq(Requests) /\ AskInOrder(up)' /\ ToSet(up)' = ToSet(Stop(up)) \cup {x}
    <2>1. ASSUME NEW r \in ToSet(Stop(up)), r.op = "subscribe" PROVE r.effect < x.effect
        <3>1. r \in Asked
            BY <2>1, StopKeepsOrder DEF Asked
        <3>2. r.effect \in Effects /\ r.effect <= ran
            BY <3>1, NotAfterRan
        <3> QED BY <1>3, <1>4, <3>2
    <2>2. /\ Append(Stop(up), x) \in Seq(Requests) /\ AskInOrder(Append(Stop(up), x))
          /\ ToSet(Append(Stop(up), x)) = ToSet(Stop(up)) \cup {x}
        BY <1>4, <2>1, StopKeepsOrder, SendKeepsOrder
    <2> QED BY <1>1, <2>2 DEF AskInOrder
<1>6. \A i \in Effects : i # n => of'[i] = of[i] /\ phase'[i] = phase[i]
    BY <1>1 DEF TypeOK
<1>7. of'[n] = e /\ e # None /\ phase'[n] = "subscribing"
    BY <1>1, <1>3, InspectorAssumption DEF TypeOK
<1>8. TypeOK'
    BY <1>1, <1>2, <1>3, <1>5, Numbers DEF TypeOK, Phases, exe
<1>9. PaneBooks'
    <2>1. \A i \in Effects : (phase'[i] = "none" <=> i > ran') /\ (of'[i] = None <=> i > ran')
        BY <1>1, <1>3, <1>6, <1>7, Numbers DEF PaneBooks
    <2>2. mounted <= n /\ mounted <= n + 1
        BY <1>3, TypeNumbers DEF PaneBooks
    <2>3. phase[n] = "none"
        BY <1>3 DEF PaneBooks
    <2>4. \A i \in intervals' : phase'[i] = "polling"
        BY <1>2, <1>6, <2>3 DEF PaneBooks, TypeOK
    <2>5. \A s \in Subs : listens[s] # 0 => phase'[listens[s]] = "subscribed"
        BY <1>6, <2>3 DEF PaneBooks, TypeOK
    <2> QED BY <1>1, <1>2, <1>7, <2>1, <2>2, <2>4, <2>5 DEF PaneBooks
<1>10. Sent' = Sent /\ Settling' = Settling /\ Asked' = Asked \cup {x}
    BY <1>1, <1>4, <1>5, StopKeepsOrder DEF Sent, Settling, Settles, Asked, exe
<1>11. Order'
    <2>1. DownInOrder'
        BY <1>1 DEF Order, DownInOrder, Settles, exe
    <2>2. \A i \in Effects : NoneLater(i) => NoneLater(i)'
        BY <1>6, <1>7 DEF NoneLater
    <2>3. ASSUME NEW q \in Asked'
          PROVE  /\ \A m \in Settling' : m.effect < q.effect
                 /\ nextSub <= q.effect /\ NoneLater(q.effect)'
                 /\ phase'[q.effect] = "subscribing" \/ q.effect \in overtaken'
        <3>1. CASE q \in Asked
            BY <1>2, <1>6, <1>10, <1>3, <2>2, <3>1, NotAfterRan DEF Order
        <3>2. CASE q = x
            <4>1. \A m \in Settling : m.effect < n
                BY <1>3, NotAfterRan DEF Settling, Settles
            <4>2. nextSub <= n
                BY DEF SubBooks
            <4>3. \A j \in Effects : n <= j => phase'[j] # "subscribed"
                <5>1. \A j \in Effects : n <= j => j = n \/ j > ran
                    BY <1>3, Numbers
                <5> QED BY <1>6, <1>7, <5>1 DEF PaneBooks
            <4> QED BY <1>4, <1>7, <1>10, <3>2, <4>1, <4>2, <4>3 DEF NoneLater
        <3> QED BY <1>10, <3>1, <3>2
    <2>4. \A m \in Settling' : m.effect <= ran' /\ NoneLater(m.effect)'
        BY <1>1, <1>3, <1>10, <2>2, NotAfterRan DEF Order, Settling, Settles
    <2>5. \A q \in ToSet(up)' : q.op # "unsubscribe" => q.effect <= ran'
        <3>1. ToSet(up) \subseteq Requests
            BY MembersOf DEF TypeOK
        <3>2. \A q \in ToSet(up) : q.op # "unsubscribe" => q.effect \in Effects /\ q.effect <= ran
            BY <3>1, RequestIs DEF Order
        <3> QED BY <1>1, <1>3, <1>4, <1>5, <3>2, StopKeepsOrder
    <2> QED BY <1>1, <1>5, <2>1, <2>3, <2>4, <2>5 DEF Order, exe
<1>12. SubBooks'
    <2>1. nextSub <= n + 1
        BY <1>3, TypeNumbers DEF SubBooks
    <2>2. ASSUME NEW s \in Subs, subs[s] # None
          PROVE  /\ subs[s].by <= n /\ subs[s].of = of'[subs[s].by]
                 /\ \A q \in Asked' : subs[s].by < q.effect
        <3>1. subs[s].by \in Effects /\ subs[s].by <= ran /\ subs[s].by < n /\ subs[s].by # n
            BY <1>3, <2>2, NotAfterRan
        <3>2. subs[s].by <= n
            BY <1>3, <3>1
        <3>3. subs[s].of = of'[subs[s].by]
            BY <1>6, <2>2, <3>1 DEF SubBooks
        <3>4. \A q \in Asked : subs[s].by < q.effect
            BY <2>2 DEF SubBooks
        <3> QED BY <1>4, <1>10, <3>1, <3>2, <3>3, <3>4
    <2> QED BY <1>1, <2>1, <2>2 DEF SubBooks, exe
<1>13. SentBooks'
    <2>1. \A m \in Sent : m.op = "subscribed" => of'[m.effect] = of[m.effect]
        BY <1>6, <1>3, NotAfterRan
    <2>2. \A s \in Subs : listens[s] # 0 => of'[listens[s]] = of[listens[s]]
        BY <1>6, <1>3, NotAfterRan
    <2>3. \A m \in Sent : m.op = "diff" => m.sub \in Subs
        BY NotAfterRan, MessageIs
    <2> QED BY <1>1, <1>10, <2>1, <2>2, <2>3 DEF SentBooks, exe
<1>14. Cancelled'
    <2>1. ASSUME NEW i \in Effects, i # n, phase[i] = "subscribing" PROVE i \in overtaken'
        BY <1>2, <2>1, Numbers DEF Cancelled
    <2> QED BY <1>1, <1>2, <1>6, <2>1 DEF Cancelled
<1>15. LeaksOnlyOvertaken'
    <2>1. \A s \in Subs : Unsubscribe(s) \in ToSet(up) => Unsubscribe(s) \in ToSet(up)'
        BY <1>5, StopKeepsOrder
    <2>2. subId # 0 => Unsubscribe(subId) \in ToSet(up)'
        BY <1>5, StopKeepsOrder
    <2>3. \A s \in Subs : subs[s] # None => phase'[subs[s].by] = phase[subs[s].by]
        BY <1>6, <1>3, NotAfterRan
    <2> QED BY <1>1, <1>2, <2>1, <2>2, <2>3, Numbers DEF LeaksOnlyOvertaken, exe, Unsubscribe
<1> QED BY <1>8, <1>9, <1>11, <1>12, <1>13, <1>14, <1>15 DEF Inv, IInv

LEMMA UnmountInv == ASSUME Inv, Unmount PROVE Inv'
<1> USE InvUnfold
<1>1. /\ cur # 0 /\ cur' = 0 /\ mounted' = ran + 1 /\ value' = None /\ up' = Stop(up)
      /\ subId' = 0 /\ timer' = 0 /\ intervals' = intervals \ {timer}
      /\ overtaken' = overtaken \cup {i \in {cur} : i # 0 /\ phase[i] = "subscribing"}
      /\ UNCHANGED <<ran, of, phase, listens, down, age, exe>>
    BY DEF Unmount, CleanUp
<1>2. /\ up' \in Seq(Requests) /\ AskInOrder(up)' /\ ToSet(up) \subseteq ToSet(up)'
      /\ \A q \in ToSet(up)' : q \in ToSet(up) \/ q.op = "unsubscribe"
      /\ subId # 0 => Unsubscribe(subId) \in ToSet(up)'
    BY <1>1, StopKeepsOrder DEF AskInOrder
<1>3. TypeOK'
    BY <1>1, <1>2, Numbers DEF TypeOK, exe
<1>4. PaneBooks'
    BY <1>1, Numbers, TypeNumbers DEF PaneBooks, exe
<1>5. Sent' = Sent /\ Settling' = Settling /\ Asked' = Asked
    BY <1>1, <1>2 DEF Sent, Settling, Settles, Asked, exe
<1>6. Order'
    <2>1. DownInOrder'
        BY <1>1 DEF Order, DownInOrder, Settles, exe
    <2> QED BY <1>1, <1>2, <1>5, <2>1 DEF Order, NoneLater, exe
<1>7. SubBooks' /\ SentBooks'
    BY <1>1, <1>5 DEF SubBooks, SentBooks, exe
<1>8. Cancelled'
    BY <1>1, Numbers DEF Cancelled
<1>9. LeaksOnlyOvertaken'
    <2>1. \A s \in Subs : Unsubscribe(s) \in ToSet(up) => Unsubscribe(s) \in ToSet(up)'
        BY <1>2
    <2> QED BY <1>1, <1>2, <2>1, Numbers DEF LeaksOnlyOvertaken, exe, Unsubscribe
<1> QED BY <1>3, <1>4, <1>6, <1>7, <1>8, <1>9 DEF Inv, IInv

(* The answer to a subscription: none of what is still to come is for an     *)
(* effect before the one it is for.                                        *)
LEMMA HeadSettles ==
    ASSUME Inv, NEW op \in {"subscribed", "refused"}, Receives(op), UNCHANGED <<answer, diff>>
    PROVE  LET i == Head(down).effect IN
           /\ i \in Effects /\ i <= ran /\ NoneLater(i) /\ Head(down) \in Sent /\ Head(down).op = op
           /\ down' \in Seq(Messages) /\ DownInOrder' /\ Sent' \subseteq Sent /\ Settling' \subseteq Settling
           /\ \A m \in Settling' : m.effect \in Effects /\ i < m.effect
           /\ \A q \in Asked : q.effect \in Effects /\ i < q.effect
<1> USE InvUnfold
<1> DEFINE h == Head(down)
<1>1. /\ h \in Messages /\ h \in Sent /\ h.op = op
      /\ down' \in Seq(Messages) /\ DownInOrder' /\ Sent' \subseteq Sent /\ Settling' \subseteq Settling
      /\ h \in Settling /\ \A m \in Settling' : h.effect < m.effect
    BY ReceiveKeepsOrder DEF Order
<1>2. h.effect \in Effects /\ h.effect <= ran
    BY <1>1, NotAfterRan
<1>3. \A m \in Settling' : m.effect \in Effects
    <2>1. ASSUME NEW m \in Settling' PROVE m.effect \in Effects
        <3>1. m \in Sent /\ m.op \in {"subscribed", "refused"}
            BY <1>1 DEF Settling, Settles
        <3> QED BY <3>1, NotAfterRan
    <2> QED BY <2>1
<1>4. NoneLater(h.effect) /\ \A q \in Asked : q.effect \in Effects /\ h.effect < q.effect
    BY <1>1, NotAfterRan DEF Order
<1> QED BY <1>1, <1>2, <1>3, <1>4

LEMMA SubscribedInv == ASSUME Inv, Subscribed PROVE Inv'
<1> USE InvUnfold
<1> DEFINE h == Head(down)
           i == h.effect
           s == h.sub
<1>1. /\ Receives("subscribed")
      /\ UNCHANGED <<cur, ran, mounted, of, timer, intervals, value, age, exe, overtaken>>
    BY DEF Subscribed
<1>2. /\ i \in Effects /\ i <= ran /\ NoneLater(i) /\ h \in Sent /\ h.op = "subscribed"
      /\ down' \in Seq(Messages) /\ DownInOrder' /\ Sent' \subseteq Sent /\ Settling' \subseteq Settling
      /\ \A m \in Settling' : m.effect \in Effects /\ i < m.effect
      /\ \A q \in Asked : q.effect \in Effects /\ i < q.effect
    BY <1>1, HeadSettles DEF exe
<1>3. CASE ~Awaits(i)
    BY <1>1, <1>3, HeardInv DEF Subscribed
<1>4. CASE Awaits(i)
    <2>1. /\ phase[i] = "subscribing"
          /\ phase' = [phase EXCEPT ![i] = "subscribed"] /\ listens' = [listens EXCEPT ![s] = i]
          /\ subId' = (IF i >= mounted THEN s ELSE subId) /\ up' = Append(up, Read(i))
        BY <1>4 DEF Subscribed, Awaits
    <2>2. s \in Subs /\ s < nextSub /\ listens[s] = 0
        BY <1>2, NotAfterRan, MessageIs DEF SentBooks
    <2>3. /\ phase'[i] = "subscribed" /\ \A j \in Effects : j # i => phase'[j] = phase[j]
          /\ listens'[s] = i /\ \A t \in Subs : t # s => listens'[t] = listens[t]
        BY <1>2, <2>1, <2>2 DEF TypeOK
    <2>4. /\ up' \in Seq(Requests) /\ AskInOrder(up)' /\ ToSet(up)' = ToSet(up) \cup {Read(i)} /\ Asked' = Asked
          /\ Read(i).op = "read" /\ Read(i).effect = i
        <3>1. up \in Seq(Requests) /\ AskInOrder(up)
            BY DEF TypeOK, Order
        <3>2. Read(i) \in Requests /\ Read(i).op = "read" /\ Read(i).effect = i
            BY <1>2, RequestIs
        <3>3. /\ Append(up, Read(i)) \in Seq(Requests) /\ AskInOrder(Append(up, Read(i)))
              /\ ToSet(Append(up, Read(i))) = ToSet(up) \cup {Read(i)}
            BY <3>1, <3>2, SendKeepsOrder
        <3> QED BY <2>1, <3>2, <3>3 DEF Asked, AskInOrder
    <2>5. TypeOK'
        BY <1>1, <1>2, <2>1, <2>2, <2>4 DEF TypeOK, Phases, Messages, exe
    <2>6. PaneBooks'
        <3>1. i \notin intervals /\ subId # s
            <4>1. i \notin intervals
                BY <2>1 DEF PaneBooks
            <4>2. ~(0 >= mounted) /\ s # 0
                BY <2>2, Numbers, TypeNumbers
            <4> QED BY <2>2, <4>1, <4>2 DEF PaneBooks
        <3>2. subId' # 0 => listens'[subId'] >= mounted
            BY <2>1, <2>2, <2>3, <3>1, Numbers DEF PaneBooks, TypeOK
        <3>3. \A t \in Subs : listens'[t] # 0 => phase'[listens'[t]] = "subscribed"
            <4>1. \A t \in Subs : t # s /\ listens[t] # 0 =>
                     listens[t] \in Effects /\ phase[listens[t]] = "subscribed" /\ listens[t] # i
                BY <2>1 DEF PaneBooks, TypeOK
            <4> QED BY <1>2, <2>3, <4>1
        <3>4. cur # 0 /\ phase'[cur] = "polling" => cur \in intervals
            BY <2>3, Numbers DEF PaneBooks, TypeOK
        <3>5. \A j \in intervals : phase'[j] = "polling"
            BY <2>3, <3>1 DEF PaneBooks, TypeOK
        <3>6. \A j \in Effects : phase'[j] = "none" <=> j > ran
            BY <2>1, <2>3 DEF PaneBooks
        <3> QED BY <1>1, <3>2, <3>3, <3>4, <3>5, <3>6 DEF PaneBooks
    <2>7. \A j \in Effects : i < j => (NoneLater(j) => NoneLater(j)') /\ phase'[j] = phase[j]
        <3>1. \A j, k \in Effects : i < j /\ j <= k => k # i
            BY Numbers
        <3>2. \A j \in Effects : i < j => j # i
            BY <1>2, Numbers
        <3> QED BY <2>3, <3>1, <3>2 DEF NoneLater
    <2>8. Order'
        <3>1. ASSUME NEW q \in Asked'
              PROVE  /\ \A m \in Settling' : m.effect < q.effect
                     /\ nextSub <= q.effect /\ NoneLater(q.effect)'
                     /\ phase'[q.effect] = "subscribing" \/ q.effect \in overtaken
            BY <1>2, <2>4, <2>7 DEF Order
        <3>2. \A m \in Settling' : m.effect <= ran /\ NoneLater(m.effect)'
            BY <1>2, <2>7 DEF Order
        <3>3. \A q \in ToSet(up)' : q.op # "unsubscribe" => q.effect <= ran
            BY <1>2, <2>4 DEF Order
        <3> QED BY <1>1, <1>2, <2>4, <3>1, <3>2, <3>3 DEF Order, exe
    <2>9. \A t \in Subs : subs[t] # None => (i = subs[t].by <=> s = t)
        BY <1>2 DEF SentBooks
    <2>10. SubBooks'
        <3>1. \A t \in Subs : subs[t] # None => listens'[t] \in {0, subs[t].by}
            BY <2>3, <2>9 DEF SubBooks
        <3>2. \A t \in Subs : listens'[t] # 0 => t < nextSub
            BY <2>2, <2>3 DEF SubBooks
        <3> QED BY <1>1, <2>4, <3>1, <3>2 DEF SubBooks, exe
    <2>11. SentBooks'
        <3>1. ASSUME NEW m \in Sent', m.op = "subscribed" PROVE m.sub # s
            <4>1. m \in Sent /\ m \in Settling'
                BY <1>2, <3>1, NotAfterRan, MessageIs DEF Settling, Settles
            <4>2. i < m.effect /\ m.effect \in Effects /\ m.effect # i
                BY <1>2, <4>1, Numbers
            <4> QED BY <1>2, <3>1, <4>1, <4>2 DEF SentBooks
        <3>2. ASSUME NEW m \in Sent', m.op = "subscribed"
              PROVE  /\ m.sub < nextSub /\ listens'[m.sub] = 0
                     /\ \A n \in Sent' : n.op = "subscribed" /\ n.sub = m.sub => n.effect = m.effect
                     /\ \A n \in Sent' : n.op = "diff" /\ n.sub = m.sub => n.value.of = of[m.effect]
            <4>1. m \in Sent /\ m.sub \in Subs
                BY <1>2, <3>2, NotAfterRan, MessageIs
            <4> QED BY <1>2, <2>3, <3>1, <3>2, <4>1 DEF SentBooks
        <3>3. ASSUME NEW m \in Sent', m.op = "diff"
              PROVE  m.sub < nextSub /\ (listens'[m.sub] # 0 => m.value.of = of[listens'[m.sub]])
            <4>1. m \in Sent /\ m.sub \in Subs
                BY <1>2, <3>3, NotAfterRan, MessageIs
            <4> QED BY <1>2, <2>3, <3>3, <4>1 DEF SentBooks
        <3>4. \A m \in Sent', t \in Subs : subs[t] # None =>
                 /\ m.op = "refused" => m.effect # subs[t].by
                 /\ m.op = "subscribed" => (m.effect = subs[t].by <=> m.sub = t)
            BY <1>2 DEF SentBooks
        <3> QED BY <1>1, <3>2, <3>3, <3>4 DEF SentBooks, exe
    <2>12. Cancelled'
        <3>1. \A j \in Effects : phase'[j] = "subscribing" => j = cur \/ j \in overtaken
            BY <2>3 DEF Cancelled
        <3>2. subId' # 0 => listens'[subId'] = cur \/ listens'[subId'] \in overtaken
            <4>1. i = cur \/ i \in overtaken
                BY <1>2, <2>1 DEF Cancelled
            <4>2. subId # s
                <5>1. ~(0 >= mounted) /\ s # 0
                    BY <2>2, Numbers, TypeNumbers
                <5> QED BY <2>2, <5>1 DEF PaneBooks
            <4> QED BY <2>1, <2>3, <4>1, <4>2 DEF Cancelled, TypeOK
        <3> QED BY <1>1, <3>1, <3>2 DEF Cancelled
    <2>13. LeaksOnlyOvertaken'
        <3> SUFFICES ASSUME NEW t \in Subs, subs[t] # None, subs[t].by \notin overtaken, Unsubscribe(t) \notin ToSet(up)
                     PROVE  t = subId' \/ phase'[subs[t].by] = "subscribing"
            BY <1>1, <2>4 DEF LeaksOnlyOvertaken, exe, Unsubscribe
        <3>1. subs[t].by \in Effects
            BY NotAfterRan
        <3>2. CASE t = subId
            <4>1. t # 0 /\ ~(0 >= mounted)
                BY Numbers, TypeNumbers
            <4>2. listens[t] # 0 /\ listens[t] = subs[t].by
                BY <3>2, <4>1 DEF PaneBooks, SubBooks
            <4>3. cur = subs[t].by /\ cur \in Effects /\ phase[cur] = "subscribed"
                BY <3>1, <3>2, <4>1, <4>2 DEF Cancelled, PaneBooks
            <4>4. cur # 0 /\ cur = ran
                BY <4>3, Numbers DEF PaneBooks
            <4> QED BY <1>2, <4>3, <4>4 DEF NoneLater
        <3>3. CASE phase[subs[t].by] = "subscribing"
            <4>1. CASE subs[t].by = i
                <5>1. s = t
                    BY <2>9, <4>1
                <5>2. i = cur /\ i >= mounted
                    BY <1>2, <2>1, <4>1, Numbers, TypeNumbers DEF Cancelled, PaneBooks
                <5> QED BY <2>1, <5>1, <5>2
            <4> QED BY <2>3, <3>1, <3>3, <4>1
        <3> QED BY <3>2, <3>3 DEF LeaksOnlyOvertaken
    <2> QED BY <2>5, <2>6, <2>8, <2>10, <2>11, <2>12, <2>13 DEF Inv, IInv
<1> QED BY <1>3, <1>4

(* An effect falls back, because it was refused or because it gives up.       *)
LEMMA FallBackInv ==
    ASSUME Inv, NEW i \in Effects, phase[i] = "subscribing", FallBack(i),
           overtaken' \in {overtaken, overtaken \cup {i}},
           \/ i \in overtaken'
           \/ (\A q \in Asked : q.effect # i) /\ (\A s \in Subs : subs[s] # None => subs[s].by # i),
           down' \in Seq(Messages), DownInOrder', Sent' \subseteq Sent, Settling' \subseteq Settling
    PROVE  Inv'
<1> USE InvUnfold
<1>1. /\ phase' = [phase EXCEPT ![i] = "polling"] /\ up' = Append(up, Read(i))
      /\ timer' = (IF i >= mounted THEN i ELSE timer) /\ intervals' = intervals \cup {i}
      /\ UNCHANGED <<cur, ran, mounted, of, listens, subId, value, age, exe>>
    BY DEF FallBack
<1>2. /\ phase'[i] = "polling" /\ \A j \in Effects : j # i => phase'[j] = phase[j]
    BY <1>1 DEF TypeOK
<1>3. i <= ran
    BY NotAfterRan
<1>4. /\ up' \in Seq(Requests) /\ AskInOrder(up)' /\ ToSet(up)' = ToSet(up) \cup {Read(i)} /\ Asked' = Asked
      /\ Read(i).op = "read" /\ Read(i).effect = i
    <2>1. up \in Seq(Requests) /\ AskInOrder(up)
        BY DEF TypeOK, Order
    <2>2. Read(i) \in Requests /\ Read(i).op = "read" /\ Read(i).effect = i
        BY RequestIs
    <2>3. /\ Append(up, Read(i)) \in Seq(Requests) /\ AskInOrder(Append(up, Read(i)))
          /\ ToSet(Append(up, Read(i))) = ToSet(up) \cup {Read(i)}
        BY <2>1, <2>2, SendKeepsOrder
    <2> QED BY <1>1, <2>2, <2>3 DEF Asked, AskInOrder
<1>5. TypeOK'
    BY <1>1, <1>4 DEF TypeOK, Phases, Messages, exe
<1>6. PaneBooks'
    <2>1. \A s \in Subs : listens[s] # 0 => phase'[listens[s]] = "subscribed"
        BY <1>2 DEF PaneBooks, TypeOK
    <2>2. cur # 0 /\ phase'[cur] = "polling" => cur \in intervals'
        BY <1>1, <1>2, Numbers DEF PaneBooks, TypeOK
    <2>3. \A j \in intervals' : phase'[j] = "polling"
        BY <1>1, <1>2 DEF PaneBooks, TypeOK
    <2>4. \A j \in Effects : phase'[j] = "none" <=> j > ran
        BY <1>2 DEF PaneBooks
    <2>5. timer' # 0 => timer' \in intervals' /\ timer' >= mounted
        BY <1>1 DEF PaneBooks
    <2> QED BY <1>1, <2>1, <2>2, <2>3, <2>4, <2>5 DEF PaneBooks
<1>7. \A j \in Effects : NoneLater(j) => NoneLater(j)'
    BY <1>2 DEF NoneLater
<1>8. Order'
    <2>1. ASSUME NEW q \in Asked'
          PROVE  /\ \A m \in Settling' : m.effect < q.effect
                 /\ nextSub <= q.effect /\ NoneLater(q.effect)'
                 /\ phase'[q.effect] = "subscribing" \/ q.effect \in overtaken'
        BY <1>2, <1>4, <1>7, NotAfterRan DEF Order
    <2>2. \A m \in Settling' : m.effect <= ran /\ NoneLater(m.effect)'
        BY <1>7, NotAfterRan DEF Order, Settling, Settles
    <2>3. \A q \in ToSet(up)' : q.op # "unsubscribe" => q.effect <= ran
        BY <1>3, <1>4 DEF Order
    <2> QED BY <1>1, <1>4, <2>1, <2>2, <2>3 DEF Order, exe
<1>9. SubBooks' /\ SentBooks'
    BY <1>1, <1>4 DEF SubBooks, SentBooks, exe
<1>10. Cancelled'
    BY <1>1, <1>2 DEF Cancelled, TypeOK
<1>11. LeaksOnlyOvertaken'
    <2> SUFFICES ASSUME NEW s \in Subs, subs[s] # None, subs[s].by \notin overtaken', Unsubscribe(s) \notin ToSet(up)
                 PROVE  s = subId \/ phase'[subs[s].by] = "subscribing"
        BY <1>1, <1>4 DEF LeaksOnlyOvertaken, exe, Unsubscribe
    <2>1. subs[s].by # i /\ subs[s].by \in Effects
        BY NotAfterRan
    <2> QED BY <1>2, <2>1 DEF LeaksOnlyOvertaken
<1> QED BY <1>5, <1>6, <1>8, <1>9, <1>10, <1>11 DEF Inv, IInv

LEMMA RefusedInv == ASSUME Inv, Refused PROVE Inv'
<1> USE InvUnfold
<1> DEFINE i == Head(down).effect
<1>1. Receives("refused") /\ UNCHANGED overtaken
    BY DEF Refused
<1>2. CASE ~Awaits(i)
    BY <1>1, <1>2, HeardInv DEF Refused, pane
<1>3. CASE Awaits(i)
    <2>1. FallBack(i) /\ phase[i] = "subscribing"
        BY <1>3 DEF Refused, Awaits
    <2>2. /\ i \in Effects /\ Head(down) \in Sent /\ Head(down).op = "refused"
          /\ down' \in Seq(Messages) /\ DownInOrder' /\ Sent' \subseteq Sent /\ Settling' \subseteq Settling
          /\ \A q \in Asked : q.effect \in Effects /\ i < q.effect
        BY <1>1, <2>1, HeadSettles DEF FallBack, exe
    <2>3. \A q \in Asked : q.effect # i
        BY <2>2, Numbers
    <2>4. \A s \in Subs : subs[s] # None => subs[s].by # i
        BY <2>2 DEF SentBooks
    <2> QED BY <1>1, <2>1, <2>2, <2>3, <2>4, FallBackInv
<1> QED BY <1>2, <1>3

LEMMA TimesOutInv == ASSUME Inv, NEW i \in Effects, TimesOut(i) PROVE Inv'
<1> USE InvUnfold
<1>1. /\ phase[i] = "subscribing" /\ FallBack(i) /\ overtaken' = overtaken \cup {i} /\ down' = down
    BY DEF TimesOut
<1>2. answer' = answer /\ diff' = diff
    BY <1>1 DEF FallBack, exe
<1>3. Sent' = Sent /\ Settling' = Settling
    BY <1>1, <1>2 DEF Sent, Settling, Settles
<1>4. down' \in Seq(Messages) /\ DownInOrder'
    BY <1>1, <1>2 DEF TypeOK, Messages, Order, DownInOrder, Settles
<1> QED BY <1>1, <1>3, <1>4, FallBackInv

LEMMA HandleSubscribeInv == ASSUME Inv, HandleSubscribe PROVE Inv'
<1> USE InvUnfold
<1> DEFINE h == Head(up)
           i == h.effect
           n == nextSub
<1>1. Takes("subscribe") /\ UNCHANGED <<pane, down, age, diff, overtaken>>
    BY DEF HandleSubscribe
<1>2. /\ h \in Requests /\ h.op = "subscribe" /\ answer = None /\ h \in Asked
      /\ up' \in Seq(Requests) /\ AskInOrder(up)'
      /\ ToSet(up) = ToSet(up)' \cup {h} /\ Asked' \subseteq Asked
      /\ \A q \in Asked' : i < q.effect
    BY <1>1, TakeKeepsOrder DEF TypeOK, Order
<1>3. /\ i \in Effects /\ i <= ran /\ NoneLater(i) /\ n <= i /\ \A m \in Settling : m.effect < i
      /\ phase[i] = "subscribing" \/ i \in overtaken
      /\ \A s \in Subs : subs[s] # None => subs[s].by < i /\ s < n
    BY <1>2, NotAfterRan DEF Order, SubBooks
<1>4. n \in Subs /\ n \in Nat /\ i \in Nat /\ ran \in Nat
    <2>1. i \in Nat /\ i <= MaxEffects /\ MaxEffects \in Nat
        BY <1>3, Numbers
    <2>2. n \in Nat /\ 1 <= n /\ n <= MaxEffects
        BY <1>3, <2>1, TypeNumbers
    <2> QED BY <2>1, <2>2, Numbers, TypeNumbers
<1>5. of[i] \in Entities
    BY <1>3, NotAfterRan DEF TypeOK
<1>6. \A m \in Sent : m.op \in {"subscribed", "refused"} => m.effect < i /\ m.effect # i
    <2>1. \A m \in Sent : m.op \in {"subscribed", "refused"} => m \in Settling /\ m.effect \in Effects
        BY NotAfterRan DEF Settling, Settles, Sent
    <2> QED BY <1>3, <2>1, Numbers
<1>7. \A s \in Subs : Unsubscribe(s) \in ToSet(up) => Unsubscribe(s) \in ToSet(up)'
    BY <1>2, RequestIs
<1>8. PaneBooks' /\ Cancelled'
    BY <1>1 DEF PaneBooks, Cancelled, pane
<1>9. ASSUME answer' \in Answers, answer'.op \in {"subscribed", "refused"}, answer'.effect = i,
             \A q \in Asked' : nextSub' <= q.effect
      PROVE  Order' /\ Sent' = Sent \cup {answer'}
    <2>1. answer' # None
        BY <1>9, InspectorAssumption
    <2>2. Sent' = Sent \cup {answer'}
        BY <1>1, <1>2, <2>1 DEF Sent
    <2>3. Settling' = Settling \cup {answer'}
        BY <1>9, <2>1, <2>2 DEF Settling, Settles
    <2>4. DownInOrder'
        <3>1. \A m \in ToSet(down) : Settles(m) => m \in Settling
            BY DEF Settling, Settles, Sent
        <3> QED BY <1>1, <1>3, <1>9, <2>1, <3>1 DEF Order, DownInOrder, Settles
    <2>5. \A j \in Effects : NoneLater(j) => NoneLater(j)'
        BY <1>1 DEF NoneLater, pane
    <2>6. ASSUME NEW q \in Asked'
          PROVE  /\ \A m \in Settling' : m.effect < q.effect
                 /\ NoneLater(q.effect)' /\ (phase[q.effect] = "subscribing" \/ q.effect \in overtaken)
        BY <1>2, <1>9, <2>3, <2>5, NotAfterRan DEF Order
    <2>7. \A m \in Settling' : m.effect <= ran /\ NoneLater(m.effect)'
        BY <1>3, <1>9, <2>3, <2>5, NotAfterRan DEF Order, Settling, Settles
    <2>8. \A q \in ToSet(up)' : q.op # "unsubscribe" => q.effect <= ran
        BY <1>2 DEF Order
    <2> QED BY <1>1, <1>2, <1>9, <2>2, <2>4, <2>6, <2>7, <2>8 DEF Order, pane
<1>10. CASE answer' = [op |-> "refused", effect |-> i] /\ UNCHANGED <<subs, nextSub>>
    <2>1. answer' \in Answers /\ answer'.op = "refused" /\ answer'.effect = i
        BY <1>3, <1>10 DEF Answers
    <2>2. Order' /\ Sent' = Sent \cup {answer'}
        BY <1>2, <1>9, <1>10, <2>1 DEF Order
    <2>3. TypeOK'
        BY <1>1, <1>2, <1>10, <2>1 DEF TypeOK, pane
    <2>4. SubBooks'
        BY <1>1, <1>2, <1>10 DEF SubBooks, pane
    <2>5. \A s \in Subs : subs[s] # None => subs[s].by # i
        BY <1>3, NotAfterRan, Numbers
    <2>6. SentBooks'
        BY <1>1, <1>10, <2>1, <2>2, <2>5 DEF SentBooks, pane
    <2>7. LeaksOnlyOvertaken'
        BY <1>1, <1>7, <1>10 DEF LeaksOnlyOvertaken, pane, Unsubscribe
    <2> QED BY <1>8, <2>2, <2>3, <2>4, <2>6, <2>7 DEF Inv, IInv
<1>11. CASE /\ nextSub' = n + 1
            /\ subs' = [subs EXCEPT ![n] = [by |-> i, of |-> of[i], last |-> None]]
            /\ answer' = [op |-> "subscribed", effect |-> i, sub |-> n]
    <2>1. answer' \in Answers /\ answer'.op = "subscribed" /\ answer'.effect = i /\ answer'.sub = n
        BY <1>3, <1>4, <1>11 DEF Answers
    <2>2. \A q \in Asked' : q.effect \in Nat /\ n + 1 <= q.effect
        <3>1. \A q \in Asked' : q.effect \in Effects /\ i < q.effect
            BY <1>2, NotAfterRan
        <3>2. \A q \in Asked' : q.effect \in Nat /\ i < q.effect
            BY <3>1, Numbers
        <3> QED BY <1>3, <1>4, <3>2
    <2>3. Order' /\ Sent' = Sent \cup {answer'}
        BY <1>9, <1>11, <2>1, <2>2
    <2>4. /\ subs'[n] \in Watched /\ subs'[n] # None /\ subs'[n].by = i /\ subs'[n].of = of[i]
          /\ \A t \in Subs : t # n => subs'[t] = subs[t]
        BY <1>3, <1>4, <1>5, <1>11, InspectorAssumption DEF TypeOK, Watched
    <2>5. n + 1 \in 1..(MaxEffects + 1) /\ n + 1 <= ran + 1
        BY <1>3, <1>4, Numbers
    <2>6. TypeOK'
        BY <1>1, <1>2, <1>11, <2>1, <2>4, <2>5 DEF TypeOK, pane
    <2>7. \A s \in Subs : s < n => s < n + 1 /\ s # n
        BY <1>4, Numbers
    <2>8. \A s \in Subs : subs[s] # None => subs[s].by # i /\ s # n
        BY <1>3, <2>7, NotAfterRan, Numbers
    <2>9. listens[n] = 0
        BY <1>4, <2>7 DEF SubBooks
    <2>10. SubBooks'
        <3>1. ASSUME NEW s \in Subs, subs'[s] # None
              PROVE  /\ s < n + 1 /\ subs'[s].by <= ran /\ subs'[s].of = of[subs'[s].by]
                     /\ listens[s] \in {0, subs'[s].by}
                     /\ \A t \in Subs : subs'[t] # None /\ subs'[t].by = subs'[s].by => t = s
                     /\ \A q \in Asked' : subs'[s].by < q.effect
            <4>1. CASE s = n
                BY <1>2, <1>3, <1>4, <2>4, <2>8, <2>9, <4>1
            <4>2. CASE s # n
                BY <1>2, <1>3, <2>4, <2>7, <2>8, <3>1, <4>2 DEF SubBooks
            <4> QED BY <4>1, <4>2
        <3>2. \A s \in Subs : listens[s] # 0 => s < n + 1
            BY <2>7 DEF SubBooks
        <3> QED BY <1>1, <1>11, <2>5, <3>1, <3>2 DEF SubBooks, pane
    <2>11. \A m \in Sent : m.op \in {"subscribed", "diff"} => m.sub \in Subs /\ m.sub < n /\ m.sub < n + 1 /\ m.sub # n
        BY <2>7, NotAfterRan, MessageIs DEF SentBooks
    <2>12. SentBooks'
        <3>1. ASSUME NEW m \in Sent', m.op = "subscribed"
              PROVE  /\ m.sub < n + 1 /\ listens[m.sub] = 0
                     /\ \A k \in Sent' : k.op = "subscribed" /\ k.sub = m.sub => k.effect = m.effect
                     /\ \A k \in Sent' : k.op = "diff" /\ k.sub = m.sub => k.value.of = of[m.effect]
            <4>1. CASE m = answer'
                BY <1>4, <2>1, <2>3, <2>9, <2>11, <4>1
            <4>2. CASE m \in Sent
                BY <2>1, <2>3, <2>11, <3>1, <4>2 DEF SentBooks
            <4> QED BY <2>3, <4>1, <4>2
        <3>2. ASSUME NEW m \in Sent', m.op = "diff"
              PROVE  m.sub < n + 1 /\ (listens[m.sub] # 0 => m.value.of = of[listens[m.sub]])
            BY <2>1, <2>3, <2>11, <3>2 DEF SentBooks
        <3>3. ASSUME NEW m \in Sent', NEW s \in Subs, subs'[s] # None
              PROVE  /\ m.op = "refused" => m.effect # subs'[s].by
                     /\ m.op = "subscribed" => (m.effect = subs'[s].by <=> m.sub = s)
            <4>1. CASE m = answer'
                BY <2>1, <2>4, <2>8, <3>3, <4>1
            <4>2. CASE m \in Sent /\ s = n
                BY <1>6, <2>4, <2>11, <4>2
            <4>3. CASE m \in Sent /\ s # n
                BY <2>4, <3>3, <4>3 DEF SentBooks
            <4> QED BY <2>3, <4>1, <4>2, <4>3
        <3> QED BY <1>1, <1>11, <3>1, <3>2, <3>3 DEF SentBooks, pane
    <2>13. LeaksOnlyOvertaken'
        BY <1>1, <1>3, <1>7, <2>4 DEF LeaksOnlyOvertaken, pane, Unsubscribe
    <2> QED BY <1>8, <2>3, <2>6, <2>10, <2>12, <2>13 DEF Inv, IInv
<1> QED BY <1>10, <1>11 DEF HandleSubscribe

-----------------------------------------------------------------------------
LEMMA NextInv == Inv /\ [Next]_vars => Inv'
<1> SUFFICES ASSUME Inv, [Next]_vars PROVE Inv'
    OBVIOUS
<1>1. ASSUME NEW e \in Entities, Select(e) PROVE Inv'
    BY <1>1, SelectInv
<1>2. ASSUME NEW i \in Effects, TimesOut(i) \/ Tick(i) PROVE Inv'
    BY <1>2, TimesOutInv, TickInv
<1>3. CASE Unmount
    BY <1>3, UnmountInv
<1>4. CASE Subscribed
    BY <1>4, SubscribedInv
<1>5. CASE Refused
    BY <1>5, RefusedInv
<1>6. CASE Data \/ NoData \/ Diff
    BY <1>6, DataInv
<1>7. CASE HandleSubscribe
    BY <1>7, HandleSubscribeInv
<1>8. CASE HandleUnsubscribe
    BY <1>8, HandleUnsubscribeInv
<1>9. CASE HandleRead
    BY <1>9, HandleReadInv
<1>10. CASE Reply
    BY <1>10, ReplyInv
<1>11. CASE Push
    BY <1>11, PushInv
<1>12. ASSUME NEW s \in Subs, Poll(s) PROVE Inv'
    BY <1>12, PollInv
<1>13. ASSUME NEW e \in Entities, Change(e) PROVE Inv'
    BY <1>13, ChangeInv
<1>14. CASE UNCHANGED vars
    BY <1>14 DEF vars, pane, exe, Inv, IInv, TypeOK, PaneBooks, Order, AskInOrder, DownInOrder, NoneLater, Settles,
        Settling, Asked, Sent, SubBooks, SentBooks, Cancelled, LeaksOnlyOvertaken, Unsubscribe
<1> QED BY <1>1, <1>2, <1>3, <1>4, <1>5, <1>6, <1>7, <1>8, <1>9, <1>10, <1>11, <1>12, <1>13, <1>14 DEF Next, Pane, Exe

THEOREM InvAlways == Spec => []Inv
BY InitInv, NextInv, PTL DEF Spec

(* The references of the pane, the messages under way and what the exe      *)
(* keeps for it agree, however many effects run.                           *)
THEOREM BooksCorrect == Spec => []IInv
<1>1. Inv => IInv
    BY DEF Inv
<1> QED BY <1>1, InvAlways, PTL

(* A subscription is lost track of only if its effect was overtaken by its   *)
(* clean-up or its timeout.                                                *)
THEOREM LeaksCorrect == Spec => []LeaksOnlyOvertaken
<1>1. Inv => LeaksOnlyOvertaken
    BY DEF Inv
<1> QED BY <1>1, InvAlways, PTL

(* A diff changes what is shown only if it is about the entity shown.        *)
THEOREM DiffsAreOwnCorrect == Spec => DiffsAreOwn
<1>1. Inv /\ Diff /\ value' # value => value'.of = Shown
    <2> SUFFICES ASSUME Inv, Diff, value' # value PROVE value'.of = Shown
        OBVIOUS
    <2> DEFINE m == Head(down)
    <2>1. /\ Receives("diff") /\ UNCHANGED <<answer, diff>>
          /\ listens[m.sub] = cur /\ cur # 0 /\ value' = m.value
        BY DEF Diff, Hears, exe
    <2>2. m \in Sent /\ m.op = "diff"
        BY <2>1, InvUnfold, ReceiveKeepsOrder DEF Order
    <2>3. m.value.of = of[cur]
        BY <2>1, <2>2, InvUnfold DEF SentBooks
    <2> QED BY <2>1, <2>3 DEF Shown
<1>2. Inv /\ [Next]_vars => [Diff /\ value' # value => value'.of = Shown]_vars
    BY <1>1
<1> QED BY <1>2, InvAlways, PTL DEF Spec, DiffsAreOwn
=============================================================================
