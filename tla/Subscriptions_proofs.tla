------------------------ MODULE Subscriptions_proofs ------------------------
(***************************************************************************)
(* Proofs about Subscriptions, for any number of subscriptions, objects,   *)
(* fields and stores.                                                      *)
(***************************************************************************)
EXTENDS Subscriptions, TLAPS

(* The invariant of the proofs. *)
Inv == TypeOK /\ IInv

-----------------------------------------------------------------------------
(* Before the first subscription. *)
LEMMA InvInit == Init => Inv
<1> SUFFICES ASSUME Init PROVE Inv
  OBVIOUS
<1> USE SubsAssumption
<1>1. TypeOK
  <2>1. Nothing \in Contents
    BY DEF Nothing, Contents
  <2>2. [id |-> 0, addr |-> None, class |-> "missing", snap |-> Nothing] \in Sub
    BY <2>1 DEF Sub
  <2>3. cell \in [Cells -> Sub] /\ known \in [Ids -> Contents]
    BY <2>1, <2>2 DEF Init
  <2>4. writes \in 0..MaxWrites /\ nextId \in 1..(MaxIds + 1)
    BY DEF Init
  <2>5. QED
    BY <2>1, <2>3, <2>4 DEF Init, TypeOK
<1>2. IdsUnique
  BY DEF Init, IdsUnique, Ids
<1>3. Locals /\ KnownIsSnapshot
  BY DEF Init, Locals, KnownIsSnapshot, Sound
<1>4. QED
  BY <1>1, <1>2, <1>3 DEF Inv, IInv

(* The game does not touch SubManager. *)
LEMMA GameKeepsInv == Inv /\ (GameStore \/ GameExit \/ Stop) => Inv'
<1> SUFFICES ASSUME Inv, GameStore \/ GameExit \/ Stop PROVE Inv'
  OBVIOUS
<1> USE SubsAssumption
<1>1. TypeOK'
  <2>1. CASE GameStore
    <3>1. PICK o \in Objects, f \in Fields, v \in Values : mem' = [mem EXCEPT ![o][f] = v]
      BY <2>1 DEF GameStore
    <3>2. mem[o] \in [Fields -> Values]
      BY DEF Inv, TypeOK
    <3>3. mem' \in [Objects -> [Fields -> Values]]
      BY <3>1, <3>2 DEF Inv, TypeOK
    <3>4. writes' \in 0..MaxWrites
      BY <2>1 DEF GameStore, Inv, TypeOK
    <3>5. QED
      BY <2>1, <3>3, <3>4 DEF GameStore, Inv, TypeOK, table, local, output
  <2>2. CASE GameExit \/ Stop
    BY <2>2 DEF Inv, TypeOK, GameExit, Stop, table, local, output, game_vars
  <2>3. QED
    BY <2>1, <2>2
<1>2. UNCHANGED <<table, loop, local, output>>
  BY DEF GameStore, GameExit, Stop
<1>3. IInv'
  BY <1>2 DEF Inv, IInv, IdsUnique, Locals, KnownIsSnapshot, Sound, table, local, output
<1>4. QED
  BY <1>1, <1>3 DEF Inv

(* A new subscription gets a new id; if the loop holds a pointer to its     *)
(* cell it is not sound.                                                   *)
LEMMA SubscribeKeepsInv ==
    ASSUME NEW a \in Addrs, NEW cl \in {"found", "missing"}
    PROVE  Inv /\ Subscribe(a, cl) => Inv'
<1> SUFFICES ASSUME Inv, Subscribe(a, cl) PROVE Inv'
  OBVIOUS
<1> USE SubsAssumption
<1>1. PICK c \in Cells \ subs :
        /\ cell' = [cell EXCEPT ![c] = [id |-> nextId, addr |-> a, class |-> cl,
                                        snap |-> Nothing]]
        /\ subs' = subs \cup {c}
        /\ reused' = IF WorkingOn(c) THEN reused \cup {nextId} ELSE reused
  BY DEF Subscribe
<1>2. /\ nextId \in Ids /\ nextId' = nextId + 1
      /\ asked' = [asked EXCEPT ![nextId] = a]
      /\ UNCHANGED <<mem, writes, game, running, loop, due, cur, addr, data, changes, known,
                     disconnected>>
  BY DEF Subscribe, game_vars, local, output
<1>3. TypeOK'
  <2>1. Nothing \in Contents
    BY DEF Nothing, Contents
  <2>2. [id |-> nextId, addr |-> a, class |-> cl, snap |-> Nothing] \in Sub
    BY <1>2, <2>1 DEF Sub, Ids
  <2>3. cell' \in [Cells -> Sub] /\ subs' \subseteq Cells /\ reused' \subseteq Ids
    BY <1>1, <1>2, <2>2 DEF Inv, TypeOK
  <2>4. nextId' \in 1..(MaxIds + 1) /\ asked' \in [Ids -> Addrs \cup {None}]
    BY <1>2 DEF Inv, TypeOK, Ids
  <2>5. QED
    BY <1>2, <2>3, <2>4 DEF Inv, TypeOK
<1>4. /\ cell'[c].id = nextId /\ cell'[c].addr = a /\ cell'[c].snap = Nothing
      /\ \A d \in Cells : d # c => cell'[d] = cell[d]
      /\ \A d \in Cells : d # c => cell'[d].id # nextId
      /\ \A d \in Cells : d # c => cell'[d].id < nextId
      /\ \A d \in Cells : cell[d].id \in 0..MaxIds
  BY <1>1 DEF Inv, IInv, TypeOK, IdsUnique, Sub
<1>5. /\ known[nextId] = Nothing /\ nextId \notin reused
      /\ asked'[nextId] = a
      /\ \A i \in Ids : i # nextId => asked'[i] = asked[i]
  BY <1>2 DEF Inv, IInv, TypeOK, IdsUnique, Ids
<1>6. IdsUnique'
  <2>1. \A d \in Cells : cell'[d].id < nextId'
    BY <1>2, <1>4 DEF Ids
  <2>2. \A d \in subs' : cell'[d].id # 0
    BY <1>1, <1>2, <1>4 DEF Inv, IInv, TypeOK, IdsUnique, Ids
  <2>3. \A d, e \in Cells : cell'[d].id = cell'[e].id /\ cell'[d].id # 0 => d = e
    BY <1>4 DEF Inv, IInv, IdsUnique
  <2>4. \A d \in Cells : cell'[d].id # 0 => cell'[d].addr = asked'[cell'[d].id]
    BY <1>2, <1>4, <1>5 DEF Inv, IInv, IdsUnique, Ids
  <2>5. \A i \in Ids : i >= nextId' => known'[i] = Nothing /\ i \notin reused'
    BY <1>1, <1>2, <1>5 DEF Inv, IInv, IdsUnique, Ids
  <2>6. QED
    BY <2>1, <2>2, <2>3, <2>4, <2>5 DEF IdsUnique
<1>7. \A d \in Cells : d # c => (Sound(d)' <=> Sound(d))
  BY <1>1, <1>4 DEF Sound
<1>8. cur = c => nextId \in reused' /\ ~Sound(c)'
  BY <1>1, <1>4 DEF WorkingOn, Sound
<1>9. Locals'
  <2>1. CASE cur = c
    BY <1>2, <1>4, <1>8, <2>1 DEF Inv, IInv, Locals
  <2>2. CASE cur # c
    <3>1. cur # None => cur \in Cells /\ cell'[cur] = cell[cur] /\ (Sound(cur)' <=> Sound(cur))
      BY <1>2, <1>4, <1>7, <2>2 DEF Inv, TypeOK
    <3>2. cur # None => cell[cur].id # nextId /\ cell[cur].id \in 0..MaxIds
      BY <1>4, <2>2, <3>1
    <3>3. cur # None /\ cell[cur].id # 0 => asked'[cell[cur].id] = asked[cell[cur].id]
      BY <1>5, <3>2 DEF Ids
    <3>4. QED
      BY <1>1, <1>2, <3>1, <3>2, <3>3 DEF Inv, IInv, Locals
  <2>3. QED
    BY <2>1, <2>2
<1>10. KnownIsSnapshot'
  BY <1>1, <1>2, <1>4, <1>5, <1>7 DEF Inv, IInv, KnownIsSnapshot
<1>11. QED
  BY <1>3, <1>6, <1>9, <1>10 DEF Inv, IInv

(* Erasing takes a subscription out of the table; what is left in the cell  *)
(* keeps its id and address.                                               *)
LEMMA UnsubscribeKeepsInv ==
    ASSUME NEW c \in Cells
    PROVE  Inv /\ Unsubscribe(c) => Inv'
<1> SUFFICES ASSUME Inv, Unsubscribe(c) PROVE Inv'
  OBVIOUS
<1> USE SubsAssumption
<1>1. /\ subs' = subs \ {c}
      /\ UNCHANGED <<mem, writes, game, nextId, asked, reused, running, loop, due, cur, addr,
                     data, changes, known, disconnected>>
  BY DEF Unsubscribe, game_vars, local, output
<1>2. /\ cell' \in [Cells -> Sub]
      /\ \A d \in Cells : d # c => cell'[d] = cell[d]
      /\ cell'[c].id = cell[c].id /\ cell'[c].addr = cell[c].addr
  <2>1. CASE UNCHANGED cell
    BY <2>1 DEF Inv, TypeOK
  <2>2. CASE cell' = [cell EXCEPT ![c] = [@ EXCEPT !.class = "missing", !.snap = Nothing]]
    <3>1. cell[c] \in Sub /\ Nothing \in Contents
      BY DEF Inv, TypeOK, Nothing, Contents
    <3>2. [cell[c] EXCEPT !.class = "missing", !.snap = Nothing] \in Sub
      BY <3>1 DEF Sub
    <3>3. /\ [cell[c] EXCEPT !.class = "missing", !.snap = Nothing].id = cell[c].id
          /\ [cell[c] EXCEPT !.class = "missing", !.snap = Nothing].addr = cell[c].addr
      BY <3>1 DEF Sub
    <3>4. QED
      BY <2>2, <3>2, <3>3 DEF Inv, TypeOK
  <2>3. QED
    BY <2>1, <2>2 DEF Unsubscribe
<1>3. TypeOK'
  BY <1>1, <1>2 DEF Inv, TypeOK
<1>4. \A d \in Cells : cell'[d].id = cell[d].id /\ cell'[d].addr = cell[d].addr
  BY <1>2
<1>5. IdsUnique'
  BY <1>1, <1>4 DEF Inv, IInv, TypeOK, IdsUnique
<1>6. \A d \in Cells : Sound(d)' => Sound(d) /\ cell'[d] = cell[d]
  BY <1>1, <1>2 DEF Sound
<1>7. Locals'
  BY <1>1, <1>4, <1>6 DEF Inv, IInv, TypeOK, Locals
<1>8. KnownIsSnapshot'
  BY <1>1, <1>6 DEF Inv, IInv, KnownIsSnapshot
<1>9. QED
  BY <1>3, <1>5, <1>7, <1>8 DEF Inv, IInv

(* The loop, between two subscriptions and before it has the bytes. *)
LEMMA LoopReadsKeepsInv ==
    /\ Inv
    /\ Tick \/ Collect \/ End \/ TickDone \/ Visit \/ Read \/ Crash \/ Throws \/ ReadFails
    => Inv'
<1> SUFFICES ASSUME Inv,
                    Tick \/ Collect \/ End \/ TickDone \/ Visit \/ Read \/ Crash \/ Throws \/ ReadFails
             PROVE  Inv'
  OBVIOUS
<1> USE SubsAssumption
<1>1. UNCHANGED <<mem, writes, game, cell, subs, nextId, asked, reused, known>>
  BY DEF Tick, Collect, End, TickDone, Visit, Read, Crash, Throws, ReadFails, game_vars, table, output
<1>2. /\ due' \subseteq Cells
      /\ cur' \in Cells \cup {None} /\ addr' \in Addrs \cup {None}
      /\ data' \in Contents /\ changes' = changes
      /\ running' \in BOOLEAN /\ disconnected' \in BOOLEAN
      /\ loop' \in {"sleep", "awake", "next", "read", "copy", "ended", "crashed"}
  <2>1. CASE Tick \/ Collect \/ End \/ TickDone \/ Crash \/ Throws
    BY <2>1 DEF Inv, TypeOK, Tick, Collect, End, TickDone, Crash, Throws, local, output
  <2>2. CASE Visit
    BY <2>2 DEF Inv, TypeOK, Visit, output
  <2>3. CASE Read
    <3>1. cell[cur] \in Sub
      BY <2>3 DEF Inv, IInv, TypeOK, Locals, Read
    <3>2. QED
      BY <2>3, <3>1 DEF Inv, TypeOK, Read, Sub, output
  <2>4. CASE ReadFails
    BY <2>4 DEF Inv, TypeOK, ReadFails, Nothing, Contents
  <2>5. QED
    BY <2>1, <2>2, <2>3, <2>4
<1>3. TypeOK'
  BY <1>1, <1>2 DEF Inv, TypeOK
<1>4. IdsUnique'
  BY <1>1 DEF Inv, IInv, IdsUnique
<1>5. Locals'
  <2>1. loop' \in {"read", "copy"} => cur' # None
    BY DEF Tick, Collect, End, TickDone, Visit, Read, Crash, Throws, ReadFails, Inv, IInv, TypeOK, Locals
  <2>2. ASSUME loop' = "copy" PROVE cur' \in Cells /\ addr' = cell'[cur'].addr
    BY <2>1, <2>2, <1>1 DEF Tick, Collect, End, TickDone, Visit, Read, Crash, Throws, ReadFails, Inv, IInv,
                            TypeOK, Locals
  <2>3. loop' = "copy" => cell'[cur'].id = 0 \/ addr' = asked'[cell'[cur'].id]
    BY <1>4, <2>2 DEF IdsUnique
  <2>4. QED
    BY <1>2, <2>1, <2>3 DEF Locals
<1>6. KnownIsSnapshot'
  <2>1. loop = "push" => Crash \/ (loop' = "ended" /\ cur' = cur)
    BY DEF Tick, Collect, End, TickDone, Visit, Read, Throws, ReadFails, local
  <2>2. loop = "push" /\ Crash => ~Sound(cur)
    BY DEF Crash, Sound, Inv, IInv, Locals
  <2>3. loop # "ended"
    BY DEF Tick, Collect, End, TickDone, Visit, Read, Crash, Throws, ReadFails
  <2>4. QED
    BY <1>1, <2>1, <2>2, <2>3 DEF Inv, IInv, KnownIsSnapshot, Sound
<1>7. QED
  BY <1>3, <1>4, <1>5, <1>6 DEF Inv, IInv

(* The bytes arrive field by field and are compared with the snapshot. *)
LEMMA LoopComparesKeepsInv == Inv /\ (Copy \/ Copied \/ Compare) => Inv'
<1> SUFFICES ASSUME Inv, Copy \/ Copied \/ Compare PROVE Inv'
  OBVIOUS
<1> USE SubsAssumption
<1>1. UNCHANGED <<mem, writes, game, cell, subs, nextId, asked, reused, known, running, due, cur,
                  addr, disconnected>>
  BY DEF Copy, Copied, Compare, game_vars, table, local, output
<1>2. /\ data' \in Contents /\ changes' \subseteq Fields
      /\ loop' \in {"copy", "compare", "store"} /\ loop \in {"copy", "compare"}
  <2>1. CASE Copy
    <3>1. PICK f \in Fields : data' = [data EXCEPT ![f] = mem[addr][f]]
      BY <2>1 DEF Copy
    <3>2. mem[addr][f] \in Values
      BY <2>1 DEF Copy, Inv, TypeOK
    <3>3. QED
      BY <2>1, <3>1, <3>2 DEF Copy, Inv, TypeOK, Contents
  <2>2. CASE Copied \/ Compare
    BY <2>2 DEF Copied, Compare, Inv, TypeOK, local
  <2>3. QED
    BY <2>1, <2>2
<1>3. TypeOK'
  BY <1>1, <1>2 DEF Inv, TypeOK
<1>4. IdsUnique' /\ KnownIsSnapshot'
  BY <1>1, <1>2 DEF Inv, IInv, IdsUnique, KnownIsSnapshot, Sound
<1>5. loop' \in {"compare", "store"} => \A f \in Fields : data'[f] # None
  BY DEF Copy, Copied, Compare, Inv, IInv, Locals, local
<1>6. loop' = "store" => changes' = {f \in Fields : cell[cur].snap[f] # data'[f]}
  BY DEF Copy, Copied, Compare
<1>7. Locals'
  BY <1>1, <1>2, <1>5, <1>6 DEF Inv, IInv, Locals, Sound
<1>8. QED
  BY <1>3, <1>4, <1>7 DEF Inv, IInv

(* The snapshot is replaced before the diff goes out. *)
LEMMA StoreKeepsInv == Inv /\ Store => Inv'
<1> SUFFICES ASSUME Inv, Store PROVE Inv'
  OBVIOUS
<1> USE SubsAssumption
<1>1. /\ cell' = [cell EXCEPT ![cur] = [@ EXCEPT !.snap = data]]
      /\ loop = "store"
      /\ UNCHANGED <<mem, writes, game, subs, nextId, asked, reused, running, due, known,
                     disconnected>>
  BY DEF Store, game_vars, output
<1>2. cur \in Cells /\ cell[cur] \in Sub /\ data \in Contents
  BY <1>1 DEF Inv, IInv, TypeOK, Locals
<1>3. /\ cell' \in [Cells -> Sub]
      /\ \A d \in Cells : d # cur => cell'[d] = cell[d]
      /\ cell'[cur].id = cell[cur].id /\ cell'[cur].addr = cell[cur].addr
      /\ cell'[cur].snap = data
  BY <1>1, <1>2 DEF Inv, TypeOK, Sub
<1>4. /\ cur' \in Cells \cup {None} /\ addr' \in Addrs \cup {None} /\ data' \in Contents
      /\ changes' \subseteq Fields /\ loop' \in {"next", "push"}
      /\ loop' = "push" => UNCHANGED <<cur, addr, data, changes>>
      /\ loop' = "next" => changes = {} /\ cur' = None
  BY <1>2 DEF Store, Iterated, Inv, TypeOK, Nothing, Contents
<1>5. TypeOK'
  BY <1>1, <1>3, <1>4 DEF Inv, TypeOK
<1>6. \A d \in Cells : cell'[d].id = cell[d].id /\ cell'[d].addr = cell[d].addr
  BY <1>3
<1>7. IdsUnique'
  BY <1>1, <1>6 DEF Inv, IInv, TypeOK, IdsUnique
<1>8. \A d \in Cells : Sound(d)' <=> Sound(d)
  BY <1>1, <1>6 DEF Sound
<1>9. ASSUME Sound(cur)
      PROVE  \A f \in Fields : f \notin changes <=> known[cell[cur].id][f] = data[f]
  BY <1>1, <1>2, <1>9 DEF Inv, IInv, Locals, KnownIsSnapshot
<1>10. Locals'
  BY <1>1, <1>2, <1>3, <1>4, <1>8, <1>9 DEF Inv, IInv, Locals
<1>11. KnownIsSnapshot'
  <2>1. ASSUME NEW d \in Cells, Sound(d)', ~(loop' = "push" /\ cur' = d)
        PROVE  known'[cell'[d].id] = cell'[d].snap
    <3>1. CASE d # cur
      BY <1>1, <1>3, <1>8, <2>1, <3>1 DEF Inv, IInv, KnownIsSnapshot
    <3>2. CASE d = cur
      <4>1. changes = {} /\ Sound(cur)
        BY <1>4, <1>8, <2>1, <3>2
      <4>2. known[cell[cur].id] \in Contents
        BY <4>1 DEF Inv, IInv, TypeOK, IdsUnique, Sub, Sound, Ids
      <4>3. known[cell[cur].id] = data
        BY <1>2, <1>9, <4>1, <4>2 DEF Contents
      <4>4. QED
        BY <1>1, <1>3, <3>2, <4>3
    <3>3. QED
      BY <3>1, <3>2
  <2>2. QED
    BY <2>1 DEF KnownIsSnapshot
<1>12. QED
  BY <1>5, <1>7, <1>10, <1>11 DEF Inv, IInv

(* The diff makes what is known of the subscription equal to its snapshot. *)
LEMMA PushKeepsInv == Inv /\ Push => Inv'
<1> SUFFICES ASSUME Inv, Push PROVE Inv'
  OBVIOUS
<1> USE SubsAssumption
<1>1. /\ UNCHANGED <<mem, writes, game, cell, subs, nextId, asked, reused, running, due,
                     disconnected>>
      /\ loop = "push" /\ loop' = "next" /\ cur' = None /\ addr' = None /\ data' = Nothing
      /\ changes' = {}
  BY DEF Push, Iterated, game_vars, table
<1>2. cur \in Cells /\ cell[cur] \in Sub /\ data \in Contents
  BY <1>1 DEF Inv, IInv, TypeOK, Locals
<1> DEFINE i == cell[cur].id
           k == [f \in Fields |-> IF f \in changes THEN data[f] ELSE known[i][f]]
<1>3. known' = IF i \in Ids THEN [known EXCEPT ![i] = k] ELSE known
  BY DEF Push
<1>4. i \in Ids => k \in Contents
  BY <1>2 DEF Inv, TypeOK, Contents
<1>5. Sound(cur) => i \in Ids /\ k = data
  <2>1. Sound(cur) => i \in Ids
    BY <1>2 DEF Sound, Inv, IInv, IdsUnique, Sub, Ids
  <2>2. Sound(cur) => \A f \in Fields : k[f] = data[f]
    BY <1>1, <1>2 DEF Inv, IInv, Locals
  <2>3. QED
    BY <1>2, <1>4, <2>1, <2>2 DEF Contents
<1> HIDE DEF k
<1>6. known' \in [Ids -> Contents]
  BY <1>3, <1>4 DEF Inv, TypeOK
<1>7. TypeOK'
  BY <1>1, <1>6 DEF Inv, TypeOK, Nothing, Contents
<1>8. IdsUnique'
  <2>1. i \in Ids => i < nextId
    BY <1>2 DEF Inv, IInv, IdsUnique
  <2>2. \A j \in Ids : j >= nextId => known'[j] = known[j]
    BY <1>3, <2>1 DEF Inv, TypeOK, Ids
  <2>3. QED
    BY <1>1, <2>2 DEF Inv, IInv, IdsUnique
<1>9. Locals'
  BY <1>1 DEF Locals
<1>10. ASSUME NEW d \in Cells, Sound(d)' PROVE known'[cell'[d].id] = cell'[d].snap
  <2>1. Sound(d) /\ cell'[d] = cell[d]
    BY <1>1, <1>10 DEF Sound
  <2>2. CASE d = cur
    <3>1. cell[cur].snap = data
      BY <1>1, <1>2, <2>1, <2>2 DEF Inv, IInv, Locals
    <3>2. known'[i] = data
      BY <1>3, <1>5, <2>1, <2>2 DEF Inv, TypeOK
    <3>3. QED
      BY <2>1, <2>2, <3>1, <3>2
  <2>3. CASE d # cur
    <3>1. cell[d].id # i \/ i \notin Ids
      BY <1>2, <2>1, <2>3 DEF Inv, IInv, IdsUnique, Ids
    <3>2. known'[cell[d].id] = known[cell[d].id]
      BY <1>3, <3>1 DEF Inv, TypeOK
    <3>3. QED
      BY <1>1, <2>1, <2>3, <3>2 DEF Inv, IInv, KnownIsSnapshot
  <2>4. QED
    BY <2>2, <2>3
<1>11. QED
  BY <1>7, <1>8, <1>9, <1>10 DEF Inv, IInv, KnownIsSnapshot
-----------------------------------------------------------------------------
(* Every step keeps the invariant. *)
LEMMA InvNext == Inv /\ [Next]_vars => Inv'
<1> SUFFICES ASSUME Inv, [Next]_vars PROVE Inv'
  OBVIOUS
<1>1. CASE GameStore \/ GameExit \/ Stop
  BY <1>1, GameKeepsInv
<1>2. CASE Loop \/ Crash \/ Throws
  BY <1>2, LoopReadsKeepsInv, LoopComparesKeepsInv, StoreKeepsInv, PushKeepsInv DEF Loop
<1>3. ASSUME NEW a \in Addrs, NEW cl \in {"found", "missing"}, Subscribe(a, cl) PROVE Inv'
  BY <1>3, SubscribeKeepsInv
<1>4. ASSUME NEW c \in Cells, Unsubscribe(c) PROVE Inv'
  BY <1>4, UnsubscribeKeepsInv
<1>5. CASE UNCHANGED vars
  <2>1. UNCHANGED <<mem, writes, game, cell, subs, nextId, asked, reused, running, loop, due, cur,
                    addr, data, changes, known, disconnected>>
    BY <1>5 DEF vars, game_vars, table, local, output
  <2>2. TypeOK'
    BY <2>1 DEF Inv, TypeOK
  <2>3. IInv'
    BY <2>1 DEF Inv, IInv, IdsUnique, Locals, KnownIsSnapshot, Sound
  <2>4. QED
    BY <2>2, <2>3 DEF Inv
<1>6. QED
  BY <1>1, <1>2, <1>3, <1>4, <1>5 DEF Next

(* Only a mem.diff tells the viewers anything, and only of its sub_id. *)
LEMMA OnlyPushTells ==
    ASSUME Inv, [Next]_vars, NEW i \in Ids, known'[i] # known[i]
    PROVE  /\ loop = "push" /\ cur \in Cells /\ i = cell[cur].id
           /\ \A f \in changes : f \in Fields /\ known'[i][f] = data[f]
<1>1. Push
  BY DEF Next, Loop, vars, game_vars, table, local, output, GameStore, GameExit, Stop, Subscribe,
         Unsubscribe, Tick, Collect, End, TickDone, Visit, Read, Copy, Copied, ReadFails, Compare, Store,
         Throws, Crash
<1> DEFINE j == cell[cur].id
           k == [f \in Fields |-> IF f \in changes THEN data[f] ELSE known[j][f]]
<1>2. loop = "push" /\ known' = IF j \in Ids THEN [known EXCEPT ![j] = k] ELSE known
  BY <1>1 DEF Push
<1>3. cur \in Cells /\ changes \subseteq Fields
  BY <1>2 DEF Inv, IInv, TypeOK, Locals
<1>4. \A f \in changes : k[f] = data[f]
  BY <1>3
<1> HIDE DEF k
<1>5. i = j /\ known'[i] = k
  BY <1>2 DEF Inv, TypeOK
<1>6. QED
  BY <1>2, <1>3, <1>4, <1>5

(* Where the table, the loop and the viewers stand, in every reachable      *)
(* state.                                                                  *)
THEOREM InvAlways == Spec => []Inv
BY InvInit, InvNext, PTL DEF Spec

(* SubManager's table, locals and output keep their types. *)
THEOREM TypeCorrect == Spec => []TypeOK
<1>1. Inv => TypeOK
  BY DEF Inv
<1>2. QED
  BY <1>1, InvAlways, PTL

(* Ids are unique, the loop's locals belong to the subscription it works on, *)
(* and its viewers have been told its snapshot.                            *)
THEOREM BooksCorrect == Spec => []IInv
<1>1. Inv => IInv
  BY DEF Inv
<1>2. QED
  BY <1>1, InvAlways, PTL

(* No change is recorded in a last_snapshot without having been broadcast,  *)
(* whatever viewers subscribe and erase while the loop is on its way.      *)
THEOREM KnownIsSnapshotCorrect == Spec => []KnownIsSnapshot
<1>1. Inv => KnownIsSnapshot
  BY DEF Inv, IInv
<1>2. QED
  BY <1>1, InvAlways, PTL

(* A mem.diff repeats nothing that the subscription has been told. *)
THEOREM DeltasCorrect == Spec => DiffsAreDeltas
<1>1. ASSUME Inv, [Next]_vars, NEW c \in Cells, Sound(c) PROVE Delta(cell[c].id)
  <2>1. cell[c].id \in Ids
    BY <1>1 DEF Inv, IInv, TypeOK, IdsUnique, Sound, Sub, Ids
  <2>2. SUFFICES ASSUME known'[cell[c].id] # known[cell[c].id], NEW f \in changes
                 PROVE  known'[cell[c].id][f] # known[cell[c].id][f]
    BY DEF Delta
  <2>3. /\ loop = "push" /\ cur \in Cells /\ cell[c].id = cell[cur].id
        /\ f \in Fields /\ known'[cell[c].id][f] = data[f]
    BY <1>1, <2>1, <2>2, OnlyPushTells
  <2>4. c = cur
    BY <1>1, <2>1, <2>3 DEF Inv, IInv, IdsUnique, Ids
  <2>5. known[cell[c].id][f] # data[f]
    BY <1>1, <2>2, <2>3, <2>4, SubsAssumption DEF Inv, IInv, TypeOK, Locals
  <2>6. QED
    BY <2>3, <2>5
<1>2. Inv /\ [Next]_vars => [\A c \in Cells : Sound(c) => Delta(cell[c].id)]_vars
  BY <1>1
<1>3. QED
  BY <1>2, InvAlways, PTL DEF Spec, DiffsAreDeltas

(* A mem.diff holds what was read at the address the subscription named. *)
THEOREM OwnCorrect == Spec => DiffsAreOwn
<1>1. ASSUME Inv, [Next]_vars, NEW i \in Ids \ reused PROVE OwnObject(i)
  <2>1. SUFFICES ASSUME known'[i] # known[i] PROVE addr = asked[i]
    BY DEF OwnObject
  <2>2. loop = "push" /\ cur \in Cells /\ i = cell[cur].id
    BY <1>1, <2>1, OnlyPushTells
  <2>3. QED
    BY <1>1, <2>2, SubsAssumption DEF Inv, IInv, Locals, Ids
<1>2. Inv /\ [Next]_vars => [\A i \in Ids \ reused : OwnObject(i)]_vars
  BY <1>1
<1>3. QED
  BY <1>2, InvAlways, PTL DEF Spec, DiffsAreOwn
=============================================================================
