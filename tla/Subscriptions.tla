--------------------------- MODULE Subscriptions ---------------------------
(***************************************************************************)
(* SubManager (src/src/live-bridge.cpp): viewers subscribe to objects of   *)
(* the game; one thread reads every subscribed object again and again and  *)
(* broadcasts the fields that differ from the snapshot of the last read.   *)
(*                                                                         *)
(* m_subs is an unordered_map, so a Subscription lives in a heap node (a   *)
(* cell) until it is erased.  The loop collects POINTERS to the due ones   *)
(* under m_mtx and uses them after unlocking.  A subscription that is      *)
(* erased meanwhile leaves the loop with a pointer to freed memory: what   *)
(* it finds there is what was left, or what a later subscribe put into the *)
(* same cell, or the access ends the exe.                                  *)
(***************************************************************************)
EXTENDS Naturals, FiniteSets

CONSTANTS
    Cells,      \* where the heap may put a Subscription
    Objects,    \* addresses PipeClient::read can read
    Faulting,   \* addresses it cannot read, or classes larger than it reads (64 KiB)
    Fields,     \* the fields of a class, each copied in one piece
    Values,     \* contents of a field
    None,       \* no content, address or pointer
    MaxIds,     \* bound: subscriptions made
    MaxWrites,  \* bound: stores of the game
    PipeOpen    \* PipeClient::connected(): FALSE in schema-only mode

ASSUME SubsAssumption ==
    /\ None \notin Values \cup Cells \cup Objects \cup Faulting
    /\ Objects \cap Faulting = {}
    /\ MaxIds \in Nat
    /\ MaxWrites \in Nat
    /\ PipeOpen \in BOOLEAN

VARIABLES
    mem,        \* the game's memory
    writes,     \* stores so far
    game,       \* the game process runs and its worker answers
    cell,       \* contents of the heap nodes; id 0: never used
    subs,       \* the cells that are in m_subs
    nextId,     \* m_next_id
    running,    \* m_running
    loop,       \* where the thread stands in SubManager::loop
    due,        \* pointers it still has to visit in this tick
    cur,        \* the pointer it works on (sub)
    addr,       \* the address it is reading
    data,       \* the bytes it got
    changes,    \* the fields it will push
    known,      \* known[i]: what the diffs broadcast for subscription i say so far
    disconnected, \* live.disconnected was broadcast
    \* history
    asked,      \* asked[i]: the address subscription i is about
    reused      \* subscriptions put into a cell the loop was working on

game_vars == <<mem, writes, game>>
table     == <<cell, subs, nextId, asked, reused>>
local     == <<due, cur, addr, data, changes>>
output    == <<known, disconnected>>
vars      == <<game_vars, table, running, loop, local, output>>

Ids       == 1..MaxIds
Addrs     == Objects \cup Faulting
Nothing   == [f \in Fields |-> None]   \* an empty last_snapshot
Contents  == [Fields -> Values \cup {None}]

(* "missing": flat_fields finds no field, or their sizes are all zero. *)
Sub == [id : 0..MaxIds, addr : Addrs \cup {None}, class : {"found", "missing"}, snap : Contents]

TypeOK ==
    /\ mem \in [Objects -> [Fields -> Values]]
    /\ writes \in 0..MaxWrites
    /\ game \in BOOLEAN
    /\ cell \in [Cells -> Sub]
    /\ subs \subseteq Cells
    /\ nextId \in 1..(MaxIds + 1)
    /\ running \in BOOLEAN
    /\ loop \in {"sleep", "awake", "next", "read", "copy", "compare", "store", "push", "ended",
                 "crashed"}
    /\ due \subseteq Cells
    /\ cur \in Cells \cup {None}
    /\ addr \in Addrs \cup {None}
    /\ data \in Contents
    /\ changes \subseteq Fields
    /\ known \in [Ids -> Contents]
    /\ disconnected \in BOOLEAN
    /\ asked \in [Ids -> Addrs \cup {None}]
    /\ reused \subseteq Ids

Init ==
    /\ mem \in [Objects -> [Fields -> Values]]
    /\ writes = 0 /\ game = TRUE
    /\ cell = [c \in Cells |-> [id |-> 0, addr |-> None, class |-> "missing", snap |-> Nothing]]
    /\ subs = {} /\ nextId = 1
    /\ running = TRUE /\ loop = "sleep"
    /\ due = {} /\ cur = None /\ addr = None /\ data = Nothing /\ changes = {}
    /\ known = [i \in Ids |-> Nothing]
    /\ disconnected = FALSE
    /\ asked = [i \in Ids |-> None] /\ reused = {}
-----------------------------------------------------------------------------
(* The game. *)
GameStore ==
    /\ game /\ writes < MaxWrites
    /\ \E o \in Objects, f \in Fields, v \in Values : mem' = [mem EXCEPT ![o][f] = v]
    /\ writes' = writes + 1
    /\ UNCHANGED <<game, table, running, loop, local, output>>

GameExit ==
    /\ game
    /\ game' = FALSE
    /\ UNCHANGED <<mem, writes, table, running, loop, local, output>>
-----------------------------------------------------------------------------
(* The WebSocket thread: mem.subscribe and mem.unsubscribe, under m_mtx. *)

(* The loop holds the pointer and is going to use it. *)
WorkingOn(c) == cur = c

Subscribe(a, cl) ==
    /\ loop # "crashed"
    /\ nextId \in Ids
    /\ \E c \in Cells \ subs :
        /\ cell' = [cell EXCEPT ![c] = [id |-> nextId, addr |-> a, class |-> cl,
                                        snap |-> Nothing]]
        /\ subs' = subs \cup {c}
        /\ reused' = IF WorkingOn(c) THEN reused \cup {nextId} ELSE reused
    /\ asked' = [asked EXCEPT ![nextId] = a]
    /\ nextId' = nextId + 1
    /\ UNCHANGED <<game_vars, running, loop, local, output>>

(* m_subs.erase.  The destructor of the strings and of the snapshot leaves   *)
(* them empty, or its dead stores were optimized away; id and address stay. *)
Unsubscribe(c) ==
    /\ loop # "crashed"
    /\ c \in subs
    /\ subs' = subs \ {c}
    /\ \/ UNCHANGED cell
       \/ cell' = [cell EXCEPT ![c] = [@ EXCEPT !.class = "missing", !.snap = Nothing]]
    /\ UNCHANGED <<game_vars, nextId, asked, reused, running, loop, local, output>>

(* SubManager::stop, by the main thread; it then joins the loop. *)
Stop ==
    /\ loop # "crashed"
    /\ running' = FALSE
    /\ UNCHANGED <<game_vars, table, loop, local, output>>
-----------------------------------------------------------------------------
(* SubManager::loop. *)

(* A tick: m_running is asked, then the thread sleeps. *)
Tick ==
    /\ loop = "sleep" /\ running
    /\ loop' = "awake"
    /\ UNCHANGED <<game_vars, table, running, local, output>>

(* The pointers of the due subscriptions, collected under m_mtx.  A new     *)
(* one is always due (last_tick = 0); any other may be, as time goes.       *)
Collect ==
    /\ loop = "awake"
    /\ IF PipeOpen
       THEN /\ \E D \in SUBSET subs :
                  /\ {c \in subs : cell[c].snap = Nothing} \subseteq D
                  /\ due' = D
            /\ loop' = "next"
       ELSE loop' = "sleep" /\ UNCHANGED due
    /\ UNCHANGED <<game_vars, table, running, cur, addr, data, changes, output>>

(* Variant: the loop first waits for the viewers to give up. *)
EndWhenEmpty ==
    /\ loop = "sleep" /\ ~running /\ subs = {}
    /\ loop' = "ended"
    /\ UNCHANGED <<game_vars, table, running, local, output>>

End ==
    /\ loop = "sleep" /\ ~running
    /\ loop' = "ended"
    /\ UNCHANGED <<game_vars, table, running, local, output>>

TickDone ==
    /\ loop = "next" /\ due = {}
    /\ loop' = "sleep"
    /\ UNCHANGED <<game_vars, table, running, local, output>>

(* Variant: a class without fields ends the tick. *)
VisitBreaks ==
    /\ loop = "next"
    /\ \E c \in due :
        IF cell[c].class = "missing"
        THEN due' = {} /\ UNCHANGED <<cur, loop>>
        ELSE due' = due \ {c} /\ cur' = c /\ loop' = "read"
    /\ UNCHANGED <<game_vars, table, running, addr, data, changes, output>>

(* The next pointer, in the order of the hash table; a class without fields *)
(* is passed over.                                                         *)
Visit ==
    /\ loop = "next"
    /\ \E c \in due :
        /\ due' = due \ {c}
        /\ IF cell[c].class = "missing"
           THEN UNCHANGED <<cur, loop>>
           ELSE cur' = c /\ loop' = "read"
    /\ UNCHANGED <<game_vars, table, running, addr, data, changes, output>>

(* The end of an iteration, where its locals go out of scope. *)
Iterated == /\ cur' = None /\ addr' = None /\ data' = Nothing /\ changes' = {}
            /\ loop' = "next"

(* m_pipe.read(sub->addr, size): the worker copies field after field while  *)
(* the game goes on.                                                       *)
Read ==
    /\ loop = "read"
    /\ addr' = cell[cur].addr
    /\ loop' = "copy"
    /\ UNCHANGED <<game_vars, table, running, due, cur, data, changes, output>>

Copy ==
    /\ loop = "copy"
    /\ game /\ addr \in Objects
    /\ \E f \in Fields :
        /\ data[f] = None
        /\ data' = [data EXCEPT ![f] = mem[addr][f]]
    /\ UNCHANGED <<game_vars, table, running, loop, due, cur, addr, changes, output>>

Copied ==
    /\ loop = "copy"
    /\ \A f \in Fields : data[f] # None
    /\ loop' = "compare"
    /\ UNCHANGED <<game_vars, table, running, local, output>>

(* An empty answer, whatever its reason, is taken for the end of the pipe:  *)
(* the viewers are told, and the loop stops for good.                      *)
ReadFails ==
    /\ loop = "copy"
    /\ ~game \/ addr \in Faulting
    /\ disconnected' = TRUE
    /\ running' = FALSE
    /\ due' = {} /\ cur' = None /\ addr' = None /\ data' = Nothing
    /\ loop' = "sleep"
    /\ UNCHANGED <<game_vars, table, changes, known>>

(* Variant: every field is sent in every tick. *)
CompareNothing ==
    /\ loop = "compare"
    /\ changes' = Fields
    /\ loop' = "store"
    /\ UNCHANGED <<game_vars, table, running, due, cur, addr, data, output>>

(* Variant: a field that was never sent has not changed. *)
CompareOld ==
    /\ loop = "compare"
    /\ changes' = {f \in Fields : cell[cur].snap[f] \notin {None, data[f]}}
    /\ loop' = "store"
    /\ UNCHANGED <<game_vars, table, running, due, cur, addr, data, output>>

(* With an empty snapshot every field has changed. *)
Compare ==
    /\ loop = "compare"
    /\ changes' = {f \in Fields : cell[cur].snap[f] # data[f]}
    /\ loop' = "store"
    /\ UNCHANGED <<game_vars, table, running, due, cur, addr, data, output>>

(* Variant: the snapshot is not replaced. *)
StoreNothing ==
    /\ loop = "store"
    /\ IF changes = {} THEN Iterated
       ELSE loop' = "push" /\ UNCHANGED <<cur, addr, data, changes>>
    /\ UNCHANGED <<game_vars, table, running, due, output>>

Store ==
    /\ loop = "store"
    /\ cell' = [cell EXCEPT ![cur] = [@ EXCEPT !.snap = data]]
    /\ IF changes = {} THEN Iterated
       ELSE loop' = "push" /\ UNCHANGED <<cur, addr, data, changes>>
    /\ UNCHANGED <<game_vars, subs, nextId, asked, reused, running, due, output>>

(* Variant: the diff carries the last id given out. *)
PushLatest ==
    /\ loop = "push"
    /\ known' = [known EXCEPT ![nextId - 1] = [f \in Fields |->
                     IF f \in changes THEN data[f] ELSE @[f]]]
    /\ Iterated
    /\ UNCHANGED <<game_vars, table, running, due, disconnected>>

(* The mem.diff carries sub->id, and goes to every viewer. *)
Push ==
    /\ loop = "push"
    /\ LET i == cell[cur].id
       IN  known' = IF i \in Ids
                    THEN [known EXCEPT ![i] = [f \in Fields |->
                             IF f \in changes THEN data[f] ELSE known[i][f]]]
                    ELSE known
    /\ Iterated
    /\ UNCHANGED <<game_vars, table, running, due, disconnected>>

(* Touching a freed cell may end the exe. *)
Crash ==
    /\ \/ loop = "next" /\ due \ subs # {}
       \/ loop \in {"read", "compare", "store", "push"} /\ cur \notin subs
    /\ loop' = "crashed"
    /\ UNCHANGED <<game_vars, table, running, local, output>>

(* The catch at the end of loop(): an exception, of building the diff or of *)
(* sending it, ends the thread; m_running stays and no viewer is told.      *)
Throws ==
    /\ loop \in {"compare", "push"}
    /\ loop' = "ended"
    /\ UNCHANGED <<game_vars, table, running, local, output>>

Loop == Tick \/ Collect \/ End \/ TickDone \/ Visit \/ Read \/ Copy \/ Copied \/ ReadFails
        \/ Compare \/ Store \/ Push
-----------------------------------------------------------------------------
Next == \/ GameStore \/ GameExit \/ Stop \/ Loop \/ Throws \/ Crash
        \/ \E a \in Addrs, cl \in {"found", "missing"} : Subscribe(a, cl)
        \/ \E c \in Cells : Unsubscribe(c)

Spec == Init /\ [][Next]_vars

(* The thread is scheduled, and as time goes every subscription becomes due *)
(* again and again.                                                        *)
Fairness == /\ WF_vars(Loop)
            /\ \A c \in Cells : SF_vars(Collect /\ c \in due')
-----------------------------------------------------------------------------
(* PROPERTIES *)

(* A subscription that works as its viewer expects: in the table, and in a  *)
(* cell that the loop was not using when it was made.                      *)
Sound(c) == c \in subs /\ cell[c].id \notin reused

(* What a viewer has put together from the diffs of a subscription is the   *)
(* server's last snapshot of it, once the diff of that snapshot is out: no  *)
(* change is ever recorded as seen without having been sent, except the one *)
(* whose sending ended the loop.                                           *)
KnownIsSnapshot ==
    \A c \in Cells : Sound(c) /\ ~(loop \in {"push", "ended"} /\ cur = c)
                        => known[cell[c].id] = cell[c].snap

(* A diff has no field whose content the viewer knows already ("only the    *)
(* fields that changed since the last tick").                              *)
Delta(i) == known'[i] # known[i] => \A f \in changes : known'[i][f] # known[i][f]
DiffsAreDeltas == [][\A c \in Cells : Sound(c) => Delta(cell[c].id)]_vars

(* A subscription is told contents of its own object only. *)
OwnObject(i) == known'[i] # known[i] => addr = asked[i]
DiffsAreOwn == [][\A i \in Ids \ reused : OwnObject(i)]_vars

(* When the game has done its stores and goes on running, a subscription    *)
(* ends up knowing its object as it is, unless it is given up or the loop   *)
(* has ended.                                                              *)
CatchesUp ==
    \A i \in Ids :
        (\E c \in subs : cell[c].id = i /\ cell[c].class = "found" /\ writes = MaxWrites)
        ~> \/ ~\E c \in Cells : Sound(c) /\ cell[c].id = i
           \/ asked[i] \in Objects /\ known[i] = mem[asked[i]]
           \/ loop \in {"ended", "crashed"} \/ ~running

(* stop() joins the thread: it leaves the loop, whatever it was doing.      *)
StopJoins == ~running ~> loop \in {"ended", "crashed"}

(* "The viewer calls mem.subscribe with the entity's address ... The server  *)
(* pushes mem.diff messages containing only the fields that changed": of    *)
(* that entity, for every subscription.                                    *)
AllDiffsAreOwn == [][\A i \in Ids : OwnObject(i)]_vars
-----------------------------------------------------------------------------
(* THE INDUCTIVE INVARIANT *)

(* An id names one cell and one address, and nothing has been said of an id *)
(* not given out.                                                          *)
IdsUnique ==
    /\ \A c \in Cells : cell[c].id < nextId
    /\ \A c \in subs : cell[c].id # 0
    /\ \A c, d \in Cells : cell[c].id = cell[d].id /\ cell[c].id # 0 => c = d
    /\ \A c \in Cells : cell[c].id # 0 => cell[c].addr = asked[cell[c].id]
    /\ \A i \in Ids : i >= nextId => known[i] = Nothing /\ i \notin reused

(* The loop's locals, as long as it works on a sound subscription. *)
Locals ==
    /\ loop \in {"read", "copy", "compare", "store", "push"} => cur # None
    /\ cur # None /\ loop \in {"copy", "compare", "store", "push"} =>
        \/ cell[cur].id \in {0} \cup reused
        \/ addr = asked[cell[cur].id]
    /\ loop \in {"compare", "store", "push"} => \A f \in Fields : data[f] # None
    /\ cur # None /\ Sound(cur) /\ loop = "store" =>
        changes = {f \in Fields : cell[cur].snap[f] # data[f]}
    /\ cur # None /\ Sound(cur) /\ loop = "push" =>
        /\ cell[cur].snap = data
        /\ \A f \in Fields : f \notin changes <=> known[cell[cur].id][f] = data[f]

IInv == IdsUnique /\ Locals /\ KnownIsSnapshot
=============================================================================
